---------------------------- MODULE SIWSMessage ----------------------------
(***************************************************************************)
(* The Sign-In-With-Solana challenge message (package siws,               *)
(* src/unnamed/part_001): ConstructMessage lays a SignInInput out as      *)
(* lines, ParseMessage recovers the fields from such a message.  The      *)
(* wallet signs the message bytes, so the verifier relies on what         *)
(* ParseMessage reads out of them.                                        *)
(*                                                                         *)
(* Data abstraction: a string is a sequence of characters, and the        *)
(* alphabet is abstract: NL and SP are the newline and the space, the     *)
(* label of each field ("URI:", "Nonce:", ...) is one character, and so   *)
(* is the header tail " wants you to sign in with your Solana account:".  *)
(* Any other character stands for itself.  An optional field that is nil  *)
(* or points to "" is the empty sequence (ConstructMessage omits both).   *)
(***************************************************************************)
EXTENDS Integers, Sequences, SequencesExt

CONSTANT Inputs   \* the SignInInput values the server may build

VARIABLES
    input,    \* the challenge the server built (NewSignInInput + options)
    result    \* what ParseMessage returned for the signed message, or NoResult

NL == "\n"
SP == " "
WANTS == " wants you to sign in with your Solana account:"
DASH == "-"
RESOURCES == "Resources:"

\* The label of each optional or required line of the field block, and the
\* SignInInput field it carries.
FieldOf == [ k \in {"URI:", "Version:", "Chain ID:", "Nonce:", "Issued At:",
                    "Expiration Time:", "Not Before:", "Request ID:"} |->
             CASE k = "URI:" -> "uri"          [] k = "Version:" -> "version"
               [] k = "Chain ID:" -> "chainId" [] k = "Nonce:" -> "nonce"
               [] k = "Issued At:" -> "issuedAt"
               [] k = "Expiration Time:" -> "expirationTime"
               [] k = "Not Before:" -> "notBefore"
               [] k = "Request ID:" -> "requestId" ]

\* The labels ParseMessage takes as the start of the field block.
StartLabels == {"URI:", "Version:", "Chain ID:", "Nonce:", "Issued At:"}

EmptyInput ==
    [domain |-> <<>>, address |-> <<>>, statement |-> <<>>, uri |-> <<>>,
     version |-> <<>>, chainId |-> <<>>, nonce |-> <<>>, issuedAt |-> <<>>,
     expirationTime |-> <<>>, notBefore |-> <<>>, requestId |-> <<>>,
     resources |-> <<>>]

-----------------------------------------------------------------------------
(* String helpers (package strings) *)

HasPrefix(s, p) == IsPrefix(p, s)
TrimPrefix(s, p) == IF HasPrefix(s, p) THEN SubSeq(s, Len(p) + 1, Len(s)) ELSE s

\* strings.TrimSpace: drop leading and trailing white space.
TrimSpace(s) ==
    LET keep == {i \in DOMAIN s : s[i] \notin {SP, NL}}
    IN  IF keep = {} THEN <<>> ELSE SubSeq(s, Min(keep), Max(keep))

\* strings.Split(s, "\n"): n separators give n + 1 lines.
RECURSIVE Split(_)
Split(s) ==
    LET i == SelectInSeq(s, LAMBDA c : c = NL)
    IN  IF i = 0 THEN <<s>>
        ELSE <<SubSeq(s, 1, i - 1)>> \o Split(SubSeq(s, i + 1, Len(s)))

\* strings.Join(lines, "\n")
RECURSIVE Join(_)
Join(ls) ==
    IF Len(ls) <= 1 THEN FlattenSeq(ls)
    ELSE Head(ls) \o <<NL>> \o Join(Tail(ls))

-----------------------------------------------------------------------------
(* ConstructMessage *)

\* An optional "\n<label> <value>" line, written only for a non-empty value.
OptLine(label, v) == IF v = <<>> THEN <<>> ELSE <<NL, label, SP>> \o v

ConstructMessage(in) ==
    in.domain \o <<WANTS, NL>> \o in.address
    \o (IF in.statement = <<>> THEN <<>> ELSE <<NL, NL>> \o in.statement)
    \o <<NL>>
    \o OptLine("URI:", in.uri) \o OptLine("Version:", in.version)
    \o OptLine("Chain ID:", in.chainId)
    \o <<NL, "Nonce:", SP>> \o in.nonce
    \o <<NL, "Issued At:", SP>> \o in.issuedAt
    \o OptLine("Expiration Time:", in.expirationTime)
    \o OptLine("Not Before:", in.notBefore)
    \o OptLine("Request ID:", in.requestId)
    \o (IF in.resources = <<>> THEN <<>>
        ELSE <<NL, RESOURCES>>
             \o FlattenSeq([i \in DOMAIN in.resources |-> <<NL, DASH, SP>> \o in.resources[i]]))

-----------------------------------------------------------------------------
(* ParseMessage *)

\* Index of the first line from the third on whose trimmed text starts with
\* a field-block label; 0 when there is none (fieldsStart = -1).
FieldsStart(lines) ==
    SelectInSubSeq(lines, 3, Len(lines),
                   LAMBDA l : LET t == TrimSpace(l) IN t # <<>> /\ Head(t) \in StartLabels)

\* The statement: the lines between the address and the field block, leading
\* blank lines skipped, joined and trimmed.  (Skipping blank lines before
\* the join and then trimming is the same as trimming the whole join.)
Statement(lines, fs) ==
    IF fs > 3 THEN TrimSpace(Join(SubSeq(lines, 3, fs - 1))) ELSE <<>>

\* (mutant) The field loop keeps the first line of a label instead of the
\* last one.
FieldStepFirstWins(acc, line) ==
    IF HasPrefix(line, <<DASH, SP>>) /\ acc.inResources
    THEN [acc EXCEPT !.resources = Append(@, TrimPrefix(line, <<DASH, SP>>))]
    ELSE IF HasPrefix(line, <<RESOURCES>>)
    THEN [acc EXCEPT !.inResources = TRUE]
    ELSE LET a == [acc EXCEPT !.inResources = FALSE]
             L == {k \in DOMAIN FieldOf : HasPrefix(line, <<k, SP>>)
                                          /\ acc.input[FieldOf[k]] = <<>>}
         IN  IF L = {} THEN a
             ELSE LET k == CHOOSE x \in L : TRUE
                  IN  [a EXCEPT !.input[FieldOf[k]] = TrimPrefix(line, <<k, SP>>)]

\* One iteration of the field loop over the untrimmed line: a "- " line
\* inside a resource list, the "Resources:" line, or "<label> <value>",
\* where a later line with the same label overwrites an earlier one.
FieldStep(acc, line) ==
    IF HasPrefix(line, <<DASH, SP>>) /\ acc.inResources
    THEN [acc EXCEPT !.resources = Append(@, TrimPrefix(line, <<DASH, SP>>))]
    ELSE IF HasPrefix(line, <<RESOURCES>>)
    THEN [acc EXCEPT !.inResources = TRUE]
    ELSE LET a == [acc EXCEPT !.inResources = FALSE]
             L == {k \in DOMAIN FieldOf : HasPrefix(line, <<k, SP>>)}
         IN  IF L = {} THEN a
             ELSE LET k == CHOOSE x \in L : TRUE
                  IN  [a EXCEPT !.input[FieldOf[k]] = TrimPrefix(line, <<k, SP>>)]

\* A result: err is "" or the error, input the fields read (on an error
\* the caller ignores the partly filled input, so it is left empty).
Result(err, in) == [err |-> err, input |-> in]

ParseMessage(msg) ==
    LET lines == Split(msg)
        header == lines[1]
        fs == FieldsStart(lines)
        head == [EmptyInput EXCEPT
                    !.domain = Front(header),
                    !.address = TrimSpace(lines[2]),
                    !.statement = Statement(lines, fs)]
        body == IF fs = 0 THEN <<>> ELSE SubSeq(lines, fs, Len(lines))
        acc == FoldLeft(FieldStep, [input |-> head, inResources |-> FALSE,
                                    resources |-> <<>>], body)
    IN  IF Len(lines) < 2 THEN Result("message too short", EmptyInput)
        ELSE IF ~(Len(header) >= 2 /\ Last(header) = WANTS)
        THEN Result("invalid header format", EmptyInput)
        ELSE IF TrimSpace(lines[2]) = <<>>
        THEN Result("missing address", EmptyInput)
        ELSE Result("", [acc.input EXCEPT !.resources = acc.resources])
-----------------------------------------------------------------------------
(* The challenge round trip: the server constructs the message, the       *)
(* wallet signs exactly those bytes, and verification parses them.         *)

vars == <<input, result>>

NoResult == Result("none", EmptyInput)

Init ==
    /\ input \in Inputs
    /\ result = NoResult

ParseSigned ==
    /\ result = NoResult
    /\ result' = ParseMessage(ConstructMessage(input))
    /\ UNCHANGED input

Next == ParseSigned

Spec == Init /\ [][Next]_vars

-----------------------------------------------------------------------------
(* Properties *)

(* What the signature binds: parsing the constructed message succeeds and  *)
(* returns the domain, address, nonce, timestamps, request id and          *)
(* resources of the input, whatever the statement says - a statement line *)
(* that looks like a field never displaces the real field, because the     *)
(* field loop lets the later line win.                                     *)
ParseRecoversBinding ==
    result # NoResult =>
        /\ result.err = ""
        /\ \A f \in {"domain", "address", "nonce", "issuedAt", "expirationTime",
                     "notBefore", "requestId", "resources"} :
              result.input[f] = input[f]
=============================================================================
