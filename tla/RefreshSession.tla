--------------------------- MODULE RefreshSession ---------------------------
(***************************************************************************)
(* Refresh-session rotation and reuse detection (spec 3, 4.2, 5, 8, 9).    *)
(* The session of record is a row of profiles.refresh_sessions            *)
(* (src/migrations/postgres/001_auth_schema.up.sql:161-183): id, user_id, *)
(* family_id, current_token_hash, previous_token_hash, revoked_at.  The    *)
(* code that rotates and revokes rows is not in src/; its steps follow the *)
(* spec:                                                                   *)
(*   issue   - a new row, Active, holding a fresh current fingerprint;     *)
(*   rotate  - locate the session of the presented token and compare it   *)
(*             with the two slots: current -> shift current to previous   *)
(*             and mint a new current (a conditional update, spec 5);     *)
(*             previous -> honour it once, without advancing (grace);     *)
(*             neither -> reuse: revoke the family, report ReuseDetected;  *)
(*   revoke / revokeAll - set revoked_at (idempotent).                     *)
(* A rotate is two steps: the lookup, then the conditional UPDATE that     *)
(* re-checks the slot it matched and revoked_at IS NULL, so concurrent    *)
(* calls interleave between them.  A successful response can be lost on   *)
(* its way back; the client then still holds the token it presented.      *)
(*                                                                         *)
(* Abstractions.  A refresh token is its fingerprint (hashing is           *)
(* injective here) and carries its session: the spec's reuse case, a      *)
(* token "matching neither tracked slot", presupposes that the session is *)
(* found without the two slots.  Issue creates a new family per session,  *)
(* so a family is one row.  The grace answer hands back the session's     *)
(* current token, the only refresh token that does not advance the state. *)
(* A thief may copy any token the client holds.                           *)
(***************************************************************************)
EXTENDS Naturals, FiniteSets

CONSTANTS
    Sessions,    \* row ids
    Subjects,    \* user ids
    Secrets,     \* refresh-token values (fingerprints), each minted once
    NoSecret,    \* previous_token_hash IS NULL
    MaxLost      \* bound on consecutive lost responses to the client

Parties == {"client", "thief"}

VARIABLES
    row,        \* row[s]: the refresh_sessions row of session s
    minted,     \* fingerprints generated so far
    ctok,       \* ctok[s]: the refresh token the client holds for s
    stolen,     \* stolen[s]: the tokens of s the thief holds
    pc,         \* pc[p]: "idle" or "commit" (lookup done, UPDATE pending)
    call,       \* call[p]: session, presented token and the slot it matched
    result,     \* result[p]: the outcome of p's last rotate
    lost,       \* lost[s]: consecutive lost responses to the client
    flagged,    \* history: sessions revoked by reuse detection
    lostTwice,  \* history: sessions whose client lost two responses in a row
    thiefUsed   \* history: sessions the thief presented a token of

vars == <<row, minted, ctok, stolen, pc, call, result, lost,
          flagged, lostTwice, thiefUsed>>

NoRow == [state |-> "none", subject |-> CHOOSE u \in Subjects : TRUE,
          current |-> NoSecret, previous |-> NoSecret]
NoCall == [s |-> CHOOSE s \in Sessions : TRUE, f |-> NoSecret, match |-> "none"]

\* The refresh_sessions table: no rows.
Init ==
    /\ row = [s \in Sessions |-> NoRow]
    /\ minted = {}
    /\ ctok = [s \in Sessions |-> NoSecret]
    /\ stolen = [s \in Sessions |-> {}]
    /\ pc = [p \in Parties |-> "idle"]
    /\ call = [p \in Parties |-> NoCall]
    /\ result = [p \in Parties |-> "none"]
    /\ lost = [s \in Sessions |-> 0]
    /\ flagged = {}
    /\ lostTwice = {} /\ thiefUsed = {}

Fresh == Secrets \ minted
InFlight == {p \in Parties : pc[p] = "commit"}

\* The tokens a party can present for session s.
Held(p, s) == IF p = "client" THEN {ctok[s]} \ {NoSecret} ELSE stolen[s]

\* The lookup: the row of the token's session, its revoked_at, and which
\* of the two fingerprint slots the token matches.
Match(s, f) ==
    CASE row[s].state = "revoked"  -> "invalid"
      [] row[s].current = f        -> "current"
      [] row[s].previous = f       -> "previous"
      [] OTHER                     -> "reuse"

\* issue(subject): a new session in a new family, Active, with a fresh
\* current fingerprint handed to the client.
Issue(s, u) ==
    /\ row[s].state = "none"
    /\ \E f \in Fresh :
        /\ row' = [row EXCEPT ![s] = [state |-> "active", subject |-> u,
                                      current |-> f, previous |-> NoSecret]]
        /\ minted' = minted \cup {f}
        /\ ctok' = [ctok EXCEPT ![s] = f]
    /\ UNCHANGED <<stolen, pc, call, result, lost, flagged, lostTwice, thiefUsed>>

\* The thief copies the token the client holds.
Steal(s) ==
    /\ ctok[s] \notin stolen[s] \cup {NoSecret}
    /\ stolen' = [stolen EXCEPT ![s] = @ \cup {ctok[s]}]
    /\ UNCHANGED <<row, minted, ctok, pc, call, result, lost, flagged, lostTwice, thiefUsed>>

\* rotate, first step: a party presents a token and the session is read.
\* A call starts only while a fresh fingerprint is left for every call in
\* flight (the bound on Secrets).
Present(p, s, f) ==
    /\ pc[p] = "idle"
    /\ f \in Held(p, s)
    /\ Match(s, f) # "invalid"
    /\ Cardinality(Fresh) > Cardinality(InFlight)
    /\ pc' = [pc EXCEPT ![p] = "commit"]
    /\ call' = [call EXCEPT ![p] = [s |-> s, f |-> f, match |-> Match(s, f)]]
    /\ thiefUsed' = IF p = "thief" THEN thiefUsed \cup {s} ELSE thiefUsed
    /\ UNCHANGED <<row, minted, ctok, stolen, result, lost, flagged, lostTwice>>

\* rotate on a revoked session: the lookup finds revoked_at set and the
\* token is rejected, whichever slot it matches.
PresentRevoked(p, s, f) ==
    /\ pc[p] = "idle"
    /\ f \in Held(p, s)
    /\ Match(s, f) = "invalid"
    /\ result' = [result EXCEPT ![p] = "invalid"]
    /\ thiefUsed' = IF p = "thief" THEN thiefUsed \cup {s} ELSE thiefUsed
    /\ UNCHANGED <<row, minted, ctok, stolen, pc, call, lost, flagged, lostTwice>>

\* The successful response carrying refresh token g reaches party p, or
\* (to the client, at most MaxLost times in a row) is lost.
Respond(p, s, g) ==
    \/ /\ p = "client"
       /\ ctok' = [ctok EXCEPT ![s] = g]
       /\ lost' = [lost EXCEPT ![s] = 0]
       /\ UNCHANGED <<stolen, lostTwice>>
    \/ /\ p = "client"
       /\ lost[s] < MaxLost
       /\ lost' = [lost EXCEPT ![s] = @ + 1]
       /\ lostTwice' = IF lost[s] + 1 >= 2 THEN lostTwice \cup {s} ELSE lostTwice
       /\ UNCHANGED <<ctok, stolen>>
    \/ /\ p = "thief"
       /\ stolen' = [stolen EXCEPT ![s] = @ \cup {g}]
       /\ UNCHANGED <<ctok, lost, lostTwice>>

\* The conditional UPDATE's WHERE clause: the row is not revoked and the
\* slot the lookup matched still holds the presented token.
StillMatches(c) ==
    /\ row[c.s].state = "active"
    /\ IF c.match = "current" THEN row[c.s].current = c.f
                              ELSE row[c.s].previous = c.f

\* (mutant) The new fingerprint replaces the current one without keeping
\* it as the previous one.
RotateCommitDropsPrevious(p) ==
    LET c == call[p] IN
    /\ pc[p] = "commit" /\ c.match = "current"
    /\ StillMatches(c)
    /\ \E g \in Fresh :
        /\ row' = [row EXCEPT ![c.s].previous = NoSecret, ![c.s].current = g]
        /\ minted' = minted \cup {g}
        /\ Respond(p, c.s, g)
    /\ result' = [result EXCEPT ![p] = "rotated"]
    /\ pc' = [pc EXCEPT ![p] = "idle"]
    /\ UNCHANGED <<call, flagged, thiefUsed>>

\* rotate, current slot: shift current -> previous and mint a new current,
\* if the row still holds the token as current and is not revoked.
RotateCommit(p) ==
    LET c == call[p] IN
    /\ pc[p] = "commit" /\ c.match = "current"
    /\ StillMatches(c)
    /\ \E g \in Fresh :
        /\ row' = [row EXCEPT ![c.s].previous = c.f, ![c.s].current = g]
        /\ minted' = minted \cup {g}
        /\ Respond(p, c.s, g)
    /\ result' = [result EXCEPT ![p] = "rotated"]
    /\ pc' = [pc EXCEPT ![p] = "idle"]
    /\ UNCHANGED <<call, flagged, thiefUsed>>

\* (mutant) The grace use empties the wrong slot.
GraceCommitClearsCurrent(p) ==
    LET c == call[p] IN
    /\ pc[p] = "commit" /\ c.match = "previous"
    /\ StillMatches(c)
    /\ row' = [row EXCEPT ![c.s].current = NoSecret]
    /\ Respond(p, c.s, row[c.s].current)
    /\ result' = [result EXCEPT ![p] = "graced"]
    /\ pc' = [pc EXCEPT ![p] = "idle"]
    /\ UNCHANGED <<minted, call, flagged, thiefUsed>>

\* rotate, previous slot (grace): honour the token once without advancing;
\* the previous slot is emptied (Rotated -> Active), so a second
\* presentation matches neither slot.
GraceCommit(p) ==
    LET c == call[p] IN
    /\ pc[p] = "commit" /\ c.match = "previous"
    /\ StillMatches(c)
    /\ row' = [row EXCEPT ![c.s].previous = NoSecret]
    /\ Respond(p, c.s, row[c.s].current)
    /\ result' = [result EXCEPT ![p] = "graced"]
    /\ pc' = [pc EXCEPT ![p] = "idle"]
    /\ UNCHANGED <<minted, call, flagged, thiefUsed>>

\* rotate, either slot, when a concurrent call changed the row since the
\* lookup: the conditional UPDATE touches no row; a stale outcome.
StaleCommit(p) ==
    LET c == call[p] IN
    /\ pc[p] = "commit" /\ c.match \in {"current", "previous"}
    /\ ~StillMatches(c)
    /\ result' = [result EXCEPT ![p] = "stale"]
    /\ pc' = [pc EXCEPT ![p] = "idle"]
    /\ UNCHANGED <<row, minted, ctok, stolen, call, lost, flagged, lostTwice, thiefUsed>>

\* rotate, neither slot: reuse of a superseded token; revoke the family
\* (UPDATE ... SET revoked_at WHERE family_id = $1 AND revoked_at IS NULL)
\* and report ReuseDetected.
ReuseCommit(p) ==
    LET c == call[p] IN
    /\ pc[p] = "commit" /\ c.match = "reuse"
    /\ row' = [row EXCEPT ![c.s].state = "revoked"]
    /\ flagged' = flagged \cup {c.s}
    /\ result' = [result EXCEPT ![p] = "reuse"]
    /\ pc' = [pc EXCEPT ![p] = "idle"]
    /\ UNCHANGED <<minted, ctok, stolen, call, lost, lostTwice, thiefUsed>>

\* revoke(sessionID): set revoked_at on a live row.
Revoke(s) ==
    /\ row[s].state = "active"
    /\ row' = [row EXCEPT ![s].state = "revoked"]
    /\ UNCHANGED <<minted, ctok, stolen, pc, call, result, lost, flagged, lostTwice, thiefUsed>>

\* revokeAll(subject): set revoked_at on every live row of the subject.
RevokeAll(u) ==
    /\ \E s \in Sessions : row[s].state = "active" /\ row[s].subject = u
    /\ row' = [s \in Sessions |->
                 IF row[s].state = "active" /\ row[s].subject = u
                 THEN [row[s] EXCEPT !.state = "revoked"] ELSE row[s]]
    /\ UNCHANGED <<minted, ctok, stolen, pc, call, result, lost, flagged, lostTwice, thiefUsed>>

Next ==
    \/ \E s \in Sessions :
        \/ \E u \in Subjects : Issue(s, u)
        \/ Steal(s) \/ Revoke(s)
        \/ \E p \in Parties, f \in Secrets :
               Present(p, s, f) \/ PresentRevoked(p, s, f)
    \/ \E u \in Subjects : RevokeAll(u)
    \/ \E p \in Parties :
        \/ RotateCommit(p) \/ GraceCommit(p)
        \/ StaleCommit(p) \/ ReuseCommit(p)

Spec == Init /\ [][Next]_vars

-----------------------------------------------------------------------------
\* Types, and current_token_hash NOT NULL on every row.
TypeOK ==
    /\ row \in [Sessions -> [state : {"none", "active", "revoked"},
                             subject : Subjects,
                             current : Secrets \cup {NoSecret},
                             previous : Secrets \cup {NoSecret}]]
    /\ \A s \in Sessions : row[s].state # "none" => row[s].current \in Secrets
    /\ minted \subseteq Secrets
    /\ ctok \in [Sessions -> Secrets \cup {NoSecret}]
    /\ stolen \in [Sessions -> SUBSET Secrets]
    /\ pc \in [Parties -> {"idle", "commit"}]
    /\ result \in [Parties -> {"none", "rotated", "graced", "stale",
                                "reuse", "invalid"}]
    /\ lost \in [Sessions -> 0..MaxLost]

(* Spec 4.2, the grace window's purpose: a client that only ever presents  *)
(* the token it holds, and whose rotation responses are never lost twice  *)
(* in a row, is never taken for a thief - a session is revoked by reuse    *)
(* detection only if the thief presented one of its tokens or the client  *)
(* lost two consecutive responses.                                         *)
HonestRetryNotFlagged ==
    \A s \in flagged : s \in thiefUsed \/ s \in lostTwice
====
