-------------------------- MODULE RequestLanguage --------------------------
(***************************************************************************)
(* Request language in the Gin adapter (package authgin).                  *)
(* LanguageMiddleware (src/adapters/gin/language.go) resolves the language *)
(* of a request from, in order, the ?lang query parameter, a /:lang/ path  *)
(* prefix, the lang cookie, the Accept-Language header and the configured  *)
(* default, keeping only supported languages, and attaches it to the       *)
(* request context (authlang.WithLanguage, src/lang/lang.go).  A handler   *)
(* later calls CurrentUser (src/adapters/gin/current_user.go), which       *)
(* reports that language beside the caller's identity.                     *)
(*                                                                         *)
(* Data abstraction: a string is a sequence of one-character strings over  *)
(* a small alphabet: a few lower-case letters, their upper-case forms, the *)
(* separators the code looks for ("-", "_", "/", ",", ";"), the space and  *)
(* a digit standing for any other character.  The empty sequence is "".    *)
(***************************************************************************)
EXTENDS Integers, Sequences, SequencesExt, TLC

CONSTANTS
    Configs,      \* LanguageConfig values: [supported : Seq(string), default : string]
    Requests,     \* [query, path, cookie, header]; query/header "" when absent
    Identities,   \* [uc, cl]: UserID of the UserContext / JWT claims, or Absent
    NoCookie,     \* model value: the request carries no lang cookie
    Absent        \* model value: no UserContext / no claims in the context

VARIABLES
    cfg,       \* the LanguageConfig the route was built with (fixed)
    req,       \* the incoming request (fixed)
    ident,     \* what the auth middlewares put in the context (fixed)
    mw,        \* whether LanguageMiddleware is installed on the route (fixed)
    ctxLang,   \* the language value in the request context, "" if none
    pc,        \* "middleware", "handler" or "done"
    view       \* the UserView CurrentUser returned

vars == <<cfg, req, ident, mw, ctxLang, pc, view>>

LowerLetters == {"e", "n", "s", "f", "r"}
Lowercase == ("E" :> "e") @@ ("N" :> "n") @@ ("S" :> "s") @@ ("F" :> "f") @@ ("R" :> "r")
EN == <<"e", "n">>
NoView == [source |-> "unset", user |-> Absent, language |-> <<>>, ok |-> FALSE]

-----------------------------------------------------------------------------
(* String helpers (package strings) *)

ToLower(s) == [i \in DOMAIN s |-> IF s[i] \in DOMAIN Lowercase THEN Lowercase[s[i]] ELSE s[i]]

TrimSpace(s) ==
    LET keep == {i \in DOMAIN s : s[i] # " "}
    IN  IF keep = {} THEN <<>> ELSE SubSeq(s, Min(keep), Max(keep))

\* strings.TrimLeft(s, "/")
TrimLeftSlash(s) ==
    LET i == SelectInSeq(s, LAMBDA c : c # "/")
    IN  IF i = 0 THEN <<>> ELSE SubSeq(s, i, Len(s))

\* s[:i] for the first i with s[i] in cs (strings.IndexAny / IndexByte), else s.
CutAt(s, cs) ==
    LET i == SelectInSeq(s, LAMBDA c : c \in cs)
    IN  IF i = 0 THEN s ELSE SubSeq(s, 1, i - 1)

\* strings.Split(s, sep)
RECURSIVE Split(_, _)
Split(s, sep) ==
    LET i == SelectInSeq(s, LAMBDA c : c = sep)
    IN  IF i = 0 THEN <<s>>
        ELSE <<SubSeq(s, 1, i - 1)>> \o Split(SubSeq(s, i + 1, Len(s)), sep)

-----------------------------------------------------------------------------
(* language.go *)

\* (*LanguageConfig).defaulted: a blank Default becomes "en" (QueryParam and
\* CookieName become "lang"; requests carry the values under those names).
defaulted(c) == [c EXCEPT !.default = IF TrimSpace(@) = <<>> THEN EN ELSE @]

\* Mutant of normalizeLangCode: the code is not lower-cased.
normalizeLangCodeNoLower(s) ==
    LET t == CutAt(TrimSpace(s), {"-", "_"})
    IN  IF Len(t) = 2 /\ \A i \in 1..2 : t[i] \in LowerLetters \cup DOMAIN Lowercase
        THEN t ELSE <<>>

\* Lower-case, trim, cut at the first "-" or "_", and keep the result only
\* if it matches ^[a-z]{2}$.
normalizeLangCode(s) ==
    LET t == CutAt(TrimSpace(ToLower(s)), {"-", "_"})
    IN  IF Len(t) = 2 /\ \A i \in 1..2 : t[i] \in LowerLetters THEN t ELSE <<>>

\* supportedSet: nil for an empty list, else the valid normalized entries.
supportedSet(sup) ==
    [nil |-> Len(sup) = 0,
     codes |-> {normalizeLangCode(sup[i]) : i \in DOMAIN sup} \ {<<>>}]

\* A normalized code the supported set lets through (nil lets all through).
Allowed(set, l) == l # <<>> /\ (set.nil \/ l \in set.codes)

\* Mutant of pickFromAcceptLanguage: the first valid entry, supported or not.
pickFromAcceptLanguageAnyListed(header, set) ==
    LET parts == Split(TrimSpace(header), ",")
        langs == [i \in DOMAIN parts |-> normalizeLangCode(CutAt(TrimSpace(parts[i]), {";"}))]
        i == SelectInSeq(langs, LAMBDA l : l # <<>>)
    IN  IF i = 0 THEN <<>> ELSE langs[i]

\* The first comma-separated entry (parameters after ";" dropped) whose
\* normalized code is allowed; q-weights are not consulted.
pickFromAcceptLanguage(header, set) ==
    LET parts == Split(TrimSpace(header), ",")
        langs == [i \in DOMAIN parts |-> normalizeLangCode(CutAt(TrimSpace(parts[i]), {";"}))]
        i == SelectInSeq(langs, LAMBDA l : Allowed(set, l))
    IN  IF i = 0 THEN <<>> ELSE langs[i]

\* The first path segment, for a path of at least 3 characters after its
\* leading slashes.
pickFromPathPrefix(path, set) ==
    LET p == TrimLeftSlash(path)
        l == normalizeLangCode(CutAt(p, {"/"}))
    IN  IF Len(p) >= 3 /\ Allowed(set, l) THEN l ELSE <<>>

\* c.Cookie(cfg.CookieName), normalized and allowed.
pickFromCookie(cookie, set) ==
    IF cookie = NoCookie THEN <<>>
    ELSE LET l == normalizeLangCode(cookie) IN IF Allowed(set, l) THEN l ELSE <<>>

\* The candidate of each source, in the order resolveRequestLanguage tries
\* them: query, path prefix, cookie, Accept-Language, default ("" if none).
Hints(c, r) ==
    LET set == supportedSet(c.supported)
        q   == normalizeLangCode(r.query)
        d   == normalizeLangCode(c.default)
    IN  << IF Allowed(set, q) THEN q ELSE <<>>,
           pickFromPathPrefix(r.path, set),
           pickFromCookie(r.cookie, set),
           pickFromAcceptLanguage(r.header, set),
           IF Allowed(set, d) THEN d ELSE <<>> >>

\* The first source that yields a language, else "en".
resolveRequestLanguage(c, r) ==
    LET h == Hints(c, r)
        i == SelectInSeq(h, LAMBDA l : l # <<>>)
    IN  IF i = 0 THEN EN ELSE h[i]

-----------------------------------------------------------------------------
(* current_user.go *)

\* Mutant of CurrentUserView: the claims branch ignores the request language.
CurrentUserViewClaimsEn(id, l) ==
    LET lang == IF l # <<>> THEN l ELSE EN
    IN  IF id.uc \notin {Absent, <<>>}
        THEN [source |-> "userctx", user |-> id.uc, language |-> lang, ok |-> TRUE]
        ELSE IF id.cl \notin {Absent, <<>>}
        THEN [source |-> "claims", user |-> id.cl, language |-> EN, ok |-> TRUE]
        ELSE [source |-> "none", user |-> Absent, language |-> lang, ok |-> FALSE]

\* CurrentUser: the context language (LanguageFromContext: present and not
\* "") or "en"; identity from a UserContext with a UserID, else from claims
\* with a UserID, else unauthenticated.
CurrentUserView(id, l) ==
    LET lang == IF l # <<>> THEN l ELSE EN
    IN  IF id.uc \notin {Absent, <<>>}
        THEN [source |-> "userctx", user |-> id.uc, language |-> lang, ok |-> TRUE]
        ELSE IF id.cl \notin {Absent, <<>>}
        THEN [source |-> "claims", user |-> id.cl, language |-> lang, ok |-> TRUE]
        ELSE [source |-> "none", user |-> Absent, language |-> lang, ok |-> FALSE]

-----------------------------------------------------------------------------

Init ==
    /\ cfg \in Configs
    /\ req \in Requests
    /\ ident \in Identities
    /\ mw \in BOOLEAN
    /\ ctxLang = <<>>
    /\ pc = IF mw THEN "middleware" ELSE "handler"
    /\ view = NoView

\* LanguageMiddleware's handler: resolve with the defaulted config, attach
\* the language to the context (g.Set and WithLanguage), then g.Next().
LanguageMiddleware ==
    /\ pc = "middleware"
    /\ ctxLang' = resolveRequestLanguage(defaulted(cfg), req)
    /\ pc' = "handler"
    /\ UNCHANGED <<cfg, req, ident, mw, view>>

\* The handler calls CurrentUser.
CurrentUser ==
    /\ pc = "handler"
    /\ view' = CurrentUserView(ident, ctxLang)
    /\ pc' = "done"
    /\ UNCHANGED <<cfg, req, ident, mw, ctxLang>>

Next == LanguageMiddleware \/ CurrentUser

Spec == Init /\ [][Next]_vars

-----------------------------------------------------------------------------
(* Properties *)

Codes2 == {<<a, b>> : a, b \in LowerLetters}

TypeOK ==
    /\ mw \in BOOLEAN
    /\ ctxLang \in Codes2 \cup {<<>>}
    /\ pc \in {"middleware", "handler", "done"}
    /\ view.source \in {"unset", "userctx", "claims", "none"}
    /\ view.language \in Codes2 \cup {<<>>}
    /\ view.ok \in BOOLEAN

(* The contract, stated apart from the code (language.go:118-119 and the  *)
(* tests at current_user.go:94-135): a value names language c when, blanks *)
(* dropped and case ignored, it is c alone or c followed by a "-" or "_"   *)
(* region; the path's /:lang/ prefix is its first segment; the header's    *)
(* entries are taken in the order listed, parameters after ";" ignored.    *)
Names(s, c) ==
    LET t == ToLower(TrimSpace(s))
    IN  IsPrefix(c, t) /\ (Len(t) = 2 \/ t[3] \in {"-", "_"})

RefCode(s) == IF \E c \in Codes2 : Names(s, c) THEN CHOOSE c \in Codes2 : Names(s, c) ELSE <<>>

PathSegment(path) ==
    LET p == TrimLeftSlash(path) IN IF Len(p) >= 3 THEN CutAt(p, {"/"}) ELSE <<>>

RefHints(c, r) ==
    LET parts == Split(r.header, ",")
    IN  << RefCode(r.query), RefCode(PathSegment(r.path)),
           IF r.cookie = NoCookie THEN <<>> ELSE RefCode(r.cookie) >>
        \o [i \in DOMAIN parts |-> RefCode(CutAt(parts[i], {";"}))]
        \o << RefCode(c.default) >>

\* A language is accepted when no list is configured, or an entry names it.
RefAccepted(c, l) ==
    l # <<>> /\ (c.supported = <<>> \/ \E i \in DOMAIN c.supported : RefCode(c.supported[i]) = l)

\* The language the contract assigns to this request and configuration.
RefLanguage ==
    LET c == defaulted(cfg)
        h == RefHints(c, req)
        i == SelectInSeq(h, LAMBDA l : RefAccepted(c, l))
    IN  IF i = 0 THEN EN ELSE h[i]

\* The identity carries a non-empty user id.
Identified(u) == u \notin {Absent, <<>>}

(* The attached language follows the documented precedence: it is the     *)
(* first of ?lang, the /:lang/ prefix, the lang cookie, the Accept-        *)
(* Language entries in listed order, and the (defaulted) Default that      *)
(* names an accepted language, and "en" when none does.  Unsupported or   *)
(* malformed values at any level are skipped, never returned, and never   *)
(* hide a lower-precedence supported value.                                *)
ResolvesByContract ==
    mw /\ pc # "middleware" => ctxLang = RefLanguage

(* End to end, from the request to the handler's view: CurrentUser reports *)
(* the contract's language for the request (LanguageMiddleware, then      *)
(* WithLanguage / LanguageFromContext) on a route with the middleware and  *)
(* "en" on one without, whichever identity source answers; and it reports *)
(* a caller as authenticated exactly when the enriched UserContext or the *)
(* JWT claims carry a user id, preferring the UserContext's.               *)
CurrentUserByContract ==
    pc = "done" =>
        /\ view.language = IF mw THEN RefLanguage ELSE EN
        /\ view.ok = (Identified(ident.uc) \/ Identified(ident.cl))
        /\ view.ok => view.user = IF Identified(ident.uc) THEN ident.uc ELSE ident.cl
=============================================================================
