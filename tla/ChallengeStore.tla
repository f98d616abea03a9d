--------------------------- MODULE ChallengeStore ---------------------------
(***************************************************************************)
(* What a challenge store promises (spec 2, "Challenge"; 4.3; 8): a        *)
(* challenge - a wallet sign-in nonce or an OIDC state - is created when   *)
(* it is issued and is then consumed exactly once by a verification, or    *)
(* expires on its own; once gone it never becomes usable again.  Each step *)
(* here is atomic; ChallengeCache refines this specification, mapping a    *)
(* Put, a Get followed by a Del, and the passing of time onto these steps. *)
(***************************************************************************)
EXTENDS Naturals

CONSTANTS Nonces   \* challenge values; a fresh one is never issued twice

VARIABLES
    issued,   \* challenges handed out or attempted so far
    live,     \* challenges a verification may still consume
    used      \* used[n]: how many verifications consumed n

vars == <<issued, live, used>>

Init ==
    /\ issued = {}
    /\ live = {}
    /\ used = [n \in Nonces |-> 0]

\* A fresh challenge is created.
Issue(n) ==
    /\ n \notin issued
    /\ issued' = issued \cup {n}
    /\ live' = live \cup {n}
    /\ UNCHANGED used

\* Creating a fresh challenge fails; it never becomes usable.
IssueFailed(n) ==
    /\ n \notin issued
    /\ issued' = issued \cup {n}
    /\ UNCHANGED <<live, used>>

\* A verification consumes a live challenge.
Consume(n) ==
    /\ n \in live
    /\ live' = live \ {n}
    /\ used' = [used EXCEPT ![n] = @ + 1]
    /\ UNCHANGED issued

\* Some live challenges expire together (time passes).
Expire(S) ==
    /\ S # {}
    /\ S \subseteq live
    /\ live' = live \ S
    /\ UNCHANGED <<issued, used>>

Next ==
    \/ \E n \in Nonces : Issue(n) \/ IssueFailed(n) \/ Consume(n)
    \/ \E S \in SUBSET Nonces : Expire(S)

Spec == Init /\ [][Next]_vars
=============================================================================
