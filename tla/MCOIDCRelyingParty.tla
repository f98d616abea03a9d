------------------------- MODULE MCOIDCRelyingParty -------------------------
(* Model-checking instance of OIDCRelyingParty: two login attempts by a  *)
(* victim and two by the attacker; the RP is configured with "https://idp" *)
(* while the provider's tokens and genuine discovery say "https://idp/".   *)
EXTENDS OIDCRelyingParty, TLC

MCSessions == {"s1", "s2", "s3", "s4"}
MCOwner == ("s1" :> "victim") @@ ("s2" :> "attacker") @@ ("s3" :> "victim") @@ ("s4" :> "attacker")
Idp      == [host |-> "idp", slash |-> FALSE]
IdpSlash == [host |-> "idp", slash |-> TRUE]
Evil     == [host |-> "evil", slash |-> FALSE]
SlashOnly == [host |-> "", slash |-> TRUE]      \* the issuer "/"

GenuineDoc == [issuer |-> IdpSlash, owner |-> "provider", endpoints |-> TRUE]

\* Genuine discovery only.
MCDocsGenuine == {GenuineDoc}

\* Genuine discovery, or a compromised response naming another issuer, no
\* issuer, the issuer "/" (which trims to ""), or the real one, with the attacker's endpoints and keys; or a
\* genuine response that lacks an endpoint.
MCDocsAll ==
    { GenuineDoc,
      [GenuineDoc EXCEPT !.endpoints = FALSE],
      [issuer |-> Evil, owner |-> "attacker", endpoints |-> TRUE],
      [issuer |-> NoIssuer, owner |-> "attacker", endpoints |-> TRUE],
      [issuer |-> SlashOnly, owner |-> "attacker", endpoints |-> TRUE],
      [issuer |-> IdpSlash, owner |-> "attacker", endpoints |-> TRUE] }
=============================================================================
