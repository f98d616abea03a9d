--------------------------- MODULE MCSIWSMessage ---------------------------
(* Model-checking instance of SIWSMessage.  Valid inputs in the sense of  *)
(* the SIWS grammar: no field holds a newline; domain, address, nonce and *)
(* timestamps hold no space.  The statement ranges over every string of   *)
(* at most three characters over a letter, the space and two field      *)
(* labels; each optional field is absent or present.                    *)
EXTENDS SIWSMessage, TLC

StatementChars == {"a", SP, "Nonce:", "URI:"}
Opt == {<<>>, <<"v">>}

MCInputs ==
    [domain : {<<"d">>}, address : {<<"A">>},
     statement : BoundedSeq(StatementChars, 3),
     uri : Opt, version : Opt, chainId : Opt,
     nonce : {<<"n">>}, issuedAt : {<<"t">>},
     expirationTime : Opt, notBefore : Opt, requestId : Opt,
     resources : {<<>>, <<<<"r">>>>, <<<<"r">>, <<"s">>>>}]

=============================================================================
