------------------------- MODULE MCRequestLanguage -------------------------
(* Model-checking instance of RequestLanguage.  The configurations are     *)
(* those of the tests (en/es/fr, en/es), the nil config, and two whose     *)
(* Default is not in Supported; the request values mix valid, region-      *)
(* tagged, upper-case, malformed and unsupported languages in every        *)
(* source, including the requests of the tests.                            *)
EXTENDS RequestLanguage

ES == <<"e", "s">>
FR == <<"f", "r">>

MCConfigs ==
    { [supported |-> <<EN, ES, FR>>, default |-> EN],
      [supported |-> <<EN, ES>>, default |-> EN],
      [supported |-> <<>>, default |-> <<>>],
      [supported |-> <<<<"E", "S", "-", "e", "s">>, <<"f", "r", "1">>>>,
       default |-> <<" ", "F", "r", " ">>],
      [supported |-> <<FR, ES>>, default |-> <<" ">>] }

MCQueries == { <<>>, ES, <<"F", "R", "_", "1">>, <<"e">> }
MCPaths   == { <<"/">>, <<"/", "f", "r", "/", "1">>, <<"/", "/", "e", "s", "-", "1">>,
               <<"/", "f", "r">> }
MCCookies == { NoCookie, <<"E", "s">>, <<"r", "r">> }
MCHeaders == { <<>>,
               <<"f", "r", "-", "F", "R", ",", "f", "r", ";", "1", ",", "e", "s">>,
               <<" ", ",", "n", "n", ";", "1", ",", " ", "e", "n", "-", "1">> }

MCRequests == [query : MCQueries, path : MCPaths, cookie : MCCookies, header : MCHeaders]

MCIdentities == { [uc |-> Absent, cl |-> Absent],
                  [uc |-> <<>>, cl |-> <<"1">>],
                  [uc |-> <<"2">>, cl |-> <<"1">>] }
=============================================================================
