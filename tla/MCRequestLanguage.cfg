\* Every combination of the modelled configurations, request values and
\* identities, with and without LanguageMiddleware on the route.
CONSTANTS
    Configs <- MCConfigs
    Requests <- MCRequests
    Identities <- MCIdentities
    NoCookie = NoCookie
    Absent = Absent

SPECIFICATION Spec
INVARIANT TypeOK
INVARIANT ResolvesByContract
INVARIANT CurrentUserByContract

\* One request per behaviour: after CurrentUser returns nothing is left to do.
CHECK_DEADLOCK FALSE
