\* Every modelled configuration, crashes and restarts anywhere; hosts whose
\* dev key writes always succeed and hosts where they may fail.
CONSTANTS
    EnvConfigs <- MCEnvConfigs
    FsConfigs <- MCFsConfigs
    DiskInits <- MCDiskInits
    GenKeys <- MCGenKeys
    DevKid <- MCDevKid
    MaxClock = 2
    FaultModes = {FALSE, TRUE}

SPECIFICATION Spec
CONSTRAINT GenBound
INVARIANT TypeOK
INVARIANT ActiveTokensVerifyReliable
INVARIANT KidNamesOneKeyReliable
