SPECIFICATION LauncherSpec
CONSTANTS
    Worlds <- MCWorlds
    SelinuxEnabled = FALSE
    PasswdFile <- MCPasswdFile
    PasswdNss <- MCPasswdNss
    GroupFile <- MCGroupFile
    GroupNss <- MCGroupNss
    Numerals <- MCNumerals
    NoId = 4
    UidMax = 3
    SystemUidMax = 2
    LauncherUid = 0
    PrefixesOf <- MCPrefixesOf
    ConsoleUsers <- MCConsoleUsers
    MaxSerial = 3
    MaxServices = 2
    MaxQueued = 1
    Kinds = {"unit", "exec", "self"}
INVARIANTS
    ReadInOrder
    NamesResolve
    VerdictsAsWritten
    ServiceSound
    ResetsAreDeserved
PROPERTIES
    FailuresAreReported
CHECK_DEADLOCK FALSE
