CONSTANTS
    g1 = g1
    g2 = g2
    Guids <- MCGuids
    Keys <- MCKeys
    Values <- MCValues
    Host = Host
    Unset = Unset
    Cut = Cut
    MaxTrouble = 3
SPECIFICATION FairSpec
INVARIANTS TypeOK SettingsTrue GuidKept
PROPERTIES ReadyConnected ConnectReturns
