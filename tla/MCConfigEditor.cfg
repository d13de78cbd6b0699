CONSTANTS
    Absent = Absent
    Text <- TextDef
    BadLabels <- BadLabelsDef
    ListLabels <- ListLabelsDef
    NamesIn <- NamesInDef
    OldConfigs <- OldDef
    StartConfigs <- StartDef
    OtherConfigs <- OtherDef
    SomeHosts <- HostsDef
    SomeAddrs <- AddrsDef
    SomeTokens <- TokensDef
    ServiceNames <- NamesDef
    MaxServices = 2
    MaxEdits = 2
    MaxWrites = 1
SPECIFICATION EditorSpec
INVARIANTS
    EditorTypeOK
    NodeCanRunIt
    PanelSaysWhatNodeDoes
    HostsHaveOneOwner
    ClientFitsNode
    MigrationKeepsServing
PROPERTIES
    OthersStay
CHECK_DEADLOCK FALSE
