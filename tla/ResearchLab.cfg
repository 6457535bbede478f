SPECIFICATION Spec
CONSTANTS
    p1 = p1
    p2 = p2
    None = None
    Procs <- MCProcs
    Start = 1
    End = 9
    RegimeBars = 8
    Late <- MCLate
    Setups = {2, 3}
    Structures = {0, 1}
    Researches <- MCResearches
    Versions = {1, 2}
    InitialFiles <- MCInitialFiles
    SetupBars <- MCSetupBars
    Shown <- MCShown
    Probe = 1
    MaxStarts = 5
    MaxChanges = 1
INVARIANTS
    DerivedFromItsDataset
    ConflictsHaveACause
    LabelsStayApart
CHECK_DEADLOCK FALSE
