SPECIFICATION Spec
CONSTANTS
    Episodes <- SameMillisecond
    Fundings <- OneFunding
    Reasons = {"stop_loss", "take_profit"}
INVARIANTS
    MustRebuild
