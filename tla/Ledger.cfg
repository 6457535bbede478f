SPECIFICATION Spec
CONSTANTS
    Episodes <- AllEpisodes
    Fundings <- OneFunding
    Reasons = {"stop_loss", "take_profit"}
INVARIANTS
    ClosedNetIsCash
    CompleteIsRecovered
    ReasonsAgree
PROPERTIES
    OnlyEarlierFillsReopen
