SPECIFICATION FairSpec
CONSTANTS
    Inputs = {i1, i2}
    Notices = {n1}
    None = None
INVARIANTS
    LeaseAccounted
    InputsSettleOnce
PROPERTIES
    PromotionsCommit
    QueueAnswers
