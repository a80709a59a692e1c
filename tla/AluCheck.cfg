SPECIFICATION Spec
CONSTANTS
    ErrorCode = 254
    byteBits = 2
    immBits = 6
    shamtBits = 3
INVARIANTS
    RtypeAsCommented
    FaultsOnlyWithoutQuotient
    ItypeAsCommented
    BranchAsCommented
    SignExtensionKeepsField
    PipelineAluAsCommented
    PipelineBranchAsEmulated
CHECK_DEADLOCK FALSE
