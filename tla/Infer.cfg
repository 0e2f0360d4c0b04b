SPECIFICATION Spec
CONSTANTS
    Inputs <- MCInputs
    Priors <- MCPriors
    NoPrior <- MCNoPrior
    Plain <- MCPlain
    IdentityKeys = {"user"}
    EnumMax = 3
    RarePercent = 5
    MinSupport = 3
    MaxTemplates = 2
    HeadWords = 2
    MaxTokens = 6
    SimilarityTenths = 5
    MaxDepth = 4
INVARIANTS InferSound  
PROPERTIES EveryStepIsProgress
