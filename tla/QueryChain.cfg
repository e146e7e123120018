CONSTANTS
    Obj <- MCObj
    Value <- MCValue
    Hashable <- MCHashable
    Criteria <- MCCriteria
    Indices <- MCIndices
    Matching = {}
    NoObj = NoObj
    NoFilter = NoFilter
    BaseLists <- MCBaseLists
    Added = {"o2"}
    Refinements <- MCRefinements
    Flags <- MCFlags
    MaxQueries = 3
    Probes = {"typed", "same"}
    MaxMade = 0
    MaxProbed = 2
    MaxBase = 3
SPECIFICATION Spec
INVARIANTS ResultsMatch ResultsInOrder ResultsDistinct UnsharedIsComplete
PROPERTY OnlyUnionGrows
