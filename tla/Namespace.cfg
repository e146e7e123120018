SPECIFICATION Spec
CONSTANTS
  Nothing = Nothing
  CacheSize = 1
  Segs <- MCSegs
  Rank <- MCRank
  Cut <- MCCut
  Clean <- MCClean
  Upper <- MCUpper
  Defs = "$defs"
  Props = "properties"
  Origin <- MCOrigin
  DocUris <- MCDocUris
  Paths <- MCPaths
  Bindings <- MCBindings
  Named <- MCNamed
  Refs <- MCRefs
  CNames <- MCCNames
INVARIANTS AnswersAreCurrent IdsRoundTrip
