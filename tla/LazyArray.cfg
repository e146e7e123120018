SPECIFICATION Spec
CONSTANTS
  one = one  two = two  textOne = textOne  expr = expr  wrong = wrong
  Bad = Bad  None = None
  Raw <- MCRaw
  Eval <- MCEval
  Kept <- MCKept
  MinItems = 1
  MaxLen = 3
INVARIANTS EagerItemsAreFresh ActsAsAList
