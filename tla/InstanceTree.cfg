SPECIFICATION Spec
CONSTANTS
  a = a  b = b  c = c  n1 = n1  n2 = n2  s1 = s1  Nothing = Nothing
  Objs <- MCObjs
  Instances <- MCInstances
  LazyArrays <- MCLazyArrays
  Names <- MCNames
  Sessions <- MCSessions
INVARIANTS ParentsFollowOwners NamesAreCurrent
SYMMETRY MCSymmetry
