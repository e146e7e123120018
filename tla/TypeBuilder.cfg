\* Cyclic schemas in two documents; six calls of the program between which
\* documents appear, builds fail and classes are defined.
CONSTANTS
    Ids <- MCIds
    Schema <- MCSchema
    DocOf <- MCDocOf
    Broken <- MCBroken
    Named <- MCNamed
    Redefined <- MCRedefined
    MaxCalls = 6
    None = None
SPECIFICATION Spec
INVARIANTS TypeOK NoReentry MarkedIsUnregistered ProxiesResolve PartsAreRegistered
PROPERTIES ClassesAreKept CallsEnd
