--------------------------- MODULE ItemCacheReads ---------------------------
(***************************************************************************)
(* ItemCache observed by a caller who remembers what it has read: for each *)
(* key the last answer since the last write or deletion.  AnswerIsFresh    *)
(* says nothing of a key with a missing or invalid input; a caller may     *)
(* still expect that looking does not change what is seen.                 *)
(***************************************************************************)
EXTENDS MCItemCache

VARIABLE seen      \* the last answer for each key, or Unknown

Reading == {"get", "item", "attr"}
Writing == {"set", "setlazy", "setitem", "delattr", "delitem"}

\* A history variable: it never constrains ItemCache.
Remember ==
    seen' = CASE result'.op \in Reading /\ result' # result ->
                   [seen EXCEPT ![result'.key] = result'.out]
              [] result'.op \in Writing \/ (stack' # <<>> /\ Head(stack').op = "set") ->
                   [k \in Keys |-> Unknown]
              [] OTHER -> seen

HInit == Init /\ seen = [k \in Keys |-> Unknown]
HNext == Next /\ Remember
HSpec == HInit /\ [][HNext]_<<vars, seen>> /\ WF_<<vars, seen>>(Run /\ UNCHANGED lazy /\ Remember)

\* Reads repeat: between two writes, every read of a key by the program ends
\* in the same way, whatever other keys are read in between and whichever
\* nested reads raise and are swallowed.
ReadsRepeat ==
    [][result'.op \in Reading /\ seen[result'.key] # Unknown
          => result'.out = seen[result'.key]]_<<vars, seen>>
=============================================================================
