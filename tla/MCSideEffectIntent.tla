------------------------- MODULE MCSideEffectIntent -------------------------
(***************************************************************************)
(* SideEffectIntent for TLC: neither the intents nor the tasks differ.     *)
(***************************************************************************)
EXTENDS SideEffectIntent, TLC

Symmetry == Permutations(Intent) \cup Permutations(Task)

\* A write that loses nothing moves lines that a restart may read anyway, and
\* no process sees it: only the writes that lose lines are explored.
WritesThatLose ==
    ~ (/\ unwritten' # unwritten
       /\ UNCHANGED <<losses, events, sequence, intents, approvals, spent>>)
=============================================================================
