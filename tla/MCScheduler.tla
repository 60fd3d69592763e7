----------------------------- MODULE MCScheduler ----------------------------
(* Arrays for bio_wait_for_signals: every array of one or two entries, with *)
(* or without repeated entries, the zero handle included.                   *)
EXTENDS Scheduler, TLC

Entry == Signal \cup {NoSignal}

AnyArrays == {<<>>} \cup {<<s>> : s \in Entry} \cup (Entry \X Entry)

DistinctArrays ==
    {array \in AnyArrays :
        \A i, j \in DOMAIN array : array[i] = array[j] /\ array[i] # NoSignal => i = j}

Symmetry == Permutations(Coro) \cup Permutations(Signal) \cup Permutations(Monitor)
=============================================================================
