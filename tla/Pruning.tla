------------------------------- MODULE Pruning -------------------------------
(* Lists of moments that forget what has run out: the crash-loop detector's  *)
(* restarts and the LLM layer's calls.                                       *)
EXTENDS Integers, Sequences

(* The loop of prune and pruneLocked: kept[i] is what is left of the first i. *)
Within(times, cutoff) ==
    LET kept[i \in 0..Len(times)] ==
            IF i = 0 THEN <<>>
            ELSE IF times[i] > cutoff THEN Append(kept[i - 1], times[i]) ELSE kept[i - 1]
    IN kept[Len(times)]
=============================================================================
