-------------------------------- MODULE Lists --------------------------------
(***************************************************************************)
(* Filtering a sequence, as Vec::retain and Iterator::filter do it.  The   *)
(* test is a set and the recursion a function, unlike those of SelectSeq:  *)
(* the proof modules can reason about both.                                *)
(***************************************************************************)
EXTENDS Naturals, Sequences

\* The elements of s that are in S, in their order.
Only(s, S) ==
    LET kept[i \in 0..Len(s)] ==
            IF i = 0 THEN <<>>
            ELSE IF s[i] \in S THEN Append(kept[i - 1], s[i]) ELSE kept[i - 1]
    IN  kept[Len(s)]

=============================================================================
