------------------------------- MODULE Keeping -------------------------------
(***************************************************************************)
(* Taking elements out of a sequence, as the code does it with remove_if() *)
(* and erase() or by a loop over a list.  It is what SelectSeq does with a *)
(* test, with the set of what passes it, and is written as a recursive     *)
(* function so that SequenceLemmas can prove what it returns.              *)
(***************************************************************************)
EXTENDS Naturals, Sequences

\* The elements of s that are in S, in their order.
Keep(s, S) ==
  LET kept[i \in 0..Len(s)] ==
        IF i = 0 THEN <<>>
        ELSE IF s[i] \in S THEN Append(kept[i - 1], s[i]) ELSE kept[i - 1]
  IN kept[Len(s)]
=============================================================================
