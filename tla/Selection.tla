------------------------------- MODULE Selection -------------------------------
(***************************************************************************)
(* The list comprehensions of the code, `[e for e in q if ...]`: what of a *)
(* sequence is in a set, in the order of the sequence.  It is a fold, of   *)
(* which the theorems know more than of SelectSeq.                         *)
(***************************************************************************)
EXTENDS Sequences, SequencesExt

Only(q, S) == FoldLeft(LAMBDA kept, e : IF e \in S THEN Append(kept, e) ELSE kept, <<>>, q)

=============================================================================
