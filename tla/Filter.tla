-------------------------------- MODULE Filter --------------------------------
(* SelectSeq and FlattenSeq as folds, because that is what can be reasoned    *)
(* about (SequenceFacts).                                                     *)
EXTENDS SequencesExt

\* The elements of a sequence that are in a set, in their order.
Only(s, set) ==
    FoldLeft(LAMBDA kept, e : IF e \in set THEN Append(kept, e) ELSE kept, <<>>, s)

\* The sequences in a sequence, one after the other.
Flattened(seqs) == FoldLeft(LAMBDA flat, s : flat \o s, <<>>, seqs)
=============================================================================
