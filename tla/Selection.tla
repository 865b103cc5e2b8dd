-------------------------------- MODULE Selection --------------------------------
(* SelectSeq with its test given as the set of positions that pass, so that what it
   selects can be stated, and proved, for every sequence.  *)
EXTENDS Naturals, Sequences

\* The elements of s at the positions in I, in their order.
Selected(s, I) ==
    LET upTo[k \in 0 .. Len(s)] ==
            IF k = 0 THEN <<>>
            ELSE IF k \in I THEN Append(upTo[k - 1], s[k]) ELSE upTo[k - 1]
    IN upTo[Len(s)]
=============================================================================
