-------------------------------- MODULE Filters --------------------------------
(***************************************************************************)
(* What the loops of the code with a "continue" in them, and removeAll,    *)
(* keep of a list: the entries that are in a set, in their order.  It is a *)
(* recursive function, which proofs can be about, where SelectSeq is not.  *)
(***************************************************************************)
EXTENDS Naturals, Sequences

Only(s, keep) ==
    LET only[k \in 0..Len(s)] ==
            IF k = 0 THEN <<>> ELSE IF s[k] \in keep THEN Append(only[k - 1], s[k]) ELSE only[k - 1]
    IN  only[Len(s)]
================================================================================
