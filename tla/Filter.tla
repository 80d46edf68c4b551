-------------------------------- MODULE Filter --------------------------------
(***************************************************************************)
(* Array.prototype.filter, as a recursive function so that what it returns  *)
(* can be proved.                                                          *)
(***************************************************************************)
EXTENDS Naturals, Sequences

\* The elements of a sequence that are in S, in their order.
Only(seq, S) ==
    LET upTo[n \in 0 .. Len(seq)] ==
            IF n = 0 THEN << >>
            ELSE IF seq[n] \in S THEN Append(upTo[n - 1], seq[n]) ELSE upTo[n - 1]
    IN  upTo[Len(seq)]
================================================================================
