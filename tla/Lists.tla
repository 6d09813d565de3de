------------------------------- MODULE Lists -------------------------------
(***************************************************************************)
(* Lists that are filtered, as the controllers do with arrays.  The filter *)
(* is a set and not an operator (as that of SelectSeq), so that theorems   *)
(* about a list that was filtered can be stated and used.                  *)
(***************************************************************************)
EXTENDS Naturals, Sequences

(* The elements of s that belong to S, in their order.                     *)
Kept(s, S) ==
  LET upTo[n \in 0 .. Len(s)] ==
        IF n = 0 THEN << >>
        ELSE IF s[n] \in S THEN Append(upTo[n - 1], s[n])
        ELSE upTo[n - 1]
  IN upTo[Len(s)]
=============================================================================
