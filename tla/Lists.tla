--------------------------------- MODULE Lists ---------------------------------
(***************************************************************************)
(* The compaction of an array in one pass, in a form that can be proved    *)
(* about: what to keep is a set rather than an operator.                   *)
(***************************************************************************)
EXTENDS Integers, Sequences

\* The elements of s that are in S, in their order: after position i of the scan
\* kept[i] is what has been moved to the front.
Keep(s, S) ==
  LET kept[i \in 0 .. Len(s)] ==
        IF i = 0 THEN << >>
        ELSE IF s[i] \in S THEN Append(kept[i - 1], s[i]) ELSE kept[i - 1]
  IN  kept[Len(s)]

Distinct(s) == \A i, j \in 1 .. Len(s) : s[i] = s[j] => i = j

===============================================================================
