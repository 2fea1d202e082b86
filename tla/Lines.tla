-------------------------------- MODULE Lines --------------------------------
(***************************************************************************)
(* Sequences as lines in which events, messages or prompts wait: what is in*)
(* a line, and what is left of it when some leave.                         *)
(***************************************************************************)
EXTENDS Naturals, Sequences

Elements(s) == {s[i] : i \in 1 .. Len(s)}

(* The elements of s that are in S, in their order: Array.filter, or the   *)
(* loop that does the same.  (The SelectSeq of module Sequences cannot be  *)
(* expanded in a proof.)                                                   *)
Filter(s, S) ==
  LET kept[i \in 0 .. Len(s)] ==
        IF i = 0 THEN <<>>
        ELSE IF s[i] \in S THEN Append(kept[i - 1], s[i]) ELSE kept[i - 1]
  IN  kept[Len(s)]

(* q is what is left of s, in the order of s.                              *)
Remainder(q, s) ==
  \E f \in [1 .. Len(q) -> 1 .. Len(s)] :
    /\ \A i, j \in 1 .. Len(q) : i < j => f[i] < f[j]
    /\ \A i \in 1 .. Len(q) : q[i] = s[f[i]]
===============================================================================
