---- MODULE Sums ----
(***************************************************************************)
(* Sums of lengths, and pieces put one behind the other, as lwIP and the   *)
(* client compute them in loops over a list of segments or of pbufs.       *)
(***************************************************************************)
EXTENDS Naturals, Sequences

Total(lens) == LET sum[i \in 0 .. Len(lens)] == IF i = 0 THEN 0 ELSE sum[i - 1] + lens[i]
               IN sum[Len(lens)]

Flattened(chain) ==
  LET joined[i \in 0 .. Len(chain)] == IF i = 0 THEN <<>> ELSE joined[i - 1] \o chain[i]
  IN joined[Len(chain)]
====
