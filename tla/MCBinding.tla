----------------------------- MODULE MCBinding -----------------------------
(***************************************************************************)
(* Instances of Binding for TLC, with blocks of four values.  Every file   *)
(* differs from a good one in at most two metadata values.                 *)
(***************************************************************************)
EXTENDS Binding

(* Two query heads of two values on one KV head.                           *)
Good ==
  [key \in Required \cup Optional |->
     CASE key \in {"embedding_length", "feed_forward_length"} -> 4
       [] key \in {"head_count", "key_length"} -> 2
       [] key = "context_length" -> 64
       [] key \in Optional -> Absent
       [] OTHER -> 1]

(* 129 * 4 is 4 as an int of 512 values, so is 516; 516 * 4 is 16 as one   *)
(* of 2048, and 2000 is negative in both.                                  *)
Values == {Absent, NotUint, 0, 1, 2, 4, 8, 129, 516, 2000}

MCMetas ==
  {[Good EXCEPT ![j] = x, ![k] = y] :
     j \in Required \cup Optional, k \in {"head_count", "key_length"},
     x \in Values, y \in Values}

(* A file with a good configuration.                                       *)
MCGood == {Good}
=============================================================================
