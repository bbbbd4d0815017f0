---------------------------- MODULE MCOperators ----------------------------
(***************************************************************************)
(* Instances of Operators for TLC.                                         *)
(***************************************************************************)
EXTENDS Operators

(* Blocks without a pattern that a mistaken index could miss, and extremes.*)
Q4(scale, a, b) ==
  [scales |-> [k \in 0..7 |-> (scale + a*k) % 64],
   mins   |-> [k \in 0..7 |-> (3*scale + 1 + b*k) % 64],
   quants |-> [n \in 0..255 |-> (a*n + b*(n \div 16)) % 16]]

Q6(scale, a, b) ==
  [scales |-> [k \in 0..15 |-> ((scale + a*k) % 256) - 128],
   quants |-> [n \in 0..255 |-> ((a*n + b*(n \div 16)) % 64) - 32]]

Q4Largest == [scales |-> [k \in 0..7 |-> 63], mins |-> [k \in 0..7 |-> 63],
              quants |-> [n \in 0..255 |-> 15]]
Q6Lowest  == [scales |-> [k \in 0..15 |-> -128], quants |-> [n \in 0..255 |-> -32]]

Row4(blocks) ==
  [kind |-> "Q4_K", blocks |-> blocks,
   bytes |-> [n \in 0..Q4KTypeSize*Len(blocks)-1 |->
                PackQ4K(blocks[n \div Q4KTypeSize + 1])[n % Q4KTypeSize]]]

Row6(blocks) ==
  [kind |-> "Q6_K", blocks |-> blocks,
   bytes |-> [n \in 0..Q6KTypeSize*Len(blocks)-1 |->
                PackQ6K(blocks[n \div Q6KTypeSize + 1])[n % Q6KTypeSize]]]

MCRows ==
  [r4a |-> Row4(<<Q4(17, 7, 5)>>), r4b |-> Row4(<<Q4(60, 11, 3), Q4Largest>>),
   r6a |-> Row6(<<Q6(9, 37, 11)>>), r6b |-> Row6(<<Q6Lowest, Q6(200, 21, 13)>>)]

(* A block of zeros, one of the largest, quotients that round past 127, a  *)
(* NaN among others, and nothing but a NaN.                                *)
MCActivations ==
  [zero  |-> [zero |-> TRUE,  rounded |-> [n \in 0..255 |-> IF n = 40 THEN NaN ELSE 0]],
   large |-> [zero |-> FALSE, rounded |-> [n \in 0..255 |-> 127]],
   low   |-> [zero |-> FALSE, rounded |-> [n \in 0..255 |-> -128 + (n % 2)]],
   mixed |-> [zero |-> FALSE, rounded |-> [n \in 0..255 |->
                IF n = 77 THEN NaN ELSE ((29*n + 7*(n \div 32)) % 257) - 128]]]

MCNaNAs == {-127, 0, 127}

(* The points between two halves and their neighbours, for every finite    *)
(* half; and numbers too large, too small, infinite and none.              *)
Log(s) == CHOOSE k \in 0..11 : 2^k <= s /\ s < 2^(k + 1)

Between(b) ==
  LET s == MidSignificand(b)
      k == Log(s)
  IN  (MidExponent(b) - 26 + k + 127) * 2^23 + (s - 2^k) * 2^(23 - k)

MCNumbers ==
  {[sign |-> (b \div 2) % 2, bits |-> Between(b) + d] : b \in 0..Infinity16-1, d \in {-1, 0, 1}}
    \cup [sign : {0, 1}, bits : {0, 1, 2^23, Infinity32 - 1, Infinity32,
                                Infinity32 + 1, Infinity32 + 2^22, 143 * 2^23}]

(* All logits of up to four tokens.                                        *)
MCVectors == UNION {[1..n -> {-1, 0, 1, NaN}] : n \in 0..4}
=============================================================================
