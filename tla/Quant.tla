------------------------------- MODULE Quant -------------------------------
(***************************************************************************)
(* The quantised blocks (internal/ops/q4k.go, q6k.go, q8k.go): 256 weights *)
(* packed in the bytes of a Q4_K or Q6_K block, and 256 activations in a   *)
(* Q8_K block, and the two ways a row is multiplied, with dequantised      *)
(* weights and in integers.                                                *)
(*                                                                         *)
(* The integers are exact.  The factors of a block that are floats (d,     *)
(* dmin, and the scale of the activations) stand apart: a weight is the    *)
(* pair of the integers they multiply, and so is a sum of weights.         *)
(* Sequences of the code start at 0, and so do these functions.            *)
(***************************************************************************)
EXTENDS Integers

lo(b) == b % 16
hi(b) == b \div 16
int8(b) == IF b < 128 THEN b ELSE b - 256

(* f[0] + ... + f[n-1].                                                    *)
Total(f, n) ==
  LET sum[k \in 0..n] == IF k = 0 THEN 0 ELSE sum[k - 1] + f[k - 1] IN sum[n]

(* The n elements of f from first on.                                      *)
slice(f, first, n) == [i \in 0..n-1 |-> f[first + i]]

-----------------------------------------------------------------------------
(* Q4_K: d and dmin (4 bytes), eight 6-bit scales and minima (12 bytes),   *)
(* 256 nibbles (128 bytes).                                                *)

(* Mutant: the high bits of a minimum are those of its scale.              *)
q4kScaleMin_sharedHigh(j, q) ==
  IF j < 4
  THEN [scale |-> q[j] % 64, min |-> q[j + 4] % 64]
  ELSE [scale |-> lo(q[j + 4]) + 16 * (q[j - 4] \div 64),
        min   |-> hi(q[j + 4]) + 16 * (q[j - 4] \div 64)]

q4kScaleMin(j, q) ==
  IF j < 4
  THEN [scale |-> q[j] % 64, min |-> q[j + 4] % 64]
  ELSE [scale |-> lo(q[j + 4]) + 16 * (q[j - 4] \div 64),
        min   |-> hi(q[j + 4]) + 16 * (q[j] \div 64)]

(* Weight i is d * scaled - dmin * min.                                    *)
DequantizeQ4KBlock(b) ==
  LET scales == slice(b, 4, 12)
      qs     == slice(b, 16, 128)
  IN  [i \in 0..255 |->
         LET j    == i \div 64
             high == i % 64 >= 32
             sm   == q4kScaleMin(IF high THEN 2*j + 1 ELSE 2*j, scales)
             q    == qs[32*j + (i % 32)]
         IN  [scaled |-> sm.scale * (IF high THEN hi(q) ELSE lo(q)), min |-> sm.min]]

(* The minima are multiplied by sums of 16 activations.                    *)
dotQ4KQ8KBlock(b, q8, bsums) ==
  LET scales == slice(b, 4, 12)
      qs     == slice(b, 16, 128)
      sm(k)  == q4kScaleMin(k, scales)
      dot1(j) == Total([l \in 0..31 |-> lo(qs[32*j + l]) * q8[64*j + l]], 32)
      dot2(j) == Total([l \in 0..31 |-> hi(qs[32*j + l]) * q8[64*j + l + 32]], 32)
  IN  [scaled |-> Total([j \in 0..3 |-> sm(2*j).scale * dot1(j)
                                      + sm(2*j + 1).scale * dot2(j)], 4),
       min    |-> Total([j \in 0..3 |->
                           sm(2*j).min * (bsums[4*j] + bsums[4*j + 1])
                         + sm(2*j + 1).min * (bsums[4*j + 2] + bsums[4*j + 3])], 4)]

-----------------------------------------------------------------------------
(* Q6_K: 256 low nibbles (128 bytes), 256 upper bit pairs (64 bytes),      *)
(* 16 signed scales (16 bytes), d (2 bytes).                               *)

(* Quarter k, element l of a chunk of 128 weights: the quants q1 to q4.    *)
q6kQuant(ql, qh, k, l) ==
  LET low == ql[IF k % 2 = 0 THEN l ELSE l + 32]
  IN  (IF k < 2 THEN lo(low) ELSE hi(low)) + 16 * ((qh[l] \div 4^k) % 4) - 32

(* Weight i is d * scaled.                                                 *)
DequantizeQ6KBlock(b) ==
  [i \in 0..255 |->
     LET chunk == i \div 128
         k     == (i % 128) \div 32
         l     == i % 32
         qlo   == slice(b, 64*chunk, 64)
         qho   == slice(b, 128 + 32*chunk, 32)
         sco   == slice(b, 192 + 8*chunk, 8)
     IN  [scaled |-> int8(sco[l \div 16 + 2*k]) * q6kQuant(qlo, qho, k, l), min |-> 0]]

dotQ6KQ8KBlock(b, q8) ==
  LET term(chunk, l) ==
        LET qlo == slice(b, 64*chunk, 64)
            qho == slice(b, 128 + 32*chunk, 32)
            sco == slice(b, 192 + 8*chunk, 8)
            part(k) == q8[128*chunk + l + 32*k] * int8(sco[l \div 16 + 2*k])
                         * q6kQuant(qlo, qho, k, l)
        IN  part(0) + part(1) + part(2) + part(3)
  IN  [scaled |-> Total([n \in 0..63 |-> term(n \div 32, n % 32)], 64), min |-> 0]

-----------------------------------------------------------------------------
(* A row of blocks times a vector.  Floats are not added up: the result is *)
(* the sequence of what the blocks contribute.                             *)

Q4KTypeSize == 144
Q6KTypeSize == 210

(* dotRowQ8K: x is the Q8_K vector [scales, qs, bsums].                    *)
dotRowQ8K(row, kind, x, blocks) ==
  [b \in 0..blocks-1 |->
     LET q8 == slice(x.qs, 256*b, 256) IN
     [scale |-> x.scales[b],
      sums  |-> IF kind = "Q4_K"
                THEN dotQ4KQ8KBlock(slice(row, Q4KTypeSize*b, Q4KTypeSize), q8,
                                    slice(x.bsums, 16*b, 16))
                ELSE dotQ6KQ8KBlock(slice(row, Q6KTypeSize*b, Q6KTypeSize), q8)]]

(* EmbeddingRow and dotRowF32 decode a row block by block.                 *)
decodeRow(row, kind, blocks) ==
  LET block(b) == IF kind = "Q4_K"
                  THEN DequantizeQ4KBlock(slice(row, Q4KTypeSize*b, Q4KTypeSize))
                  ELSE DequantizeQ6KBlock(slice(row, Q6KTypeSize*b, Q6KTypeSize))
  IN  [b \in 0..blocks-1 |-> block(b)]

-----------------------------------------------------------------------------
(* What a block of a file means: the layout of ggml's writers.  A block    *)
(* has 256 quants; Q4_K a scale and a minimum for each 32 of them, Q6_K a  *)
(* signed scale for each 16.                                               *)

Q4KBlocks == [scales : [0..7 -> 0..63], mins : [0..7 -> 0..63], quants : [0..255 -> 0..15]]
Q6KBlocks == [scales : [0..15 -> -128..127], quants : [0..255 -> -32..31]]

Q4KWeight(w, i) == [scaled |-> w.scales[i \div 32] * w.quants[i], min |-> w.mins[i \div 32]]
Q6KWeight(w, i) == [scaled |-> w.scales[i \div 16] * w.quants[i], min |-> 0]

PackScales(w) ==
  [j \in 0..11 |->
     IF j < 4 THEN w.scales[j] + 64 * (w.scales[j + 4] \div 16)
     ELSE IF j < 8 THEN w.mins[j - 4] + 64 * (w.mins[j] \div 16)
     ELSE (w.scales[j - 4] % 16) + 16 * (w.mins[j - 4] % 16)]

(* The bytes of d and dmin are somebody else's: 255.                       *)
PackQ4K(w) ==
  [n \in 0..Q4KTypeSize-1 |->
     IF n < 4 THEN 255
     ELSE IF n < 16 THEN PackScales(w)[n - 4]
     ELSE LET i == 64 * ((n - 16) \div 32) + ((n - 16) % 32)
          IN  w.quants[i] + 16 * w.quants[i + 32]]

PackQ6K(w) ==
  LET quant(chunk, k, l) == w.quants[128*chunk + 32*k + l] + 32 IN
  [n \in 0..Q6KTypeSize-1 |->
     IF n < 128
     THEN LET chunk == n \div 64
              k == (n % 64) \div 32
          IN  (quant(chunk, k, n % 32) % 16) + 16 * (quant(chunk, k + 2, n % 32) % 16)
     ELSE IF n < 192
     THEN LET chunk == (n - 128) \div 32
              upper(k) == quant(chunk, k, n % 32) \div 16
          IN  upper(0) + 4*upper(1) + 16*upper(2) + 64*upper(3)
     ELSE IF n < 208
     THEN LET scale == w.scales[n - 192] IN IF scale < 0 THEN scale + 256 ELSE scale
     ELSE 255]
=============================================================================
