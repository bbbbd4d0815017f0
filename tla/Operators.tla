----------------------------- MODULE Operators -----------------------------
(***************************************************************************)
(* The numerical operators in use: a scratch vector that is quantised anew *)
(* before each product (forward.go:43-53, 90-92, 102-115), a cell of a KV  *)
(* cache that is stored and loaded (forward.go:67-88), and the greedy      *)
(* sampler (internal/ops/argmax.go).  They share no state; "use" is the    *)
(* one that a behaviour is about.                                          *)
(***************************************************************************)
EXTENDS Quant, Half, Sequences

CONSTANTS
  NaN,          \* a float that is not a number
  Activations,  \* bound: blocks of 256 activations, by name
  Rows,         \* bound: rows of weights, by name
  MaxBlocks,    \* the blocks of s.q8, the longest view of it
  NaNAs,        \* what a quotient that no int32 holds ends up as
  Numbers,      \* bound: the float32 stored in a cell
  Vectors       \* bound: the logits

(* A block of activations is zero, if no value of it is greater than 0 in  *)
(* magnitude, or has for each value its quotient by the scale, rounded.    *)
Zero == "zero"

(* A row of a file: the bytes of its blocks, one after the other.          *)
PackedRow(row) ==
  \/ /\ row.kind = "Q4_K" /\ row.blocks \in Seq(Q4KBlocks)
     /\ \A b \in 1..Len(row.blocks) :
          slice(row.bytes, Q4KTypeSize*(b - 1), Q4KTypeSize) = PackQ4K(row.blocks[b])
  \/ /\ row.kind = "Q6_K" /\ row.blocks \in Seq(Q6KBlocks)
     /\ \A b \in 1..Len(row.blocks) :
          slice(row.bytes, Q6KTypeSize*(b - 1), Q6KTypeSize) = PackQ6K(row.blocks[b])

ASSUME OperatorsAssumption ==
  /\ MaxBlocks \in Nat \ {0}
  /\ NaNAs \subseteq -127..127
  /\ NaN \notin Int
  /\ \A a \in DOMAIN Activations : \A j \in 0..255 : Activations[a].rounded[j] \in Int \cup {NaN}
  /\ \A r \in DOMAIN Rows : PackedRow(Rows[r])
  /\ Vectors \subseteq Seq(Int \cup {NaN})
  /\ Numbers \subseteq Floats

VARIABLES
  use,      \* "product", "cell" or "argmax"
  q8,       \* s.q8: scales, qs and bsums of MaxBlocks blocks
  written,  \* the blocks last quantised, the view of s.q8 in use
  nanAs,    \* and what their NaNs became
  product,  \* the last product, or decoded row
  number,   \* the float32 stored
  cell,     \* the half
  loaded,   \* the float32 loaded from it
  logits,   \* Argmax: its argument
  i,        \* its loop variable
  best      \* its result so far

productVars == <<q8, written, nanAs, product>>
cellVars    == <<number, cell, loaded>>
argmaxVars  == <<logits, i, best>>
vars        == <<use, productVars, cellVars, argmaxVars>>

None == [op |-> "none"]

Init ==
  /\ q8 = [scales |-> [b \in 0..MaxBlocks-1 |-> Zero],
           qs     |-> [n \in 0..256*MaxBlocks-1 |-> 0],
           bsums  |-> [g \in 0..16*MaxBlocks-1 |-> 0]]
  /\ written = <<>> /\ nanAs = 0 /\ product = None
  /\ cell = None /\ loaded = None
  /\ \/ use = "product" /\ number = None /\ logits = <<>>
     \/ use = "cell" /\ number \in Numbers /\ logits = <<>>
     \/ use = "argmax" /\ number = None /\ logits \in Vectors
  /\ i = 1
  /\ best = IF logits = <<>> THEN -1 ELSE 0

-----------------------------------------------------------------------------
(* Products.                                                               *)

(* The quotient cut to -127..127.  A quotient that no int32 holds (a NaN,  *)
(* or infinite, as for a scale whose reciprocal overflows) is here NaN; the*)
(* platform converts it to some int32 before it is cut.                    *)
clamp(x, nan) ==
  IF x = NaN THEN nan ELSE IF x > 127 THEN 127 ELSE IF x < -127 THEN -127 ELSE x

quants(a, nan) ==
  [j \in 0..255 |-> IF Activations[a].zero THEN 0 ELSE clamp(Activations[a].rounded[j], nan)]

(* Overwrites the first Len(src) blocks of dst, with their sums of 16.     *)
QuantizeQ8K(dst, src, nan) ==
  LET qs == [n \in 0..256*Len(src)-1 |-> quants(src[n \div 256 + 1], nan)[n % 256]] IN
  [scales |-> [b \in 0..MaxBlocks-1 |->
                 IF b >= Len(src) THEN dst.scales[b]
                 ELSE IF Activations[src[b + 1]].zero THEN Zero ELSE src[b + 1]],
   qs     |-> [n \in 0..256*MaxBlocks-1 |-> IF n < 256*Len(src) THEN qs[n] ELSE dst.qs[n]],
   bsums  |-> [g \in 0..16*MaxBlocks-1 |->
                 IF g < 16*Len(src) THEN Total(slice(qs, 16*g, 16), 16) ELSE dst.bsums[g]]]

(* A view of as many blocks as the input has, quantised.                   *)
Quantize(src) ==
  /\ use = "product"
  /\ \E nan \in NaNAs :
       /\ q8' = QuantizeQ8K(q8, src, nan)
       /\ nanAs' = nan
  /\ written' = src
  /\ product' = None
  /\ UNCHANGED <<use, cellVars, argmaxVars>>

(* MatVecQ8K for one row; the lengths must agree.                          *)
MatVecQ8K(r) ==
  /\ use = "product"
  /\ LET blocks == Len(Rows[r].blocks) IN
     product' = [op |-> "dot", row |-> r,
                 result |-> IF blocks # Len(written) THEN "length mismatch"
                            ELSE dotRowQ8K(Rows[r].bytes, Rows[r].kind, q8, blocks)]
  /\ UNCHANGED <<use, q8, written, nanAs, cellVars, argmaxVars>>

(* EmbeddingRow, or a row of MatVecF32.                                    *)
Decode(r) ==
  /\ use = "product"
  /\ product' = [op |-> "decode", row |-> r,
                 result |-> decodeRow(Rows[r].bytes, Rows[r].kind, Len(Rows[r].blocks))]
  /\ UNCHANGED <<use, q8, written, nanAs, cellVars, argmaxVars>>

-----------------------------------------------------------------------------
(* A cell of the KV cache, and Argmax.                                     *)

Store ==
  /\ use = "cell" /\ cell = None
  /\ cell' = F32ToF16(number)
  /\ UNCHANGED <<use, productVars, number, loaded, argmaxVars>>

Load ==
  /\ use = "cell" /\ cell # None
  /\ loaded' = F16ToF32(cell)
  /\ UNCHANGED <<use, productVars, number, cell, argmaxVars>>

(* Mutant: the last of equal logits wins.                                  *)
greater_orEqual(x, y) == x # NaN /\ y # NaN /\ x >= y

(* Go's order of floats.                                                   *)
greater(x, y) == x # NaN /\ y # NaN /\ x > y

(* The code's index n is n + 1 here.                                       *)
Argmax ==
  /\ use = "argmax"
  /\ i < Len(logits)
  /\ best' = IF greater(logits[i + 1], logits[best + 1]) THEN i ELSE best
  /\ i' = i + 1
  /\ UNCHANGED <<use, productVars, cellVars, logits>>

Sources == UNION {[1..n -> DOMAIN Activations] : n \in 1..MaxBlocks}

Next ==
  \/ \E src \in Sources : Quantize(src)
  \/ \E r \in DOMAIN Rows : MatVecQ8K(r) \/ Decode(r)
  \/ Store \/ Load
  \/ Argmax

Spec == Init /\ [][Next]_vars

-----------------------------------------------------------------------------
(* Properties.                                                             *)

(* The weight i of a block of a row, as it was packed.                     *)
Weight(r, block, n) ==
  IF Rows[r].kind = "Q4_K" THEN Q4KWeight(block, n) ELSE Q6KWeight(block, n)

(***************************************************************************)
(* The integer product of a row and a quantised vector is the sum of       *)
(* weight times activation over the weights the row was packed from, with  *)
(* the block's own scale, and a decoded row is those weights: no nibble,   *)
(* scale or minimum is taken from another place, no block sum is left from *)
(* an earlier vector (q4k.go:11-84, q6k.go:11-70, q8k.go:55-103,           *)
(* matvec.go:68-121).                                                      *)
(***************************************************************************)
ProductsMeanWeights ==
  product.op # "none" =>
    LET r == product.row
        blocks == Rows[r].blocks
        weight(b) == [n \in 0..255 |-> Weight(r, blocks[b + 1], n)]
    IN  CASE product.op = "decode" ->
               product.result = [b \in 0..Len(blocks)-1 |-> weight(b)]
          [] product.op = "dot" /\ Len(blocks) # Len(written) ->
               product.result = "length mismatch"
          [] OTHER ->
               \A b \in 0..Len(blocks)-1 :
                 LET a == written[b + 1]
                     x == quants(a, nanAs)
                     w == weight(b)
                     y == product.result[b]
                 IN  /\ y.scale = IF Activations[a].zero THEN Zero ELSE a
                     /\ y.sums.scaled = Total([n \in 0..255 |-> w[n].scaled * x[n]], 256)
                     /\ y.sums.min = Total([n \in 0..255 |-> w[n].min * x[n]], 256)

(***************************************************************************)
(* A stored number is the nearest half, the even one on a tie, with carry  *)
(* into the exponent and to infinity; a NaN stays one; and what is loaded  *)
(* stores as the same half again (f16.go:5-67).                            *)
(***************************************************************************)
HalfNearest ==
  /\ cell # None =>
       /\ cell.sign = number.sign
       /\ IF IsNaN(number, Infinity32) THEN IsNaN(cell, Infinity16) ELSE Nearest(cell, number)
  /\ loaded # None /\ ~IsNaN(cell, Infinity16) => F32ToF16(loaded) = cell

(***************************************************************************)
(* Argmax returns the lowest index of the greatest logit, whatever NaNs    *)
(* follow the first; a NaN in the first place is itself the answer, and no *)
(* logits have none (argmax.go:3-17).                                      *)
(***************************************************************************)
ArgmaxLowest ==
  use = "argmax" /\ i >= Len(logits) =>
    IF logits = <<>> THEN best = -1
    ELSE IF logits[1] = NaN THEN best = 0
    ELSE /\ best \in 0..Len(logits)-1
         /\ logits[best + 1] # NaN
         /\ \A j \in 1..Len(logits) : logits[j] # NaN =>
              /\ logits[j] <= logits[best + 1]
              /\ j <= best => logits[j] < logits[best + 1]
=============================================================================
