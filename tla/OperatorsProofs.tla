-------------------------- MODULE OperatorsProofs --------------------------
(***************************************************************************)
(* The sampler for every vector of logits, the layout of the quantised     *)
(* blocks for every block, the products for every row and vector, and the  *)
(* cell of a KV cache for every float32.                                   *)
(*                                                                         *)
(* Total is defined by recursion.  TotalNext unfolds it by a term: that    *)
(* the function Total chooses exists, and is the same for every n, is      *)
(* shown by induction, and what a sum is worth after it.                   *)
(***************************************************************************)
EXTENDS Operators, WellFoundedInduction, TLAPS

-----------------------------------------------------------------------------
(* Argmax.                                                                 *)

(* The loop has found the answer for the first i logits.                   *)
ArgmaxInv ==
  use = "argmax" =>
    /\ logits \in Seq(Int \cup {NaN})
    /\ i \in Nat \ {0}
    /\ logits = <<>> => best = -1
    /\ logits # <<>> =>
         /\ i <= Len(logits)
         /\ best \in 0..i-1
         /\ logits[1] = NaN => best = 0
         /\ logits[1] # NaN =>
              /\ logits[best + 1] # NaN
              /\ \A j \in 1..i : logits[j] # NaN =>
                   /\ logits[j] <= logits[best + 1]
                   /\ j <= best => logits[j] < logits[best + 1]

(* One more logit.                                                         *)
LEMMA ArgmaxStep ==
  ASSUME ArgmaxInv, Argmax
  PROVE  ArgmaxInv'
<1> USE OperatorsAssumption
<1>1. /\ use = "argmax" /\ use' = use /\ logits' = logits /\ i' = i + 1 /\ i < Len(logits)
      /\ best' = IF greater(logits[i + 1], logits[best + 1]) THEN i ELSE best
  BY DEF Argmax
<1>2. /\ logits \in Seq(Int \cup {NaN}) /\ i \in Nat \ {0} /\ Len(logits) \in Nat
      /\ logits # <<>>
  BY <1>1 DEF ArgmaxInv
<1>3. /\ best \in 0..i-1
      /\ logits[1] = NaN => best = 0
  BY <1>1, <1>2 DEF ArgmaxInv
<1>4. /\ i + 1 <= Len(logits)
      /\ \A j \in 1..i+1 : logits[j] \in Int \cup {NaN}
  BY <1>1, <1>2, SMTT(30)
<1>5. best' \in 0..i
  BY <1>1, <1>2, <1>3, SMTT(30)
<1>6. CASE logits[1] = NaN
  <2>1. ~greater(logits[i + 1], logits[best + 1])
    BY <1>3, <1>6, SMTT(30) DEF greater
  <2> QED BY <1>1, <1>2, <1>3, <1>4, <1>5, <1>6, <2>1, SMTT(30) DEF ArgmaxInv
<1>7. CASE logits[1] # NaN
  <2>1. /\ logits[best + 1] # NaN
        /\ \A j \in 1..i : logits[j] # NaN =>
             /\ logits[j] <= logits[best + 1]
             /\ j <= best => logits[j] < logits[best + 1]
    BY <1>1, <1>2, <1>7 DEF ArgmaxInv
  <2>2. logits[best + 1] \in Int
    BY <1>2, <1>3, <1>4, <2>1
  <2>3. /\ logits[best' + 1] # NaN
        /\ \A j \in 1..i+1 : logits[j] # NaN =>
             /\ logits[j] <= logits[best' + 1]
             /\ j <= best' => logits[j] < logits[best' + 1]
    <3>1. CASE greater(logits[i + 1], logits[best + 1])
      <4>1. best' = i /\ logits[i + 1] \in Int /\ logits[i + 1] > logits[best + 1]
        BY <1>1, <1>2, <1>4, <3>1, SMTT(30) DEF greater
      <4>2. ASSUME NEW j \in 1..i, logits[j] # NaN
            PROVE  logits[j] < logits[i + 1]
        <5>1. logits[j] \in Int
          BY <1>4, <1>2, <4>2, SMTT(30)
        <5> QED BY <2>1, <2>2, <4>1, <4>2, <5>1
      <4> QED BY <1>2, <4>1, <4>2, <1>4
    <3>2. CASE ~greater(logits[i + 1], logits[best + 1])
      <4>1. best' = best
        BY <1>1, <3>2
      <4>2. logits[i + 1] # NaN => logits[i + 1] \in Int /\ logits[i + 1] <= logits[best + 1]
        BY <1>2, <1>4, <2>1, <2>2, <3>2, SMTT(30) DEF greater
      <4>3. \A j \in 1..i+1 : j \in 1..i \/ j = i + 1
        BY <1>2, SMTT(30)
      <4> QED BY <1>2, <1>3, <2>1, <4>1, <4>2, <4>3
    <3> QED BY <3>1, <3>2
  <2> QED BY <1>1, <1>2, <1>4, <1>5, <1>7, <2>3, SMTT(30) DEF ArgmaxInv
<1> QED BY <1>6, <1>7

(* For every vector of logits of any length, NaNs included, the greedy     *)
(* sampler returns the lowest index of the greatest logit                  *)
(* (argmax.go:3-17).                                                       *)
THEOREM ArgmaxReturnsLowest == Spec => []ArgmaxLowest
<1>1. Init => ArgmaxInv
  <2> SUFFICES ASSUME Init, use = "argmax" PROVE ArgmaxInv
    BY DEF ArgmaxInv
  <2>1. logits \in Seq(Int \cup {NaN}) /\ i = 1 /\ best = IF logits = <<>> THEN -1 ELSE 0
    BY OperatorsAssumption DEF Init
  <2>2. logits # <<>> => Len(logits) \in Nat /\ Len(logits) >= 1 /\ logits[1] \in Int \cup {NaN}
    BY <2>1
  <2>3. \A j \in 1..i : j = 1
    BY <2>1
  <2> QED BY <2>1, <2>2, <2>3, OperatorsAssumption, SMTT(30) DEF ArgmaxInv
<1>2. ArgmaxInv /\ [Next]_vars => ArgmaxInv'
  <2> SUFFICES ASSUME ArgmaxInv, [Next]_vars PROVE ArgmaxInv'
    OBVIOUS
  <2>1. CASE Argmax
    BY <2>1, ArgmaxStep
  <2>2. CASE \/ \E src \in Sources : Quantize(src)
             \/ \E r \in DOMAIN Rows : MatVecQ8K(r) \/ Decode(r)
             \/ Store \/ Load
    BY <2>2 DEF Quantize, MatVecQ8K, Decode, Store, Load, argmaxVars, ArgmaxInv
  <2>3. CASE UNCHANGED vars
    BY <2>3 DEF vars, argmaxVars, ArgmaxInv
  <2> QED BY <2>1, <2>2, <2>3 DEF Next
<1>3. ArgmaxInv => ArgmaxLowest
  <2> SUFFICES ASSUME ArgmaxInv, use = "argmax", i >= Len(logits), logits # <<>>
               PROVE  IF logits[1] = NaN THEN best = 0
                      ELSE /\ best \in 0..Len(logits)-1
                           /\ logits[best + 1] # NaN
                           /\ \A j \in 1..Len(logits) : logits[j] # NaN =>
                                /\ logits[j] <= logits[best + 1]
                                /\ j <= best => logits[j] < logits[best + 1]
    BY DEF ArgmaxInv, ArgmaxLowest
  <2>1. i = Len(logits)
    BY DEF ArgmaxInv
  <2> QED BY <2>1 DEF ArgmaxInv
<1> QED BY <1>1, <1>2, <1>3, PTL DEF Spec

-----------------------------------------------------------------------------
(* Sums.                                                                   *)

(* A set of numbers that has 0 and with a number the next has them all.    *)
LEMMA Induction ==
  ASSUME NEW S, 0 \in S, \A n \in Nat : n \in S => n + 1 \in S
  PROVE  Nat \subseteq S
<1> DEFINE T == Nat \ S
<1> SUFFICES ASSUME T # {} PROVE FALSE
  OBVIOUS
<1>1. PICK x \in T : \A y \in T : ~ (<<y, x>> \in OpToRel(<, Nat))
  <2>1. T \subseteq Nat
    OBVIOUS
  <2> HIDE DEF T
  <2> QED
    BY <2>1, NatLessThanWellFounded, WFMin
<1>2. x \in Nat /\ x \notin S /\ x - 1 \in Nat /\ x - 1 < x
  <2>1. x \in Nat /\ x \notin S /\ x # 0
    OBVIOUS
  <2> QED
    BY <2>1
<1>3. <<x - 1, x>> \in OpToRel(<, Nat)
  BY <1>2 DEF OpToRel
<1>4. x - 1 \in S
  BY <1>1, <1>2, <1>3
<1>5. (x - 1) + 1 \in S
  BY <1>2, <1>4
<1> QED
  BY <1>2, <1>5

(* The function that Total defines, for some n.                            *)
Sums(sum, f, n) == sum = [k \in 0..n |-> IF k = 0 THEN 0 ELSE sum[k - 1] + f[k - 1]]

(* There is such a function for every n, by induction.                     *)
LEMMA SumsExist ==
  ASSUME NEW f
  PROVE  \A n \in Nat : \E sum : Sums(sum, f, n)
<1> DEFINE S == {n \in Nat : \E sum : Sums(sum, f, n)}
<1>1. 0 \in S
  <2>1. Sums([k \in 0..0 |-> 0], f, 0)
    BY DEF Sums
  <2> QED
    BY <2>1
<1>2. ASSUME NEW n \in Nat, n \in S
      PROVE  n + 1 \in S
  <2>1. PICK g : Sums(g, f, n)
    BY <1>2
  <2> DEFINE h == [k \in 0..n+1 |-> IF k = 0 THEN 0 ELSE g[k - 1] + f[k - 1]]
  <2>2. ASSUME NEW k \in 1..n+1 PROVE h[k - 1] = g[k - 1]
    <3>1. k - 1 \in 0..n /\ k - 1 \in 0..n+1
      OBVIOUS
    <3> QED
      BY <2>1, <3>1 DEF Sums
  <2>3. h = [k \in 0..n+1 |-> IF k = 0 THEN 0 ELSE h[k - 1] + f[k - 1]]
    <3>1. \A k \in 0..n+1 : (IF k = 0 THEN 0 ELSE g[k - 1] + f[k - 1])
                             = (IF k = 0 THEN 0 ELSE h[k - 1] + f[k - 1])
      <4> HIDE DEF h
      <4> QED
        BY <2>2
    <3> QED
      BY <3>1
  <2>4. Sums(h, f, n + 1)
    <3> HIDE DEF h
    <3> QED
      BY <2>3 DEF Sums
  <2> HIDE DEF h
  <2> QED
    BY <2>4
<1> HIDE DEF S
<1>3. Nat \subseteq S
  BY <1>1, <1>2, Induction
<1> QED
  BY <1>3 DEF S

(* Two such functions, a shorter and a longer one, agree where both are.   *)
LEMMA SumsAgree ==
  ASSUME NEW f, NEW n \in Nat, NEW m \in Nat, n <= m, NEW g, NEW h,
         Sums(g, f, n), Sums(h, f, m)
  PROVE  \A k \in 0..n : g[k] = h[k]
<1> DEFINE S == {k \in Nat : k <= n => g[k] = h[k]}
<1>1. 0 \in S
  BY DEF Sums
<1>2. ASSUME NEW k \in Nat, k \in S
      PROVE  k + 1 \in S
  <2> SUFFICES ASSUME k + 1 <= n PROVE g[k + 1] = h[k + 1]
    OBVIOUS
  <2>1. k + 1 \in 0..n /\ k + 1 \in 0..m /\ k + 1 # 0 /\ (k + 1) - 1 = k
    OBVIOUS
  <2>2. g[k + 1] = g[k] + f[k] /\ h[k + 1] = h[k] + f[k]
    BY <2>1 DEF Sums
  <2>3. g[k] = h[k]
    BY <1>2
  <2> QED
    BY <2>2, <2>3
<1> HIDE DEF S
<1>3. Nat \subseteq S
  BY <1>1, <1>2, Induction
<1> QED
  BY <1>3 DEF S

(* What Total sums up, term by term.                                       *)
LEMMA TotalNext ==
  ASSUME NEW f, NEW n \in Nat
  PROVE  Total(f, 0) = 0 /\ Total(f, n + 1) = Total(f, n) + f[n]
<1> DEFINE S(m) == CHOOSE sum : Sums(sum, f, m)
<1>1. \A m \in Nat : Sums(S(m), f, m)
  <2>1. \A m \in Nat : \E sum : Sums(sum, f, m)
    BY SumsExist
  <2> QED
    BY <2>1
<1>2. \A m : Total(f, m) = S(m)[m]
  BY Zenon DEF Total, Sums
<1> HIDE DEF S
<1>3. S(0)[0] = 0
  BY <1>1 DEF Sums
<1>4. S(n + 1)[n + 1] = S(n + 1)[n] + f[n]
  BY <1>1 DEF Sums
<1>5. S(n)[n] = S(n + 1)[n]
  BY <1>1, SumsAgree
<1> QED
  BY <1>2, <1>3, <1>4, <1>5

(* What the lemmas about sums ask of the terms.                            *)
Ints(f, n)            == \A k \in 0..n-1 : f[k] \in Int
Zeros(f, n)           == \A k \in 0..n-1 : f[k] = 0
Same(f, g, n)         == \A k \in 0..n-1 : f[k] = g[k]
Times(f, g, c, n)     == \A k \in 0..n-1 : g[k] = c * f[k]
Plus(f, g, h, n)      == \A k \in 0..n-1 : h[k] = f[k] + g[k]
Chunks(f, t, c, n)    == \A k \in 0..n-1 : t[k] = Total(slice(f, c * k, c), c)
Pairs(f, t, n)        == \A k \in 0..n-1 : t[k] = f[2*k] + f[2*k + 1]
Fours(f, t, n)        == \A k \in 0..n-1 : t[k] = f[4*k] + f[4*k + 1] + f[4*k + 2] + f[4*k + 3]
Factors(f, p, s, c, n) == \A k \in 0..n-1 : f[k] = s[k \div c] * p[k]
Weighed(t, p, s, c, n) == \A k \in 0..n-1 : t[k] = s[k] * Total(slice(p, c * k, c), c)

(* A sum of integers is one.                                               *)
LEMMA TotalInt ==
  ASSUME NEW n \in Nat, NEW f, Ints(f, n)
  PROVE  Total(f, n) \in Int
<1> USE DEF Ints
<1> DEFINE S == {m \in Nat : m <= n => Total(f, m) \in Int}
<1>1. 0 \in S
  BY TotalNext
<1>2. ASSUME NEW m \in Nat, m \in S PROVE m + 1 \in S
  <2> SUFFICES ASSUME m + 1 <= n PROVE Total(f, m + 1) \in Int
    OBVIOUS
  <2>1. Total(f, m) \in Int /\ f[m] \in Int
    BY <1>2
  <2> QED
    BY <2>1, TotalNext
<1> HIDE DEF S
<1>3. n \in S
  BY <1>1, <1>2, Induction
<1> QED
  BY <1>3 DEF S

(* Equal terms have equal sums.                                            *)
LEMMA TotalSame ==
  ASSUME NEW n \in Nat, NEW f, NEW g, Same(f, g, n)
  PROVE  Total(f, n) = Total(g, n)
<1> USE DEF Same
<1> DEFINE S == {m \in Nat : m <= n => Total(f, m) = Total(g, m)}
<1>1. 0 \in S
  BY TotalNext
<1>2. ASSUME NEW m \in Nat, m \in S PROVE m + 1 \in S
  <2> SUFFICES ASSUME m + 1 <= n PROVE Total(f, m + 1) = Total(g, m + 1)
    OBVIOUS
  <2>1. Total(f, m) = Total(g, m) /\ f[m] = g[m]
    BY <1>2
  <2> QED
    BY <2>1, TotalNext
<1> HIDE DEF S
<1>3. n \in S
  BY <1>1, <1>2, Induction
<1> QED
  BY <1>3 DEF S

(* A factor of every term is a factor of the sum.                          *)
LEMMA TotalTimes ==
  ASSUME NEW n \in Nat, NEW f, NEW g, NEW c \in Int,
         Ints(f, n), Times(f, g, c, n)
  PROVE  Total(g, n) = c * Total(f, n)
<1> USE DEF Ints, Times
<1> DEFINE S == {m \in Nat : m <= n => Total(f, m) \in Int /\ Total(g, m) = c * Total(f, m)}
<1>1. 0 \in S
  BY TotalNext
<1>2. ASSUME NEW m \in Nat, m \in S PROVE m + 1 \in S
  <2> SUFFICES ASSUME m + 1 <= n
               PROVE  Total(f, m + 1) \in Int /\ Total(g, m + 1) = c * Total(f, m + 1)
    OBVIOUS
  <2> DEFINE t == Total(f, m)
             x == f[m]
  <2>1. t \in Int /\ Total(g, m) = c * t /\ x \in Int /\ g[m] = c * x
    BY <1>2
  <2>2. Total(f, m + 1) = t + x /\ Total(g, m + 1) = c * t + c * x
    BY <2>1, TotalNext
  <2> HIDE DEF t, x
  <2>3. c * t + c * x = c * (t + x)
    BY <2>1
  <2> QED
    BY <2>1, <2>2, <2>3
<1> HIDE DEF S
<1>3. n \in S
  BY <1>1, <1>2, Induction
<1> QED
  BY <1>3 DEF S

(* A sum of zeros.                                                         *)
LEMMA TotalZero ==
  ASSUME NEW n \in Nat, NEW f, Zeros(f, n)
  PROVE  Total(f, n) = 0
<1> DEFINE S == {m \in Nat : m <= n => Total(f, m) = 0}
<1>1. 0 \in S
  BY TotalNext
<1>2. ASSUME NEW m \in Nat, m \in S PROVE m + 1 \in S
  <2> SUFFICES ASSUME m + 1 <= n PROVE Total(f, m + 1) = 0
    OBVIOUS
  <2>1. Total(f, m) = 0 /\ f[m] = 0
    BY <1>2 DEF Zeros
  <2> QED
    BY <2>1, TotalNext
<1> HIDE DEF S
<1>3. n \in S
  BY <1>1, <1>2, Induction
<1> QED
  BY <1>3 DEF S

(* A sum of sums.                                                          *)
LEMMA TotalPlus ==
  ASSUME NEW n \in Nat, NEW f, NEW g, NEW h,
         Ints(f, n), Ints(g, n), Plus(f, g, h, n)
  PROVE  Total(h, n) = Total(f, n) + Total(g, n)
<1> USE DEF Ints, Plus
<1> DEFINE S == {m \in Nat : m <= n =>
                   /\ Total(f, m) \in Int /\ Total(g, m) \in Int
                   /\ Total(h, m) = Total(f, m) + Total(g, m)}
<1>1. 0 \in S
  BY TotalNext
<1>2. ASSUME NEW m \in Nat, m \in S PROVE m + 1 \in S
  <2> SUFFICES ASSUME m + 1 <= n
               PROVE  /\ Total(f, m + 1) \in Int /\ Total(g, m + 1) \in Int
                      /\ Total(h, m + 1) = Total(f, m + 1) + Total(g, m + 1)
    OBVIOUS
  <2>1. /\ Total(f, m) \in Int /\ Total(g, m) \in Int
        /\ Total(h, m) = Total(f, m) + Total(g, m)
        /\ f[m] \in Int /\ g[m] \in Int /\ h[m] = f[m] + g[m]
    BY <1>2
  <2>2. /\ Total(f, m + 1) = Total(f, m) + f[m] /\ Total(g, m + 1) = Total(g, m) + g[m]
        /\ Total(h, m + 1) = Total(h, m) + h[m]
    BY TotalNext
  <2> QED
    BY <2>1, <2>2
<1> HIDE DEF S
<1>3. n \in S
  BY <1>1, <1>2, Induction
<1> QED
  BY <1>3 DEF S

(* A sum is the sum of its first terms and that of the rest.               *)
LEMMA TotalSplit ==
  ASSUME NEW first \in Nat, NEW n \in Nat, NEW f, Ints(f, first + n)
  PROVE  Total(f, first + n) = Total(f, first) + Total(slice(f, first, n), n)
<1> USE DEF Ints
<1> DEFINE s == slice(f, first, n)
           S == {m \in Nat : m <= n =>
                   /\ Total(s, m) \in Int
                   /\ Total(f, first + m) = Total(f, first) + Total(s, m)}
<1>1. Total(f, first) \in Int
  BY TotalInt
<1>2. \A k \in 0..n-1 : s[k] = f[first + k]
  BY DEF slice
<1> HIDE DEF s
<1>3. 0 \in S
  BY <1>1, TotalNext
<1>4. ASSUME NEW m \in Nat, m \in S PROVE m + 1 \in S
  <2> SUFFICES ASSUME m + 1 <= n
               PROVE  /\ Total(s, m + 1) \in Int
                      /\ Total(f, first + (m + 1)) = Total(f, first) + Total(s, m + 1)
    OBVIOUS
  <2>1. /\ Total(s, m) \in Int /\ Total(f, first + m) = Total(f, first) + Total(s, m)
        /\ s[m] = f[first + m] /\ f[first + m] \in Int
    BY <1>2, <1>4
  <2>2. Total(s, m + 1) = Total(s, m) + s[m]
    BY TotalNext
  <2>3. Total(f, first + (m + 1)) = Total(f, first + m) + f[first + m]
    <3>1. first + m \in Nat /\ first + (m + 1) = (first + m) + 1
      OBVIOUS
    <3>2. Total(f, (first + m) + 1) = Total(f, first + m) + f[first + m]
      BY <3>1, TotalNext
    <3> QED
      BY <3>1, <3>2
  <2> QED
    BY <1>1, <2>1, <2>2, <2>3
<1> HIDE DEF S
<1>5. n \in S
  BY <1>3, <1>4, Induction
<1> QED
  BY <1>5 DEF S, s

(* The terms of a slice.                                                   *)
LEMMA SliceAt ==
  ASSUME NEW f, NEW first, NEW n \in Nat, NEW k \in 0..n-1
  PROVE  slice(f, first, n)[k] = f[first + k]
BY DEF slice

(* A sum is the sum of the sums of its chunks of c terms.                  *)
LEMMA TotalChunks ==
  ASSUME NEW c \in Nat, NEW n \in Nat, NEW f, NEW t, Ints(f, c * n), Chunks(f, t, c, n)
  PROVE  Total(f, c * n) = Total(t, n)
<1> USE DEF Ints, Chunks
<1> DEFINE S == {m \in Nat : m <= n => Total(f, c * m) = Total(t, m)}
<1>2. 0 \in S
  BY TotalNext
<1>3. ASSUME NEW m \in Nat, m \in S PROVE m + 1 \in S
  <2> SUFFICES ASSUME m + 1 <= n PROVE Total(f, c * (m + 1)) = Total(t, m + 1)
    OBVIOUS
  <2>1. Total(f, c * m) = Total(t, m) /\ t[m] = Total(slice(f, c * m, c), c)
    BY <1>3
  <2>2. c * (m + 1) = c * m + c /\ c * m \in Nat
    OBVIOUS
  <2>3. c * (m + 1) <= c * n /\ c * (m + 1) \in Nat /\ c * n \in Nat
    BY SMT
  <2>4. \A k \in 0..c*m+c-1 : f[k] \in Int
    BY <2>2, <2>3
  <2>5. Total(f, c * m + c) = Total(f, c * m) + Total(slice(f, c * m, c), c)
    BY <2>2, <2>4, TotalSplit
  <2> QED
    BY <2>1, <2>2, <2>5, TotalNext
<1> HIDE DEF S
<1>4. n \in S
  BY <1>2, <1>3, Induction
<1> QED
  BY <1>4 DEF S

(* A sum of pairs.                                                         *)
LEMMA TotalPairs ==
  ASSUME NEW n \in Nat, NEW f, NEW t, Ints(f, 2 * n), Pairs(f, t, n)
  PROVE  Total(f, 2 * n) = Total(t, n)
<1> USE DEF Ints, Pairs
<1>1. ASSUME NEW k \in 0..n-1
      PROVE  t[k] = Total(slice(f, 2 * k, 2), 2)
  <2> DEFINE s == slice(f, 2 * k, 2)
  <2>1. s[0] = f[2*k + 0] /\ s[1] = f[2*k + 1]
    BY SliceAt
  <2>2. f[2*k] \in Int /\ f[2*k + 1] \in Int /\ 2*k + 0 = 2*k
    OBVIOUS
  <2> HIDE DEF s
  <2>3. Total(s, 0) = 0 /\ Total(s, 0 + 1) = Total(s, 0) + s[0]
        /\ Total(s, 1 + 1) = Total(s, 1) + s[1]
    BY TotalNext
  <2>4. Total(s, 2) = s[0] + s[1]
    BY <2>1, <2>2, <2>3
  <2> QED
    BY <2>1, <2>2, <2>4 DEF s
<1>2. 2 \in Nat /\ Chunks(f, t, 2, n)
  BY <1>1 DEF Chunks
<1> QED
  BY <1>2, TotalChunks

(* A sum of sums of four.                                                  *)
LEMMA TotalFours ==
  ASSUME NEW n \in Nat, NEW f, NEW t, Ints(f, 4 * n), Fours(f, t, n)
  PROVE  Total(f, 4 * n) = Total(t, n)
<1> USE DEF Ints, Fours
<1>1. ASSUME NEW k \in 0..n-1
      PROVE  t[k] = Total(slice(f, 4 * k, 4), 4)
  <2> DEFINE s == slice(f, 4 * k, 4)
  <2>1. s[0] = f[4*k + 0] /\ s[1] = f[4*k + 1] /\ s[2] = f[4*k + 2] /\ s[3] = f[4*k + 3]
    BY SliceAt
  <2>2. /\ f[4*k] \in Int /\ f[4*k + 1] \in Int /\ f[4*k + 2] \in Int /\ f[4*k + 3] \in Int
        /\ 4*k + 0 = 4*k
    OBVIOUS
  <2> HIDE DEF s
  <2>3. /\ Total(s, 0) = 0 /\ Total(s, 0 + 1) = Total(s, 0) + s[0]
        /\ Total(s, 1 + 1) = Total(s, 1) + s[1]
        /\ Total(s, 2 + 1) = Total(s, 2) + s[2]
        /\ Total(s, 3 + 1) = Total(s, 3) + s[3]
    BY TotalNext
  <2>4. Total(s, 4) = s[0] + s[1] + s[2] + s[3]
    BY <2>1, <2>2, <2>3
  <2> QED
    BY <2>1, <2>2, <2>4 DEF s
<1>2. 4 \in Nat /\ Chunks(f, t, 4, n)
  BY <1>1 DEF Chunks
<1> QED
  BY <1>2, TotalChunks

(* A factor that is the same for c terms at a time is taken out of them.   *)
LEMMA TotalFactors ==
  ASSUME NEW c \in Nat \ {0}, NEW m \in Nat,
         NEW p, NEW s, NEW f, NEW t, Ints(p, c * m), Ints(s, m),
         Factors(f, p, s, c, c * m), Weighed(t, p, s, c, m)
  PROVE  /\ Total(f, c * m) = Total(t, m)
         /\ Ints(t, m)
<1> USE DEF Ints, Factors, Weighed
<1>1. ASSUME NEW g \in 0..m-1
      PROVE  t[g] = Total(slice(f, c * g, c), c) /\ t[g] \in Int
  <2> DEFINE a == slice(p, c * g, c)
             b == slice(f, c * g, c)
  <2>1. ASSUME NEW l \in 0..c-1 PROVE a[l] \in Int /\ b[l] = s[g] * a[l]
    <3> DEFINE n == c * g + l
    <3>1. n \in 0..c*m-1
      <4>1. c * (g + 1) <= c * m /\ c * (g + 1) = c * g + c /\ c * g \in Nat
        BY SMT
      <4> QED
        BY <4>1
    <3>2. n \div c = g
      BY SMT
    <3>3. a[l] = p[n] /\ b[l] = f[n]
      BY SliceAt
    <3> HIDE DEF n
    <3> QED
      BY <3>1, <3>2, <3>3
  <2> HIDE DEF a, b
  <2>2. c \in Nat /\ s[g] \in Int /\ Ints(a, c) /\ Times(a, b, s[g], c)
    BY <2>1 DEF Times
  <2>3. Total(b, c) = s[g] * Total(a, c) /\ Total(a, c) \in Int
    BY <2>2, TotalTimes, TotalInt
  <2> QED
    BY <2>2, <2>3 DEF a, b
<1>2. \A n \in 0..c*m-1 : f[n] \in Int
  <2> TAKE n \in 0..c*m-1
  <2> DEFINE d == n \div c
             r == n % c
  <2>1. d \in Int /\ r \in 0..c-1 /\ n = c * d + r
    OBVIOUS
  <2>2. d \in 0..m-1
    <3> HIDE DEF d, r
    <3>1. ASSUME d < 0 PROVE FALSE
      <4>1. c * (d + 1) <= 0 /\ c * (d + 1) = c * d + c
        BY <2>1, <3>1
      <4> QED
        BY <2>1, <4>1
    <3>2. ASSUME d >= m PROVE FALSE
      <4>1. c * d >= c * m
        BY <2>1, <3>2
      <4> QED
        BY <2>1, <4>1
    <3> QED
      BY <2>1, <3>1, <3>2
  <2>3. f[n] = s[d] * p[n] /\ s[d] \in Int /\ p[n] \in Int
    BY <2>2
  <2> HIDE DEF d
  <2> QED
    BY <2>3
<1>3. c \in Nat /\ Ints(f, c * m) /\ Chunks(f, t, c, m)
  BY <1>1, <1>2 DEF Chunks
<1> HIDE DEF Ints, Factors, Weighed
<1>4. Total(f, c * m) = Total(t, m)
  BY <1>3, TotalChunks
<1>5. Ints(t, m)
  BY <1>1 DEF Ints
<1> QED
  BY <1>4, <1>5

-----------------------------------------------------------------------------
(* The layout of the quantised blocks.                                     *)

(* Two nibbles of a byte.                                                  *)
LEMMA Nibbles ==
  ASSUME NEW x \in 0..15, NEW y \in 0..15
  PROVE  x + 16 * y \in 0..255 /\ lo(x + 16 * y) = x /\ hi(x + 16 * y) = y
<1> QED
  BY SMT DEF lo, hi

(* Six bits and two more.                                                  *)
LEMMA SixAndTwo ==
  ASSUME NEW x \in 0..63, NEW y \in 0..63
  PROVE  (x + 64 * (y \div 16)) % 64 = x /\ (x + 64 * (y \div 16)) \div 64 = y \div 16
<1>1. y \div 16 \in 0..3
  BY SMT
<1> DEFINE z == y \div 16
<1> HIDE DEF z
<1>2. z \in 0..3 => (x + 64 * z) % 64 = x /\ (x + 64 * z) \div 64 = z
  BY SMT
<1> QED
  BY <1>1, <1>2 DEF z

(* The scale and the minimum of a group of 32 weights are read back.       *)
LEMMA ScalesUnpack ==
  ASSUME NEW w \in Q4KBlocks, NEW j \in 0..7
  PROVE  q4kScaleMin(j, PackScales(w)) = [scale |-> w.scales[j], min |-> w.mins[j]]
<1> DEFINE q == PackScales(w)
<1>1. \A k \in 0..7 : w.scales[k] \in 0..63 /\ w.mins[k] \in 0..63
  BY DEF Q4KBlocks
<1>2. \A k \in 0..3 :
        /\ q[k] = w.scales[k] + 64 * (w.scales[k + 4] \div 16)
        /\ q[k + 4] = w.mins[k] + 64 * (w.mins[k + 4] \div 16)
        /\ q[k + 8] = (w.scales[k + 4] % 16) + 16 * (w.mins[k + 4] % 16)
  <2> TAKE k \in 0..3
  <2>1. k \in 0..11 /\ k + 4 \in 0..11 /\ k + 8 \in 0..11
    OBVIOUS
  <2>2. k < 4 /\ ~(k + 4 < 4) /\ k + 4 < 8 /\ ~(k + 8 < 4) /\ ~(k + 8 < 8)
        /\ (k + 4) - 4 = k /\ (k + 8) - 4 = k + 4
    OBVIOUS
  <2> QED
    BY <2>1, <2>2 DEF PackScales
<1> HIDE DEF q
<1>3. CASE j < 4
  <2>1. j \in 0..3 /\ j + 4 \in 0..7
    BY <1>3
  <2>2. q[j] % 64 = w.scales[j] /\ q[j + 4] % 64 = w.mins[j]
    <3>1. /\ q[j] = w.scales[j] + 64 * (w.scales[j + 4] \div 16)
          /\ q[j + 4] = w.mins[j] + 64 * (w.mins[j + 4] \div 16)
      BY <1>2, <2>1
    <3>2. /\ w.scales[j] \in 0..63 /\ w.scales[j + 4] \in 0..63
          /\ w.mins[j] \in 0..63 /\ w.mins[j + 4] \in 0..63
      BY <1>1, <2>1
    <3> QED
      BY <3>1, <3>2, SixAndTwo
  <2> QED
    BY <1>3, <2>2 DEF q4kScaleMin, q
<1>4. CASE ~(j < 4)
  <2> DEFINE k == j - 4
             s == w.scales[j]
             m == w.mins[j]
  <2>1. k \in 0..3 /\ k + 4 = j /\ j + 4 = k + 8
    BY <1>4
  <2>2. s \in 0..63 /\ m \in 0..63
    BY <1>1
  <2>3. /\ q[k] \div 64 = s \div 16
        /\ q[j] \div 64 = m \div 16
        /\ q[j + 4] = (s % 16) + 16 * (m % 16)
    <3>1. /\ q[k] = w.scales[k] + 64 * (s \div 16)
          /\ q[j] = w.mins[k] + 64 * (m \div 16)
          /\ q[j + 4] = (s % 16) + 16 * (m % 16)
      BY <1>2, <2>1
    <3>2. w.scales[k] \in 0..63 /\ w.mins[k] \in 0..63
      BY <1>1, <2>1
    <3> QED
      BY <2>2, <3>1, <3>2, SixAndTwo
  <2>4. lo(q[j + 4]) = s % 16 /\ hi(q[j + 4]) = m % 16
    <3>1. s % 16 \in 0..15 /\ m % 16 \in 0..15
      BY <2>2
    <3> QED
      BY <2>3, <3>1, Nibbles
  <2> HIDE DEF s, m
  <2>5. (s % 16) + 16 * (s \div 16) = s /\ (m % 16) + 16 * (m \div 16) = m
    BY <2>2
  <2>6. q4kScaleMin(j, q) = [scale |-> s, min |-> m]
    BY <1>4, <2>3, <2>4, <2>5 DEF q4kScaleMin, k
  <2> QED
    BY <2>6 DEF s, m, q
<1> QED
  BY <1>3, <1>4

(* The parts of a Q4_K block: its scales are the bytes from 4 on, the      *)
(* nibbles of byte 16 + 32*j + l the weights 64*j + l and 64*j + l + 32.   *)
LEMMA Q4KParts ==
  ASSUME NEW w \in Q4KBlocks
  PROVE  LET b == PackQ4K(w)
         IN  /\ slice(b, 4, 12) = PackScales(w)
             /\ \A j \in 0..3, l \in 0..31 :
                  /\ lo(slice(b, 16, 128)[32*j + l]) = w.quants[64*j + l]
                  /\ hi(slice(b, 16, 128)[32*j + l]) = w.quants[64*j + l + 32]
<1> DEFINE b  == PackQ4K(w)
           qs == slice(b, 16, 128)
<1>1. slice(b, 4, 12) = PackScales(w)
  <2>1. ASSUME NEW k \in 0..11 PROVE b[4 + k] = PackScales(w)[k]
    <3>1. 4 + k \in 0..Q4KTypeSize-1 /\ ~(4 + k < 4) /\ 4 + k < 16 /\ (4 + k) - 4 = k
      BY DEF Q4KTypeSize
    <3> QED
      BY <3>1 DEF PackQ4K
  <2>2. PackScales(w) = [k \in 0..11 |-> PackScales(w)[k]]
    BY DEF PackScales
  <2> HIDE DEF b
  <2> QED
    BY <2>1, <2>2 DEF slice
<1>2. ASSUME NEW j \in 0..3, NEW l \in 0..31
      PROVE  lo(qs[32*j + l]) = w.quants[64*j + l] /\ hi(qs[32*j + l]) = w.quants[64*j + l + 32]
  <2> DEFINE k == 32 * j + l
             x == 64 * j + l
  <2>1. k \in 0..127 /\ k \div 32 = j /\ k % 32 = l /\ x \in 0..223
    BY SMT
  <2>2. qs[k] = b[16 + k]
    BY <2>1 DEF slice
  <2>3. b[16 + k] = w.quants[x] + 16 * w.quants[x + 32]
    <3>1. 16 + k \in 0..Q4KTypeSize-1 /\ ~(16 + k < 4) /\ ~(16 + k < 16) /\ (16 + k) - 16 = k
      BY <2>1 DEF Q4KTypeSize
    <3> HIDE DEF k
    <3> QED
      BY <2>1, <3>1 DEF PackQ4K
  <2>4. w.quants[x] \in 0..15 /\ w.quants[x + 32] \in 0..15
    <3>1. x \in 0..255 /\ x + 32 \in 0..255 /\ w.quants \in [0..255 -> 0..15]
      BY <2>1, SMTT(30) DEF Q4KBlocks
    <3> HIDE DEF x
    <3> QED
      BY <3>1, ZenonT(30)
  <2> QED
    BY <2>2, <2>3, <2>4, Nibbles
<1> QED
  BY <1>1, <1>2

(* A Q4_K block, whatever its 272 numbers, decodes to the weights it was   *)
(* packed from (q4k.go:11-52).                                             *)
THEOREM Q4KBlockDecodes ==
  ASSUME NEW w \in Q4KBlocks
  PROVE  DequantizeQ4KBlock(PackQ4K(w)) = [n \in 0..255 |-> Q4KWeight(w, n)]
<1> DEFINE b  == PackQ4K(w)
           sc == slice(b, 4, 12)
           qs == slice(b, 16, 128)
<1>1. sc = PackScales(w)
  BY Q4KParts
<1>2. ASSUME NEW n \in 0..255
      PROVE  /\ n % 64 >= 32 => hi(qs[32 * (n \div 64) + (n % 32)]) = w.quants[n]
             /\ ~(n % 64 >= 32) => lo(qs[32 * (n \div 64) + (n % 32)]) = w.quants[n]
  <2> DEFINE j == n \div 64
             l == n % 32
  <2>1. j \in 0..3 /\ l \in 0..31 /\ n = IF n % 64 >= 32 THEN 64*j + l + 32 ELSE 64*j + l
    BY SMT
  <2>2. \A d \in 0..3, e \in 0..31 : lo(qs[32*d + e]) = w.quants[64*d + e]
                                  /\ hi(qs[32*d + e]) = w.quants[64*d + e + 32]
    BY Q4KParts
  <2> HIDE DEF j, l, qs
  <2>3. lo(qs[32*j + l]) = w.quants[64*j + l] /\ hi(qs[32*j + l]) = w.quants[64*j + l + 32]
    BY <2>1, <2>2
  <2>4. /\ n % 64 >= 32 => hi(qs[32*j + l]) = w.quants[n]
        /\ ~(n % 64 >= 32) => lo(qs[32*j + l]) = w.quants[n]
    BY <2>1, <2>3
  <2> QED
    BY <2>4 DEF j, l
<1>3. ASSUME NEW n \in 0..255
      PROVE  LET g == IF n % 64 >= 32 THEN 2 * (n \div 64) + 1 ELSE 2 * (n \div 64)
             IN  g = n \div 32 /\ g \in 0..7
  BY SMT
<1> HIDE DEF qs, sc
<1>4. ASSUME NEW n \in 0..255
      PROVE  LET j == n \div 64
                 high == n % 64 >= 32
                 sm == q4kScaleMin(IF high THEN 2*j + 1 ELSE 2*j, sc)
                 q == qs[32*j + (n % 32)]
             IN  [scaled |-> sm.scale * (IF high THEN hi(q) ELSE lo(q)), min |-> sm.min]
                 = Q4KWeight(w, n)
  <2>1. q4kScaleMin(n \div 32, sc) = [scale |-> w.scales[n \div 32], min |-> w.mins[n \div 32]]
    BY <1>1, <1>3, ScalesUnpack
  <2> QED
    BY <1>2, <1>3, <2>1 DEF Q4KWeight
<1> QED
  BY <1>4, ZenonT(30) DEF DequantizeQ4KBlock, qs, sc, b

(* The sums of 16 that go with 256 activations.                            *)
Sums16(bsums, q) == \A g \in 0..15 : bsums[g] = Total(slice(q, 16*g, 16), 16)

(* The sums of weight times activation.                                    *)
Q4KSums(w, q) ==
  [scaled |-> Total([n \in 0..255 |-> Q4KWeight(w, n).scaled * q[n]], 256),
   min    |-> Total([n \in 0..255 |-> Q4KWeight(w, n).min * q[n]], 256)]

(* The integer product of a Q4_K block and 256 activations, of which bsums *)
(* are the sums of 16, is the sum of weight times activation, for the      *)
(* scaled part and for the minima (q4k.go:54-84).                          *)
THEOREM Q4KBlockProduct ==
  ASSUME NEW w \in Q4KBlocks, NEW q, Ints(q, 256), NEW bsums, Sums16(bsums, q)
  PROVE  dotQ4KQ8KBlock(PackQ4K(w), q, bsums) = Q4KSums(w, q)
<1> DEFINE b     == PackQ4K(w)
           sc    == slice(b, 4, 12)
           qs    == slice(b, 16, 128)
           sm(k) == q4kScaleMin(k, sc)
           dot1(j) == Total([l \in 0..31 |-> lo(qs[32*j + l]) * q[64*j + l]], 32)
           dot2(j) == Total([l \in 0..31 |-> hi(qs[32*j + l]) * q[64*j + l + 32]], 32)
           ds == [j \in 0..3 |-> sm(2*j).scale * dot1(j) + sm(2*j + 1).scale * dot2(j)]
           dm == [j \in 0..3 |->
                    sm(2*j).min * (bsums[4*j] + bsums[4*j + 1])
                  + sm(2*j + 1).min * (bsums[4*j + 2] + bsums[4*j + 3])]
           P == [n \in 0..255 |-> w.quants[n] * q[n]]
           F == [n \in 0..255 |-> Q4KWeight(w, n).scaled * q[n]]
           M == [n \in 0..255 |-> Q4KWeight(w, n).min * q[n]]
<1>0. /\ \A n \in 0..255 : q[n] \in Int
      /\ \A g \in 0..15 : bsums[g] = Total(slice(q, 16*g, 16), 16)
  BY DEF Ints, Sums16
<1> USE <1>0
<1>1. dotQ4KQ8KBlock(b, q, bsums) = [scaled |-> Total(ds, 4), min |-> Total(dm, 4)]
  BY Zenon DEF dotQ4KQ8KBlock
<1>2. /\ \A g \in 0..7 : w.scales[g] \in Int /\ w.mins[g] \in Int
      /\ \A n \in 0..255 : w.quants[n] \in Int
  <2>1. /\ w.scales \in [0..7 -> 0..63] /\ w.mins \in [0..7 -> 0..63]
        /\ w.quants \in [0..255 -> 0..15]
    BY DEF Q4KBlocks
  <2> DEFINE sc1 == w.scales
             mn1 == w.mins
             qu1 == w.quants
  <2> HIDE DEF sc1, mn1, qu1
  <2>2. sc1 \in [0..7 -> 0..63] /\ mn1 \in [0..7 -> 0..63] /\ qu1 \in [0..255 -> 0..15]
    BY <2>1 DEF sc1, mn1, qu1
  <2>3. ASSUME NEW g \in 0..7 PROVE sc1[g] \in Int /\ mn1[g] \in Int
    BY <2>2
  <2>4. ASSUME NEW n \in 0..255 PROVE qu1[n] \in Int
    BY <2>2, SMTT(30)
  <2> QED
    BY <2>3, <2>4 DEF sc1, mn1, qu1
<1>3. \A g \in 0..7 : sm(g).scale = w.scales[g] /\ sm(g).min = w.mins[g]
  <2>1. sc = PackScales(w)
    BY Q4KParts
  <2>2. \A g \in 0..7 : sm(g) = [scale |-> w.scales[g], min |-> w.mins[g]]
    BY <2>1, ScalesUnpack
  <2> HIDE DEF sm
  <2> QED
    BY <2>2
<1>4. ASSUME NEW n \in 0..255
      PROVE  P[n] \in Int /\ P[n] = w.quants[n] * q[n]
  <2>1. w.quants[n] \in Int /\ q[n] \in Int
    BY <1>2
  <2>2. P[n] = w.quants[n] * q[n]
    OBVIOUS
  <2> HIDE DEF P
  <2> QED
    BY <2>1, <2>2
<1>5. /\ \A n \in 0..255 : F[n] = w.scales[n \div 32] * P[n]
      /\ \A n \in 0..255 : M[n] = w.mins[n \div 32] * q[n]
  <2>1. ASSUME NEW n \in 0..255
        PROVE  F[n] = w.scales[n \div 32] * P[n] /\ M[n] = w.mins[n \div 32] * q[n]
    <3> DEFINE c == w.scales[n \div 32]
               x == w.quants[n]
               y == q[n]
    <3>1. F[n] = (c * x) * y /\ M[n] = w.mins[n \div 32] * y /\ P[n] = x * y
      BY DEF Q4KWeight
    <3>2. n \div 32 \in 0..7
      BY SMT
    <3>3. c \in Int /\ x \in Int /\ y \in Int
      BY <1>2, <3>2
    <3> HIDE DEF c, x, y, F, M, P
    <3>4. (c * x) * y = c * (x * y)
      BY <3>3
    <3> QED
      BY <3>1, <3>4 DEF c, y
  <2> QED
    BY <2>1
<1>6. ASSUME NEW j \in 0..3
      PROVE  /\ dot1(j) = Total(slice(P, 32*(2*j), 32), 32)
             /\ dot2(j) = Total(slice(P, 32*(2*j + 1), 32), 32)
  <2> DEFINE f == [l \in 0..31 |-> lo(qs[32*j + l]) * q[64*j + l]]
             g == [l \in 0..31 |-> hi(qs[32*j + l]) * q[64*j + l + 32]]
             u == slice(P, 32*(2*j), 32)
             v == slice(P, 32*(2*j + 1), 32)
  <2>1. ASSUME NEW l \in 0..32-1 PROVE f[l] = u[l] /\ g[l] = v[l]
    <3>1. /\ 32*(2*j) + l = 64*j + l /\ 32*(2*j + 1) + l = 64*j + l + 32
          /\ 64*j + l \in 0..255 /\ 64*j + l + 32 \in 0..255 /\ l \in 0..31
      OBVIOUS
    <3>2. /\ lo(qs[32*j + l]) = w.quants[64*j + l]
          /\ hi(qs[32*j + l]) = w.quants[64*j + l + 32]
      BY <3>1, Q4KParts, ZenonT(30)
    <3>3. f[l] = w.quants[64*j + l] * q[64*j + l]
          /\ g[l] = w.quants[64*j + l + 32] * q[64*j + l + 32]
      <4> HIDE DEF qs
      <4> QED
        BY <3>1, <3>2
    <3>4. u[l] = P[32*(2*j) + l] /\ v[l] = P[32*(2*j + 1) + l]
      <4> HIDE DEF P
      <4> QED
        BY SliceAt
    <3> HIDE DEF f, g, u, v, P
    <3> QED
      BY <1>4, <3>1, <3>3, <3>4, ZenonT(30)
  <2> HIDE DEF f, g, u, v
  <2>2. Same(f, u, 32) /\ Same(g, v, 32) /\ 32 \in Nat
    BY <2>1 DEF Same
  <2>3. Total(f, 32) = Total(u, 32) /\ Total(g, 32) = Total(v, 32)
    BY <2>2, TotalSame
  <2> QED
    BY <2>3 DEF f, g, u, v
<1> HIDE DEF P, F, M, sm, dot1, dot2
<1>7. Total(F, 256) = Total(ds, 4)
  <2> DEFINE t == [g \in 0..7 |-> w.scales[g] * Total(slice(P, 32 * g, 32), 32)]
  <2>1. \A g \in 0..8-1 : t[g] = w.scales[g] * Total(slice(P, 32 * g, 32), 32)
    OBVIOUS
  <2> HIDE DEF t
  <2>2. Total(F, 32 * 8) = Total(t, 8) /\ Ints(t, 8)
    <3> DEFINE s == w.scales
    <3>1. /\ Ints(P, 32 * 8) /\ Factors(F, P, s, 32, 32 * 8) /\ Ints(s, 8)
          /\ Weighed(t, P, s, 32, 8)
      <4> HIDE <1>0
      <4>0. \A n \in 0..32*8-1 : n \in 0..255
        OBVIOUS
      <4>1. Ints(P, 32 * 8)
        <5>1. \A n \in 0..32*8-1 : P[n] \in Int
          BY <1>4, <4>0, Zenon
        <5> QED
          BY <5>1, Zenon DEF Ints
      <4>2. Factors(F, P, s, 32, 32 * 8)
        <5>1. ASSUME NEW n \in 0..32*8-1 PROVE F[n] = s[n \div 32] * P[n]
          BY <1>5, <4>0, Zenon
        <5> QED
          BY <5>1 DEF Factors
      <4>3. Ints(s, 8)
        BY <1>2 DEF Ints
      <4>4. Weighed(t, P, s, 32, 8)
        BY <2>1 DEF Weighed
      <4> QED
        BY <4>1, <4>2, <4>3, <4>4
    <3>2. 32 \in Nat \ {0} /\ 8 \in Nat
      OBVIOUS
    <3> HIDE DEF s
    <3> QED
      BY <3>1, <3>2, TotalFactors
  <2>3. ASSUME NEW j \in 0..4-1 PROVE ds[j] = t[2*j] + t[2*j + 1]
    <3>1. 2*j \in 0..7 /\ 2*j + 1 \in 0..7 /\ 2*j \in 0..8-1 /\ 2*j + 1 \in 0..8-1 /\ j \in 0..3
      OBVIOUS
    <3>2. /\ t[2*j] = w.scales[2*j] * dot1(j)
          /\ t[2*j + 1] = w.scales[2*j + 1] * dot2(j)
      BY <1>6, <2>1, <3>1
    <3>3. sm(2*j).scale = w.scales[2*j] /\ sm(2*j + 1).scale = w.scales[2*j + 1]
      BY <1>3, <3>1
    <3> QED
      BY <3>1, <3>2, <3>3
  <2> HIDE DEF ds
  <2>4. Pairs(t, ds, 4) /\ Ints(t, 2 * 4) /\ 4 \in Nat
    BY <2>2, <2>3 DEF Pairs, Ints
  <2>5. Total(t, 2 * 4) = Total(ds, 4)
    BY <2>4, TotalPairs
  <2>6. 2 * 4 = 8 /\ 32 * 8 = 256
    OBVIOUS
  <2> QED
    BY <2>2, <2>5, <2>6
<1>8. Total(M, 256) = Total(dm, 4)
  <2> DEFINE s == [g \in 0..15 |-> w.mins[g \div 2]]
             t == [g \in 0..15 |-> s[g] * bsums[g]]
  <2>1. \A g \in 0..16-1 : s[g] = w.mins[g \div 2] /\ s[g] \in Int
    <3>1. \A g \in 0..15 : g \div 2 \in 0..7
      BY SMT
    <3> QED
      BY <1>2, <3>1
  <2>2. \A g \in 0..16-1 : t[g] = s[g] * bsums[g] /\ t[g] = s[g] * Total(slice(q, 16 * g, 16), 16)
    OBVIOUS
  <2>3. \A n \in 0..16*16-1 : M[n] = s[n \div 16] * q[n] /\ q[n] \in Int
    <3> TAKE n \in 0..16*16-1
    <3>1. n \in 0..255 /\ n \div 16 \in 0..16-1 /\ (n \div 16) \div 2 = n \div 32
      BY SMT
    <3> HIDE DEF s
    <3> QED
      BY <1>5, <2>1, <3>1, ZenonT(30)
  <2> HIDE DEF s, t
  <2>4. Total(M, 16 * 16) = Total(t, 16) /\ Ints(t, 16)
    <3>1. /\ Ints(q, 16 * 16) /\ Factors(M, q, s, 16, 16 * 16) /\ Ints(s, 16)
          /\ Weighed(t, q, s, 16, 16)
      BY <2>1, <2>2, <2>3 DEF Ints, Factors, Weighed
    <3>2. 16 \in Nat \ {0} /\ 16 \in Nat
      OBVIOUS
    <3> QED
      BY <3>1, <3>2, TotalFactors
  <2>5. \A g \in 0..16-1 : bsums[g] \in Int
    <3> TAKE g \in 0..16-1
    <3> DEFINE p == slice(q, 16*g, 16)
    <3>1. \A k \in 0..16-1 : p[k] \in Int
      <4> TAKE k \in 0..16-1
      <4>1. p[k] = q[16*g + k] /\ 16*g + k \in 0..255
        BY SliceAt
      <4> HIDE DEF p
      <4> QED
        BY <4>1
    <3>2. bsums[g] = Total(p, 16)
      OBVIOUS
    <3> HIDE DEF p
    <3>3. Ints(p, 16) /\ 16 \in Nat
      BY <3>1 DEF Ints
    <3> QED
      BY <3>2, <3>3, TotalInt
  <2>6. ASSUME NEW j \in 0..4-1
        PROVE  dm[j] = t[4*j] + t[4*j + 1] + t[4*j + 2] + t[4*j + 3]
    <3>1. /\ 4*j \in 0..16-1 /\ 4*j + 1 \in 0..16-1 /\ 4*j + 2 \in 0..16-1 /\ 4*j + 3 \in 0..16-1
          /\ (4*j) \div 2 = 2*j /\ (4*j + 1) \div 2 = 2*j
          /\ (4*j + 2) \div 2 = 2*j + 1 /\ (4*j + 3) \div 2 = 2*j + 1
          /\ 2*j \in 0..7 /\ 2*j + 1 \in 0..7 /\ j \in 0..3
      BY SMT
    <3> DEFINE x == w.mins[2*j]
               y == w.mins[2*j + 1]
               b0 == bsums[4*j]
               b1 == bsums[4*j + 1]
               b2 == bsums[4*j + 2]
               b3 == bsums[4*j + 3]
    <3>2. b0 \in Int /\ b1 \in Int /\ b2 \in Int /\ b3 \in Int /\ x \in Int /\ y \in Int
      BY <1>2, <2>5, <3>1
    <3>3. /\ t[4*j] = x * b0 /\ t[4*j + 1] = x * b1
          /\ t[4*j + 2] = y * b2 /\ t[4*j + 3] = y * b3
      BY <2>1, <2>2, <3>1
    <3>4. dm[j] = sm(2*j).min * (b0 + b1) + sm(2*j + 1).min * (b2 + b3)
      BY <3>1
    <3>5. sm(2*j).min = x /\ sm(2*j + 1).min = y
      BY <1>3, <3>1
    <3> HIDE DEF x, y, b0, b1, b2, b3, dm
    <3>6. x * (b0 + b1) = x * b0 + x * b1 /\ y * (b2 + b3) = y * b2 + y * b3
      BY <3>2
    <3>7. x * b0 \in Int /\ x * b1 \in Int /\ y * b2 \in Int /\ y * b3 \in Int
      BY <3>2
    <3> QED
      BY <3>3, <3>4, <3>5, <3>6, <3>7
  <2> HIDE DEF dm
  <2>7. Fours(t, dm, 4) /\ Ints(t, 4 * 4) /\ 4 \in Nat
    BY <2>4, <2>6 DEF Fours, Ints
  <2>8. Total(t, 4 * 4) = Total(dm, 4)
    BY <2>7, TotalFours
  <2>9. 4 * 4 = 16 /\ 16 * 16 = 256
    OBVIOUS
  <2> QED
    BY <2>4, <2>8, <2>9
<1> HIDE DEF ds, dm, b
<1>9. dotQ4KQ8KBlock(b, q, bsums) = [scaled |-> Total(F, 256), min |-> Total(M, 256)]
  BY <1>1, <1>7, <1>8
<1> QED
  BY <1>9, Zenon DEF b, F, M, Q4KSums

(* Four pairs of bits of a byte.                                           *)
LEMMA BitPairs ==
  ASSUME NEW f \in [0..3 -> 0..3], NEW k \in 0..3
  PROVE  ((f[0] + 4*f[1] + 16*f[2] + 64*f[3]) \div 4^k) % 4 = f[k]
<1> DEFINE x == f[0]
           y == f[1]
           z == f[2]
           u == f[3]
           b == x + 4*y + 16*z + 64*u
<1>1. x \in 0..3 /\ y \in 0..3 /\ z \in 0..3 /\ u \in 0..3
  OBVIOUS
<1>2. 4^0 = 1 /\ 4^1 = 4 /\ 4^2 = 16 /\ 4^3 = 64
  OBVIOUS
<1>3. k = 0 \/ k = 1 \/ k = 2 \/ k = 3
  OBVIOUS
<1> HIDE DEF x, y, z, u
<1>4. (b \div 1) % 4 = x
  BY <1>1, SMT
<1>5. (b \div 4) % 4 = y
  BY <1>1, SMT
<1>6. (b \div 16) % 4 = z
  BY <1>1, SMT
<1>7. (b \div 64) % 4 = u
  BY <1>1, SMT
<1> HIDE DEF b
<1>8. CASE k = 0
  BY <1>2, <1>4, <1>8 DEF x, y, z, u, b
<1>9. CASE k = 1
  BY <1>2, <1>5, <1>9 DEF x, y, z, u, b
<1>10. CASE k = 2
  BY <1>2, <1>6, <1>10 DEF x, y, z, u, b
<1>11. CASE k = 3
  BY <1>2, <1>7, <1>11 DEF x, y, z, u, b
<1> QED
  BY <1>3, <1>8, <1>9, <1>10, <1>11

(* The parts of a Q6_K block: the quant that the code puts together from a *)
(* nibble and a pair of bits, and the scale of a group of 16 weights.      *)
LEMMA Q6KParts ==
  ASSUME NEW w \in Q6KBlocks
  PROVE  LET b == PackQ6K(w) IN
         \A c \in 0..1, k \in 0..3, l \in 0..31 :
           /\ q6kQuant(slice(b, 64*c, 64), slice(b, 128 + 32*c, 32), k, l)
                = w.quants[128*c + 32*k + l]
           /\ int8(slice(b, 192 + 8*c, 8)[l \div 16 + 2*k]) = w.scales[8*c + (l \div 16 + 2*k)]
<1> DEFINE b == PackQ6K(w)
           quant(c, k, l) == w.quants[128*c + 32*k + l] + 32
           up(c, l) == [k \in 0..3 |-> quant(c, k, l) \div 16]
<1>1. ASSUME NEW c \in 0..1, NEW k \in 0..3, NEW l \in 0..31
      PROVE  quant(c, k, l) \in 0..63
  <2>1. 128*c + 32*k + l \in 0..255
    BY SMT
  <2> DEFINE x == 128*c + 32*k + l
  <2> HIDE DEF x
  <2>2. x \in 0..255 => w.quants[x] + 32 \in 0..63
    <3>1. w.quants \in [0..255 -> -32..31]
      BY DEF Q6KBlocks
    <3>2. x \in 0..255 => w.quants[x] \in -32..31
      BY <3>1, ZenonT(30)
    <3> QED
      BY <3>2
  <2> QED
    BY <2>1, <2>2 DEF x
<1>2. ASSUME NEW c \in 0..1, NEW k \in 0..1, NEW l \in 0..31
      PROVE  b[64*c + 32*k + l] = (quant(c, k, l) % 16) + 16 * (quant(c, k + 2, l) % 16)
  <2> DEFINE n == 64*c + 32*k + l
  <2>1. n \in 0..127 /\ n \div 64 = c /\ (n % 64) \div 32 = k /\ n % 32 = l
    BY SMT
  <2> HIDE DEF n
  <2>2. n \in 0..Q6KTypeSize-1 /\ n < 128
    BY <2>1 DEF Q6KTypeSize
  <2>3. b[n] = (quant(n \div 64, (n % 64) \div 32, n % 32) % 16)
               + 16 * (quant(n \div 64, (n % 64) \div 32 + 2, n % 32) % 16)
    BY <2>2 DEF PackQ6K
  <2> QED
    BY <2>1, <2>3 DEF n
<1>3. ASSUME NEW c \in 0..1, NEW l \in 0..31
      PROVE  b[128 + 32*c + l] = up(c, l)[0] + 4*up(c, l)[1] + 16*up(c, l)[2] + 64*up(c, l)[3]
  <2> DEFINE n == 128 + 32*c + l
  <2>1. n \in 128..191 /\ (n - 128) \div 32 = c /\ n % 32 = l
    BY SMT
  <2> HIDE DEF n
  <2>2. n \in 0..Q6KTypeSize-1 /\ ~(n < 128) /\ n < 192
    BY <2>1 DEF Q6KTypeSize
  <2>3. b[n] = (quant((n - 128) \div 32, 0, n % 32) \div 16)
               + 4 * (quant((n - 128) \div 32, 1, n % 32) \div 16)
               + 16 * (quant((n - 128) \div 32, 2, n % 32) \div 16)
               + 64 * (quant((n - 128) \div 32, 3, n % 32) \div 16)
    BY <2>2 DEF PackQ6K
  <2> QED
    BY <2>1, <2>3 DEF n
<1>4. ASSUME NEW g \in 0..15
      PROVE  int8(b[192 + g]) = w.scales[g]
  <2> DEFINE n == 192 + g
             s == w.scales[g]
  <2>1. n \in 0..Q6KTypeSize-1 /\ ~(n < 128) /\ ~(n < 192) /\ n < 208 /\ n - 192 = g
    BY DEF Q6KTypeSize
  <2>2. s \in -128..127
    BY SMTT(30) DEF Q6KBlocks
  <2>3. b[n] = IF s < 0 THEN s + 256 ELSE s
    <3> HIDE DEF n
    <3> QED
      BY <2>1 DEF PackQ6K
  <2> HIDE DEF s, b
  <2>4. int8(b[n]) = s
    BY <2>2, <2>3 DEF int8
  <2> QED
    BY <2>4 DEF s
<1> HIDE DEF b
<1>5. ASSUME NEW c \in 0..1, NEW k \in 0..3, NEW l \in 0..31
      PROVE  q6kQuant(slice(b, 64*c, 64), slice(b, 128 + 32*c, 32), k, l)
             = w.quants[128*c + 32*k + l]
  <2> DEFINE ql == slice(b, 64*c, 64)
             qh == slice(b, 128 + 32*c, 32)
             m  == k % 2
             low == ql[IF k % 2 = 0 THEN l ELSE l + 32]
             v  == quant(c, k, l)
  <2>1. m \in 0..1 /\ m + 2 \in 0..3 /\ k = (IF k < 2 THEN m ELSE m + 2)
        /\ 32*m + l = (IF k % 2 = 0 THEN l ELSE l + 32)
        /\ 32*m + l \in 0..63
    BY SMT
  <2>2. low = b[64*c + 32*m + l]
    <3>1. ql[32*m + l] = b[64*c + (32*m + l)]
      BY <2>1 DEF slice
    <3>2. 64*c + (32*m + l) = 64*c + 32*m + l
      BY <2>1
    <3> QED
      BY <2>1, <3>1, <3>2
  <2>3. b[64*c + 32*m + l] = (quant(c, m, l) % 16) + 16 * (quant(c, m + 2, l) % 16)
    BY <1>2, <2>1
  <2>4. (IF k < 2 THEN lo(low) ELSE hi(low)) = v % 16
    <3>1. quant(c, m, l) \in 0..63 /\ quant(c, m + 2, l) \in 0..63
      <4>1. m \in 0..3
        BY <2>1
      <4> QED
        BY <1>1, <2>1, <4>1, ZenonT(30)
    <3> DEFINE x == quant(c, m, l) % 16
               y == quant(c, m + 2, l) % 16
    <3>2. x \in 0..15 /\ y \in 0..15
      BY <3>1
    <3>3. lo(low) = x /\ hi(low) = y
      BY <2>2, <2>3, <3>2, Nibbles
    <3> QED
      BY <2>1, <3>3
  <2>5. (qh[l] \div 4^k) % 4 = v \div 16
    <3>1. qh[l] = b[128 + 32*c + l]
      BY DEF slice
    <3>2. \A x \in 0..3 : quant(c, x, l) \in 0..63
      BY <1>1, ZenonT(30)
    <3>3. up(c, l) \in [0..3 -> 0..3]
      BY <3>2
    <3>4. up(c, l)[k] = v \div 16
      OBVIOUS
    <3>5. qh[l] = up(c, l)[0] + 4*up(c, l)[1] + 16*up(c, l)[2] + 64*up(c, l)[3]
      BY <1>3, <3>1, SMTT(30)
    <3> DEFINE f == up(c, l)
               u == qh[l]
               half == v \div 16
    <3>6. f \in [0..3 -> 0..3] /\ f[k] = half
          /\ u = f[0] + 4*f[1] + 16*f[2] + 64*f[3]
      BY <3>3, <3>4, <3>5
    <3> HIDE DEF f, u, half
    <3>7. (u \div 4^k) % 4 = half
      BY <3>6, BitPairs
    <3> QED
      BY <3>7 DEF u, half
  <2>6. v \in 0..63 /\ v = w.quants[128*c + 32*k + l] + 32
    BY <1>1, ZenonT(30)
  <2>7. q6kQuant(ql, qh, k, l) = (v % 16) + 16 * (v \div 16) - 32
    BY <2>4, <2>5 DEF q6kQuant
  <2> HIDE DEF v, ql, qh
  <2>8. w.quants[128*c + 32*k + l] \in Int
    <3> DEFINE e == 128*c + 32*k + l
               A == -32..31
    <3>1. e \in 0..255 /\ A \subseteq Int
      OBVIOUS
    <3>2. w.quants \in [0..255 -> A]
      BY DEF Q6KBlocks
    <3> HIDE DEF A, e
    <3>3. w.quants[e] \in Int
      BY <3>1, <3>2
    <3> QED
      BY <3>3 DEF e
  <2>9. q6kQuant(ql, qh, k, l) = w.quants[128*c + 32*k + l]
    BY <2>6, <2>7, <2>8
  <2> QED
    BY <2>9 DEF ql, qh
<1>6. ASSUME NEW c \in 0..1, NEW k \in 0..3, NEW l \in 0..31
      PROVE  int8(slice(b, 192 + 8*c, 8)[l \div 16 + 2*k]) = w.scales[8*c + (l \div 16 + 2*k)]
  <2> DEFINE g == l \div 16 + 2*k
             sco == slice(b, 192 + 8*c, 8)
  <2>1. g \in 0..7 /\ 8*c + g \in 0..15
    BY SMT
  <2> HIDE DEF g
  <2>2. sco[g] = b[192 + (8*c + g)]
    <3>1. sco[g] = b[(192 + 8*c) + g] /\ (192 + 8*c) + g = 192 + (8*c + g)
      BY <2>1 DEF slice
    <3> QED
      BY <3>1
  <2>3. int8(sco[g]) = w.scales[8*c + g]
    BY <1>4, <2>1, <2>2
  <2> QED
    BY <2>3 DEF g
<1> QED
  BY <1>5, <1>6 DEF b

(* A Q6_K block, whatever its 272 numbers, decodes to the weights it was   *)
(* packed from (q6k.go:11-41).                                             *)
THEOREM Q6KBlockDecodes ==
  ASSUME NEW w \in Q6KBlocks
  PROVE  DequantizeQ6KBlock(PackQ6K(w)) = [n \in 0..255 |-> Q6KWeight(w, n)]
<1> DEFINE b == PackQ6K(w)
<1>1. ASSUME NEW n \in 0..255
      PROVE  LET c   == n \div 128
                 k   == (n % 128) \div 32
                 l   == n % 32
                 qlo == slice(b, 64*c, 64)
                 qho == slice(b, 128 + 32*c, 32)
                 sco == slice(b, 192 + 8*c, 8)
             IN  [scaled |-> int8(sco[l \div 16 + 2*k]) * q6kQuant(qlo, qho, k, l), min |-> 0]
                 = Q6KWeight(w, n)
  <2> DEFINE c == n \div 128
             k == (n % 128) \div 32
             l == n % 32
  <2>1. c \in 0..1 /\ k \in 0..3 /\ l \in 0..31 /\ 128*c + 32*k + l = n
        /\ 8*c + (l \div 16 + 2*k) = n \div 16
    BY SMT
  <2> HIDE DEF b, c, k, l
  <2>2. /\ int8(slice(b, 192 + 8*c, 8)[l \div 16 + 2*k]) = w.scales[n \div 16]
        /\ q6kQuant(slice(b, 64*c, 64), slice(b, 128 + 32*c, 32), k, l) = w.quants[n]
    BY <2>1, Q6KParts, SMTT(30) DEF b
  <2> QED
    BY <2>2 DEF Q6KWeight, c, k, l
<1> HIDE DEF b
<1> QED
  BY <1>1, ZenonT(30) DEF DequantizeQ6KBlock, b

(* The sums of weight times activation; there are no minima.               *)
Q6KSums(w, q) ==
  [scaled |-> Total([n \in 0..255 |-> Q6KWeight(w, n).scaled * q[n]], 256), min |-> 0]

(* The numbers of a Q6_K block.                                            *)
LEMMA Q6KInts ==
  ASSUME NEW w \in Q6KBlocks, NEW n \in 0..255
  PROVE  w.quants[n] \in Int /\ w.scales[n \div 16] \in Int
<1> DEFINE u == w.quants
           s == w.scales
           g == n \div 16
           A == -32..31
           B == -128..127
<1>1. u \in [0..255 -> A] /\ s \in [0..15 -> B]
  BY DEF Q6KBlocks
<1>2. g \in 0..15
  BY SMT
<1>3. A \subseteq Int /\ B \subseteq Int
  OBVIOUS
<1> HIDE DEF u, s, g, A, B
<1>4. u[n] \in A /\ s[g] \in B
  BY <1>1, <1>2
<1>5. u[n] \in Int /\ s[g] \in Int
  BY <1>3, <1>4
<1> QED
  BY <1>5 DEF u, s, g

(* The integer product of a Q6_K block and 256 activations is the sum of   *)
(* weight times activation (q6k.go:43-70).                                 *)
THEOREM Q6KBlockProduct ==
  ASSUME NEW w \in Q6KBlocks, NEW q, Ints(q, 256)
  PROVE  dotQ6KQ8KBlock(PackQ6K(w), q) = Q6KSums(w, q)
<1> DEFINE b == PackQ6K(w)
           part(c, l, k) == q[128*c + l + 32*k] * int8(slice(b, 192 + 8*c, 8)[l \div 16 + 2*k])
                              * q6kQuant(slice(b, 64*c, 64), slice(b, 128 + 32*c, 32), k, l)
           term(c, l) == part(c, l, 0) + part(c, l, 1) + part(c, l, 2) + part(c, l, 3)
           T == [n \in 0..63 |-> term(n \div 32, n % 32)]
           F == [n \in 0..255 |-> Q6KWeight(w, n).scaled * q[n]]
           u == [g \in 0..7 |-> Total(slice(F, 32 * g, 32), 32)]
           v == [c \in 0..1 |-> Total(slice(T, 32 * c, 32), 32)]
<1>0. \A n \in 0..255 : q[n] \in Int
  BY SMTT(30) DEF Ints
<1> USE <1>0
<1>1. dotQ6KQ8KBlock(b, q) = [scaled |-> Total(T, 64), min |-> 0]
  BY Zenon DEF dotQ6KQ8KBlock
<1>2. ASSUME NEW c \in 0..1, NEW l \in 0..31, NEW k \in 0..3
      PROVE  128*c + 32*k + l \in 0..255 /\ part(c, l, k) = F[128*c + 32*k + l]
  <2> DEFINE n == 128*c + 32*k + l
             x == w.quants[n]
             y == q[n]
             s == w.scales[n \div 16]
  <2>1. n \in 0..255 /\ n \div 16 \in 0..15 /\ 8*c + (l \div 16 + 2*k) = n \div 16
        /\ 128*c + l + 32*k = n
    BY SMT
  <2>2. part(c, l, k) = (y * s) * x
    <3> DEFINE e == int8(slice(b, 192 + 8*c, 8)[l \div 16 + 2*k])
               z == q6kQuant(slice(b, 64*c, 64), slice(b, 128 + 32*c, 32), k, l)
    <3>1. z = w.quants[128*c + 32*k + l] /\ e = w.scales[8*c + (l \div 16 + 2*k)]
      <4>1. \A d \in 0..1, j \in 0..3, m \in 0..31 :
              /\ q6kQuant(slice(b, 64*d, 64), slice(b, 128 + 32*d, 32), j, m)
                   = w.quants[128*d + 32*j + m]
              /\ int8(slice(b, 192 + 8*d, 8)[m \div 16 + 2*j]) = w.scales[8*d + (m \div 16 + 2*j)]
        BY Q6KParts, SMTT(30)
      <4> HIDE DEF b
      <4> QED
        BY <4>1
    <3>2. z = x /\ e = s
      BY <2>1, <3>1
    <3>3. part(c, l, k) = (q[128*c + l + 32*k] * e) * z
      OBVIOUS
    <3> HIDE DEF e, z, n
    <3> QED
      BY <2>1, <3>2, <3>3
  <2>3. x \in Int /\ y \in Int /\ s \in Int
    <3> HIDE DEF n
    <3> QED
      BY <2>1, Q6KInts, ZenonT(30)
  <2>4. F[n] = (s * x) * y
    <3> HIDE DEF n
    <3> QED
      BY <2>1 DEF Q6KWeight
  <2> HIDE DEF x, y, s, F, part
  <2>5. (y * s) * x = (s * x) * y
    BY <2>3
  <2> QED
    BY <2>1, <2>2, <2>4, <2>5
<1>3. Ints(F, 256)
  <2>1. ASSUME NEW n \in 0..256-1 PROVE F[n] \in Int
    <3> DEFINE x == w.quants[n]
               y == q[n]
               s == w.scales[n \div 16]
    <3>1. n \in 0..255 /\ n \div 16 \in 0..15
      BY SMT
    <3>3. x \in Int /\ y \in Int /\ s \in Int
      BY <3>1, Q6KInts
    <3>4. F[n] = (s * x) * y
      BY <3>1 DEF Q6KWeight
    <3> HIDE DEF x, y, s, F
    <3> QED
      BY <3>3, <3>4
  <2> QED
    BY <2>1 DEF Ints
<1>4. ASSUME NEW n \in 0..63 PROVE T[n] = term(n \div 32, n % 32)
  OBVIOUS
<1> HIDE DEF F, T, part
<1>5. Ints(T, 64)
  <2>1. ASSUME NEW n \in 0..64-1 PROVE T[n] \in Int
    <3> DEFINE c == n \div 32
               l == n % 32
    <3>1. n \in 0..63 /\ c \in 0..1 /\ l \in 0..31
      BY SMT
    <3> HIDE DEF c, l
    <3>2. \A k \in 0..3 : part(c, l, k) \in Int
      BY <1>2, <1>3, <3>1, SMTT(30) DEF Ints
    <3>3. T[n] = term(c, l)
      BY <1>4, <3>1 DEF c, l
    <3> QED
      BY <3>2, <3>3
  <2> QED
    BY <2>1 DEF Ints
<1>6. ASSUME NEW c \in 0..2-1
      PROVE  v[c] = u[4*c] + u[4*c + 1] + u[4*c + 2] + u[4*c + 3]
  <2> DEFINE X(k) == slice(F, 32 * (4*c + k), 32)
             Y == slice(T, 32 * c, 32)
             f1 == [l \in 0..31 |-> X(0)[l] + X(1)[l]]
             f2 == [l \in 0..31 |-> f1[l] + X(2)[l]]
  <2>1. ASSUME NEW l \in 0..31, NEW k \in 0..3
        PROVE  X(k)[l] = part(c, l, k) /\ X(k)[l] \in Int
    <3>1. X(k)[l] = F[32 * (4*c + k) + l]
      BY SliceAt
    <3>2. 32 * (4*c + k) + l = 128*c + 32*k + l /\ c \in 0..1
      OBVIOUS
    <3>3. 128*c + 32*k + l \in 0..255 /\ part(c, l, k) = F[128*c + 32*k + l]
      BY <1>2, <3>2
    <3> HIDE DEF X
    <3> QED
      BY <1>3, <3>1, <3>2, <3>3 DEF Ints
  <2>2. ASSUME NEW l \in 0..31
        PROVE  Y[l] = X(0)[l] + X(1)[l] + X(2)[l] + X(3)[l]
    <3>1. Y[l] = T[32 * c + l]
      BY SliceAt
    <3>2. 32 * c + l \in 0..63 /\ (32 * c + l) \div 32 = c /\ (32 * c + l) % 32 = l
      BY SMT
    <3>3. Y[l] = term(c, l)
      BY <1>4, <3>1, <3>2
    <3> HIDE DEF X, Y
    <3> QED
      BY <2>1, <3>3
  <2> HIDE DEF X, Y
  <2>3. /\ Ints(X(0), 32) /\ Ints(X(1), 32) /\ Ints(X(2), 32) /\ Ints(X(3), 32)
        /\ Ints(f1, 32) /\ Ints(f2, 32)
    BY <2>1 DEF Ints
  <2>4. Plus(X(0), X(1), f1, 32) /\ Plus(f1, X(2), f2, 32) /\ Plus(f2, X(3), Y, 32)
    BY <2>2, SMTT(30) DEF Plus
  <2> HIDE DEF f1, f2
  <2>5. 32 \in Nat
    OBVIOUS
  <2>6. /\ Total(f1, 32) = Total(X(0), 32) + Total(X(1), 32)
        /\ Total(f2, 32) = Total(f1, 32) + Total(X(2), 32)
        /\ Total(Y, 32) = Total(f2, 32) + Total(X(3), 32)
    BY <2>3, <2>4, <2>5, TotalPlus
  <2>7. Total(Y, 32) = Total(X(0), 32) + Total(X(1), 32) + Total(X(2), 32) + Total(X(3), 32)
    BY <2>6
  <2>8. v[c] = Total(Y, 32) /\ \A k \in 0..3 : u[4*c + k] = Total(X(k), 32)
    BY DEF X, Y
  <2>9. 4*c + 0 = 4*c
    OBVIOUS
  <2> QED
    BY <2>7, <2>8, <2>9
<1>7. Chunks(T, v, 32, 2) /\ Chunks(F, u, 32, 8)
  BY DEF Chunks
<1>8. Ints(u, 8)
  <2>1. ASSUME NEW g \in 0..8-1 PROVE u[g] \in Int
    <3> DEFINE p == slice(F, 32 * g, 32)
    <3>1. ASSUME NEW k \in 0..32-1 PROVE p[k] \in Int
      <4>1. p[k] = F[32 * g + k] /\ 32 * g + k \in 0..256-1
        BY SliceAt
      <4> HIDE DEF p
      <4> QED
        BY <1>3, <4>1 DEF Ints
    <3>2. u[g] = Total(p, 32)
      OBVIOUS
    <3> HIDE DEF p
    <3>3. Ints(p, 32) /\ 32 \in Nat
      BY <3>1 DEF Ints
    <3> QED
      BY <3>2, <3>3, TotalInt
  <2> QED
    BY <2>1 DEF Ints
<1>9. Fours(u, v, 2)
  BY <1>6 DEF Fours
<1> HIDE DEF u, v, b
<1>10. 32 * 2 = 64 /\ 32 * 8 = 256 /\ 4 * 2 = 8 /\ 2 \in Nat /\ 8 \in Nat /\ 32 \in Nat
  OBVIOUS
<1>11. Ints(T, 32 * 2) /\ Ints(F, 32 * 8) /\ Ints(u, 4 * 2)
  BY <1>3, <1>5, <1>8, <1>10
<1>12. Total(T, 32 * 2) = Total(v, 2) /\ Total(F, 32 * 8) = Total(u, 8)
  BY <1>7, <1>10, <1>11, TotalChunks
<1>13. Total(u, 4 * 2) = Total(v, 2)
  BY <1>9, <1>10, <1>11, TotalFours
<1>14. dotQ6KQ8KBlock(b, q) = [scaled |-> Total(F, 256), min |-> 0]
  BY <1>1, <1>10, <1>12, <1>13
<1> QED
  BY <1>14, Zenon DEF b, F, Q6KSums

-----------------------------------------------------------------------------
(* Rows and vectors.                                                       *)

(* Block b of x is the activations a, quantised: the scale, the quotients, *)
(* and the sums of 16 of them.                                             *)
QuantisedBlock(x, b, a, nan) ==
  /\ x.scales[b] = IF Activations[a].zero THEN Zero ELSE a
  /\ \A n \in 0..255 : x.qs[256*b + n] = quants(a, nan)[n]
  /\ \A g \in 0..15 : x.bsums[16*b + g] = Total(slice(quants(a, nan), 16*g, 16), 16)

(* And so are the first Len(src) blocks of x the activations src.          *)
Quantised(x, src, nan) ==
  \A b \in 0..Len(src)-1 : QuantisedBlock(x, b, src[b + 1], nan)

(* What QuantizeQ8K leaves in the blocks it overwrites, whatever was there *)
(* (q8k.go:55-103).                                                        *)
LEMMA QuantizeQ8KMeans ==
  ASSUME NEW dst, NEW src, Len(src) \in 0..MaxBlocks, NEW nan
  PROVE  Quantised(QuantizeQ8K(dst, src, nan), src, nan)
<1> DEFINE L  == Len(src)
           qs == [n \in 0..256*L-1 |-> quants(src[n \div 256 + 1], nan)[n % 256]]
           x  == QuantizeQ8K(dst, src, nan)
<1>0. MaxBlocks \in Nat
  BY OperatorsAssumption
<1>1. ASSUME NEW b \in 0..L-1, NEW n \in 0..255
      PROVE  /\ 256*b + n \in 0..256*L-1 /\ 256*b + n \in 0..256*MaxBlocks-1
             /\ qs[256*b + n] = quants(src[b + 1], nan)[n]
  <2>1. 256*b + n \in 0..256*L-1 /\ 256*b + n \in 0..256*MaxBlocks-1
    BY <1>0
  <2>2. (256*b + n) \div 256 = b /\ (256*b + n) % 256 = n
    BY SMT
  <2> DEFINE m == 256*b + n
  <2> HIDE DEF m
  <2>3. m \in 0..256*L-1 /\ m \div 256 = b /\ m % 256 = n
    BY <2>1, <2>2 DEF m
  <2>4. qs[m] = quants(src[m \div 256 + 1], nan)[m % 256]
    BY <2>3
  <2> HIDE DEF qs
  <2>5. qs[m] = quants(src[b + 1], nan)[n]
    BY <2>3, <2>4
  <2> QED
    BY <2>1, <2>5 DEF m
<1> HIDE DEF qs
<1>2. ASSUME NEW b \in 0..L-1
      PROVE  x.scales[b] = IF Activations[src[b + 1]].zero THEN Zero ELSE src[b + 1]
  <2>1. b \in 0..MaxBlocks-1 /\ ~(b >= L)
    BY <1>0
  <2>2. x.scales = [d \in 0..MaxBlocks-1 |->
                      IF d >= L THEN dst.scales[d]
                      ELSE IF Activations[src[d + 1]].zero THEN Zero ELSE src[d + 1]]
    BY DEF QuantizeQ8K, qs
  <2> HIDE DEF x, L
  <2> QED
    BY <2>1, <2>2
<1>3. ASSUME NEW b \in 0..L-1, NEW n \in 0..255
      PROVE  x.qs[256*b + n] = quants(src[b + 1], nan)[n]
  <2> DEFINE m == 256*b + n
  <2>0. m \in 0..256*L-1 /\ m \in 0..256*MaxBlocks-1 /\ qs[m] = quants(src[b + 1], nan)[n]
    BY <1>1, ZenonT(30)
  <2>1. m \in 0..256*MaxBlocks-1 /\ m < 256*L /\ qs[m] = quants(src[b + 1], nan)[n]
    <3> HIDE DEF m
    <3> QED
      BY <2>0
  <2>2. x.qs = [d \in 0..256*MaxBlocks-1 |-> IF d < 256*L THEN qs[d] ELSE dst.qs[d]]
    BY DEF QuantizeQ8K, qs
  <2> HIDE DEF x, L, m
  <2>3. x.qs[m] = quants(src[b + 1], nan)[n]
    BY <2>1, <2>2
  <2> QED
    BY <2>3 DEF m
<1>4. ASSUME NEW b \in 0..L-1, NEW g \in 0..15
      PROVE  x.bsums[16*b + g] = Total(slice(quants(src[b + 1], nan), 16*g, 16), 16)
  <2> DEFINE m == 16*b + g
             f == slice(qs, 16*m, 16)
             h == slice(quants(src[b + 1], nan), 16*g, 16)
  <2>1. m \in 0..16*MaxBlocks-1 /\ m < 16*L
    BY <1>0
  <2>2. x.bsums = [d \in 0..16*MaxBlocks-1 |->
                     IF d < 16*L THEN Total(slice(qs, 16*d, 16), 16) ELSE dst.bsums[d]]
    BY DEF QuantizeQ8K, qs
  <2>3. x.bsums[m] = Total(f, 16)
    <3> HIDE DEF x, L, m
    <3> QED
      BY <2>1, <2>2
  <2>4. ASSUME NEW k \in 0..16-1 PROVE f[k] = h[k]
    <3>1. f[k] = qs[16*m + k] /\ h[k] = quants(src[b + 1], nan)[16*g + k]
      <4> HIDE DEF m
      <4>1. f[k] = qs[16*m + k]
        BY SliceAt
      <4>2. h[k] = quants(src[b + 1], nan)[16*g + k]
        BY DEF slice
      <4> QED
        BY <4>1, <4>2
    <3> HIDE DEF f, h
    <3> DEFINE e == 16*g + k
    <3>2. 16*m + k = 256*b + e /\ e \in 0..255
      <4>1. b \in Int /\ g \in 0..15 /\ k \in 0..15
        OBVIOUS
      <4>2. 16*m + k = 256*b + e
        BY <4>1
      <4>3. e \in 0..255
        BY <4>1
      <4> QED
        BY <4>2, <4>3
    <3> HIDE DEF e
    <3>3. qs[256*b + e] = quants(src[b + 1], nan)[e]
      <4>1. e \in 0..255
        BY <3>2
      <4> QED
        BY <1>1, <4>1, ZenonT(30)
    <3>4. f[k] = qs[16*m + k] /\ h[k] = quants(src[b + 1], nan)[e]
      BY <3>1 DEF e
    <3> HIDE DEF m
    <3> QED
      BY <3>2, <3>3, <3>4
  <2> HIDE DEF f, h, m
  <2>5. Same(f, h, 16) /\ 16 \in Nat
    BY <2>4 DEF Same
  <2>6. Total(f, 16) = Total(h, 16)
    BY <2>5, TotalSame
  <2> QED
    BY <2>3, <2>6 DEF h, m
<1> HIDE DEF x
<1>5. Quantised(x, src, nan)
  BY <1>2, <1>3, <1>4, ZenonT(30) DEF Quantised, QuantisedBlock
<1> QED
  BY <1>5 DEF x

(* The quotients, cut, are integers.                                       *)
LEMMA QuantsAreInts ==
  ASSUME NEW a \in DOMAIN Activations, NEW nan \in Int
  PROVE  Ints(quants(a, nan), 256)
<1> SUFFICES ASSUME NEW n \in 0..255 PROVE quants(a, nan)[n] \in Int
  BY SMTT(30) DEF Ints
<1> DEFINE y == Activations[a].rounded[n]
<1>1. y \in Int \cup {NaN}
  BY OperatorsAssumption
<1>2. quants(a, nan)[n] = IF Activations[a].zero THEN 0 ELSE clamp(y, nan)
  BY DEF quants
<1> HIDE DEF y
<1>3. clamp(y, nan) \in Int
  <2>1. CASE y = NaN
    BY <2>1 DEF clamp
  <2>2. CASE y # NaN
    <3>1. y \in Int
      BY <1>1, <2>2
    <3> QED
      BY <2>2, <3>1 DEF clamp
  <2> QED
    BY <2>1, <2>2
<1> QED
  BY <1>2, <1>3

(* The blocks of a row and what they decode to.                            *)
LEMMA RowBlocks ==
  ASSUME NEW r \in DOMAIN Rows, NEW b \in 0..Len(Rows[r].blocks)-1
  PROVE  LET w == Rows[r].blocks[b + 1] IN
         \/ /\ Rows[r].kind = "Q4_K" /\ w \in Q4KBlocks
            /\ slice(Rows[r].bytes, Q4KTypeSize*b, Q4KTypeSize) = PackQ4K(w)
         \/ /\ Rows[r].kind = "Q6_K" /\ w \in Q6KBlocks
            /\ slice(Rows[r].bytes, Q6KTypeSize*b, Q6KTypeSize) = PackQ6K(w)
<1> DEFINE row == Rows[r]
           ws == row.blocks
<1>1. PackedRow(row)
  BY OperatorsAssumption
<1> HIDE DEF row
<1>2. b \in 0..Len(ws)-1
  BY DEF row
<1>3. CASE /\ row.kind = "Q4_K" /\ ws \in Seq(Q4KBlocks)
           /\ \A d \in 1..Len(ws) :
                slice(row.bytes, Q4KTypeSize*(d - 1), Q4KTypeSize) = PackQ4K(ws[d])
  <2> HIDE DEF ws
  <2>1. b + 1 \in 1..Len(ws) /\ (b + 1) - 1 = b
    BY <1>2, <1>3
  <2>2. ws[b + 1] \in Q4KBlocks
    BY <1>3, <2>1
  <2>3. slice(row.bytes, Q4KTypeSize*b, Q4KTypeSize) = PackQ4K(ws[b + 1])
    BY <1>3, <2>1
  <2> QED
    BY <1>3, <2>2, <2>3 DEF row, ws
<1>4. CASE /\ row.kind = "Q6_K" /\ ws \in Seq(Q6KBlocks)
           /\ \A d \in 1..Len(ws) :
                slice(row.bytes, Q6KTypeSize*(d - 1), Q6KTypeSize) = PackQ6K(ws[d])
  <2> HIDE DEF ws
  <2>1. b + 1 \in 1..Len(ws) /\ (b + 1) - 1 = b
    BY <1>2, <1>4
  <2>2. ws[b + 1] \in Q6KBlocks
    BY <1>4, <2>1
  <2>3. slice(row.bytes, Q6KTypeSize*b, Q6KTypeSize) = PackQ6K(ws[b + 1])
    BY <1>4, <2>1
  <2> QED
    BY <1>4, <2>2, <2>3 DEF row, ws
<1> QED
  BY <1>1, <1>3, <1>4 DEF PackedRow

(* A row decodes to the weights it was packed from (embed.go,              *)
(* matvec.go:29-66).                                                       *)
LEMMA RowDecodes ==
  ASSUME NEW r \in DOMAIN Rows
  PROVE  decodeRow(Rows[r].bytes, Rows[r].kind, Len(Rows[r].blocks))
           = [b \in 0..Len(Rows[r].blocks)-1 |->
                [n \in 0..255 |-> Weight(r, Rows[r].blocks[b + 1], n)]]
<1> DEFINE row == Rows[r]
           L == Len(row.blocks)
           block(b) == IF row.kind = "Q4_K"
                       THEN DequantizeQ4KBlock(slice(row.bytes, Q4KTypeSize*b, Q4KTypeSize))
                       ELSE DequantizeQ6KBlock(slice(row.bytes, Q6KTypeSize*b, Q6KTypeSize))
           weights(b) == [n \in 0..255 |-> Weight(r, row.blocks[b + 1], n)]
<1>1. decodeRow(row.bytes, row.kind, L) = [b \in 0..L-1 |-> block(b)]
  BY Zenon DEF decodeRow
<1>2. ASSUME NEW b \in 0..L-1 PROVE block(b) = weights(b)
  <2> DEFINE w == row.blocks[b + 1]
  <2>1. CASE /\ row.kind = "Q4_K" /\ w \in Q4KBlocks
             /\ slice(row.bytes, Q4KTypeSize*b, Q4KTypeSize) = PackQ4K(w)
    <3>1. block(b) = DequantizeQ4KBlock(PackQ4K(w))
      BY <2>1, Zenon
    <3>2. DequantizeQ4KBlock(PackQ4K(w)) = [n \in 0..255 |-> Q4KWeight(w, n)]
      BY <2>1, Q4KBlockDecodes
    <3>3. weights(b) = [n \in 0..255 |-> Q4KWeight(w, n)]
      <4>1. \A n : Weight(r, w, n) = Q4KWeight(w, n)
        BY <2>1, Zenon DEF Weight
      <4> QED
        BY <4>1
    <3> QED
      BY <3>1, <3>2, <3>3, Zenon
  <2>2. CASE /\ row.kind = "Q6_K" /\ w \in Q6KBlocks
             /\ slice(row.bytes, Q6KTypeSize*b, Q6KTypeSize) = PackQ6K(w)
    <3>0. row.kind # "Q4_K"
      BY <2>2
    <3>1. block(b) = DequantizeQ6KBlock(PackQ6K(w))
      BY <2>2, <3>0, Zenon
    <3>2. DequantizeQ6KBlock(PackQ6K(w)) = [n \in 0..255 |-> Q6KWeight(w, n)]
      BY <2>2, Q6KBlockDecodes
    <3>3. weights(b) = [n \in 0..255 |-> Q6KWeight(w, n)]
      <4>1. \A n : Weight(r, w, n) = Q6KWeight(w, n)
        BY <3>0, Zenon DEF Weight
      <4> QED
        BY <4>1
    <3> QED
      BY <3>1, <3>2, <3>3, Zenon
  <2> QED
    BY <2>1, <2>2, RowBlocks
<1> HIDE DEF block, weights, L
<1>3. decodeRow(row.bytes, row.kind, L) = [b \in 0..L-1 |-> weights(b)]
  BY <1>1, <1>2
<1> QED
  BY <1>3, Zenon DEF L, weights

(* The products of minima and activations.                                 *)
Minima(r, w, q) == [n \in 0..255 |-> Weight(r, w, n).min * q[n]]

(* A row of Q6_K blocks has no minima to take away.                        *)
LEMMA NoMinima ==
  ASSUME NEW r, NEW w, NEW q, ~ (Rows[r].kind = "Q4_K"), Ints(q, 256)
  PROVE  Total(Minima(r, w, q), 256) = 0
<1> DEFINE M == Minima(r, w, q)
<1>1. ASSUME NEW n \in 0..256-1 PROVE M[n] = 0
  <2> DEFINE e == q[n]
  <2>1. Weight(r, w, n) = Q6KWeight(w, n)
    BY Zenon DEF Weight
  <2>2. Q6KWeight(w, n).min = 0
    BY DEF Q6KWeight
  <2>3. e \in Int
    BY DEF Ints
  <2>4. M[n] = Weight(r, w, n).min * e
    BY DEF Minima
  <2> HIDE DEF e, M
  <2> QED
    BY <2>1, <2>2, <2>3, <2>4
<1> HIDE DEF M
<1>2. Zeros(M, 256) /\ 256 \in Nat
  BY <1>1 DEF Zeros
<1> QED
  BY <1>2, TotalZero DEF M

(* What ProductsMeanWeights asks of block b of the product of row r, with  *)
(* the activations a.                                                      *)
BlockMeant(r, b, a, nan, y) ==
  LET x == quants(a, nan)
      w == [n \in 0..255 |-> Weight(r, Rows[r].blocks[b + 1], n)]
  IN  /\ y.scale = IF Activations[a].zero THEN Zero ELSE a
      /\ y.sums.scaled = Total([n \in 0..255 |-> w[n].scaled * x[n]], 256)
      /\ y.sums.min = Total([n \in 0..255 |-> w[n].min * x[n]], 256)

(* A block of a row times a block of activations, from the bytes of the    *)
(* one and the scratch of the other (matvec.go:68-121).                    *)
LEMMA BlockProduct ==
  ASSUME NEW r \in DOMAIN Rows, NEW b \in 0..Len(Rows[r].blocks)-1,
         NEW a \in DOMAIN Activations, NEW nan \in Int, NEW x,
         QuantisedBlock(x, b, a, nan)
  PROVE  BlockMeant(r, b, a, nan, dotRowQ8K(Rows[r].bytes, Rows[r].kind, x, Len(Rows[r].blocks))[b])
<1>0. Rows[r].kind # "Q4_K"
        => Total(Minima(r, Rows[r].blocks[b + 1], quants(a, nan)), 256) = 0
  <2>1. Ints(quants(a, nan), 256)
    BY QuantsAreInts
  <2>2. \A w : Rows[r].kind # "Q4_K" => Total(Minima(r, w, quants(a, nan)), 256) = 0
    BY <2>1, NoMinima
  <2> QED
    BY <2>2
<1> DEFINE row == Rows[r]
           w == row.blocks[b + 1]
           q == quants(a, nan)
           y == dotRowQ8K(row.bytes, row.kind, x, Len(row.blocks))[b]
           scale == x.scales[b]
           xq == slice(x.qs, 256*b, 256)
           xb == slice(x.bsums, 16*b, 16)
           dot4 == dotQ4KQ8KBlock(slice(row.bytes, Q4KTypeSize*b, Q4KTypeSize), xq, xb)
           dot6 == dotQ6KQ8KBlock(slice(row.bytes, Q6KTypeSize*b, Q6KTypeSize), xq)
<1>1. y = [scale |-> scale, sums |-> IF row.kind = "Q4_K" THEN dot4 ELSE dot6]
  BY DEF dotRowQ8K
<1>2. xq = q
  <2>1. q = [n \in 0..255 |-> q[n]]
    <3> DEFINE E(j) == IF Activations[a].zero THEN 0 ELSE clamp(Activations[a].rounded[j], nan)
    <3>1. q = [j \in 0..255 |-> E(j)]
      BY Zenon DEF quants
    <3> HIDE DEF E, q
    <3> QED
      BY <3>1
  <2>2. xq = [n \in 0..255 |-> x.qs[256*b + n]]
    BY DEF slice
  <2> HIDE DEF xq, q
  <2>3. \A n \in 0..255 : x.qs[256*b + n] = q[n]
    BY DEF q, QuantisedBlock
  <2> QED
    BY <2>1, <2>2, <2>3
<1>3. \A g \in 0..15 : xb[g] = Total(slice(q, 16*g, 16), 16)
  <2> TAKE g \in 0..15
  <2>1. xb[g] = x.bsums[16*b + g]
    BY DEF slice
  <2> HIDE DEF xb
  <2> QED
    BY <2>1 DEF QuantisedBlock
<1>4. Ints(q, 256)
  BY QuantsAreInts
<1> HIDE DEF xq, xb, q, y
<1> DEFINE F == [n \in 0..255 |-> Weight(r, w, n).scaled * q[n]]
           M == [n \in 0..255 |-> Weight(r, w, n).min * q[n]]
           W == [n \in 0..255 |-> Weight(r, w, n)]
<1>5. /\ F = [n \in 0..255 |-> W[n].scaled * q[n]]
      /\ M = [n \in 0..255 |-> W[n].min * q[n]]
  <2>1. \A n \in 0..255 : W[n] = Weight(r, w, n)
    OBVIOUS
  <2> HIDE DEF W
  <2> QED
    BY <2>1
<1> HIDE DEF F, M, W
<1> SUFFICES y.scale = scale /\ y.sums.scaled = Total(F, 256) /\ y.sums.min = Total(M, 256)
  BY <1>5, ZenonT(30) DEF BlockMeant, y, q, W, QuantisedBlock
<1>6. CASE /\ row.kind = "Q4_K" /\ w \in Q4KBlocks
           /\ slice(row.bytes, Q4KTypeSize*b, Q4KTypeSize) = PackQ4K(w)
  <2>1. dot4 = dotQ4KQ8KBlock(PackQ4K(w), q, xb)
    BY <1>2, <1>6, Zenon
  <2>2. dotQ4KQ8KBlock(PackQ4K(w), q, xb) = Q4KSums(w, q)
    <3>1. w \in Q4KBlocks /\ Ints(q, 256) /\ Sums16(xb, q)
      BY <1>3, <1>4, <1>6 DEF Sums16
    <3> HIDE DEF w
    <3> QED
      BY <3>1, Q4KBlockProduct
  <2>3. \A n : Weight(r, w, n) = Q4KWeight(w, n)
    BY <1>6, Zenon DEF Weight
  <2>4. /\ F = [n \in 0..255 |-> Q4KWeight(w, n).scaled * q[n]]
        /\ M = [n \in 0..255 |-> Q4KWeight(w, n).min * q[n]]
    BY <2>3, Zenon DEF F, M
  <2>5. dot4 = [scaled |-> Total(F, 256), min |-> Total(M, 256)]
    BY <2>1, <2>2, <2>4, ZenonT(30) DEF Q4KSums
  <2> HIDE DEF dot4, dot6
  <2>6. y.scale = scale /\ y.sums.scaled = Total(F, 256) /\ y.sums.min = Total(M, 256)
    BY <1>1, <1>6, <2>5
  <2> QED
    BY <2>6
<1>7. CASE /\ row.kind = "Q6_K" /\ w \in Q6KBlocks
           /\ slice(row.bytes, Q6KTypeSize*b, Q6KTypeSize) = PackQ6K(w)
  <2>0. row.kind # "Q4_K"
    BY <1>7
  <2>1. dot6 = dotQ6KQ8KBlock(PackQ6K(w), q)
    BY <1>2, <1>7, Zenon
  <2>2. dotQ6KQ8KBlock(PackQ6K(w), q) = Q6KSums(w, q)
    <3>1. w \in Q6KBlocks /\ Ints(q, 256)
      BY <1>4, <1>7
    <3> HIDE DEF w
    <3> QED
      BY <3>1, Q6KBlockProduct
  <2>3. \A n : Weight(r, w, n) = Q6KWeight(w, n)
    BY <2>0, Zenon DEF Weight
  <2>4. F = [n \in 0..255 |-> Q6KWeight(w, n).scaled * q[n]]
    BY <2>3, Zenon DEF F, M
  <2>5. Total(M, 256) = 0
    <3>1. M = Minima(r, w, q)
      BY Zenon DEF Minima, M
    <3>2. Total(Minima(r, w, q), 256) = 0
      BY <1>0, <2>0, Zenon DEF q
    <3> QED
      BY <3>1, <3>2, Zenon
  <2>6. dot6 = [scaled |-> Total(F, 256), min |-> 0]
    BY <2>1, <2>2, <2>4, Zenon DEF Q6KSums
  <2> HIDE DEF dot4, dot6
  <2>7. y.scale = scale /\ y.sums.scaled = Total(F, 256) /\ y.sums.min = Total(M, 256)
    BY <1>1, <2>0, <2>5, <2>6
  <2> QED
    BY <2>7
<1>8. \/ /\ row.kind = "Q4_K" /\ w \in Q4KBlocks
         /\ slice(row.bytes, Q4KTypeSize*b, Q4KTypeSize) = PackQ4K(w)
      \/ /\ row.kind = "Q6_K" /\ w \in Q6KBlocks
         /\ slice(row.bytes, Q6KTypeSize*b, Q6KTypeSize) = PackQ6K(w)
  BY RowBlocks, Zenon
<1> QED
  BY <1>6, <1>7, <1>8, Zenon

(* A row of as many blocks as the vector.                                  *)
LEMMA RowProduct ==
  ASSUME NEW r \in DOMAIN Rows, NEW src, NEW nan \in Int, NEW x, Quantised(x, src, nan),
         Len(Rows[r].blocks) = Len(src), \A b \in 0..Len(src)-1 : src[b + 1] \in DOMAIN Activations,
         NEW b \in 0..Len(Rows[r].blocks)-1
  PROVE  BlockMeant(r, b, src[b + 1], nan,
                    dotRowQ8K(Rows[r].bytes, Rows[r].kind, x, Len(Rows[r].blocks))[b])
<1> DEFINE a == src[b + 1]
<1>1. a \in DOMAIN Activations /\ QuantisedBlock(x, b, a, nan)
  BY DEF Quantised
<1> HIDE DEF a
<1>2. BlockMeant(r, b, a, nan, dotRowQ8K(Rows[r].bytes, Rows[r].kind, x, Len(Rows[r].blocks))[b])
  BY <1>1, BlockProduct
<1> QED
  BY <1>2 DEF a

(* What ProductsMeanWeights asks of a product p.                           *)
Means(p, src, nan) ==
  p.op # "none" =>
    LET r == p.row
        blocks == Rows[r].blocks
        weight(b) == [n \in 0..255 |-> Weight(r, blocks[b + 1], n)]
    IN  CASE p.op = "decode" ->
               p.result = [b \in 0..Len(blocks)-1 |-> weight(b)]
          [] p.op = "dot" /\ Len(blocks) # Len(src) ->
               p.result = "length mismatch"
          [] OTHER ->
               \A b \in 0..Len(blocks)-1 : BlockMeant(r, b, src[b + 1], nan, p.result[b])

(* It asks the same.                                                       *)
LEMMA MeansIs == ProductsMeanWeights <=> Means(product, written, nanAs)
BY Zenon DEF ProductsMeanWeights, Means, BlockMeant

(* The view of s.q8 in use holds the vector last quantised.                *)
ScratchInv ==
  /\ nanAs \in Int
  /\ \A b \in 0..Len(written)-1 : written[b + 1] \in DOMAIN Activations
  /\ Quantised(q8, written, nanAs)

(* Quantising anew.                                                        *)
LEMMA QuantizeStep ==
  ASSUME NEW src \in Sources, Quantize(src)
  PROVE  ScratchInv' /\ ProductsMeanWeights'
<1>1. PICK n \in 1..MaxBlocks : src \in [1..n -> DOMAIN Activations]
  BY DEF Sources
<1>2. /\ Len(src) = n /\ n \in 0..MaxBlocks
      /\ \A b \in 0..Len(src)-1 : src[b + 1] \in DOMAIN Activations
  BY <1>1, OperatorsAssumption, SMTT(30)
<1>3. PICK nan \in NaNAs : q8' = QuantizeQ8K(q8, src, nan) /\ nanAs' = nan
  BY DEF Quantize
<1>4. written' = src /\ product' = None
  BY DEF Quantize
<1>5. nan \in Int
  <2> DEFINE A == -127..127
  <2>1. NaNAs \subseteq A /\ A \subseteq Int
    BY OperatorsAssumption, SMTT(30)
  <2> HIDE DEF A
  <2> QED
    BY <2>1
<1>6. Quantised(QuantizeQ8K(q8, src, nan), src, nan)
  BY <1>2, QuantizeQ8KMeans
<1>7. ScratchInv'
  BY <1>2, <1>3, <1>4, <1>5, <1>6 DEF ScratchInv
<1>8. ProductsMeanWeights'
  BY <1>4 DEF ProductsMeanWeights, None
<1> QED
  BY <1>7, <1>8

(* A product.                                                              *)
LEMMA MatVecStep ==
  ASSUME NEW r \in DOMAIN Rows, ScratchInv, MatVecQ8K(r)
  PROVE  ProductsMeanWeights'
<1> DEFINE L == Len(Rows[r].blocks)
           result == IF L # Len(written) THEN "length mismatch"
                     ELSE dotRowQ8K(Rows[r].bytes, Rows[r].kind, q8, L)
<1>1. product' = [op |-> "dot", row |-> r, result |-> result]
  BY Zenon DEF MatVecQ8K
<1>2. written' = written /\ nanAs' = nanAs
  BY DEF MatVecQ8K
<1>3. ASSUME L = Len(written), NEW b \in 0..L-1
      PROVE  BlockMeant(r, b, written[b + 1], nanAs, result[b])
  BY <1>3, RowProduct DEF ScratchInv
<1>4. L # Len(written) => result = "length mismatch"
  OBVIOUS
<1> HIDE DEF result
<1>5. product'.op = "dot" /\ product'.row = r /\ product'.result = result
  BY <1>1
<1>6. Means(product', written, nanAs)
  BY <1>3, <1>4, <1>5, Zenon DEF Means
<1>7. Means(product', written', nanAs')
  BY <1>2, <1>6
<1> QED
  BY <1>7, Zenon DEF ProductsMeanWeights, Means, BlockMeant

(* A decoded row.                                                          *)
LEMMA DecodeStep ==
  ASSUME NEW r \in DOMAIN Rows, Decode(r)
  PROVE  ProductsMeanWeights'
<1> DEFINE p == product'
           d == Rows[p.row]
<1>1. p = [op |-> "decode", row |-> r,
           result |-> decodeRow(Rows[r].bytes, Rows[r].kind, Len(Rows[r].blocks))]
  BY Zenon DEF Decode
<1> HIDE DEF p
<1>2. /\ p.op = "decode" /\ p.row \in DOMAIN Rows
      /\ p.result = decodeRow(d.bytes, d.kind, Len(d.blocks))
  BY <1>1
<1>3. decodeRow(d.bytes, d.kind, Len(d.blocks))
        = [b \in 0..Len(d.blocks)-1 |-> [n \in 0..255 |-> Weight(p.row, d.blocks[b + 1], n)]]
  BY <1>2, RowDecodes, Zenon
<1>4. p.op # "dot"
  BY <1>2
<1>5. Means(p, written', nanAs')
  BY <1>2, <1>3, <1>4, Zenon DEF Means
<1> QED
  BY <1>5, Zenon DEF p, ProductsMeanWeights, Means, BlockMeant

(* For every row of Q4_K or Q6_K blocks of any length and every vector     *)
(* quantised before it into a scratch of any size, the integer product is  *)
(* the sum of weight times activation with the block's own scale, and a    *)
(* decoded row is the weights it was packed from (q4k.go:11-84,            *)
(* q6k.go:11-70, q8k.go:55-103, matvec.go:68-121).                         *)
THEOREM ProductsAreExact == Spec => []ProductsMeanWeights
<1> DEFINE Inv == ScratchInv /\ ProductsMeanWeights
<1>1. Init => Inv
  <2> SUFFICES ASSUME Init PROVE Inv
    OBVIOUS
  <2>1. written = <<>> /\ nanAs = 0 /\ product = None
    BY DEF Init
  <2>2. ~ \E b : b \in 0..Len(written)-1
    BY <2>1
  <2>3. ScratchInv
    BY <2>1, <2>2 DEF ScratchInv, Quantised
  <2>4. ProductsMeanWeights
    BY <2>1 DEF ProductsMeanWeights, None
  <2> QED
    BY <2>3, <2>4
<1>2. Inv /\ [Next]_vars => Inv'
  <2> SUFFICES ASSUME Inv, [Next]_vars PROVE Inv'
    OBVIOUS
  <2>1. CASE \E src \in Sources : Quantize(src)
    BY <2>1, QuantizeStep
  <2>2. ASSUME NEW r \in DOMAIN Rows, MatVecQ8K(r)
        PROVE  Inv'
    <3>1. ScratchInv'
      BY <2>2 DEF MatVecQ8K, ScratchInv
    <3> QED
      BY <2>2, <3>1, MatVecStep
  <2>3. ASSUME NEW r \in DOMAIN Rows, Decode(r)
        PROVE  Inv'
    <3>1. ScratchInv'
      BY <2>3 DEF Decode, ScratchInv
    <3> QED
      BY <2>3, <3>1, DecodeStep
  <2>4. CASE UNCHANGED productVars
    <3>1. q8' = q8 /\ written' = written /\ nanAs' = nanAs /\ product' = product
      BY <2>4 DEF productVars
    <3>2. ScratchInv'
      BY <3>1 DEF ScratchInv
    <3>3. ProductsMeanWeights'
      <4>1. Means(product, written, nanAs)
        BY MeansIs
      <4>2. Means(product', written', nanAs')
        BY <3>1, <4>1
      <4> QED
        BY <4>2, Zenon DEF ProductsMeanWeights, Means, BlockMeant
    <3> QED
      BY <3>2, <3>3
  <2>5. Store \/ Load \/ Argmax \/ UNCHANGED vars => UNCHANGED productVars
    BY DEF Store, Load, Argmax, vars
  <2> QED
    BY <2>1, <2>2, <2>3, <2>4, <2>5 DEF Next
<1> QED
  BY <1>1, <1>2, PTL DEF Spec

-----------------------------------------------------------------------------
(* Halves: what rounded makes of a significand, and what Compare makes of  *)
(* the parts of a number.                                                  *)

(* The powers of 2 that the conversions shift by.                          *)
LEMMA Powers ==
  /\ 2^10 = 1024 /\ 2^11 = 2048 /\ 2^12 = 4096 /\ 2^13 = 8192 /\ 2^14 = 16384
  /\ 2^15 = 32768 /\ 2^16 = 65536 /\ 2^17 = 131072 /\ 2^18 = 262144 /\ 2^19 = 524288
  /\ 2^20 = 1048576 /\ 2^21 = 2097152 /\ 2^22 = 4194304 /\ 2^23 = 8388608
  /\ 2^24 = 16777216
BY SMT

(* A shift by a number of bits, of which all but one make up p.            *)
Shifts(shift, p) ==
  p \in Nat \ {0} /\ 2^(shift - 1) = p /\ 2^shift = 2*p /\ (shift > 13 => p >= 8192)

LEMMA PowersShift ==
  ASSUME NEW n \in 13..24
  PROVE  \E p : Shifts(n, p)
<1>1. n \in {13, 14, 15, 16, 17, 18, 19, 20, 21, 22, 23, 24}
  OBVIOUS
<1>2. CASE n = 13
  BY <1>2, Powers, SMT DEF Shifts
<1>3. CASE n = 14
  BY <1>3, Powers, SMT DEF Shifts
<1>4. CASE n = 15
  BY <1>4, Powers, SMT DEF Shifts
<1>5. CASE n = 16
  BY <1>5, Powers, SMT DEF Shifts
<1>6. CASE n = 17
  BY <1>6, Powers, SMT DEF Shifts
<1>7. CASE n = 18
  BY <1>7, Powers, SMT DEF Shifts
<1>8. CASE n = 19
  BY <1>8, Powers, SMT DEF Shifts
<1>9. CASE n = 20
  BY <1>9, Powers, SMT DEF Shifts
<1>10. CASE n = 21
  BY <1>10, Powers, SMT DEF Shifts
<1>11. CASE n = 22
  BY <1>11, Powers, SMT DEF Shifts
<1>12. CASE n = 23
  BY <1>12, Powers, SMT DEF Shifts
<1>13. CASE n = 24
  BY <1>13, Powers, SMT DEF Shifts
<1> QED
  BY <1>1, <1>2, <1>3, <1>4, <1>5, <1>6, <1>7, <1>8, <1>9, <1>10, <1>11, <1>12, <1>13

(* A quotient and a remainder are the only ones.                           *)
LEMMA Quotient ==
  ASSUME NEW a \in Nat, NEW r \in Nat, NEW p \in Nat \ {0}, r < p
  PROVE  (a * p + r) \div p = a /\ (a * p + r) % p = r
BY SMTT(60)

LEMMA Divided ==
  ASSUME NEW s \in Nat, NEW p \in Nat \ {0}
  PROVE  s \div p \in Nat /\ s % p \in 0..p-1 /\ s = (s \div p) * p + (s % p)
BY SMTT(60)

(* Half as many: what rounded looks at, in units of the half.              *)
LEMMA Halved ==
  ASSUME NEW s \in Nat, NEW p \in Nat \ {0}
  PROVE  LET half == s \div (2*p)
             rem  == s % (2*p)
         IN  /\ half \in Nat /\ rem \in Nat
             /\ rem < p  => s \div p = 2*half /\ s % p = rem
             /\ rem >= p => s \div p = 2*half + 1 /\ s % p = rem - p
<1> DEFINE d == 2*p
           half == s \div d
           rem  == s % d
<1>1. d \in Nat \ {0}
  OBVIOUS
<1>2. half \in Nat /\ rem \in 0..d-1 /\ s = half * d + rem
  <2> HIDE DEF d
  <2> QED
    BY <1>1, Divided
<1> HIDE DEF half, rem
<1>3. half * d = (2*half) * p /\ (2*half) * p + p = (2*half + 1) * p
  BY <1>2, SMTT(30)
<1>4. ASSUME rem < p PROVE s \div p = 2*half /\ s % p = rem
  <2>1. s = (2*half) * p + rem /\ 2*half \in Nat /\ rem \in Nat
    BY <1>2, <1>3
  <2> QED
    BY <1>4, <2>1, Quotient
<1>5. ASSUME rem >= p PROVE s \div p = 2*half + 1 /\ s % p = rem - p
  <2>1. rem - p \in Nat /\ rem - p < p /\ 2*half + 1 \in Nat
    BY <1>2, <1>5
  <2>2. s = (2*half + 1) * p + (rem - p)
    BY <1>2, <1>3, <2>1
  <2> QED
    BY <2>1, <2>2, Quotient
<1> QED
  BY <1>2, <1>4, <1>5 DEF half, rem

(* How a significand compares with m points that are p apart.              *)
Against(s, p, m) == IF s \div p < m THEN -1 ELSE IF s \div p = m /\ s % p = 0 THEN 0 ELSE 1

(* rounded is the nearest, the even one on a tie: of the points between    *)
(* whole numbers, 2*h - 1 and 2*h + 1 halves, one is not above the number  *)
(* and one not below it (f16.go:36-66).                                    *)
LEMMA RoundedNear ==
  ASSUME NEW s \in Nat, NEW n, NEW p, Shifts(n, p)
  PROVE  LET h == rounded(s, n)
         IN  /\ h \in Nat /\ h \in (s \div (2*p))..(s \div (2*p) + 1)
             /\ \/ Against(s, p, 2*h + 1) = -1
                \/ Against(s, p, 2*h + 1) = 0 /\ h % 2 = 0
             /\ \/ Against(s, p, 2*h - 1) = 1
                \/ Against(s, p, 2*h - 1) = 0 /\ h % 2 = 0
<1> DEFINE half == s \div (2*p)
           rem  == s % (2*p)
           q    == s \div p
           r    == s % p
           h    == rounded(s, n)
<1>1. p \in Nat \ {0} /\ 2^(n - 1) = p /\ 2^n = 2*p
  BY DEF Shifts
<1>2. /\ half \in Nat /\ rem \in Nat
      /\ rem < p  => q = 2*half /\ r = rem
      /\ rem >= p => q = 2*half + 1 /\ r = rem - p
  BY <1>1, Halved
<1>3. h = IF rem > p \/ (rem = p /\ half % 2 = 1) THEN half + 1 ELSE half
  BY <1>1, Zenon DEF rounded
<1>4. \A m : Against(s, p, m) = IF q < m THEN -1 ELSE IF q = m /\ r = 0 THEN 0 ELSE 1
  BY DEF Against
<1> HIDE DEF half, rem, q, r, h
<1> DEFINE Near == /\ Against(s, p, 2*h + 1) = -1 \/ (Against(s, p, 2*h + 1) = 0 /\ h % 2 = 0)
                   /\ Against(s, p, 2*h - 1) = 1 \/ (Against(s, p, 2*h - 1) = 0 /\ h % 2 = 0)
<1>5. h \in Nat /\ h \in half..half + 1
  BY <1>2, <1>3
<1>6. half % 2 \in {0, 1} /\ (half % 2 = 1 => (half + 1) % 2 = 0)
  BY <1>2
<1>7. ASSUME rem < p PROVE Near
  BY <1>1, <1>2, <1>3, <1>4, <1>7
<1>8. ASSUME rem = p PROVE Near
  BY <1>1, <1>2, <1>3, <1>4, <1>6, <1>8
<1>9. ASSUME rem > p PROVE Near
  BY <1>1, <1>2, <1>3, <1>4, <1>9
<1>10. Near
  BY <1>1, <1>2, <1>7, <1>8, <1>9
<1> QED
  BY <1>5, <1>10 DEF half, h

(* Compare, once the number of bits between the exponents is known.        *)
LEMMA CompareIs ==
  ASSUME NEW f, NEW b, NEW k \in 0..24, NEW p, 2^k = p,
         (MidExponent(b) - 26) - (Exponent(f) - 150) = k
  PROVE  Compare(f, b) = Against(Significand(f), p, MidSignificand(b))
<1>1. ~(k < 0) /\ ~(k > 24)
  OBVIOUS
<1> QED
  BY <1>1, Zenon DEF Compare, Against

(* Numbers far above or below the points.                                  *)
LEMMA CompareAbove ==
  ASSUME NEW f, NEW b, (MidExponent(b) - 26) - (Exponent(f) - 150) < 0
  PROVE  Compare(f, b) = 1
BY Zenon DEF Compare

LEMMA CompareBelow ==
  ASSUME NEW f, NEW b, NEW k \in Int, (MidExponent(b) - 26) - (Exponent(f) - 150) = k, k > 24,
         MidSignificand(b) > 0
  PROVE  Compare(f, b) = -1
<1>1. ~(k < 0) /\ k > 24 /\ 0 < MidSignificand(b)
  OBVIOUS
<1> QED
  BY <1>1, Zenon DEF Compare

(* The points above the subnormal halves, and the first after them.        *)
LEMMA SubnormalPoints ==
  ASSUME NEW b \in 0..1024
  PROVE  MidExponent(b) = 1 /\ MidSignificand(b) = 2*b + 1
<1>1. CASE b < 1024
  BY <1>1, Powers, SMT DEF MidExponent, MidSignificand
<1>2. CASE b = 1024
  BY <1>2, Powers, SMT DEF MidExponent, MidSignificand
<1> QED
  BY <1>1, <1>2

(* And above the others.                                                   *)
LEMMA NormalPoints ==
  ASSUME NEW e \in 1..31, NEW h \in Nat, h >= 1024, h < 2048, NEW b, b = (e - 1)*1024 + h
  PROVE  MidExponent(b) = e /\ MidSignificand(b) = 2*h + 1
<1>1. b \in Nat /\ ~(b < 1024) /\ b \div 1024 = e /\ b % 1024 = h - 1024
  OBVIOUS
<1>2. MidExponent(b) = IF b < 2^10 THEN 1 ELSE b \div 2^10
  BY SMT DEF MidExponent
<1>3. MidSignificand(b) = 2 * (IF b < 2^10 THEN b ELSE 2^10 + (b % 2^10)) + 1
  BY SMT DEF MidSignificand
<1> QED
  BY <1>1, <1>2, <1>3, Powers, SMT

(* The parts of a float32.                                                 *)
Parts(f, E, m) ==
  E \in 0..255 /\ m \in Nat /\ m < 2^23 /\ f.bits = E * 2^23 + m

LEMMA FloatParts ==
  ASSUME NEW f \in Floats
  PROVE  LET E == f.bits \div 2^23
             m == f.bits % 2^23
         IN  /\ Parts(f, E, m)
             /\ Exponent(f) = IF E = 0 THEN 1 ELSE E
             /\ Significand(f) = IF E = 0 THEN m ELSE 2^23 + m
<1> DEFINE x == f.bits
           E == x \div 2^23
           m == x % 2^23
<1>1. x \in Nat /\ x < 2147483648
  <2>1. x \in 0..Infinity32 + (2^23 - 1)
    BY Zenon DEF Floats
  <2> HIDE DEF x
  <2> QED
    BY <2>1, Powers, SMT DEF Infinity32
<1>2. /\ Exponent(f) = IF x < 2^23 THEN 1 ELSE E
      /\ Significand(f) = IF x < 2^23 THEN x ELSE 2^23 + m
  BY Zenon DEF Exponent, Significand
<1> HIDE DEF x
<1>3. /\ E \in 0..255 /\ m \in Nat /\ m < 2^23 /\ x = E * 2^23 + m
      /\ x < 2^23 <=> E = 0
  <2>1. E = x \div 8388608 /\ m = x % 8388608
    BY Powers, SMT
  <2> HIDE DEF E, m
  <2>2. /\ E \in 0..255 /\ m \in Nat /\ m < 8388608 /\ x = E * 8388608 + m
        /\ x < 8388608 <=> E = 0
    BY <1>1, <2>1, SMT
  <2> QED
    BY <2>2, Powers, SMT
<1> HIDE DEF E, m
<1>4. /\ Exponent(f) = IF E = 0 THEN 1 ELSE E
      /\ Significand(f) = IF E = 0 THEN m ELSE 2^23 + m
  BY <1>2, <1>3, SMT
<1>5. Parts(f, E, m)
  BY <1>3, SMT DEF Parts, x
<1> QED
  BY <1>4, <1>5, SMT DEF E, m, x

-----------------------------------------------------------------------------
(* The half a float32 is stored as, case by case (f16.go:36-66).           *)

(* What F32ToF16 makes of the parts of a float32.                          *)
HalfBits(E, m) ==
  LET e == E - 127 + 15
  IN  IF E = 255 THEN IF m # 0 THEN QuietNaN16 ELSE Infinity16
      ELSE IF e >= 31 THEN Infinity16
      ELSE IF e < -10 THEN 0
      ELSE IF e <= 0 THEN rounded(m + 2^23, 14 - e)
      ELSE rounded(e * 2^23 + m, 13)

LEMMA F32ToF16Bits ==
  ASSUME NEW f
  PROVE  F32ToF16(f) = [sign |-> f.sign, bits |-> HalfBits(f.bits \div 2^23, f.bits % 2^23)]
BY Zenon DEF F32ToF16, HalfBits

(* A subnormal half, or the first that is none.                            *)
LEMMA SubnormalNear ==
  ASSUME NEW f, NEW E \in 102..112, NEW m, Parts(f, E, m),
         Exponent(f) = E, Significand(f) = 2^23 + m,
         NEW b, b = rounded(m + 2^23, 14 - (E - 127 + 15))
  PROVE  b \in 0..1024 /\ \A sign : Nearest([sign |-> sign, bits |-> b], f)
<1> DEFINE s == 2^23 + m
           n == 126 - E
<1>1. s \in Nat /\ s >= 2^23 /\ s < 2^24 /\ n \in 14..24 /\ n \in 13..24
  BY Powers, SMT DEF Parts
<1>2. PICK p : Shifts(n, p)
  BY <1>1, PowersShift, Zenon
<1>3. b = rounded(s, n)
  <2>1. m + 2^23 = s /\ 14 - (E - 127 + 15) = n
    BY Powers, SMT DEF Parts
  <2> QED
    BY <2>1, Zenon
<1>4. p \in Nat \ {0} /\ 2^(n - 1) = p /\ p >= 8192
  BY <1>1, <1>2, SMT DEF Shifts
<1> HIDE DEF s, n
<1>5. /\ b \in Nat /\ b \in (s \div (2*p))..(s \div (2*p) + 1)
      /\ \/ Against(s, p, 2*b + 1) = -1
         \/ Against(s, p, 2*b + 1) = 0 /\ b % 2 = 0
      /\ \/ Against(s, p, 2*b - 1) = 1
         \/ Against(s, p, 2*b - 1) = 0 /\ b % 2 = 0
  BY <1>1, <1>2, <1>3, RoundedNear
<1>6. b <= 1024
  <2>1. s \div (2*p) < 1024
    <3> DEFINE d == 2*p
               x == s \div d
    <3>1. d \in Nat \ {0} /\ d >= 16384
      BY <1>4, SMT
    <3>2. x \in Nat /\ x * d <= s
      <4> DEFINE r == s % d
      <4>1. s \in Nat /\ d \in Nat \ {0}
        BY <1>1, <3>1
      <4> HIDE DEF d
      <4>2. x \in Nat /\ r \in 0..d-1 /\ s = x * d + r
        BY <4>1, Divided
      <4> HIDE DEF x, r
      <4>3. x * d \in Int
        BY <4>1, <4>2
      <4> DEFINE y == x * d
      <4> HIDE DEF y
      <4>4. y <= y + r
        BY <4>1, <4>2, <4>3 DEF y
      <4> QED
        BY <4>2, <4>4 DEF y
    <3> HIDE DEF d, x
    <3>3. x * 16384 <= x * d
      BY <3>1, <3>2, SMT
    <3>4. x < 1024
      BY <1>1, <3>1, <3>2, <3>3, Powers, SMT
    <3> QED
      BY <3>4 DEF d, x
  <2> QED
    BY <1>1, <1>4, <1>5, <2>1, SMT
<1>7. \A c \in 0..1024 : Compare(f, c) = Against(s, p, 2*c + 1)
  <2> TAKE c \in 0..1024
  <2>1. MidExponent(c) = 1 /\ MidSignificand(c) = 2*c + 1
    BY SubnormalPoints
  <2>2. (MidExponent(c) - 26) - (Exponent(f) - 150) = n - 1 /\ n - 1 \in 0..24
    BY <1>1, <2>1, SMT DEF n
  <2> DEFINE k == n - 1
  <2> HIDE DEF k
  <2>3. k \in 0..24 /\ 2^k = p /\ (MidExponent(c) - 26) - (Exponent(f) - 150) = k
    BY <1>4, <2>2, SMT DEF k
  <2>4. Compare(f, c) = Against(Significand(f), p, MidSignificand(c))
    BY <2>3, CompareIs, Zenon
  <2>5. Significand(f) = s
    BY Zenon DEF s
  <2> QED
    BY <2>1, <2>4, <2>5, Zenon
<1>8. Compare(f, b) = Against(s, p, 2*b + 1)
  BY <1>5, <1>6, <1>7
<1>9. b > 0 => Compare(f, b - 1) = Against(s, p, 2*b - 1)
  <2> SUFFICES ASSUME b > 0 PROVE Compare(f, b - 1) = Against(s, p, 2*b - 1)
    OBVIOUS
  <2>1. b - 1 \in 0..1024 /\ 2*(b - 1) + 1 = 2*b - 1
    BY <1>5, <1>6, SMT
  <2> QED
    BY <1>7, <2>1
<1>10. ASSUME NEW sign PROVE Nearest([sign |-> sign, bits |-> b], f)
  <2> DEFINE h == [sign |-> sign, bits |-> b]
  <2>1. h.bits = b
    OBVIOUS
  <2> HIDE DEF h
  <2>2. Nearest(h, f)
    BY <1>5, <1>8, <1>9, <2>1, Zenon DEF Nearest
  <2> QED
    BY <2>2 DEF h
<1> QED
  BY <1>5, <1>6, <1>10, SMT

(* The numbers between the smallest normal half and the largest number     *)
(* whose exponent a half has.                                              *)
LEMMA NormalNear ==
  ASSUME NEW f, NEW E \in 113..142, NEW m, Parts(f, E, m),
         Exponent(f) = E, Significand(f) = 2^23 + m,
         NEW b, b = rounded((E - 127 + 15) * 2^23 + m, 13)
  PROVE  b \in Nat /\ b <= Infinity16 /\ \A sign : Nearest([sign |-> sign, bits |-> b], f)
<1> DEFINE s == 2^23 + m
           y == (E - 127 + 15) * 2^23 + m
           e == E - 112
           h == rounded(s, 13)
<1>1. /\ s \in Nat /\ s >= 2^23 /\ s < 2^24 /\ e \in 1..30
      /\ y = s + (e - 1) * 2^23
  BY Powers, SMT DEF Parts
<1>2. Shifts(13, 4096)
  BY Powers, SMT DEF Shifts
<1>3. h \in 1024..2048
  <2> DEFINE half == s \div 8192
  <2>1. h \in half..half + 1
    <3>1. h \in (s \div (2*4096))..(s \div (2*4096) + 1)
      BY <1>1, <1>2, RoundedNear
    <3> HIDE DEF h, s
    <3> QED
      BY <3>1, SMT
  <2> HIDE DEF h, s
  <2>2. half \in 1024..2047
    BY <1>1, Powers, SMT
  <2> HIDE DEF half
  <2> QED
    BY <2>1, <2>2, SMT
<1>4. b = (e - 1) * 1024 + h
  <2>1. rounded(y, 13) = (e - 1) * 1024 + rounded(s, 13)
    <3> HIDE DEF y, s, e
    <3>1. /\ y \div 8192 = (e - 1) * 1024 + (s \div 8192) /\ y % 8192 = s % 8192
          /\ y \in Nat
      BY <1>1, Powers, SMT
    <3> DEFINE half == s \div 8192
               more == y \div 8192
    <3>2. half \in Nat /\ more = (e - 1) * 1024 + half /\ more % 2 = half % 2
      <4>1. half \in Nat /\ more = (e - 1) * 1024 + half
        BY <1>1, <3>1, SMT
      <4> HIDE DEF half, more
      <4> QED
        BY <1>1, <4>1, SMT
    <3>3. /\ rounded(y, 13) = IF y % 2^13 > 2^(13-1) \/ (y % 2^13 = 2^(13-1) /\ (y \div 2^13) % 2 = 1)
                              THEN (y \div 2^13) + 1 ELSE y \div 2^13
          /\ rounded(s, 13) = IF s % 2^13 > 2^(13-1) \/ (s % 2^13 = 2^(13-1) /\ (s \div 2^13) % 2 = 1)
                              THEN (s \div 2^13) + 1 ELSE s \div 2^13
      BY Zenon DEF rounded
    <3>4. /\ rounded(y, 13) = IF s % 8192 > 4096 \/ (s % 8192 = 4096 /\ half % 2 = 1)
                              THEN more + 1 ELSE more
          /\ rounded(s, 13) = IF s % 8192 > 4096 \/ (s % 8192 = 4096 /\ half % 2 = 1)
                              THEN half + 1 ELSE half
      BY <3>1, <3>2, <3>3, Powers, SMT
    <3> HIDE DEF half, more
    <3> QED
      BY <1>1, <3>2, <3>4, SMT
  <2>2. b = rounded(y, 13)
    BY Zenon
  <2> QED
    BY <2>1, <2>2
<1>5. /\ \/ Against(s, 4096, 2*h + 1) = -1
         \/ Against(s, 4096, 2*h + 1) = 0 /\ h % 2 = 0
      /\ \/ Against(s, 4096, 2*h - 1) = 1
         \/ Against(s, 4096, 2*h - 1) = 0 /\ h % 2 = 0
  <2>1. s \in Nat
    BY <1>1
  <2> HIDE DEF s
  <2> QED
    BY <1>2, <2>1, RoundedNear
<1>6. Exponent(f) = e + 112 /\ Significand(f) = s
  BY SMT
<1> HIDE DEF s, y, e, h
(* The points next to the number, with its own exponent.                   *)
<1>7. ASSUME NEW c \in 1024..2047
      PROVE  Compare(f, (e - 1) * 1024 + c) = Against(s, 4096, 2*c + 1)
  <2> DEFINE d == (e - 1) * 1024 + c
  <2>1. MidExponent(d) = e /\ MidSignificand(d) = 2*c + 1
    <3>1. e \in 1..31 /\ c \in Nat /\ c >= 1024 /\ c < 2048
      BY <1>1, SMT
    <3>2. d = (e - 1) * 1024 + c
      OBVIOUS
    <3> HIDE DEF d
    <3> QED
      BY <3>1, <3>2, NormalPoints
  <2> HIDE DEF d
  <2>2. (MidExponent(d) - 26) - (Exponent(f) - 150) = 12
    BY <1>1, <1>6, <2>1, SMT
  <2>3. Compare(f, d) = Against(Significand(f), 4096, MidSignificand(d))
    <3>1. 12 \in 0..24 /\ 2^12 = 4096
      BY Powers, SMT
    <3> QED
      BY <2>2, <3>1, CompareIs
  <2> QED
    BY <1>6, <2>1, <2>3 DEF d
<1>8. b < 31744 => \/ Compare(f, b) = -1
                   \/ Compare(f, b) = 0 /\ b % 2 = 0
  <2>1. CASE h < 2048
    <3>1. Compare(f, b) = Against(s, 4096, 2*h + 1)
      BY <1>3, <1>4, <1>7, <2>1
    <3>2. h % 2 = 0 => b % 2 = 0
      BY <1>1, <1>3, <1>4, SMT
    <3> QED
      BY <1>5, <3>1, <3>2
(* A carry into the next exponent.                                         *)
  <2>2. CASE h = 2048
    <3>1. b = ((e + 1) - 1) * 1024 + 1024 /\ e + 1 \in 1..31
      BY <1>1, <1>4, <2>2, SMT
    <3>2. MidExponent(b) = e + 1 /\ MidSignificand(b) = 2049
      <4> DEFINE u == e + 1
                 c == 1024
                 d == b
      <4>1. u \in 1..31 /\ d = (u - 1) * 1024 + c /\ c \in Nat /\ c >= 1024 /\ c < 2048
        BY <3>1
      <4> HIDE DEF u, c, d
      <4>2. MidExponent(d) = u /\ MidSignificand(d) = 2*c + 1
        BY <4>1, NormalPoints
      <4> QED
        BY <4>2 DEF u, c, d
    <3>3. (MidExponent(b) - 26) - (Exponent(f) - 150) = 13
      BY <1>1, <1>6, <3>2, SMT
    <3>4. Compare(f, b) = Against(s, 8192, 2049)
      <4>1. 13 \in 0..24 /\ 2^13 = 8192
        BY Powers, SMT
      <4>2. Compare(f, b) = Against(Significand(f), 8192, MidSignificand(b))
        BY <3>3, <4>1, CompareIs
      <4> QED
        BY <1>6, <3>2, <4>2
    <3>5. s \div 8192 < 2049
      BY <1>1, Powers, SMT
    <3>6. Compare(f, b) = -1
      BY <3>4, <3>5, SMT DEF Against
    <3> QED
      BY <3>6
  <2> QED
    BY <1>3, <2>1, <2>2, SMT
<1>9. b > 0 => \/ Compare(f, b - 1) = 1
               \/ Compare(f, b - 1) = 0 /\ b % 2 = 0
  <2>1. CASE h > 1024
    <3>1. h - 1 \in 1024..2047 /\ b - 1 = (e - 1) * 1024 + (h - 1) /\ 2*(h - 1) + 1 = 2*h - 1
      BY <1>1, <1>3, <1>4, <2>1, SMT
    <3>2. Compare(f, b - 1) = Against(s, 4096, 2*h - 1)
      BY <1>7, <3>1
    <3>3. h % 2 = 0 => b % 2 = 0
      BY <1>1, <1>3, <1>4, SMT
    <3> QED
      BY <1>5, <3>2, <3>3
(* The last point below this exponent.                                     *)
  <2>2. CASE h = 1024 /\ e = 1
    <3>1. b - 1 = 1023 /\ 1023 \in 0..1024
      BY <1>4, <2>2, SMT
    <3>2. MidExponent(b - 1) = 1 /\ MidSignificand(b - 1) = 2047
      BY <3>1, SubnormalPoints
    <3>3. (MidExponent(b - 1) - 26) - (Exponent(f) - 150) = 12
      BY <1>6, <2>2, <3>2, SMT
    <3>4. Compare(f, b - 1) = Against(s, 4096, 2047)
      <4>1. 12 \in 0..24 /\ 2^12 = 4096
        BY Powers, SMT
      <4>2. Compare(f, b - 1) = Against(Significand(f), 4096, MidSignificand(b - 1))
        BY <3>3, <4>1, CompareIs
      <4> QED
        BY <1>6, <3>2, <4>2
    <3>5. s \div 4096 > 2047
      BY <1>1, Powers, SMT
    <3> QED
      BY <1>1, <3>4, <3>5, SMT DEF Against
  <2>3. CASE h = 1024 /\ e > 1
    <3>1. b - 1 = ((e - 1) - 1) * 1024 + 2047 /\ e - 1 \in 1..31
      BY <1>1, <1>4, <2>3, SMT
    <3>2. MidExponent(b - 1) = e - 1 /\ MidSignificand(b - 1) = 4095
      <4> DEFINE u == e - 1
                 c == 2047
      <4>1. u \in 1..31 /\ b - 1 = (u - 1) * 1024 + c /\ c \in Nat /\ c >= 1024 /\ c < 2048
        BY <3>1
      <4> HIDE DEF u, c
      <4>2. MidExponent(b - 1) = u /\ MidSignificand(b - 1) = 2*c + 1
        BY <4>1, NormalPoints
      <4> QED
        BY <4>2 DEF u, c
    <3>3. (MidExponent(b - 1) - 26) - (Exponent(f) - 150) = 11
      BY <1>1, <1>6, <3>2, SMT
    <3>4. Compare(f, b - 1) = Against(s, 2048, 4095)
      <4>1. 11 \in 0..24 /\ 2^11 = 2048
        BY Powers, SMT
      <4>2. Compare(f, b - 1) = Against(Significand(f), 2048, MidSignificand(b - 1))
        BY <3>3, <4>1, CompareIs
      <4> QED
        BY <1>6, <3>2, <4>2
    <3>5. s \div 2048 > 4095
      BY <1>1, Powers, SMT
    <3> QED
      BY <1>1, <3>4, <3>5, SMT DEF Against
  <2> QED
    BY <1>1, <1>3, <2>1, <2>2, <2>3, SMT
<1>10. b \in Nat /\ b <= Infinity16
  BY <1>1, <1>3, <1>4, Powers, SMT DEF Infinity16
<1>11. ASSUME NEW sign PROVE Nearest([sign |-> sign, bits |-> b], f)
  <2> DEFINE g == [sign |-> sign, bits |-> b]
  <2>1. g.bits = b
    OBVIOUS
  <2>2. b < Infinity16 => b < 31744
    BY Powers, SMT DEF Infinity16
  <2> HIDE DEF g
  <2>3. b < Infinity16 => \/ Compare(f, b) = -1
                          \/ Compare(f, b) = 0 /\ b % 2 = 0
    BY <1>8, <2>2
  <2>4. Nearest(g, f)
    BY <1>9, <2>1, <2>3, Zenon DEF Nearest
  <2> QED
    BY <2>4 DEF g
<1> QED
  BY <1>10, <1>11

(* A number below half the smallest half.                                  *)
LEMMA ZeroNear ==
  ASSUME NEW f, NEW E \in 0..101, NEW m, Parts(f, E, m),
         Exponent(f) = IF E = 0 THEN 1 ELSE E,
         Significand(f) = IF E = 0 THEN m ELSE 2^23 + m
  PROVE  \A sign : Nearest([sign |-> sign, bits |-> 0], f)
<1>1. MidExponent(0) = 1 /\ MidSignificand(0) = 1
  <2>1. 0 \in 0..1024 /\ 2*0 + 1 = 1
    BY SMT
  <2> QED
    BY <2>1, SubnormalPoints
<1> DEFINE k == 125 - Exponent(f)
           s == Significand(f)
<1>2. k \in Int /\ k >= 24 /\ (MidExponent(0) - 26) - (Exponent(f) - 150) = k
  BY <1>1, SMT
<1>3. s \in Nat /\ s < 16777216
  BY Powers, SMT DEF Parts
<1> HIDE DEF k, s
<1>4. Compare(f, 0) = -1
  <2>1. CASE k > 24
    <3>1. MidSignificand(0) > 0
      BY <1>1
    <3> QED
      BY <1>2, <2>1, <3>1, CompareBelow
  <2>2. CASE k = 24
    <3> DEFINE p == 2^24
    <3>1. p = 16777216
      BY Powers
    <3>2. k \in 0..24 /\ 2^k = p /\ (MidExponent(0) - 26) - (Exponent(f) - 150) = k
      BY <1>2, <2>2, SMT
    <3> HIDE DEF p
    <3>3. Compare(f, 0) = Against(Significand(f), p, MidSignificand(0))
      BY <3>2, CompareIs
    <3>4. Compare(f, 0) = Against(s, p, 1)
      BY <1>1, <3>3 DEF s
    <3>5. s \div p < 1
      BY <1>3, <3>1, SMT
    <3> QED
      BY <3>4, <3>5, SMT DEF Against
  <2> QED
    BY <1>2, <2>1, <2>2, SMT
<1>5. ASSUME NEW sign PROVE Nearest([sign |-> sign, bits |-> 0], f)
  <2> DEFINE g == [sign |-> sign, bits |-> 0]
  <2>1. g.bits = 0 /\ ~(g.bits > 0)
    BY SMT
  <2> HIDE DEF g
  <2>2. Nearest(g, f)
    BY <1>4, <2>1, Zenon DEF Nearest
  <2> QED
    BY <2>2 DEF g
<1> QED
  BY <1>5

(* A number above the largest half and the half of a step after it.        *)
LEMMA InfinityNear ==
  ASSUME NEW f, NEW E \in 143..255, NEW m, Parts(f, E, m),
         Exponent(f) = E, Significand(f) = 2^23 + m
  PROVE  \A sign : Nearest([sign |-> sign, bits |-> Infinity16], f)
<1> DEFINE b == Infinity16 - 1
           s == 2^23 + m
           k == 154 - E
<1>1. MidExponent(b) = 30 /\ MidSignificand(b) = 4095
  <2> DEFINE e == 30
             c == 2047
  <2>1. e \in 1..31 /\ c \in Nat /\ c >= 1024 /\ c < 2048 /\ b = (e - 1) * 1024 + c
    BY Powers, SMT DEF Infinity16
  <2> HIDE DEF b, e, c
  <2>2. MidExponent(b) = e /\ MidSignificand(b) = 2*c + 1
    BY <2>1, NormalPoints
  <2> QED
    BY <2>2, SMT DEF e, c
<1>2. k \in Int /\ k <= 11 /\ (MidExponent(b) - 26) - (Exponent(f) - 150) = k
  <2> HIDE DEF b
  <2> QED
    BY <1>1, SMT
<1>3. s \in Nat /\ s >= 8388608
  BY Powers, SMT DEF Parts
<1>4. Significand(f) = s
  OBVIOUS
<1> HIDE DEF k, s, b
<1>5. Compare(f, b) = 1
  <2>1. CASE k < 0
    BY <1>2, <2>1, CompareAbove
  <2>2. CASE k >= 0
    <3> DEFINE p == 2^k
    <3>1. p \in {1, 2, 4, 8, 16, 32, 64, 128, 256, 512, 1024, 2048} /\ k \in 0..24
      <4>1. k \in {0, 1, 2, 3, 4, 5, 6, 7, 8, 9, 10, 11}
        BY <1>2, <2>2, SMT
      <4>2. /\ 2^0 = 1 /\ 2^1 = 2 /\ 2^2 = 4 /\ 2^3 = 8 /\ 2^4 = 16 /\ 2^5 = 32
            /\ 2^6 = 64 /\ 2^7 = 128 /\ 2^8 = 256 /\ 2^9 = 512 /\ 2^10 = 1024 /\ 2^11 = 2048
        BY SMT
      <4>3. CASE k = 0
        BY <4>3, <4>2, SMT
      <4>4. CASE k = 1
        BY <4>4, <4>2, SMT
      <4>5. CASE k = 2
        BY <4>5, <4>2, SMT
      <4>6. CASE k = 3
        BY <4>6, <4>2, SMT
      <4>7. CASE k = 4
        BY <4>7, <4>2, SMT
      <4>8. CASE k = 5
        BY <4>8, <4>2, SMT
      <4>9. CASE k = 6
        BY <4>9, <4>2, SMT
      <4>10. CASE k = 7
        BY <4>10, <4>2, SMT
      <4>11. CASE k = 8
        BY <4>11, <4>2, SMT
      <4>12. CASE k = 9
        BY <4>12, <4>2, SMT
      <4>13. CASE k = 10
        BY <4>13, <4>2, SMT
      <4>14. CASE k = 11
        BY <4>14, <4>2, SMT
      <4> QED
        BY <4>1, <4>3, <4>4, <4>5, <4>6, <4>7, <4>8, <4>9, <4>10, <4>11, <4>12, <4>13, <4>14
    <3> HIDE DEF p
    <3>2. Compare(f, b) = Against(Significand(f), p, MidSignificand(b))
      <4>1. k \in 0..24 /\ 2^k = p /\ (MidExponent(b) - 26) - (Exponent(f) - 150) = k
        BY <1>2, <3>1 DEF p
      <4> QED
        BY <4>1, CompareIs
    <3>3. Compare(f, b) = Against(s, p, 4095)
      BY <1>1, <1>4, <3>2
    <3>4. s \div p > 4095
      BY <1>3, <3>1, SMTT(30)
    <3> QED
      <4>1. s \div p \in Int
        BY <1>3, <3>1, SMT
      <4> QED
        BY <3>3, <3>4, <4>1, SMT DEF Against
  <2> QED
    BY <1>2, <2>1, <2>2, SMT
<1>6. ASSUME NEW sign PROVE Nearest([sign |-> sign, bits |-> Infinity16], f)
  <2> DEFINE g == [sign |-> sign, bits |-> Infinity16]
  <2>1. g.bits = Infinity16 /\ g.bits - 1 = b /\ ~(g.bits < Infinity16)
    BY Powers, SMT DEF Infinity16, b
  <2> HIDE DEF g
  <2>2. Nearest(g, f)
    BY <1>5, <2>1, Zenon DEF Nearest
  <2> QED
    BY <2>2 DEF g
<1> QED
  BY <1>6

(* What a float32 is stored as (f16.go:36-66).                             *)
LEMMA StoredNear ==
  ASSUME NEW f \in Floats
  PROVE  LET h == F32ToF16(f)
         IN  /\ h.sign = f.sign
             /\ IsNaN(f, Infinity32) => IsNaN(h, Infinity16)
             /\ ~IsNaN(f, Infinity32) => Nearest(h, f)
             /\ ~IsNaN(h, Infinity16) => h.bits \in Nat /\ h.bits <= Infinity16
<1> DEFINE E == f.bits \div 2^23
           m == f.bits % 2^23
           b == HalfBits(E, m)
           h == [sign |-> f.sign, bits |-> b]
           Good == /\ IsNaN(f, Infinity32) => b > Infinity16
                   /\ ~IsNaN(f, Infinity32) => \A sign : Nearest([sign |-> sign, bits |-> b], f)
                   /\ ~(b > Infinity16) => b \in Nat /\ b <= Infinity16
<1>1. /\ Parts(f, E, m)
      /\ Exponent(f) = IF E = 0 THEN 1 ELSE E
      /\ Significand(f) = IF E = 0 THEN m ELSE 2^23 + m
  BY FloatParts
<1>2. F32ToF16(f) = h
  BY F32ToF16Bits
<1> HIDE DEF E, m
<1>3. E \in 0..255 /\ m \in Nat
  BY <1>1, SMT DEF Parts
<1>4. IsNaN(f, Infinity32) <=> E = 255 /\ m > 0
  <2>1. IsNaN(f, Infinity32) <=> E * 2^23 + m > 255 * 2^23
    BY <1>1, SMT DEF Parts, IsNaN, Infinity32
  <2> QED
    BY <1>1, <2>1, Powers, SMT DEF Parts
<1>5. b = IF E = 255 THEN IF m # 0 THEN QuietNaN16 ELSE Infinity16
          ELSE IF E >= 143 THEN Infinity16
          ELSE IF E < 102 THEN 0
          ELSE IF E <= 112 THEN rounded(m + 2^23, 14 - (E - 127 + 15))
          ELSE rounded((E - 127 + 15) * 2^23 + m, 13)
  <2> DEFINE e == E - 127 + 15
  <2>1. /\ e >= 31 <=> E >= 143
        /\ e < -10 <=> E < 102
        /\ e <= 0 <=> E <= 112
    BY <1>3, SMT
  <2>2. b = IF E = 255 THEN IF m # 0 THEN QuietNaN16 ELSE Infinity16
            ELSE IF e >= 31 THEN Infinity16
            ELSE IF e < -10 THEN 0
            ELSE IF e <= 0 THEN rounded(m + 2^23, 14 - e)
            ELSE rounded(e * 2^23 + m, 13)
    BY Zenon DEF HalfBits
  <2> HIDE DEF b, e
  <2>3. b = IF E = 255 THEN IF m # 0 THEN QuietNaN16 ELSE Infinity16
            ELSE IF E >= 143 THEN Infinity16
            ELSE IF E < 102 THEN 0
            ELSE IF E <= 112 THEN rounded(m + 2^23, 14 - e)
            ELSE rounded(e * 2^23 + m, 13)
    BY <2>1, <2>2, Zenon
  <2> QED
    BY <2>3, Zenon DEF e
<1>6. Infinity16 \in Nat /\ QuietNaN16 > Infinity16
  BY Powers, SMT DEF Infinity16, QuietNaN16
<1> HIDE DEF b
<1>7. ASSUME E = 255 /\ m # 0 PROVE Good
  <2>1. b = QuietNaN16 /\ IsNaN(f, Infinity32)
    BY <1>3, <1>4, <1>5, <1>7, SMT
  <2> QED
    BY <1>6, <2>1, SMT
<1>8. ASSUME E >= 143 /\ ~(E = 255 /\ m # 0) PROVE Good
  <2>1. b = Infinity16 /\ ~IsNaN(f, Infinity32)
    BY <1>3, <1>4, <1>5, <1>8, SMT
  <2>2. E \in 143..255 /\ Exponent(f) = E /\ Significand(f) = 2^23 + m
    BY <1>1, <1>3, <1>8, SMT
  <2>3. \A sign : Nearest([sign |-> sign, bits |-> Infinity16], f)
    BY <1>1, <2>2, InfinityNear
  <2>4. \A sign : Nearest([sign |-> sign, bits |-> b], f)
    BY <2>1, <2>3, Zenon
  <2>5. b \in Nat /\ b <= Infinity16
    BY <1>6, <2>1, SMT
  <2> QED
    BY <2>1, <2>4, <2>5
<1>9. ASSUME E \in 113..142 PROVE Good
  <2>1. /\ b = rounded((E - 127 + 15) * 2^23 + m, 13) /\ ~IsNaN(f, Infinity32)
        /\ Exponent(f) = E /\ Significand(f) = 2^23 + m
    BY <1>1, <1>4, <1>5, <1>9, SMT
  <2>2. b \in Nat /\ b <= Infinity16 /\ \A sign : Nearest([sign |-> sign, bits |-> b], f)
    BY <1>1, <1>9, <2>1, NormalNear
  <2> QED
    BY <2>1, <2>2
<1>10. ASSUME E \in 102..112 PROVE Good
  <2>1. /\ b = rounded(m + 2^23, 14 - (E - 127 + 15)) /\ ~IsNaN(f, Infinity32)
        /\ Exponent(f) = E /\ Significand(f) = 2^23 + m
    BY <1>1, <1>4, <1>5, <1>10, SMT
  <2>2. b \in 0..1024 /\ \A sign : Nearest([sign |-> sign, bits |-> b], f)
    BY <1>1, <1>10, <2>1, SubnormalNear
  <2>3. b \in Nat /\ b <= Infinity16
    BY <2>2, Powers, SMT DEF Infinity16
  <2> QED
    BY <2>1, <2>2, <2>3
<1>11. ASSUME E \in 0..101 PROVE Good
  <2>1. b = 0 /\ ~IsNaN(f, Infinity32)
    BY <1>3, <1>4, <1>5, <1>11, SMT
  <2>2. \A sign : Nearest([sign |-> sign, bits |-> 0], f)
    BY <1>1, <1>11, ZeroNear
  <2>3. b \in Nat /\ b <= Infinity16
    BY <1>6, <2>1, SMT
  <2> QED
    BY <2>1, <2>2, <2>3
<1>12. Good
  <2>1. \/ E = 255 /\ m # 0
        \/ E >= 143 /\ ~(E = 255 /\ m # 0)
        \/ E \in 113..142
        \/ E \in 102..112
        \/ E \in 0..101
    BY <1>3, SMT
  <2> HIDE DEF Good
  <2> QED
    BY <1>7, <1>8, <1>9, <1>10, <1>11, <2>1, Zenon
<1>13. h.sign = f.sign /\ h.bits = b
  OBVIOUS
<1>14. IsNaN(h, Infinity16) <=> b > Infinity16
  BY <1>13, Zenon DEF IsNaN
<1>15. /\ h.sign = f.sign
       /\ IsNaN(f, Infinity32) => IsNaN(h, Infinity16)
       /\ ~IsNaN(f, Infinity32) => Nearest(h, f)
       /\ ~IsNaN(h, Infinity16) => h.bits \in Nat /\ h.bits <= Infinity16
  <2>1. ~IsNaN(f, Infinity32) => Nearest(h, f)
    BY <1>12
  <2> HIDE DEF h
  <2> QED
    BY <1>12, <1>13, <1>14, <2>1
<1> QED
  BY <1>2, <1>15

-----------------------------------------------------------------------------
(* A half that is loaded and stored again (f16.go:5-66).                   *)

(* Nothing is rounded that has only zeros in its last bits.                *)
LEMMA RoundedExact ==
  ASSUME NEW a \in Nat, NEW n, NEW p, Shifts(n, p), NEW s, s = a * (2*p)
  PROVE  rounded(s, n) = a
<1> DEFINE d == 2*p
<1>1. p \in Nat \ {0} /\ 2^(n - 1) = p /\ 2^n = d /\ d \in Nat \ {0} /\ 0 < d
  BY SMT DEF Shifts
<1>2. s = a * d + 0
  BY <1>1, SMT
<1> HIDE DEF d
<1>3. s \div d = a /\ s % d = 0
  <2>1. 0 \in Nat /\ a * d + 0 = s
    BY <1>2
  <2> QED
    BY <1>1, <2>1, Quotient
<1>4. ~(0 > p) /\ 0 # p
  BY <1>1, SMT
<1>5. rounded(s, n) = IF s % d > p \/ (s % d = p /\ (s \div d) % 2 = 1)
                      THEN (s \div d) + 1 ELSE s \div d
  BY <1>1, Zenon DEF rounded
<1> QED
  BY <1>3, <1>4, <1>5, Zenon

(* The leading bit of a subnormal shows after some shift.                  *)
LEMMA ShiftsIs ==
  ASSUME NEW mant \in Nat, mant > 0, mant < 1024
  PROVE  LET k == shifts(mant)
         IN  k \in 1..10 /\ mant * 2^k \in Nat /\ mant * 2^k >= 1024 /\ mant * 2^k < 2048
<1> DEFINE P(k) == mant * 2^k \in 2^10..2^11-1
<1>1. \E k \in 1..10 : P(k)
  <2> DEFINE Q(p) == mant * p >= 1024 /\ mant * p <= 2047
  <2>1. ASSUME NEW k \in 1..10, NEW p \in Nat, 2^k = p, Q(p) PROVE P(k)
    <3>1. mant * p \in 2^10..2^11-1
      BY <2>1, Powers, SMT
    <3> QED
      BY <2>1, <3>1
  <2>2. Q(2) \/ Q(4) \/ Q(8) \/ Q(16) \/ Q(32) \/ Q(64) \/ Q(128) \/ Q(256) \/ Q(512) \/ Q(1024)
    BY SMT
  <2>3. /\ 2^1 = 2 /\ 2^2 = 4 /\ 2^3 = 8 /\ 2^4 = 16 /\ 2^5 = 32 /\ 2^6 = 64 /\ 2^7 = 128
        /\ 2^8 = 256 /\ 2^9 = 512 /\ 2^10 = 1024
    BY SMT
  <2> HIDE DEF P, Q
  <2>4. Q(2) => P(1)
    BY <2>1, <2>3, SMT
  <2>5. Q(4) => P(2)
    BY <2>1, <2>3, SMT
  <2>6. Q(8) => P(3)
    BY <2>1, <2>3, SMT
  <2>7. Q(16) => P(4)
    BY <2>1, <2>3, SMT
  <2>8. Q(32) => P(5)
    BY <2>1, <2>3, SMT
  <2>9. Q(64) => P(6)
    BY <2>1, <2>3, SMT
  <2>10. Q(128) => P(7)
    BY <2>1, <2>3, SMT
  <2>11. Q(256) => P(8)
    BY <2>1, <2>3, SMT
  <2>12. Q(512) => P(9)
    BY <2>1, <2>3, SMT
  <2>13. Q(1024) => P(10)
    BY <2>1, <2>3, SMT
  <2>14. /\ 1 \in 1..10 /\ 2 \in 1..10 /\ 3 \in 1..10 /\ 4 \in 1..10 /\ 5 \in 1..10
         /\ 6 \in 1..10 /\ 7 \in 1..10 /\ 8 \in 1..10 /\ 9 \in 1..10 /\ 10 \in 1..10
    BY SMT
  <2> QED
    BY <2>2, <2>4, <2>5, <2>6, <2>7, <2>8, <2>9, <2>10, <2>11, <2>12, <2>13, <2>14
<1>2. shifts(mant) = CHOOSE k \in 1..10 : P(k)
  BY Zenon DEF shifts
<1>3. shifts(mant) \in 1..10 /\ P(shifts(mant))
  <2> HIDE DEF P
  <2> QED
    BY <1>1, <1>2, Zenon
<1> QED
  BY <1>3, Powers, SMT

(* The bits of the float32 a half is loaded as.                            *)
FloatBits(exp, mant) ==
  IF exp = 0
  THEN IF mant = 0 THEN 0
       ELSE (127 - 15 + 1 - shifts(mant)) * 2^23 + (mant * 2^shifts(mant) - 2^10) * 2^13
  ELSE IF exp = 31 THEN Infinity32 + mant * 2^13
  ELSE (exp + 127 - 15) * 2^23 + mant * 2^13

LEMMA F16ToF32Bits ==
  ASSUME NEW h
  PROVE  F16ToF32(h) = [sign |-> h.sign, bits |-> FloatBits(h.bits \div 2^10, h.bits % 2^10)]
BY Zenon DEF F16ToF32, FloatBits

(* The parts of the bits of a float32.                                     *)
LEMMA BitParts ==
  ASSUME NEW E \in Nat, NEW m \in Nat, m < 2^23, NEW x, x = E * 2^23 + m
  PROVE  x \div 2^23 = E /\ x % 2^23 = m
<1>1. m < 8388608 /\ x = E * 8388608 + m
  BY Powers, SMT
<1>2. x \div 8388608 = E /\ x % 8388608 = m
  BY <1>1, SMT
<1> QED
  BY <1>2, Powers, SMT

(* Every half that is a number, whatever its exponent.                     *)
LEMMA BitsReturn ==
  ASSUME NEW b \in Nat, b <= Infinity16,
         NEW x, x = FloatBits(b \div 2^10, b % 2^10)
  PROVE  HalfBits(x \div 2^23, x % 2^23) = b
<1> DEFINE exp  == b \div 2^10
           mant == b % 2^10
<1>1. /\ exp \in 0..31 /\ mant \in Nat /\ mant < 1024 /\ b = exp * 1024 + mant
      /\ exp = 31 => mant = 0
  <2>1. exp = b \div 1024 /\ mant = b % 1024
    BY Powers, SMT
  <2>2. b <= 31744
    BY Powers, SMT DEF Infinity16
  <2> HIDE DEF exp, mant
  <2> QED
    BY <2>1, <2>2, SMT
<1>2. x = FloatBits(exp, mant)
  OBVIOUS
<1> HIDE DEF exp, mant
<1>3. CASE exp = 0 /\ mant = 0
  <2>1. x = 0
    BY <1>2, <1>3, Zenon DEF FloatBits
  <2>2. x \div 2^23 = 0 /\ x % 2^23 = 0
    BY <2>1, Powers, SMT
  <2>3. HalfBits(0, 0) = 0
    BY SMT DEF HalfBits
  <2>4. b = 0
    BY <1>1, <1>3, SMT
  <2> QED
    BY <2>2, <2>3, <2>4, Zenon
<1>4. CASE exp = 0 /\ mant > 0
  <2> DEFINE k == shifts(mant)
             E == 113 - k
             q == 2^k
             m == (mant * q - 1024) * 8192
             n == 13 + k
  <2>1. k \in 1..10 /\ mant * q \in Nat /\ mant * q >= 1024 /\ mant * q < 2048
    BY <1>1, <1>4, ShiftsIs
  <2>2. x = (127 - 15 + 1 - k) * 2^23 + (mant * q - 2^10) * 2^13
    <3>1. exp = 0 /\ mant # 0
      BY <1>4
    <3> QED
      BY <1>2, <3>1, Zenon DEF FloatBits
  <2>3. q \in Nat /\ Shifts(n, 4096 * q)
    <3> HIDE DEF k
    <3>1. k \in {1, 2, 3, 4, 5, 6, 7, 8, 9, 10}
      BY <2>1, SMT
    <3>2. /\ 2^1 = 2 /\ 2^2 = 4 /\ 2^3 = 8 /\ 2^4 = 16 /\ 2^5 = 32 /\ 2^6 = 64 /\ 2^7 = 128
          /\ 2^8 = 256 /\ 2^9 = 512
      BY SMT
    <3>3. CASE k = 1
      BY <3>3, <3>2, Powers, SMT DEF Shifts
    <3>4. CASE k = 2
      BY <3>4, <3>2, Powers, SMT DEF Shifts
    <3>5. CASE k = 3
      BY <3>5, <3>2, Powers, SMT DEF Shifts
    <3>6. CASE k = 4
      BY <3>6, <3>2, Powers, SMT DEF Shifts
    <3>7. CASE k = 5
      BY <3>7, <3>2, Powers, SMT DEF Shifts
    <3>8. CASE k = 6
      BY <3>8, <3>2, Powers, SMT DEF Shifts
    <3>9. CASE k = 7
      BY <3>9, <3>2, Powers, SMT DEF Shifts
    <3>10. CASE k = 8
      BY <3>10, <3>2, Powers, SMT DEF Shifts
    <3>11. CASE k = 9
      BY <3>11, <3>2, Powers, SMT DEF Shifts
    <3>12. CASE k = 10
      BY <3>12, <3>2, Powers, SMT DEF Shifts
    <3> QED
      BY <3>1, <3>3, <3>4, <3>5, <3>6, <3>7, <3>8, <3>9, <3>10, <3>11, <3>12
  <2> HIDE DEF k, q
  <2>4. E \in 103..112 /\ m \in Nat /\ m < 2^23 /\ x = E * 2^23 + m
    BY <2>1, <2>2, Powers, SMT
  <2>5. x \div 2^23 = E /\ x % 2^23 = m
    <3>1. E \in Nat
      BY <2>4
    <3> HIDE DEF E, m
    <3> QED
      BY <2>4, <3>1, BitParts
  <2>6. HalfBits(E, m) = rounded(m + 2^23, n)
    <3> DEFINE e == E - 127 + 15
    <3>1. E # 255 /\ ~(e >= 31) /\ ~(e < -10) /\ e <= 0 /\ 14 - e = n
      BY <2>1, SMT
    <3> HIDE DEF E, m
    <3>2. HalfBits(E, m) = IF E = 255 THEN IF m # 0 THEN QuietNaN16 ELSE Infinity16
                           ELSE IF e >= 31 THEN Infinity16
                           ELSE IF e < -10 THEN 0
                           ELSE IF e <= 0 THEN rounded(m + 2^23, 14 - e)
                           ELSE rounded(e * 2^23 + m, 13)
      BY Zenon DEF HalfBits
    <3> HIDE DEF n, e
    <3> QED
      BY <3>1, <3>2, Zenon
  <2>7. m + 2^23 = mant * (2 * (4096 * q))
    BY <1>1, <2>1, <2>3, Powers, SMT
  <2>8. rounded(m + 2^23, n) = mant
    <3> DEFINE p == 4096 * q
               s == m + 2^23
    <3> HIDE DEF m, n
    <3>1. Shifts(n, p) /\ s = mant * (2 * p)
      BY <2>3, <2>7
    <3> HIDE DEF p, s
    <3>2. rounded(s, n) = mant
      BY <1>1, <3>1, RoundedExact
    <3> QED
      BY <3>2 DEF s
  <2>9. b = mant
    BY <1>1, <1>4, SMT
  <2> HIDE DEF E, m, n
  <2> QED
    BY <2>5, <2>6, <2>8, <2>9, Zenon
<1>5. CASE exp \in 1..30
  <2> DEFINE E == exp + 112
             m == mant * 8192
  <2>1. x = (exp + 127 - 15) * 2^23 + mant * 2^13
    <3>1. exp # 0 /\ exp # 31
      BY <1>5
    <3> QED
      BY <1>2, <3>1, Zenon DEF FloatBits
  <2>2. E \in 113..142 /\ m \in Nat /\ m < 2^23 /\ x = E * 2^23 + m
    BY <1>1, <1>5, <2>1, Powers, SMT
  <2>3. x \div 2^23 = E /\ x % 2^23 = m
    <3>1. E \in Nat
      BY <2>2
    <3> HIDE DEF E, m
    <3> QED
      BY <2>2, <3>1, BitParts
  <2>4. HalfBits(E, m) = rounded((E - 127 + 15) * 2^23 + m, 13)
    <3> DEFINE e == E - 127 + 15
    <3>1. E # 255 /\ ~(e >= 31) /\ ~(e < -10) /\ ~(e <= 0)
      BY <1>5, SMT
    <3> HIDE DEF E, m
    <3>2. HalfBits(E, m) = IF E = 255 THEN IF m # 0 THEN QuietNaN16 ELSE Infinity16
                           ELSE IF e >= 31 THEN Infinity16
                           ELSE IF e < -10 THEN 0
                           ELSE IF e <= 0 THEN rounded(m + 2^23, 14 - e)
                           ELSE rounded(e * 2^23 + m, 13)
      BY Zenon DEF HalfBits
    <3> HIDE DEF e
    <3>3. HalfBits(E, m) = rounded(e * 2^23 + m, 13)
      BY <3>1, <3>2, Zenon
    <3> QED
      BY <3>3, Zenon DEF e
  <2>5. rounded((E - 127 + 15) * 2^23 + m, 13) = b
    <3> DEFINE s == (E - 127 + 15) * 2^23 + m
               p == 4096
               n == 13
    <3>1. Shifts(n, p)
      BY Powers, SMT DEF Shifts
    <3>2. s = b * (2 * p)
      BY <1>1, <1>5, Powers, SMT
    <3> HIDE DEF s, p, n, E, m
    <3>3. rounded(s, n) = b
      BY <3>1, <3>2, RoundedExact, Zenon
    <3> QED
      BY <3>3, Zenon DEF s, n
  <2> HIDE DEF E, m
  <2> QED
    BY <2>3, <2>4, <2>5, Zenon
<1>6. CASE exp = 31
  <2>1. x = Infinity32 + 0 * 2^13
    <3>1. exp # 0 /\ mant = 0
      BY <1>1, <1>6
    <3> QED
      BY <1>2, <1>6, <3>1, Zenon DEF FloatBits
  <2>2. x = 255 * 2^23 + 0
    BY <2>1, Powers, SMT DEF Infinity32
  <2>3. x \div 2^23 = 255 /\ x % 2^23 = 0
    BY <2>2, Powers, SMT
  <2>4. HalfBits(255, 0) = Infinity16
    BY Zenon DEF HalfBits
  <2>5. b = Infinity16
    BY <1>1, <1>6, Powers, SMT DEF Infinity16
  <2> QED
    BY <2>3, <2>4, <2>5, Zenon
<1> QED
  BY <1>1, <1>3, <1>4, <1>5, <1>6, SMT

(* A half that is a number stores as itself.                               *)
LEMMA HalfReturns ==
  ASSUME NEW h, h = [sign |-> h.sign, bits |-> h.bits], h.bits \in Nat, h.bits <= Infinity16
  PROVE  F32ToF16(F16ToF32(h)) = h
<1> DEFINE x == FloatBits(h.bits \div 2^10, h.bits % 2^10)
           f == [sign |-> h.sign, bits |-> x]
<1>1. F16ToF32(h) = f
  BY F16ToF32Bits
<1>2. f.sign = h.sign /\ f.bits = x
  OBVIOUS
<1>3. HalfBits(x \div 2^23, x % 2^23) = h.bits
  BY BitsReturn
<1> HIDE DEF x, f
<1>4. F32ToF16(f) = [sign |-> f.sign, bits |-> HalfBits(f.bits \div 2^23, f.bits % 2^23)]
  BY F32ToF16Bits
<1> QED
  BY <1>1, <1>2, <1>3, <1>4, Zenon

-----------------------------------------------------------------------------
(* The cell of a KV cache.                                                 *)

(* A cell holds what its number was stored as, and what was loaded is what *)
(* it holds (forward.go:67-88).                                            *)
CellInv ==
  /\ use = "cell" => number \in Numbers
  /\ cell # None => use = "cell" /\ cell = F32ToF16(number)
  /\ loaded # None => cell # None /\ loaded = F16ToF32(cell)

(* HalfNearest holds of such a cell.                                       *)
LEMMA CellIsNearest == CellInv => HalfNearest
<1> SUFFICES ASSUME CellInv, cell # None PROVE HalfNearest
  <2>1. ASSUME CellInv, cell = None PROVE HalfNearest
    BY <2>1, Zenon DEF CellInv, HalfNearest
  <2> QED
    BY <2>1
<1>1. number \in Floats /\ cell = F32ToF16(number)
  BY OperatorsAssumption DEF CellInv
<1>2. /\ cell.sign = number.sign
      /\ IsNaN(number, Infinity32) => IsNaN(cell, Infinity16)
      /\ ~IsNaN(number, Infinity32) => Nearest(cell, number)
      /\ ~IsNaN(cell, Infinity16) => cell.bits \in Nat /\ cell.bits <= Infinity16
  BY <1>1, StoredNear
<1>3. cell = [sign |-> cell.sign, bits |-> cell.bits]
  <2> DEFINE bits == HalfBits(number.bits \div 2^23, number.bits % 2^23)
             sign == number.sign
  <2>1. cell = [sign |-> sign, bits |-> bits]
    BY <1>1, F32ToF16Bits
  <2> HIDE DEF bits, sign
  <2> QED
    BY <2>1
<1>4. ASSUME loaded # None, ~IsNaN(cell, Infinity16) PROVE F32ToF16(loaded) = cell
  <2>1. loaded = F16ToF32(cell)
    BY <1>4, Zenon DEF CellInv
  <2>2. F32ToF16(F16ToF32(cell)) = cell
    BY <1>2, <1>3, <1>4, HalfReturns
  <2> QED
    BY <2>1, <2>2, Zenon
<1> QED
  BY <1>2, <1>4, Zenon DEF HalfNearest

(* The cell's part of the state is as Store and Load leave it.             *)
LEMMA CellHolds == Spec => []CellInv
<1>1. Init => CellInv
  BY Zenon DEF Init, CellInv
<1>2. CellInv /\ [Next]_vars => CellInv'
  <2> SUFFICES ASSUME CellInv, [Next]_vars PROVE CellInv'
    OBVIOUS
  <2>1. CASE Store
    BY <2>1, Zenon DEF Store, CellInv
  <2>2. CASE Load
    BY <2>2, Zenon DEF Load, CellInv
  <2>3. CASE UNCHANGED <<use, cellVars>>
    BY <2>3, Zenon DEF CellInv, cellVars
  <2>4. ASSUME NEW src \in Sources, Quantize(src) PROVE UNCHANGED <<use, cellVars>>
    BY <2>4 DEF Quantize, cellVars
  <2>5. ASSUME NEW r \in DOMAIN Rows, MatVecQ8K(r) \/ Decode(r)
        PROVE  UNCHANGED <<use, cellVars>>
    BY <2>5 DEF MatVecQ8K, Decode, cellVars
  <2>6. CASE Argmax
    BY <2>3, <2>6 DEF Argmax, cellVars
  <2>7. CASE UNCHANGED vars
    BY <2>3, <2>7 DEF vars, cellVars
  <2> QED
    BY <2>1, <2>2, <2>3, <2>4, <2>5, <2>6, <2>7, Zenon DEF Next
<1> QED
  BY <1>1, <1>2, PTL DEF Spec

(* A stored number is the nearest half, and is stored as the same half     *)
(* again once it was loaded (f16.go:5-67), for every float32.              *)
THEOREM HalvesAreNearest == Spec => []HalfNearest
BY CellHolds, CellIsNearest, PTL
=============================================================================
