-------------------------- MODULE GenerationProofs --------------------------
(***************************************************************************)
(* Proofs about Session, for any numbers of layers, heads, positions and   *)
(* tokens and any caller of Forward and Reset, and then about Generation,  *)
(* for any prompts, any limits and any session.                            *)
(***************************************************************************)
EXTENDS Generation, SequenceTheorems, TLAPS

-----------------------------------------------------------------------------
(* The layout of the caches and of the heads.                              *)

(* Position x of head h has an element of its own.                         *)
LEMMA SlotsApart ==
  ASSUME NEW h \in 0..KVHeads-1, NEW g \in 0..KVHeads-1,
         NEW x \in 0..Capacity-1, NEW y \in 0..Capacity-1
  PROVE  /\ slot(h, x) \in Slots
         /\ slot(h, x) = slot(g, y) => h = g /\ x = y
<1> USE SessionAssumption
<1>1. \A a, b \in 0..KVHeads-1 : a < b => a * Capacity + Capacity <= b * Capacity
  <2> TAKE a, b \in 0..KVHeads-1
  <2> HAVE a < b
  <2>1. b * Capacity = a * Capacity + (b - a) * Capacity
    BY SMT
  <2>2. (b - a) * Capacity >= Capacity
    BY SMT
  <2> QED
    BY <2>1, <2>2, SMT
<1>2. \A a \in 0..KVHeads-1 : a * Capacity \in Nat /\ a * Capacity + Capacity <= KVHeads * Capacity
  <2> TAKE a \in 0..KVHeads-1
  <2>1. KVHeads * Capacity = a * Capacity + (KVHeads - a) * Capacity
    BY SMT
  <2>2. (KVHeads - a) * Capacity >= Capacity
    BY SMT
  <2>3. a * Capacity \in Nat
    BY SMT
  <2> QED
    BY <2>1, <2>2, <2>3, SMT
<1>3. slot(h, x) \in Slots
  BY <1>2, SMT DEF slot, Slots
<1>4. h < g \/ h = g \/ g < h
  OBVIOUS
<1>5. slot(h, x) = slot(g, y) => h = g /\ x = y
  BY <1>1, <1>2, <1>4, SMT DEF slot
<1> QED
  BY <1>3, <1>5

(* The code's KV head of a query head is the one of the head's group.      *)
LEMMA KVHeadOfGroup ==
  ASSUME NEW h \in 0..QueryHeads-1
  PROVE  kvHead(h) = Group(h) /\ Group(h) \in 0..KVHeads-1
<1> USE SessionAssumption
<1> DEFINE n == QueryHeads \div KVHeads
           g == h \div n
           r == h % n
<1>1. n \in Nat \ {0} /\ QueryHeads = n * KVHeads
  <2>1. n \in Nat
    BY SMT
  <2>2. QueryHeads = n * KVHeads + (QueryHeads % KVHeads)
    BY SMT
  <2>3. n * KVHeads = QueryHeads
    BY <2>1, <2>2, SMT
  <2>4. n # 0
    BY <2>3, SMT
  <2> QED
    BY <2>1, <2>3, <2>4
<1> HIDE DEF n
<1>2. g \in Nat /\ r \in 0..n-1 /\ h = g * n + r
  <2>1. h \in Nat
    OBVIOUS
  <2>2. g \in Nat
    BY <1>1, <2>1, SMT
  <2>3. r \in 0..n-1
    BY <1>1, <2>1, SMT
  <2>4. h = n * g + r
    BY <1>1, <2>1, SMT
  <2> QED
    BY <1>1, <2>2, <2>3, <2>4, SMT
<1> HIDE DEF g, r
<1>3. g < KVHeads
  <2> SUFFICES ASSUME g >= KVHeads PROVE FALSE
    BY <1>2
  <2>1. g * n >= KVHeads * n
    BY <1>1, <1>2, SMT
  <2>2. KVHeads * n = QueryHeads
    BY <1>1, SMT
  <2> QED
    BY <1>2, <2>1, <2>2, <1>1, SMT
<1>4. h * KVHeads = g * QueryHeads + r * KVHeads
  <2>1. h * KVHeads = (g * n + r) * KVHeads
    BY <1>2
  <2>2. (g * n + r) * KVHeads = g * (n * KVHeads) + r * KVHeads
    BY <1>1, <1>2, SMT
  <2> QED
    BY <1>1, <2>1, <2>2
<1>5. r * KVHeads \in 0..QueryHeads-1
  <2> DEFINE a == r * KVHeads
             b == (n - r) * KVHeads
  <2>1. a \in Nat
    BY <1>2, SMT
  <2>2. QueryHeads = a + b
    BY <1>1, <1>2, SMT
  <2>3. b \in Nat /\ b >= KVHeads
    BY <1>1, <1>2, SMT
  <2> HIDE DEF a, b
  <2>4. a \in 0..QueryHeads-1
    BY <2>1, <2>2, <2>3
  <2> QED
    BY <2>4 DEF a
<1>6. (h * KVHeads) \div QueryHeads = g
  <2> DEFINE s == r * KVHeads
  <2>1. s \in 0..QueryHeads-1 /\ h * KVHeads = g * QueryHeads + s
    BY <1>4, <1>5
  <2> HIDE DEF s
  <2>2. (g * QueryHeads + s) \div QueryHeads = g
    BY <2>1, <1>2, SMT
  <2> QED
    BY <2>1, <2>2
<1> QED
  BY <1>2, <1>3, <1>6 DEF kvHead, Group, g, n
-----------------------------------------------------------------------------
(* Sequences of tokens.                                                    *)

(* A prefix.                                                               *)
LEMMA Prefix ==
  ASSUME NEW s \in Seq(Tokens), NEW n \in 1..Len(s)
  PROVE  /\ SubSeq(s, 1, n) \in Seq(Tokens)
         /\ Len(SubSeq(s, 1, n)) = n
         /\ Last(SubSeq(s, 1, n)) = s[n]
<1>1. Len(s) \in Nat /\ \A x \in 1..n : s[x] \in Tokens
  BY ElementOfSeq, LenProperties
<1>2. /\ SubSeq(s, 1, n) \in Seq(Tokens)
      /\ Len(SubSeq(s, 1, n)) = n
      /\ \A x \in 1..n : SubSeq(s, 1, n)[x] = s[x]
  BY <1>1
<1> QED
  BY <1>1, <1>2 DEF Last

(* One more token.                                                         *)
LEMMA Extended ==
  ASSUME NEW s \in Seq(Tokens), NEW t \in Tokens
  PROVE  /\ Append(s, t) \in Seq(Tokens)
         /\ Len(Append(s, t)) = Len(s) + 1
         /\ Last(Append(s, t)) = t
         /\ SubSeq(Append(s, t), 1, Len(s) + 1) = Append(s, t)
         /\ \A n \in 1..Len(s) : /\ Append(s, t)[n] = s[n]
                                 /\ SubSeq(Append(s, t), 1, n) = SubSeq(s, 1, n)
<1> DEFINE u == Append(s, t)
<1>1. Len(s) \in Nat
  BY LenProperties
<1>2. /\ u \in Seq(Tokens) /\ Len(u) = Len(s) + 1 /\ u[Len(s) + 1] = t
      /\ \A n \in 1..Len(s) : u[n] = s[n]
  BY AppendProperties
<1>3. SubSeq(u, 1, Len(s) + 1) = u
  BY <1>2, SubSeqFull
<1>4. ASSUME NEW n \in 1..Len(s) PROVE SubSeq(u, 1, n) = SubSeq(s, 1, n)
  <2>1. u = s \o <<t>>
    BY AppendIsConcat
  <2>2. <<t>> \in Seq(Tokens) /\ 1 \in 1..Len(s)
    BY <1>1
  <2> QED
    BY <2>1, <2>2, SubSeqOfConcat1
<1> QED
  BY <1>2, <1>3, <1>4 DEF Last

-----------------------------------------------------------------------------
(* The inductive invariant.                                                *)

Rows == [head : 0..KVHeads-1, from : Seq(Tokens)]

(* The sequence under evaluation.                                          *)
Own == Append(Committed, token)

Busy ==
  fpc # "idle" => /\ pos < Capacity
                  /\ layer \in 1..Layers
                  /\ token \in Tokens
                  /\ fpc = "logits" => layer = Layers

(* What goes into a layer's attention.                                     *)
Carried ==
  fpc = "attention" => hidden = IF layer = 1 THEN <<token>> ELSE Own

(* The layers that are through have the rows of the current position.      *)
Current ==
  fpc # "idle" =>
    \A l \in 1..Layers, h \in 0..KVHeads-1 :
      l < layer \/ (l = layer /\ fpc # "attention") =>
        kv[l][slot(h, pos)] = KVRow(l, h, Own)

SessionInv ==
  /\ TypeOK
  /\ kv \in [1..Layers -> [Slots -> Rows]]
  /\ Busy
  /\ RowsAgree
  /\ Carried
  /\ AttendsToOwnContext
  /\ Current

(* The committed tokens are a sequence, as long as the position says.      *)
LEMMA CommittedTyped ==
  ASSUME SessionInv
  PROVE  Committed \in Seq(Tokens) /\ Len(Committed) = pos
<1> USE SessionAssumption
<1>1. pos \in 0..Capacity /\ kv \in [1..Layers -> [Slots -> Rows]]
  BY DEF SessionInv, TypeOK
<1>2. ASSUME NEW x \in 1..pos PROVE Last(kv[1][slot(0, x - 1)].from) \in Tokens
  <2> DEFINE row == kv[1][slot(0, x - 1)]
  <2>1. 0 \in 0..KVHeads-1 /\ 1 \in 1..Layers /\ x - 1 \in 0..Capacity-1
    BY <1>1
  <2>2. slot(0, x - 1) \in Slots
    BY <2>1, SlotsApart
  <2>3. row \in Rows
    BY <1>1, <2>1, <2>2
  <2>4. row = KVRow(1, 0, SubSeq(Committed, 1, x))
    BY <2>1, <1>2 DEF SessionInv, RowsAgree
  <2>5. row.from = <<Last(SubSeq(Committed, 1, x))>>
    BY <2>4 DEF KVRow
  <2>6. row.from \in Seq(Tokens)
    BY <2>3 DEF Rows
  <2> HIDE DEF row
  <2>7. Len(row.from) = 1 /\ row.from[1] \in Tokens
    BY <2>5, <2>6, ElementOfSeq
  <2> QED
    BY <2>7 DEF Last, row
<1> QED
  BY <1>1, <1>2 DEF Committed

(* It depends on the rows below the position only.                         *)
LEMMA CommittedFrame ==
  ASSUME pos' = pos,
         \A x \in 1..pos : kv'[1][slot(0, x - 1)] = kv[1][slot(0, x - 1)]
  PROVE  Committed' = Committed
<1>1. \A x \in 1..pos : Last(kv'[1][slot(0, x - 1)].from) = Last(kv[1][slot(0, x - 1)].from)
  OBVIOUS
<1> QED
  BY <1>1 DEF Committed, slot
-----------------------------------------------------------------------------
(* Attention.                                                              *)

(* A query head that finds the rows of one sequence computes from it.      *)
LEMMA AttendsTo ==
  ASSUME NEW l \in 1..Layers, NEW h \in 0..QueryHeads-1, NEW cache,
         NEW s \in Seq(Tokens), pos \in 0..Capacity-1, Len(s) = seqLen,
         \A x \in 1..seqLen :
           cache[slot(Group(h), x - 1)] = KVRow(l, Group(h), SubSeq(s, 1, x))
  PROVE  attend(l, h, cache) = s
<1> USE SessionAssumption
<1> DEFINE row(x) == cache[slot(kvHead(h), x - 1)]
           seen   == [x \in 1..seqLen |-> IF row(x) = Zero THEN Nil ELSE Last(row(x).from)]
<1>1. seqLen \in Nat \ {0} /\ DOMAIN s = 1..seqLen
  BY LenProperties DEF seqLen
<1>2. \A x \in 1..seqLen : row(x) = KVRow(l, Group(h), SubSeq(s, 1, x))
  BY KVHeadOfGroup
<1>3. ASSUME NEW x \in 1..seqLen PROVE row(x) # Zero /\ Last(row(x).from) = s[x]
  <2>1. /\ SubSeq(s, 1, x) \in Seq(Tokens) /\ Len(SubSeq(s, 1, x)) = x
        /\ Last(SubSeq(s, 1, x)) = s[x]
    BY Prefix
  <2> DEFINE p == SubSeq(s, 1, x)
             r == row(x)
  <2>2. r = KVRow(l, Group(h), p) /\ Last(p) = s[x] /\ p \in Seq(Tokens) /\ Len(p) = x
    BY <1>2, <2>1
  <2>3. x # 0
    BY <1>1
  <2> HIDE DEF row, p, r
  <2>4. r.from = IF l = 1 THEN <<s[x]>> ELSE p
    BY <2>2 DEF KVRow
  <2>5. p # <<>>
    BY <2>2, <2>3
  <2>6. r.from # <<>> /\ Last(r.from) = s[x]
    BY <2>2, <2>4, <2>5 DEF Last
  <2>7. Zero.from = <<>>
    BY DEF Zero
  <2> QED
    BY <2>6, <2>7 DEF r
<1>4. seen = s
  <2>1. \A x \in 1..seqLen : seen[x] = s[x]
    BY <1>3
  <2>2. s = [x \in 1..seqLen |-> s[x]]
    BY <1>1, LenProperties
  <2> HIDE DEF row
  <2>3. seen = [x \in 1..seqLen |-> s[x]]
    BY <1>3
  <2> QED
    BY <2>2, <2>3
<1> HIDE DEF row
<1>5. \A x \in 1..seqLen : row(x) = KVRow(l, Group(h), SubSeq(seen, 1, x))
  BY <1>2, <1>4
<1> QED
  BY <1>4, <1>5 DEF attend, row

(* The rows a layer's cache holds after the current ones are written.      *)
LEMMA Written ==
  ASSUME pos \in 0..Capacity-1, NEW l \in 1..Layers, NEW h \in 0..KVHeads-1
  PROVE  /\ written(l)[slot(h, pos)] = [head |-> h, from |-> hidden]
         /\ \A x \in 1..pos : written(l)[slot(h, x - 1)] = kv[l][slot(h, x - 1)]
<1> USE SessionAssumption
<1>1. slot(h, pos) \in Slots
  BY SlotsApart
<1>2. \A g \in 0..KVHeads-1 : slot(h, pos) = slot(g, pos) => g = h
  BY SlotsApart
<1>3. (CHOOSE g \in 0..KVHeads-1 : slot(h, pos) = slot(g, pos)) = h
  BY <1>2
<1>4. written(l)[slot(h, pos)] = [head |-> h, from |-> hidden]
  BY <1>1, <1>3 DEF written
<1>5. ASSUME NEW x \in 1..pos PROVE written(l)[slot(h, x - 1)] = kv[l][slot(h, x - 1)]
  <2>1. x - 1 \in 0..Capacity-1 /\ x - 1 # pos
    OBVIOUS
  <2>2. slot(h, x - 1) \in Slots
    BY <2>1, SlotsApart
  <2>3. \A g \in 0..KVHeads-1 : slot(h, x - 1) # slot(g, pos)
    BY <2>1, SlotsApart
  <2> QED
    BY <2>2, <2>3 DEF written
<1> QED
  BY <1>4, <1>5

(* The half of a layer that writes and reads the cache.                    *)
LEMMA AttentionStep ==
  ASSUME SessionInv, attention, fpc' = "ffn"
  PROVE  SessionInv' /\ Committed' = Committed
<1> USE SessionAssumption
<1>1. /\ fpc = "attention" /\ ~cancelled
      /\ kv' = [kv EXCEPT ![layer] = written(layer)]
      /\ UNCHANGED <<pos, logits, layer, token, project, cancelled, ferr>>
      /\ LET values == {attend(layer, h, kv'[layer]) : h \in 0..QueryHeads-1}
         IN  hidden' = IF \E v \in values : values = {v}
                       THEN CHOOSE v \in values : TRUE
                       ELSE Junk
  BY DEF attention, abort, forwardReturns
<1>2. /\ TypeOK /\ kv \in [1..Layers -> [Slots -> Rows]]
      /\ pos \in 0..Capacity-1 /\ layer \in 1..Layers /\ token \in Tokens
      /\ hidden = IF layer = 1 THEN <<token>> ELSE Own
  BY <1>1 DEF SessionInv, Busy, Carried, TypeOK
<1>3. /\ Committed \in Seq(Tokens) /\ Len(Committed) = pos
      /\ Own \in Seq(Tokens) /\ Len(Own) = seqLen /\ Last(Own) = token
      /\ SubSeq(Own, 1, pos + 1) = Own
      /\ \A x \in 1..pos : SubSeq(Own, 1, x) = SubSeq(Committed, 1, x)
  BY <1>2, CommittedTyped, Extended DEF Own, seqLen
<1>4. /\ kv'[layer] = written(layer)
      /\ \A l \in 1..Layers : l # layer => kv'[l] = kv[l]
  BY <1>1, <1>2
<1>5. \A l \in 1..Layers, h \in 0..KVHeads-1, x \in 1..pos :
        kv'[l][slot(h, x - 1)] = kv[l][slot(h, x - 1)]
  <2> TAKE l \in 1..Layers, h \in 0..KVHeads-1, x \in 1..pos
  <2>1. written(layer)[slot(h, x - 1)] = kv[layer][slot(h, x - 1)]
    <3>1. \A y \in 1..pos : written(layer)[slot(h, y - 1)] = kv[layer][slot(h, y - 1)]
      BY <1>2, Written
    <3> QED
      BY <3>1
  <2> QED
    BY <1>4, <2>1
<1>6. Committed' = Committed /\ Own' = Own
  <2>1. \A x \in 1..pos : kv'[1][slot(0, x - 1)] = kv[1][slot(0, x - 1)]
    BY <1>5
  <2>2. Committed' = Committed
    BY <1>1, <2>1, CommittedFrame
  <2> QED
    BY <1>1, <2>2 DEF Own
<1>7. \A h \in 0..KVHeads-1 : kv'[layer][slot(h, pos)] = KVRow(layer, h, Own)
  BY <1>2, <1>3, <1>4, Written DEF KVRow
<1>8. \A h \in 0..KVHeads-1, x \in 1..pos+1 :
        kv'[layer][slot(h, x - 1)] = KVRow(layer, h, SubSeq(Own, 1, x))
  <2> TAKE h \in 0..KVHeads-1, x \in 1..pos+1
  <2>1. CASE x = pos + 1
    <3>1. x - 1 = pos
      BY <1>2, <2>1
    <3> QED
      BY <1>3, <1>7, <2>1, <3>1
  <2>2. CASE x \in 1..pos
    <3>1. kv[layer][slot(h, x - 1)] = KVRow(layer, h, SubSeq(Committed, 1, x))
      BY <1>2, <2>2 DEF SessionInv, RowsAgree
    <3>2. kv'[layer][slot(h, x - 1)] = kv[layer][slot(h, x - 1)]
      BY <1>2, <1>5, <2>2
    <3>3. SubSeq(Own, 1, x) = SubSeq(Committed, 1, x)
      BY <1>3, <2>2
    <3> QED
      BY <3>1, <3>2, <3>3
  <2> QED
    BY <1>2, <2>1, <2>2
<1>9. \A h \in 0..QueryHeads-1 : attend(layer, h, kv'[layer]) = Own
  <2> TAKE h \in 0..QueryHeads-1
  <2>1. Group(h) \in 0..KVHeads-1
    BY KVHeadOfGroup
  <2>2. \A x \in 1..seqLen :
          kv'[layer][slot(Group(h), x - 1)] = KVRow(layer, Group(h), SubSeq(Own, 1, x))
    BY <1>8, <2>1 DEF seqLen
  <2> DEFINE cache == kv'[layer]
  <2>3. \A x \in 1..seqLen :
          cache[slot(Group(h), x - 1)] = KVRow(layer, Group(h), SubSeq(Own, 1, x))
    BY <2>2
  <2>4. layer \in 1..Layers /\ pos \in 0..Capacity-1
    BY <1>2
  <2>5. Own \in Seq(Tokens) /\ Len(Own) = seqLen
    BY <1>3
  <2> HIDE DEF cache
  <2>6. attend(layer, h, cache) = Own
    BY <2>3, <2>4, <2>5, AttendsTo
  <2> QED
    BY <2>6 DEF cache
<1>10. hidden' = Own
  <2> DEFINE values == {attend(layer, h, kv'[layer]) : h \in 0..QueryHeads-1}
  <2>1. values = {Own}
    <3>1. 0 \in 0..QueryHeads-1
      OBVIOUS
    <3> QED
      BY <1>9, <3>1
  <2> QED
    BY <1>1, <2>1
<1>11. kv' \in [1..Layers -> [Slots -> Rows]]
  <2>1. hidden \in Seq(Tokens)
    BY <1>2, <1>3
  <2>2. written(layer) \in [Slots -> Rows]
    <3> SUFFICES ASSUME NEW x \in Slots PROVE written(layer)[x] \in Rows
      BY DEF written
    <3>1. CASE \E h \in 0..KVHeads-1 : x = slot(h, pos)
      <4>1. (CHOOSE h \in 0..KVHeads-1 : x = slot(h, pos)) \in 0..KVHeads-1
        BY <3>1
      <4> QED
        BY <2>1, <3>1, <4>1 DEF written, Rows
    <3>2. CASE ~\E h \in 0..KVHeads-1 : x = slot(h, pos)
      BY <1>2, <3>2 DEF written
    <3> QED
      BY <3>1, <3>2
  <2> QED
    BY <1>1, <1>2, <2>2
<1>12. TypeOK'
  BY <1>1, <1>2, <1>11 DEF TypeOK, Rows
<1>13. RowsAgree'
  <2> SUFFICES ASSUME NEW l \in 1..Layers, NEW h \in 0..KVHeads-1, NEW x \in 1..pos
               PROVE  kv'[l][slot(h, x - 1)] = KVRow(l, h, SubSeq(Committed, 1, x))
    BY <1>1, <1>6 DEF RowsAgree, KVRow, slot
  <2> QED
    BY <1>5 DEF SessionInv, RowsAgree
<1>14. Current'
  <2> SUFFICES ASSUME NEW l \in 1..Layers, NEW h \in 0..KVHeads-1, l < layer \/ l = layer
               PROVE  kv'[l][slot(h, pos)] = KVRow(l, h, Own)
    BY <1>1, <1>6 DEF Current, KVRow, slot
  <2>1. CASE l = layer
    BY <1>7, <2>1
  <2>2. CASE l < layer
    <3>1. l # layer
      BY <1>2, <2>2
    <3> QED
      BY <1>1, <1>4, <2>2, <3>1 DEF SessionInv, Current
  <2> QED
    BY <2>1, <2>2
<1> QED
  BY <1>1, <1>2, <1>6, <1>10, <1>11, <1>12, <1>13, <1>14
    DEF SessionInv, Busy, Carried, AttendsToOwnContext, Own
-----------------------------------------------------------------------------
(* The other steps.                                                        *)

(* Nothing below or at the position has changed.                           *)
LEMMA SameRows ==
  ASSUME SessionInv, UNCHANGED <<pos, kv>>
  PROVE  Committed' = Committed /\ RowsAgree'
<1>1. Committed' = Committed
  BY CommittedFrame
<1> QED
  BY <1>1 DEF SessionInv, RowsAgree, KVRow, slot

(* Forward returns without a commit, or has not begun.                     *)
LEMMA Settled ==
  ASSUME SessionInv, UNCHANGED <<pos, kv>>, fpc' = "idle", TypeOK'
  PROVE  SessionInv' /\ Committed' = Committed
<1>1. kv' \in [1..Layers -> [Slots -> Rows]]
  BY DEF SessionInv, Rows, Slots
<1> QED
  BY <1>1, SameRows DEF SessionInv, Busy, Carried, AttendsToOwnContext, Current

(* A return leaves every variable its type.                                *)
LEMMA ReturnTyped ==
  ASSUME TypeOK, pos' \in 0..Capacity, kv' = kv, cancelled' = cancelled,
         NEW e \in {"nil", "ErrInvalidMetadata", "ErrContextLimit", "ctx.Err", "ops"},
         forwardReturns(e)
  PROVE  TypeOK'
<1>1. fpc' = "idle" /\ ferr' = e /\ layer' = 0 /\ token' = Nil /\ project' = FALSE
  BY DEF forwardReturns
<1>2. project' \in BOOLEAN
  BY <1>1, Zenon
<1>3. cancelled' \in BOOLEAN
  BY Zenon DEF TypeOK
<1>4. layer' \in 0..Layers
  BY <1>1, SessionAssumption
<1>5. /\ DOMAIN kv' = 1..Layers
      /\ \A l \in 1..Layers : \A x \in Slots : kv'[l][x].head \in 0..KVHeads-1
  BY DEF TypeOK
<1> QED
  BY <1>1, <1>2, <1>3, <1>4, <1>5, Zenon DEF TypeOK, Slots

(* Forward's checks and its first vector.                                  *)
LEMMA ForwardStep ==
  ASSUME SessionInv, NEW t \in Tokens \cup {Nil}, NEW b \in BOOLEAN, Forward(t, b)
  PROVE  SessionInv' /\ Committed' = Committed
<1> USE SessionAssumption
<1>1. /\ fpc = "idle" /\ TypeOK /\ kv \in [1..Layers -> [Slots -> Rows]]
      /\ UNCHANGED <<pos, kv, logits, cancelled>>
  BY DEF SessionInv, Forward
<1>2. CASE fpc' = "idle"
  <2>1. \E e \in {"ErrInvalidMetadata", "ErrContextLimit", "ctx.Err"} : forwardReturns(e)
    BY <1>2 DEF Forward
  <2>2. pos' \in 0..Capacity
    BY <1>1 DEF TypeOK
  <2>3. TypeOK'
    BY <1>1, <2>1, <2>2, ReturnTyped
  <2> QED
    BY <1>1, <1>2, <2>3, Settled
<1>3. CASE fpc' # "idle"
  <2>1. /\ t \in Tokens /\ pos < Capacity
        /\ fpc' = "attention" /\ layer' = 1 /\ token' = t /\ project' = b
        /\ hidden' = <<t>> /\ ferr' = ferr
    BY <1>3 DEF Forward, forwardReturns
  <2>2. TypeOK'
    BY <1>1, <2>1 DEF TypeOK
  <2>3. Committed' = Committed /\ RowsAgree'
    BY <1>1, SameRows
  <2>4. Busy' /\ Carried' /\ AttendsToOwnContext'
    BY <1>1, <2>1 DEF Busy, Carried, AttendsToOwnContext
  <2>5. Current'
    BY <2>1 DEF Current
  <2> QED
    BY <1>1, <2>2, <2>3, <2>4, <2>5 DEF SessionInv, Rows, Slots
<1> QED
  BY <1>2, <1>3

(* A product fails.                                                        *)
LEMMA AbortStep ==
  ASSUME SessionInv, abort
  PROVE  /\ SessionInv' /\ Committed' = Committed
         /\ fpc' = "idle" /\ ferr' \in {"ctx.Err", "ops"}
<1>1. /\ UNCHANGED <<pos, kv, cancelled>> /\ fpc' = "idle"
      /\ ferr' \in {"ctx.Err", "ops"} /\ layer' = 0 /\ token' = Nil /\ project' = FALSE
  BY DEF abort, forwardReturns
<1>2. TypeOK'
  <2>1. \E e \in {"ctx.Err", "ops"} : forwardReturns(e)
    BY DEF abort
  <2>2. TypeOK /\ pos' \in 0..Capacity
    BY <1>1 DEF SessionInv, TypeOK
  <2> QED
    BY <1>1, <2>1, <2>2, ReturnTyped
<1> QED
  BY <1>1, <1>2, Settled

(* The token-wise half of a layer.                                         *)
LEMMA FeedForwardStep ==
  ASSUME SessionInv, feedForward, fpc' # "idle"
  PROVE  SessionInv' /\ Committed' = Committed
<1> USE SessionAssumption
<1>1. /\ fpc = "ffn"
      /\ \/ layer < Layers /\ layer' = layer + 1 /\ fpc' = "attention"
         \/ layer = Layers /\ fpc' = "logits" /\ layer' = layer
      /\ UNCHANGED <<pos, kv, hidden, logits, token, project, cancelled, ferr>>
  BY DEF feedForward, abort, forwardReturns
<1>2. /\ TypeOK /\ kv \in [1..Layers -> [Slots -> Rows]]
      /\ pos < Capacity /\ layer \in 1..Layers /\ token \in Tokens
      /\ hidden = Own
  BY <1>1 DEF SessionInv, Busy, AttendsToOwnContext, Own
<1>3. Committed' = Committed /\ RowsAgree'
  BY <1>1, SameRows
<1>4. Own' = Own
  BY <1>1, <1>3 DEF Own
<1>5. TypeOK'
  BY <1>1, <1>2 DEF TypeOK
<1>6. Busy'
  BY <1>1, <1>2 DEF Busy
<1>7. Carried' /\ AttendsToOwnContext'
  BY <1>1, <1>2, <1>3, <1>4 DEF Carried, AttendsToOwnContext, Own
<1>8. Current'
  <2> SUFFICES ASSUME NEW l \in 1..Layers, NEW h \in 0..KVHeads-1,
                      l < layer' \/ (l = layer' /\ fpc' # "attention")
               PROVE  kv[l][slot(h, pos)] = KVRow(l, h, Own)
    BY <1>1, <1>4 DEF Current, KVRow, slot
  <2>1. l < layer \/ l = layer
    BY <1>1, <1>2
  <2> QED
    BY <1>1, <2>1 DEF SessionInv, Current
<1> QED
  BY <1>1, <1>2, <1>3, <1>5, <1>6, <1>7, <1>8 DEF SessionInv, Rows, Slots

(* The commit.                                                             *)
LEMMA CommitStep ==
  ASSUME SessionInv, finish, ferr' = "nil"
  PROVE  /\ SessionInv'
         /\ fpc' = "idle" /\ token \in Tokens /\ Len(Committed) < Capacity
         /\ Committed' = Append(Committed, token)
         /\ logits' = IF project THEN Append(Committed, token) ELSE logits
<1> USE SessionAssumption
<1>1. /\ fpc = "logits" /\ pos' = pos + 1 /\ fpc' = "idle"
      /\ logits' = IF project THEN hidden ELSE logits
      /\ forwardReturns("nil")
      /\ UNCHANGED <<kv, hidden, cancelled>>
  BY DEF finish, abort, forwardReturns
<1>2. /\ TypeOK /\ kv \in [1..Layers -> [Slots -> Rows]]
      /\ pos \in 0..Capacity-1 /\ layer = Layers /\ token \in Tokens
      /\ hidden = Own
  BY <1>1 DEF SessionInv, Busy, AttendsToOwnContext, Own, TypeOK
<1>3. /\ Committed \in Seq(Tokens) /\ Len(Committed) = pos
      /\ Own \in Seq(Tokens) /\ Len(Own) = pos + 1 /\ Last(Own) = token
      /\ SubSeq(Own, 1, pos + 1) = Own
      /\ \A x \in 1..pos : /\ Own[x] = Committed[x]
                           /\ SubSeq(Own, 1, x) = SubSeq(Committed, 1, x)
  BY <1>2, CommittedTyped, Extended DEF Own
<1>4. ASSUME NEW l \in 1..Layers, NEW h \in 0..KVHeads-1, NEW x \in 1..pos+1
      PROVE  kv[l][slot(h, x - 1)] = KVRow(l, h, SubSeq(Own, 1, x))
  <2>1. CASE x = pos + 1
    <3>1. x - 1 = pos /\ (l < layer \/ l = layer)
      BY <1>2, <2>1
    <3>2. kv[l][slot(h, pos)] = KVRow(l, h, Own)
      BY <1>1, <3>1 DEF SessionInv, Current
    <3> QED
      BY <1>3, <2>1, <3>1, <3>2
  <2>2. CASE x \in 1..pos
    <3>1. kv[l][slot(h, x - 1)] = KVRow(l, h, SubSeq(Committed, 1, x))
      BY <2>2 DEF SessionInv, RowsAgree
    <3> QED
      BY <1>3, <2>2, <3>1
  <2> QED
    BY <1>2, <2>1, <2>2
<1>5. Committed' = Own
  <2>1. Committed' = [x \in 1..pos+1 |-> Last(kv[1][slot(0, x - 1)].from)]
    BY <1>1 DEF Committed, slot
  <2>2. ASSUME NEW x \in 1..pos+1 PROVE Last(kv[1][slot(0, x - 1)].from) = Own[x]
    <3>1. kv[1][slot(0, x - 1)] = KVRow(1, 0, SubSeq(Own, 1, x))
      BY <1>4
    <3>2. Last(SubSeq(Own, 1, x)) = Own[x]
      BY <1>3, Prefix
    <3>3. kv[1][slot(0, x - 1)].from = <<Own[x]>>
      BY <3>1, <3>2 DEF KVRow
    <3>4. \A y : Last(<<y>>) = y
      BY DEF Last
    <3> QED
      BY <3>3, <3>4, Zenon
  <2>3. Own = [x \in 1..pos+1 |-> Own[x]]
    BY <1>3, LenProperties
  <2> QED
    BY <2>1, <2>2, <2>3
<1>6. RowsAgree'
  <2> SUFFICES ASSUME NEW l \in 1..Layers, NEW h \in 0..KVHeads-1, NEW x \in 1..pos+1
               PROVE  kv[l][slot(h, x - 1)] = KVRow(l, h, SubSeq(Own, 1, x))
    BY <1>1, <1>5 DEF RowsAgree, KVRow, slot
  <2> QED
    BY <1>4
<1>7. TypeOK'
  <2>1. pos' \in 0..Capacity
    BY <1>1, <1>2
  <2> QED
    BY <1>1, <1>2, <2>1, ReturnTyped
<1>8. Busy' /\ Carried' /\ AttendsToOwnContext' /\ Current'
  BY <1>1 DEF Busy, Carried, AttendsToOwnContext, Current
<1>9. SessionInv'
  BY <1>1, <1>2, <1>6, <1>7, <1>8 DEF SessionInv, Rows, Slots
<1> QED
  BY <1>1, <1>2, <1>3, <1>5, <1>9 DEF Own

(* The position goes back to 0.                                            *)
LEMMA ResetStep ==
  ASSUME SessionInv, Reset
  PROVE  SessionInv' /\ Committed' = <<>>
<1> USE SessionAssumption
<1>1. /\ fpc = "idle" /\ pos' = 0
      /\ UNCHANGED <<kv, hidden, logits, fpc, layer, token, project, cancelled, ferr>>
  BY DEF Reset
<1>2. TypeOK'
  BY <1>1 DEF SessionInv, TypeOK
<1>3. Committed' = <<>>
  <2>1. Committed' = [x \in 1..0 |-> Last(kv[1][slot(0, x - 1)].from)]
    BY <1>1 DEF Committed, slot
  <2>2. 1..0 = {}
    OBVIOUS
  <2> QED
    BY <2>1, <2>2
<1>4. RowsAgree' /\ Busy' /\ Carried' /\ AttendsToOwnContext' /\ Current'
  BY <1>1 DEF RowsAgree, Busy, Carried, AttendsToOwnContext, Current
<1> QED
  BY <1>1, <1>2, <1>3, <1>4 DEF SessionInv, Rows, Slots

(* Only the context, or nothing, changes.                                  *)
LEMMA ContextStep ==
  ASSUME SessionInv, cancelled' \in BOOLEAN,
         UNCHANGED <<pos, kv, hidden, fpc, layer, token, project, ferr>>
  PROVE  SessionInv' /\ Committed' = Committed
<1>1. Committed' = Committed /\ RowsAgree'
  BY SameRows
<1>2. Own' = Own
  BY <1>1 DEF Own
<1>3. TypeOK'
  BY DEF SessionInv, TypeOK
<1>4. Busy' /\ Carried' /\ AttendsToOwnContext'
  BY <1>1, <1>2 DEF SessionInv, Busy, Carried, AttendsToOwnContext
<1>5. Current'
  BY <1>2 DEF SessionInv, Current, KVRow, slot
<1> QED
  BY <1>1, <1>3, <1>4, <1>5 DEF SessionInv, Rows, Slots
-----------------------------------------------------------------------------
(* Any caller.                                                             *)

(* A new session.                                                          *)
LEMMA InitHolds == SessionInit => SessionInv
<1> SUFFICES ASSUME SessionInit PROVE SessionInv
  OBVIOUS
<1> USE SessionAssumption
<1>1. /\ pos = 0 /\ fpc = "idle" /\ layer = 0 /\ token = Nil /\ project = FALSE
      /\ cancelled = FALSE /\ ferr = "nil"
      /\ kv = [l \in 1..Layers |-> [x \in Slots |-> Zero]]
  BY DEF SessionInit
<1>2. Zero \in Rows
  BY DEF Zero, Rows
<1>3. kv \in [1..Layers -> [Slots -> Rows]]
  BY <1>1, <1>2
<1>4. TypeOK
  <2>1. \A l \in 1..Layers : \A x \in Slots : kv[l][x].head \in 0..KVHeads-1
    BY <1>3 DEF Rows
  <2>2. DOMAIN kv = 1..Layers /\ pos \in 0..Capacity /\ layer \in 0..Layers
    BY <1>1, <1>3
  <2>3. project \in BOOLEAN /\ cancelled \in BOOLEAN
    BY <1>1, Zenon
  <2> QED
    BY <1>1, <2>1, <2>2, <2>3, Zenon DEF TypeOK
<1>5. RowsAgree /\ Busy /\ Carried /\ AttendsToOwnContext /\ Current
  BY <1>1 DEF RowsAgree, Busy, Carried, AttendsToOwnContext, Current
<1> QED
  BY <1>3, <1>4, <1>5 DEF SessionInv

(* What a step of Forward leaves.                                          *)
LEMMA RunStep ==
  ASSUME SessionInv, forwardStep
  PROVE  /\ SessionInv'
         /\ \/ /\ Committed' = Committed
               /\ logits' \in {logits, Junk}
               /\ fpc' = "idle" => ferr' \in {"ctx.Err", "ops"}
               /\ fpc' # "idle" => UNCHANGED <<logits, token, project>>
            \/ /\ fpc' = "idle" /\ ferr' = "nil"
               /\ token \in Tokens /\ Len(Committed) < Capacity
               /\ Committed' = Append(Committed, token)
               /\ logits' = IF project THEN Append(Committed, token) ELSE logits
<1>1. CASE attention
  <2>1. CASE abort /\ logits' = logits
    BY <2>1, AbortStep
  <2>2. CASE ~(abort /\ logits' = logits)
    <3>1. fpc' = "ffn" /\ UNCHANGED <<logits, token, project>>
      BY <1>1, <2>2 DEF attention
    <3> QED
      BY <1>1, <3>1, AttentionStep
  <2> QED
    BY <2>1, <2>2
<1>2. CASE feedForward
  <2>1. CASE abort /\ logits' = logits
    BY <2>1, AbortStep
  <2>2. CASE ~(abort /\ logits' = logits)
    <3>1. fpc' # "idle" /\ UNCHANGED <<logits, token, project>>
      BY <1>2, <2>2 DEF feedForward
    <3> QED
      BY <1>2, <3>1, FeedForwardStep
  <2> QED
    BY <2>1, <2>2
<1>3. CASE finish
  <2>1. CASE abort
    <3>1. logits' \in {logits, Junk}
      <4>1. CASE \E v \in {logits, Junk} : logits' = v
        BY <4>1
      <4>2. CASE pos' = pos + 1
        <5>1. pos' = pos /\ pos \in Int
          BY <2>1 DEF abort, SessionInv, TypeOK
        <5> QED
          BY <4>2, <5>1
      <4> QED
        BY <1>3, <4>1, <4>2 DEF finish
    <3> QED
      BY <2>1, <3>1, AbortStep
  <2>2. CASE ~abort
    <3>1. ferr' = "nil"
      BY <1>3, <2>2 DEF finish, forwardReturns
    <3> QED
      BY <1>3, <3>1, CommitStep
  <2> QED
    BY <2>1, <2>2
<1> QED
  BY <1>1, <1>2, <1>3 DEF forwardStep

(* Every step keeps the invariant, and is one of Context's.                *)
LEMMA SessionStep ==
  ASSUME SessionInv, [SessionNext]_sessionVars
  PROVE  SessionInv' /\ [C!Next]_(C!contextVars)
<1> DEFINE Same == Committed' = Committed /\ logits' = logits
<1>1. Same => [C!Next]_(C!contextVars)
  BY DEF C!contextVars
<1>2. CASE Call
  <2>1. logits' = logits
    BY <1>2 DEF Call, Forward
  <2> QED
    BY <1>1, <1>2, <2>1, ForwardStep DEF Call
<1>3. CASE Reset
  <2>1. C!Reset
    BY <1>3, ResetStep DEF C!Reset, Reset
  <2> QED
    BY <1>3, <2>1, ResetStep DEF C!Next
<1>4. CASE NewContext
  <2>1. cancelled' \in BOOLEAN /\ logits' = logits
    BY <1>4, Zenon DEF NewContext
  <2> QED
    BY <1>1, <1>4, <2>1, ContextStep DEF NewContext
<1>5. CASE Cancel
  <2>1. cancelled' \in BOOLEAN /\ logits' = logits
    BY <1>5, Zenon DEF Cancel
  <2> QED
    BY <1>1, <1>5, <2>1, ContextStep DEF Cancel
<1>6. CASE forwardStep
  <2>1. CASE Committed' = Committed /\ logits' \in {logits, Junk}
    <3>1. CASE logits' = logits
      BY <1>1, <1>6, <2>1, <3>1, RunStep
    <3>2. CASE logits' = Junk
      <4>1. C!Abandon
        BY <2>1, <3>2 DEF C!Abandon
      <4> QED
        BY <1>6, <4>1, RunStep DEF C!Next
    <3> QED
      BY <2>1, <3>1, <3>2
  <2>2. CASE ~(Committed' = Committed /\ logits' \in {logits, Junk})
    <3>1. C!Extend(token) /\ token \in Tokens
      BY <1>6, <2>2, RunStep DEF C!Extend
    <3> QED
      BY <1>6, <3>1, RunStep DEF C!Next
  <2> QED
    BY <2>1, <2>2
<1>7. CASE UNCHANGED sessionVars
  <2>1. cancelled' \in BOOLEAN /\ logits' = logits
    BY <1>7 DEF sessionVars, SessionInv, TypeOK
  <2> QED
    BY <1>1, <1>7, <2>1, ContextStep DEF sessionVars
<1> QED
  BY <1>2, <1>3, <1>4, <1>5, <1>6, <1>7 DEF SessionNext

(* The invariant of a session, whatever its caller does                    *)
(* (forward.go:16-136, model.go:149-154).                                  *)
THEOREM SessionInvariant == SessionSpec => []SessionInv
<1>1. SessionInv /\ [SessionNext]_sessionVars => SessionInv'
  BY SessionStep
<1> QED
  BY InitHolds, <1>1, PTL DEF SessionSpec

(* Every variable keeps its type; no position exceeds the context          *)
(* (forward.go:22-24).                                                     *)
THEOREM SessionTyped == SessionSpec => []TypeOK
<1>1. SessionInv => TypeOK
  BY DEF SessionInv
<1> QED
  BY <1>1, SessionInvariant, PTL

(* Below the position all layers and heads hold the rows of one sequence   *)
(* (forward.go:11-15, model.go:149-151).                                   *)
THEOREM CachesAgree == SessionSpec => []RowsAgree
<1>1. SessionInv => RowsAgree
  BY DEF SessionInv
<1> QED
  BY <1>1, SessionInvariant, PTL

(* An evaluation sees the committed tokens and its own (forward.go:67-88). *)
THEOREM OwnContextOnly == SessionSpec => []AttendsToOwnContext
<1>1. SessionInv => AttendsToOwnContext
  BY DEF SessionInv
<1> QED
  BY <1>1, SessionInvariant, PTL

(* A session is a Context: only a complete Forward extends the sequence    *)
(* (forward.go:11-15).                                                     *)
THEOREM SessionImplementsContext == SessionSpec => IsContext
<1>1. SessionInit => C!Init
  <2> SUFFICES ASSUME SessionInit PROVE C!Init
    OBVIOUS
  <2>1. pos = 0 /\ logits = Junk
    BY DEF SessionInit
  <2>2. Committed = [x \in 1..0 |-> Last(kv[1][slot(0, x - 1)].from)] /\ 1..0 = {}
    BY <2>1 DEF Committed
  <2>3. Committed = <<>>
    BY <2>2
  <2> QED
    BY <2>1, <2>3 DEF C!Init
<1>2. SessionInv /\ [SessionNext]_sessionVars => [C!Next]_(C!contextVars)
  BY SessionStep
<1> QED
  BY <1>1, <1>2, SessionInvariant, PTL DEF SessionSpec, IsContext, C!Spec


-----------------------------------------------------------------------------
(* Sequences.                                                              *)

Ids == Tokens \cup {Nil}

(* The prefix one token longer.                                            *)
LEMMA NextPrefix ==
  ASSUME NEW s \in Seq(Ids), NEW n \in 0..Len(s)-1
  PROVE  /\ Append(SubSeq(s, 1, n), s[n + 1]) = SubSeq(s, 1, n + 1)
         /\ SubSeq(s, 1, n + 1) \o <<>> = SubSeq(s, 1, n + 1)
<1>1. Len(s) \in Nat
  BY LenProperties
<1>2. 1 \in 1..Len(s) /\ n + 1 \in 1..Len(s) /\ (n + 1) - 1 = n
  BY <1>1
<1>3. SubSeq(s, 1, n + 1) = SubSeq(s, 1, n) \o <<s[n + 1]>>
  BY <1>2, SubSeqRecursiveSecond
<1>4. \A x \in 1..n+1 : s[x] \in Ids
  BY <1>2, ElementOfSeq
<1>5. SubSeq(s, 1, n) \in Seq(Ids) /\ SubSeq(s, 1, n + 1) \in Seq(Ids)
  BY <1>4, SubSeqProperties
<1>6. Append(SubSeq(s, 1, n), s[n + 1]) = SubSeq(s, 1, n) \o <<s[n + 1]>>
  BY <1>2, <1>4, <1>5, AppendIsConcat
<1>7. SubSeq(s, 1, n + 1) \o <<>> = SubSeq(s, 1, n + 1)
  BY <1>5, ConcatEmptySeq
<1> QED
  BY <1>3, <1>6, <1>7

(* One more generated token.                                               *)
LEMMA NextOut ==
  ASSUME NEW s \in Seq(Ids), NEW o \in Seq(Tokens), NEW t \in Tokens
  PROVE  Append(s \o o, t) = s \o Append(o, t)
<1>1. o \in Seq(Ids) /\ <<t>> \in Seq(Ids) /\ t \in Ids
  BY DEF Ids
<1>2. s \o o \in Seq(Ids)
  BY <1>1, ConcatProperties
<1>3. Append(s \o o, t) = (s \o o) \o <<t>> /\ Append(o, t) = o \o <<t>>
  BY <1>1, <1>2, AppendIsConcat
<1> QED
  BY <1>1, <1>3, ConcatAssociative
-----------------------------------------------------------------------------
(* The inductive invariant.                                                *)

(* What is evaluated, or under evaluation: the prompt up to i, then out.   *)
Text == SubSeq(ids, 1, i) \o out

(* Forward is under way, or has returned and nobody has looked yet.        *)
Evaluates ==
  /\ i \in 1..Len(ids)
  /\ out # <<>> => i = Len(ids)
  /\ fpc # "idle" => /\ Append(Committed, token) = Text
                     /\ i = Len(ids) => project
  /\ fpc = "idle" /\ ferr = "nil" => /\ Committed = Text
                                     /\ i = Len(ids) => logits = Text
  /\ fpc = "idle" /\ ferr = "ErrContextLimit" => Len(ids) + maxTokens > Capacity

Loop ==
  /\ gpc # "forward" => fpc = "idle"
  /\ gpc # "idle" => result = "none"
  /\ gpc = "checks" => i = 0 /\ out = <<>>
  /\ gpc \in {"prefill", "forward", "sample"} => Len(out) < maxTokens
  /\ gpc = "prefill" => i < Len(ids) /\ out = <<>> /\ Committed = SubSeq(ids, 1, i)
  /\ gpc = "forward" => Evaluates
  /\ gpc = "sample" => i = Len(ids) /\ i > 0

GenerationInv ==
  /\ SessionInv
  /\ GenerationTypeOK
  /\ Loop
  /\ SamplesFromOwnContext
  /\ AnswersAsAsked

(* The variables of the loop, typed.                                       *)
LEMMA LoopTyped ==
  ASSUME GenerationInv
  PROVE  /\ ids \in Seq(Ids) /\ Len(ids) \in Nat
         /\ out \in Seq(Tokens) /\ Len(out) \in Nat
         /\ maxTokens \in Int
         /\ i \in 0..Len(ids)
         /\ Committed \in Seq(Tokens) /\ Len(Committed) = pos
         /\ pos \in 0..Capacity
<1> USE SessionAssumption, GenerationAssumption
<1>1. GenerationTypeOK /\ SessionInv
  BY DEF GenerationInv
<1>2. ids \in Seq(Ids)
  <2>1. ids \in Prompts \/ ids = <<>>
    BY <1>1 DEF GenerationTypeOK
  <2>2. CASE ids \in Prompts
    BY <2>2 DEF Ids
  <2>3. CASE ids = <<>>
    BY <2>3
  <2> QED
    BY <2>1, <2>2, <2>3
<1>3. out \in Seq(Tokens)
  BY <1>1 DEF GenerationTypeOK
<1>4. maxTokens \in Int
  BY <1>1 DEF GenerationTypeOK
<1>5. Len(ids) \in Nat /\ Len(out) \in Nat
  BY <1>2, <1>3, LenProperties
<1>6. Committed \in Seq(Tokens) /\ Len(Committed) = pos
  BY <1>1, CommittedTyped
<1>7. i \in 0..Len(ids) /\ pos \in 0..Capacity
  BY <1>1 DEF GenerationTypeOK, TypeOK
<1> QED
  BY <1>2, <1>3, <1>4, <1>5, <1>6, <1>7
(* A whole prompt and what was generated.                                  *)
LEMMA WholeText ==
  ASSUME GenerationInv, i = Len(ids)
  PROVE  Text = ids \o out
<1>1. ids \in Seq(Ids)
  BY LoopTyped
<1>2. SubSeq(ids, 1, Len(ids)) = ids
  BY <1>1, LenProperties
<1> QED
  BY <1>2 DEF Text

(* A sum that exceeds the context as an int does as a number.              *)
LEMMA ExceedsIsLarger ==
  ASSUME NEW n \in Nat, NEW new \in Int, exceeds(n, new)
  PROVE  n + new > Capacity
<1> QED
  BY GenerationAssumption, SessionAssumption DEF exceeds, plus
-----------------------------------------------------------------------------
(* The steps.                                                              *)

(* A request arrives: a new context for the session.                       *)
LEMMA ArriveStep ==
  ASSUME GenerationInv, GenerateTokens
  PROVE  GenerationInv' /\ [SessionNext]_sessionVars
<1> USE SessionAssumption, GenerationAssumption
<1>1. /\ gpc = "idle" /\ gpc' = "checks"
      /\ ids' \in Prompts /\ maxTokens' \in MaxNews
      /\ cancelled' \in BOOLEAN
      /\ i' = 0 /\ out' = <<>> /\ result' = "none"
      /\ UNCHANGED <<pos, kv, hidden, logits, fpc, layer, token, project, ferr>>
  BY Zenon DEF GenerateTokens
<1>2. fpc = "idle" /\ SessionInv /\ TypeOK
  BY <1>1 DEF GenerationInv, Loop, SessionInv
<1>3. SessionInv' /\ TypeOK'
  <2>1. SessionInv'
    BY <1>1, <1>2, ContextStep
  <2> QED
    BY <2>1 DEF SessionInv
<1>4. [SessionNext]_sessionVars
  <2>1. cancelled \in BOOLEAN
    BY <1>2, Zenon DEF TypeOK
  <2>2. CASE cancelled' = cancelled
    BY <1>1, <2>2 DEF sessionVars
  <2>3. CASE cancelled /\ ~cancelled'
    <3>1. cancelled' = FALSE
      BY <1>1, <2>3, Zenon
    <3>2. NewContext
      BY <1>1, <1>2, <2>3, <3>1, Zenon DEF NewContext
    <3> QED
      BY <3>2 DEF SessionNext
  <2>4. CASE ~cancelled /\ cancelled'
    <3>1. cancelled' = TRUE
      BY <1>1, <2>4, Zenon
    <3>2. Cancel
      BY <1>1, <1>2, <2>4, <3>1, Zenon DEF Cancel
    <3> QED
      BY <3>2 DEF SessionNext
  <2> QED
    BY <1>1, <2>1, <2>2, <2>3, <2>4, Zenon
<1>5. GenerationTypeOK'
  <2>1. ids' \in Seq(Ids)
    BY <1>1 DEF Ids
  <2>2. Len(ids') \in Nat
    BY <2>1, LenProperties
  <2> QED
    BY <1>1, <1>3, <2>2 DEF GenerationTypeOK, Results
<1>6. Loop' /\ SamplesFromOwnContext' /\ AnswersAsAsked'
  BY <1>1, <1>2 DEF Loop, SamplesFromOwnContext, AnswersAsAsked
<1> QED
  BY <1>3, <1>4, <1>5, <1>6 DEF GenerationInv

(* The request returns, and nothing of the session changes.                *)
LEMMA ReturnStep ==
  ASSUME GenerationInv, gpc # "idle", fpc = "idle",
         UNCHANGED <<sessionVars, ids, maxTokens, i>>,
         NEW r \in Results, returns(r),
         out' \in Seq(Tokens \ EOG),
         r = "ErrContextLimit" => Len(ids) + maxTokens > Capacity,
         r = "max_tokens" => Len(out') = maxTokens,
         r = "eog" => Len(out') < maxTokens
  PROVE  GenerationInv' /\ [SessionNext]_sessionVars
<1>1. gpc' = "idle" /\ result' = r
  BY DEF returns
<1>2. UNCHANGED <<pos, kv, hidden, logits, fpc, layer, token, project, cancelled, ferr>>
  BY DEF sessionVars
<1>3. SessionInv /\ TypeOK /\ GenerationTypeOK
  BY DEF GenerationInv, SessionInv
<1>4. SessionInv' /\ TypeOK'
  <2>1. cancelled' \in BOOLEAN
    BY <1>2, <1>3, Zenon DEF TypeOK
  <2>2. SessionInv'
    BY <1>2, <1>3, <2>1, ContextStep
  <2> QED
    BY <2>2 DEF SessionInv
<1>5. GenerationTypeOK'
  BY <1>1, <1>3, <1>4 DEF GenerationTypeOK
<1>6. Loop' /\ SamplesFromOwnContext' /\ AnswersAsAsked'
  BY <1>1, <1>2 DEF Loop, SamplesFromOwnContext, AnswersAsAsked
<1> QED
  BY <1>4, <1>5, <1>6 DEF GenerationInv

(* The checks, and Reset.                                                  *)
LEMMA ChecksStep ==
  ASSUME GenerationInv, checks
  PROVE  GenerationInv' /\ [SessionNext]_sessionVars
<1> USE SessionAssumption, GenerationAssumption
<1>1. /\ gpc = "checks" /\ fpc = "idle" /\ i = 0 /\ out = <<>> /\ result = "none"
      /\ UNCHANGED <<ids, maxTokens, i, out>>
  BY DEF checks, GenerationInv, Loop
<1>2. SessionInv /\ GenerationTypeOK
  BY DEF GenerationInv
<1>3. ids \in Seq(Ids) /\ Len(ids) \in Nat /\ maxTokens \in Int
  BY LoopTyped
<1>4. CASE gpc' = "idle"
  <2>1. \E r \in {"ErrInvalidRequest", "ctx.Err", "ErrContextLimit"} :
          /\ returns(r)
          /\ r = "ErrContextLimit" => exceeds(Len(ids), maxTokens)
    BY <1>4 DEF checks, returns
  <2>2. PICK r \in {"ErrInvalidRequest", "ctx.Err", "ErrContextLimit"} :
          /\ returns(r)
          /\ r = "ErrContextLimit" => exceeds(Len(ids), maxTokens)
    BY <2>1
  <2>3. UNCHANGED sessionVars
    BY <1>4 DEF checks
  <2>4. r = "ErrContextLimit" => Len(ids) + maxTokens > Capacity
    BY <2>2, <1>3, ExceedsIsLarger
  <2>5. r \in Results /\ r # "max_tokens" /\ r # "eog"
    BY DEF Results
  <2>6. out' \in Seq(Tokens \ EOG)
    BY <1>1
  <2> QED
    BY <1>1, <2>2, <2>3, <2>4, <2>5, <2>6, ReturnStep
<1>5. CASE gpc' # "idle"
  <2>1. /\ maxTokens > 0 /\ ids # <<>> /\ Reset
        /\ gpc' = "prefill" /\ result' = result
    BY <1>5 DEF checks, returns
  <2>2. SessionInv' /\ Committed' = <<>>
    BY <1>2, <2>1, ResetStep
  <2>3. TypeOK' /\ GenerationTypeOK'
    BY <1>1, <1>2, <2>1, <2>2 DEF GenerationTypeOK, SessionInv
  <2>4. fpc' = "idle"
    BY <1>1, <2>1 DEF Reset
  <2>5. Len(ids) > 0 /\ Len(out) = 0
    BY <1>1, <1>3, <2>1, EmptySeq
  <2>6. SubSeq(ids, 1, 0) = <<>>
    BY <1>3
  <2>7. Loop'
    BY <1>1, <2>1, <2>2, <2>4, <2>5, <2>6 DEF Loop
  <2>8. SamplesFromOwnContext' /\ AnswersAsAsked'
    BY <1>1, <2>1 DEF SamplesFromOwnContext, AnswersAsAsked
  <2> QED
    BY <2>1, <2>2, <2>3, <2>7, <2>8 DEF GenerationInv, SessionNext
<1> QED
  BY <1>4, <1>5

(* Forward is called with the next token of the text.                      *)
LEMMA CallStep ==
  ASSUME GenerationInv, gpc # "idle", NEW t \in Ids, NEW b \in BOOLEAN, Forward(t, b),
         gpc' = "forward", UNCHANGED <<ids, maxTokens, result>>,
         i' \in 1..Len(ids), out' \in Seq(Tokens \ EOG), Len(out') < maxTokens,
         out' # <<>> => i' = Len(ids),
         i' = Len(ids) => b,
         t \in Tokens => Append(Committed, t) = Text',
         Len(Committed) < Len(ids) + maxTokens
  PROVE  GenerationInv' /\ [SessionNext]_sessionVars
<1> USE SessionAssumption
<1>1. SessionInv /\ GenerationTypeOK /\ fpc = "idle" /\ result = "none"
  BY DEF GenerationInv, Forward, Loop
<1>2. SessionInv' /\ Committed' = Committed
  BY <1>1, ForwardStep DEF Ids
<1>3. [SessionNext]_sessionVars
  BY <1>1 DEF SessionNext, Call, Ids
<1>4. TypeOK' /\ GenerationTypeOK'
  BY <1>1, <1>2 DEF GenerationTypeOK, SessionInv
<1>5. ids' = ids /\ maxTokens' = maxTokens
  OBVIOUS
<1>6. ASSUME fpc' = "idle" PROVE Evaluates'
  <2>1. \/ forwardReturns("ErrInvalidMetadata")
        \/ pos >= Capacity /\ forwardReturns("ErrContextLimit")
        \/ forwardReturns("ctx.Err")
    BY <1>6 DEF Forward
  <2>2. ferr' # "nil" /\ (ferr' = "ErrContextLimit" => pos >= Capacity)
    BY <2>1 DEF forwardReturns
  <2>3. ferr' = "ErrContextLimit" => Len(ids) + maxTokens > Capacity
    BY <2>2, LoopTyped
  <2> QED
    BY <1>5, <1>6, <2>2, <2>3 DEF Evaluates
<1>7. ASSUME fpc' # "idle" PROVE Evaluates'
  <2>1. t \in Tokens /\ token' = t /\ project' = b
    BY <1>7 DEF Forward, forwardReturns
  <2>2. Append(Committed', token') = Text'
    BY <1>2, <2>1
  <2>3. i' = Len(ids) => project'
    BY <2>1, Zenon
  <2> QED
    BY <1>5, <1>7, <2>2, <2>3, Zenon DEF Evaluates
<1>8. Evaluates'
  BY <1>6, <1>7
<1>9. Loop'
  BY <1>1, <1>5, <1>8 DEF Loop
<1>10. SamplesFromOwnContext' /\ AnswersAsAsked'
  BY <1>1 DEF SamplesFromOwnContext, AnswersAsAsked
<1> QED
  BY <1>2, <1>3, <1>4, <1>9, <1>10 DEF GenerationInv

(* A token of the prompt.                                                  *)
LEMMA PrefillStep ==
  ASSUME GenerationInv, prefill
  PROVE  GenerationInv' /\ [SessionNext]_sessionVars
<1>1. /\ gpc = "prefill" /\ fpc = "idle" /\ i < Len(ids) /\ out = <<>>
      /\ Len(out) < maxTokens
      /\ Committed = SubSeq(ids, 1, i)
      /\ UNCHANGED <<ids, maxTokens, out>>
  BY DEF prefill, GenerationInv, Loop
<1>2. /\ ids \in Seq(Ids) /\ Len(ids) \in Nat /\ i \in 0..Len(ids)-1
      /\ maxTokens \in Int /\ out' \in Seq(Tokens \ EOG) /\ Len(out') < maxTokens
  BY <1>1, LoopTyped DEF GenerationInv, GenerationTypeOK
<1>3. CASE cancelled
  <2>1. returns("ctx.Err") /\ UNCHANGED <<sessionVars, ids, maxTokens, i>>
    BY <1>1, <1>3 DEF prefill
  <2>2. "ctx.Err" \in Results
    BY DEF Results
  <2> QED
    BY <1>1, <1>2, <2>1, <2>2, ReturnStep
<1>4. CASE ~cancelled
  <2> DEFINE t == ids[i + 1]
             b == i + 1 = Len(ids)
  <2>1. /\ Forward(t, b) /\ i' = i + 1 /\ gpc' = "forward"
        /\ UNCHANGED <<ids, maxTokens, result>>
    BY <1>1, <1>4 DEF prefill
  <2>2. t \in Ids /\ b \in BOOLEAN /\ i' \in 1..Len(ids)
    BY <1>2, <2>1, ElementOfSeq
  <2>3. Append(Committed, t) = Text'
    <3>1. Text' = SubSeq(ids, 1, i + 1) \o <<>>
      BY <1>1, <2>1 DEF Text
    <3> QED
      BY <1>1, <1>2, <3>1, NextPrefix
  <2>4. Len(Committed) < Len(ids) + maxTokens
    <3>1. Len(Committed) = i
      BY <1>1, <1>2, SubSeqProperties
    <3>2. maxTokens > 0
      BY <1>1, <1>2
    <3> QED
      BY <1>2, <3>1, <3>2
  <2>5. out' = <<>> /\ (i' = Len(ids) => b)
    BY <1>1, <2>1
  <2> HIDE DEF t, b
  <2> QED
    BY <1>1, <1>2, <2>1, <2>2, <2>3, <2>4, <2>5, CallStep
<1> QED
  BY <1>3, <1>4

(* The loop goes on after an evaluation.                                   *)
LEMMA ForwardReturnedStep ==
  ASSUME GenerationInv, forwardReturned
  PROVE  GenerationInv' /\ [SessionNext]_sessionVars
<1>1. /\ gpc = "forward" /\ fpc = "idle" /\ Evaluates /\ result = "none"
      /\ Len(out) < maxTokens
      /\ UNCHANGED <<sessionVars, ids, maxTokens, i, out>>
  BY DEF forwardReturned, GenerationInv, Loop
<1>2. /\ SessionInv /\ TypeOK /\ GenerationTypeOK
      /\ UNCHANGED <<pos, kv, hidden, logits, fpc, layer, token, project, cancelled, ferr>>
  BY <1>1 DEF GenerationInv, SessionInv, sessionVars
<1>3. CASE ferr # "nil"
  <2>1. returns(ferr)
    BY <1>3 DEF forwardReturned
  <2>2. /\ ferr \in {"ErrInvalidMetadata", "ErrContextLimit", "ctx.Err", "ops"}
        /\ ferr = "ErrContextLimit" => Len(ids) + maxTokens > Capacity
    BY <1>1, <1>2, <1>3 DEF Evaluates, TypeOK
  <2>3. ferr \in Results /\ ferr # "max_tokens" /\ ferr # "eog"
    BY <2>2 DEF Results
  <2>4. out' \in Seq(Tokens \ EOG)
    BY <1>1, <1>2 DEF GenerationTypeOK
  <2> QED
    BY <1>1, <2>1, <2>2, <2>3, <2>4, ReturnStep
<1>4. CASE ferr = "nil"
  <2>1. /\ gpc' = IF i < Len(ids) THEN "prefill" ELSE "sample"
        /\ result' = result
    BY <1>4 DEF forwardReturned
  <2>2. /\ Committed = Text /\ (i = Len(ids) => logits = Text)
        /\ i \in 1..Len(ids) /\ (out # <<>> => i = Len(ids))
    BY <1>1, <1>4 DEF Evaluates
  <2>3. /\ Len(ids) \in Nat /\ ids \in Seq(Ids)
    BY LoopTyped
  <2>4. SessionInv' /\ Committed' = Committed
    <3>1. cancelled' \in BOOLEAN
      BY <1>2, Zenon DEF TypeOK
    <3> QED
      BY <1>2, <3>1, ContextStep
  <2>5. TypeOK' /\ GenerationTypeOK'
    BY <1>1, <1>2, <2>1, <2>4 DEF GenerationTypeOK, SessionInv
  <2>6. AnswersAsAsked' /\ [SessionNext]_sessionVars
    BY <1>1, <2>1 DEF AnswersAsAsked
  <2>7. Loop' /\ SamplesFromOwnContext'
    <3>1. CASE i < Len(ids)
      <4>1. gpc' = "prefill" /\ out = <<>>
        BY <2>1, <2>2, <2>3, <3>1
      <4>2. Text = SubSeq(ids, 1, i)
        <5>1. SubSeq(ids, 1, i) \in Seq(Ids)
          BY <2>2, <2>3, SubSeqProperties, ElementOfSeq
        <5> QED
          BY <4>1, <5>1, ConcatEmptySeq DEF Text
      <4> QED
        BY <1>1, <1>2, <2>1, <2>2, <2>4, <3>1, <4>1, <4>2 DEF Loop, SamplesFromOwnContext
    <3>2. CASE i = Len(ids)
      <4>1. gpc' = "sample" /\ Text = ids \o out
        BY <2>1, <2>3, <3>2, WholeText
      <4> QED
        BY <1>1, <1>2, <2>1, <2>2, <2>4, <3>2, <4>1 DEF Loop, SamplesFromOwnContext
    <3> QED
      BY <2>2, <2>3, <3>1, <3>2
  <2> QED
    BY <2>4, <2>5, <2>6, <2>7 DEF GenerationInv
<1> QED
  BY <1>3, <1>4

(* A token is sampled.                                                     *)
LEMMA SampleStep ==
  ASSUME GenerationInv, sample
  PROVE  GenerationInv' /\ [SessionNext]_sessionVars
<1> USE GenerationAssumption
<1>1. /\ gpc = "sample" /\ fpc = "idle" /\ i = Len(ids) /\ i > 0 /\ result = "none"
      /\ Len(out) < maxTokens /\ Committed = ids \o out
      /\ UNCHANGED <<ids, maxTokens, i>>
  BY DEF sample, GenerationInv, Loop, SamplesFromOwnContext
<1>2. /\ ids \in Seq(Ids) /\ Len(ids) \in Nat /\ maxTokens \in Int
      /\ out \in Seq(Tokens \ EOG) /\ Len(out) \in Nat /\ i \in 0..Len(ids)
      /\ out \in Seq(Tokens)
  BY LoopTyped DEF GenerationInv, GenerationTypeOK
<1>3. PICK next \in Tokens :
       \/ /\ next \in EOG
          /\ returns("eog")
          /\ UNCHANGED <<sessionVars, out>>
       \/ /\ next \notin EOG
          /\ returns("decode")
          /\ UNCHANGED <<sessionVars, out>>
       \/ /\ next \notin EOG
          /\ out' = Append(out, next)
          /\ IF Len(out') < maxTokens
             THEN Forward(next, TRUE) /\ gpc' = "forward" /\ UNCHANGED result
             ELSE returns("max_tokens") /\ UNCHANGED sessionVars
  BY DEF sample
<1>4. CASE returns("eog") /\ UNCHANGED <<sessionVars, out>>
  <2>1. "eog" \in Results
    BY DEF Results
  <2> QED
    BY <1>1, <1>2, <1>4, <2>1, ReturnStep
<1>5. CASE returns("decode") /\ UNCHANGED <<sessionVars, out>>
  <2>1. "decode" \in Results
    BY DEF Results
  <2> QED
    BY <1>1, <1>2, <1>5, <2>1, ReturnStep
<1>6. CASE /\ next \notin EOG
           /\ out' = Append(out, next)
           /\ IF Len(out') < maxTokens
              THEN Forward(next, TRUE) /\ gpc' = "forward" /\ UNCHANGED result
              ELSE returns("max_tokens") /\ UNCHANGED sessionVars
  <2>1. out' \in Seq(Tokens \ EOG) /\ Len(out') = Len(out) + 1
    BY <1>2, <1>6, AppendProperties
  <2>2. CASE Len(out') < maxTokens
    <3>1. Forward(next, TRUE) /\ gpc' = "forward" /\ UNCHANGED result
      BY <1>6, <2>2
    <3>2. i' \in 1..Len(ids)
      BY <1>1, <1>2
    <3>3. Append(Committed, next) = Text'
      <4>1. Text' = SubSeq(ids, 1, Len(ids)) \o Append(out, next)
        BY <1>1, <1>6 DEF Text
      <4>2. SubSeq(ids, 1, Len(ids)) = ids
        BY <1>2, LenProperties
      <4> QED
        BY <1>1, <1>2, <4>1, <4>2, NextOut
    <3>4. Len(Committed) < Len(ids) + maxTokens
      <4>1. out \in Seq(Ids)
        BY <1>2 DEF Ids
      <4>2. Len(Committed) = Len(ids) + Len(out)
        BY <1>1, <1>2, <4>1, ConcatProperties
      <4> QED
        BY <1>1, <1>2, <4>2
    <3>5. next \in Ids /\ TRUE \in BOOLEAN
      BY DEF Ids
    <3> QED
      BY <1>1, <1>2, <2>1, <2>2, <3>1, <3>2, <3>3, <3>4, <3>5, CallStep
  <2>3. CASE ~(Len(out') < maxTokens)
    <3>1. returns("max_tokens") /\ UNCHANGED sessionVars
      BY <1>6, <2>3
    <3>2. Len(out') = maxTokens
      BY <1>1, <1>2, <2>1, <2>3
    <3>3. "max_tokens" \in Results
      BY DEF Results
    <3> QED
      BY <1>1, <2>1, <3>1, <3>2, <3>3, ReturnStep
  <2> QED
    BY <2>2, <2>3
<1> QED
  BY <1>3, <1>4, <1>5, <1>6

(* Forward runs, and may end.                                              *)
LEMMA RunsStep ==
  ASSUME GenerationInv, forwardRuns
  PROVE  GenerationInv' /\ [SessionNext]_sessionVars
<1>1. /\ gpc = "forward" /\ fpc # "idle" /\ Evaluates /\ result = "none"
      /\ Len(out) < maxTokens /\ forwardStep
      /\ UNCHANGED <<gpc, ids, maxTokens, i, out, result>>
  BY DEF forwardRuns, forwardStep, attention, feedForward, finish,
         GenerationInv, Loop, generationVars
<1>2. SessionInv /\ GenerationTypeOK
  BY DEF GenerationInv
<1>3. SessionInv' /\ [SessionNext]_sessionVars
  BY <1>1, <1>2, RunStep DEF SessionNext
<1>4. TypeOK' /\ GenerationTypeOK'
  BY <1>1, <1>2, <1>3 DEF GenerationTypeOK, SessionInv
<1>5. /\ Append(Committed, token) = Text /\ (i = Len(ids) => project)
      /\ i \in 1..Len(ids) /\ (out # <<>> => i = Len(ids))
  BY <1>1 DEF Evaluates
<1>6. Text' = Text
  BY <1>1 DEF Text
<1>7. Evaluates'
  <2>1. \/ /\ Committed' = Committed
           /\ fpc' = "idle" => ferr' \in {"ctx.Err", "ops"}
           /\ fpc' # "idle" => UNCHANGED <<token, project>>
        \/ /\ fpc' = "idle" /\ ferr' = "nil"
           /\ Committed' = Append(Committed, token)
           /\ logits' = IF project THEN Append(Committed, token) ELSE logits
    BY <1>1, <1>2, RunStep
  <2>2. CASE /\ Committed' = Committed
             /\ fpc' = "idle" => ferr' \in {"ctx.Err", "ops"}
             /\ fpc' # "idle" => UNCHANGED <<token, project>>
    <3>1. fpc' = "idle" => ferr' # "nil" /\ ferr' # "ErrContextLimit"
      BY <2>2
    <3>2. ASSUME fpc' # "idle" PROVE Append(Committed', token') = Text'
      BY <1>5, <1>6, <2>2, <3>2, Zenon
    <3>3. ASSUME fpc' # "idle", i = Len(ids) PROVE project'
      <4>1. project
        BY <1>5, <3>3, Zenon
      <4>2. project' = project
        BY <2>2, <3>3
      <4> QED
        BY <4>1, <4>2, Zenon
    <3> QED
      BY <1>1, <1>5, <3>1, <3>2, <3>3 DEF Evaluates
  <2>3. CASE /\ fpc' = "idle" /\ ferr' = "nil"
             /\ Committed' = Append(Committed, token)
             /\ logits' = IF project THEN Append(Committed, token) ELSE logits
    <3>1. Committed' = Text'
      BY <1>5, <1>6, <2>3, Zenon
    <3>2. ASSUME i = Len(ids) PROVE logits' = Text'
      <4>1. project
        BY <1>5, <3>2, Zenon
      <4> QED
        BY <1>5, <1>6, <2>3, <4>1, Zenon
    <3> QED
      BY <1>1, <1>5, <2>3, <3>1, <3>2 DEF Evaluates
  <2> QED
    BY <2>1, <2>2, <2>3
<1>8. Loop'
  BY <1>1, <1>7 DEF Loop
<1>9. SamplesFromOwnContext' /\ AnswersAsAsked'
  BY <1>1 DEF SamplesFromOwnContext, AnswersAsAsked
<1> QED
  BY <1>3, <1>4, <1>8, <1>9 DEF GenerationInv

(* The context is cancelled, or nothing happens.                           *)
LEMMA QuietStep ==
  ASSUME GenerationInv, cancel \/ UNCHANGED vars
  PROVE  GenerationInv' /\ [SessionNext]_sessionVars
<1>1. /\ UNCHANGED <<gpc, ids, maxTokens, i, out, result>>
      /\ UNCHANGED <<pos, kv, hidden, logits, fpc, layer, token, project, ferr>>
  BY DEF cancel, Cancel, vars, sessionVars, generationVars
<1>2. SessionInv /\ TypeOK /\ GenerationTypeOK
  BY DEF GenerationInv, SessionInv
<1>3. cancelled' \in BOOLEAN
  BY <1>2, Zenon DEF cancel, Cancel, vars, sessionVars, TypeOK
<1>4. SessionInv' /\ Committed' = Committed
  BY <1>1, <1>2, <1>3, ContextStep
<1>5. TypeOK' /\ GenerationTypeOK'
  BY <1>1, <1>2, <1>4 DEF GenerationTypeOK, SessionInv
<1>6. [SessionNext]_sessionVars
  <2>1. CASE cancel
    BY <2>1 DEF cancel, SessionNext
  <2>2. CASE UNCHANGED vars
    BY <2>2 DEF vars
  <2> QED
    BY <2>1, <2>2
<1>7. Text' = Text /\ (Evaluates => Evaluates')
  BY <1>1, <1>4, Zenon DEF Text, Evaluates
<1>8. Loop'
  BY <1>1, <1>4, <1>7 DEF GenerationInv, Loop
<1>9. SamplesFromOwnContext' /\ AnswersAsAsked'
  BY <1>1, <1>4 DEF GenerationInv, SamplesFromOwnContext, AnswersAsAsked
<1> QED
  BY <1>4, <1>5, <1>6, <1>8, <1>9 DEF GenerationInv
-----------------------------------------------------------------------------
(* The theorems.                                                           *)

(* A fresh session and no request.                                         *)
LEMMA GenerationInit == Init => GenerationInv /\ SessionInit
<1> SUFFICES ASSUME Init PROVE GenerationInv /\ SessionInit
  OBVIOUS
<1>1. /\ SessionInit /\ gpc = "idle" /\ ids = <<>> /\ maxTokens = 0 /\ i = 0
      /\ out = <<>> /\ result = "none"
  BY DEF Init
<1>2. SessionInv /\ TypeOK /\ fpc = "idle"
  BY <1>1, InitHolds DEF SessionInv, SessionInit
<1>3. GenerationTypeOK
  BY <1>1, <1>2 DEF GenerationTypeOK, Results
<1>4. Loop /\ SamplesFromOwnContext /\ AnswersAsAsked
  BY <1>1, <1>2 DEF Loop, SamplesFromOwnContext, AnswersAsAsked
<1> QED
  BY <1>1, <1>2, <1>3, <1>4 DEF GenerationInv

(* Every step keeps the invariant, and is one of the session or none of its*)
(* business.                                                               *)
LEMMA GenerationStep ==
  GenerationInv /\ [Next]_vars => GenerationInv' /\ [SessionNext]_sessionVars
<1> SUFFICES ASSUME GenerationInv, [Next]_vars
             PROVE  GenerationInv' /\ [SessionNext]_sessionVars
  OBVIOUS
<1>1. CASE GenerateTokens
  BY <1>1, ArriveStep
<1>2. CASE checks
  BY <1>2, ChecksStep
<1>3. CASE prefill
  BY <1>3, PrefillStep
<1>4. CASE forwardReturned
  BY <1>4, ForwardReturnedStep
<1>5. CASE sample
  BY <1>5, SampleStep
<1>6. CASE forwardRuns
  BY <1>6, RunsStep
<1>7. CASE cancel \/ UNCHANGED vars
  BY <1>7, QuietStep
<1> QED
  BY <1>1, <1>2, <1>3, <1>4, <1>5, <1>6, <1>7 DEF Next, step

(* What holds between the steps of the loop and of the Forward under it    *)
(* (generate.go:47-106).                                                   *)
THEOREM GenerationInvariant == Spec => []GenerationInv
<1>1. GenerationInv /\ [Next]_vars => GenerationInv'
  BY GenerationStep
<1> QED
  BY GenerationInit, <1>1, PTL DEF Spec

(* The loop is one of the callers the session is proved correct for: its   *)
(* requests, whatever their outcome, use a session by Forward and Reset    *)
(* only, one call at a time (generate.go:66-76, 103).                      *)
THEOREM GenerationUsesSession == Spec => SessionSpec
<1>1. GenerationInv /\ [Next]_vars => [SessionNext]_sessionVars
  BY GenerationStep
<1> QED
  BY GenerationInit, <1>1, GenerationInvariant, PTL DEF Spec, SessionSpec

(* The cached rows agree under the loop, too (forward.go:11-15).           *)
THEOREM LoopKeepsRows == Spec => []RowsAgree /\ []AttendsToOwnContext /\ IsContext
<1> QED
  BY GenerationUsesSession, CachesAgree, OwnContextOnly, SessionImplementsContext, PTL

(* The variables keep their types (generate.go:47-106).                    *)
THEOREM GenerationTyped == Spec => []GenerationTypeOK
<1>1. GenerationInv => GenerationTypeOK
  BY DEF GenerationInv
<1> QED
  BY <1>1, GenerationInvariant, PTL

(* Tokens are sampled from the logits of exactly the prompt and the tokens *)
(* generated so far (generate.go:80-106).                                  *)
THEOREM SamplesOwn == Spec => []SamplesFromOwnContext
<1>1. GenerationInv => SamplesFromOwnContext
  BY DEF GenerationInv
<1> QED
  BY <1>1, GenerationInvariant, PTL

(* A request that fits is never turned away for its size, and a result is  *)
(* as long as was asked for unless an end of generation was sampled        *)
(* (generate.go:61-64, 80-106).                                            *)
THEOREM AnswersRight == Spec => []AnswersAsAsked
<1>1. GenerationInv => AnswersAsAsked
  BY DEF GenerationInv
<1> QED
  BY <1>1, GenerationInvariant, PTL
=============================================================================
