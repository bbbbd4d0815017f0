---------------------------- MODULE LoaderProofs ----------------------------
(***************************************************************************)
(* Proofs about Loader, for any set of files and any width of a word.      *)
(***************************************************************************)
EXTENDS Loader, TLAPS

-----------------------------------------------------------------------------
(* The arithmetic of the bounds check.                                     *)

(* A number below the word size is its own remainder.                      *)
LEMMA SmallMod ==
  ASSUME NEW w \in Nat \ {0}, NEW x \in 0..w-1
  PROVE  x % w = x
BY SMT

(* checkedAdd3 (loader.go:283-292) is ok exactly when the sum is a word,   *)
(* and then it is the sum.                                                 *)
LEMMA CheckedSum ==
  ASSUME NEW a \in 0..WordSize-1, NEW b \in 0..WordSize-1, NEW c \in 0..WordSize-1
  PROVE  /\ checkedAdd3(a, b, c).ok <=> a + b + c < WordSize
         /\ checkedAdd3(a, b, c).ok => checkedAdd3(a, b, c).sum = a + b + c
<1> DEFINE ab == (a + b) % WordSize
<1>0. WordSize \in Nat \ {0}
  BY LoaderAssumption
<1>1. CASE a > maxWord - b
  <2>1. ~checkedAdd3(a, b, c).ok /\ ~(a + b + c < WordSize)
    BY <1>0, <1>1 DEF checkedAdd3, maxWord
  <2> QED
    BY <2>1
<1>2. CASE ~(a > maxWord - b)
  <2>1. a + b \in 0..WordSize-1
    BY <1>0, <1>2 DEF maxWord
  <2>2. ab = a + b
    BY <1>0, <2>1, SmallMod
  <2>3. CASE ab > maxWord - c
    <3>1. ~checkedAdd3(a, b, c).ok
      BY <2>3 DEF checkedAdd3
    <3>2. ~(a + b + c < WordSize)
      BY <1>0, <2>2, <2>3 DEF maxWord
    <3> QED
      BY <3>1, <3>2
  <2>4. CASE ~(ab > maxWord - c)
    <3>1. checkedAdd3(a, b, c) = [ok |-> TRUE, sum |-> (ab + c) % WordSize]
      BY <1>2, <2>4 DEF checkedAdd3
    <3>2. ab + c = a + b + c /\ a + b + c \in 0..WordSize-1
      BY <1>0, <2>1, <2>2, <2>4 DEF maxWord
    <3>3. (ab + c) % WordSize = a + b + c
      BY <1>0, <3>2, SmallMod
    <3>4. checkedAdd3(a, b, c).ok = TRUE /\ checkedAdd3(a, b, c).sum = a + b + c
      BY <3>1, <3>3
    <3>5. a + b + c < WordSize
      BY <1>0, <3>2
    <3> QED
      BY <3>4, <3>5
  <2> QED
    BY <2>3, <2>4
<1> QED
  BY <1>1, <1>2

-----------------------------------------------------------------------------
(* The invariant of the two loops.                                         *)

RangeOf(t) == [start |-> t.offset, end |-> t.offset + t.size]

(* The tensors so far are inside the file and have names of their own.     *)
Inside ==
  \A k \in DOMAIN tensors :
    /\ data.base <= tensors[k].offset
    /\ tensors[k].offset + tensors[k].size <= data.size

Named ==
  \A j, k \in DOMAIN tensors : j # k => tensors[j].name # tensors[k].name

(* In the first loop the ranges are those of the tensors, in their order.  *)
Gathered ==
  pc \in {"header", "base", "tensors"} =>
    /\ Len(ranges) = Len(tensors)
    /\ \A k \in DOMAIN tensors : ranges[k] = RangeOf(tensors[k])

(* In the second every tensor's range is among them, at a place of its own,*)
(* and they are sorted.                                                    *)
Arranged ==
  pc = "overlap" =>
    /\ SortedByStart(ranges)
    /\ \E p \in Injection(DOMAIN tensors, DOMAIN ranges) :
         \A k \in DOMAIN tensors : ranges[p[k]] = RangeOf(tensors[k])

(* No range ends before it starts.                                         *)
Ordered == \A k \in DOMAIN ranges : ranges[k].start <= ranges[k].end

(* The ranges below i are disjoint, all of them.                           *)
Separate ==
  pc = "overlap" =>
    \A j, k \in DOMAIN ranges : j < k /\ k < i => ranges[j].end <= ranges[k].start

Disjoint ==
  \A j, k \in DOMAIN tensors : j # k =>
    \/ tensors[j].offset + tensors[j].size <= tensors[k].offset
    \/ tensors[k].offset + tensors[k].size <= tensors[j].offset

LoopInvariant ==
  /\ TypeOK
  /\ Inside
  /\ Named
  /\ Gathered
  /\ Arranged
  /\ Ordered
  /\ Separate
  /\ result = "ok" => pc = "done" /\ Disjoint

-----------------------------------------------------------------------------
(* The steps.                                                              *)

(* Parse starts with nothing accepted (loader.go:74-76).                   *)
LEMMA InitLoop ==
  ASSUME Init
  PROVE  LoopInvariant
<1>1. TypeOK
  BY DEF Init, TypeOK
<1>2. tensors = <<>> /\ ranges = <<>> /\ pc = "header" /\ result = "none"
  BY DEF Init
<1> QED
  BY <1>1, <1>2 DEF LoopInvariant, Inside, Named, Gathered, Arranged, Ordered, Separate

(* What the constants are, for the file of a state.                        *)
LEMMA FileTyped ==
  ASSUME TypeOK
  PROVE  /\ WordSize \in Nat \ {0}
         /\ data.base \in 0..WordSize-1
         /\ data.size \in 0..WordSize-1
         /\ data.items \in Seq(Descriptors)
BY LoaderAssumption DEF TypeOK

(* The errors of the stages before the loops are errors (loader.go:74-85). *)
LEMMA HeaderStep ==
  ASSUME LoopInvariant, validateHeader \/ dataSection
  PROVE  LoopInvariant'
<1> USE DEF LoopInvariant
<1>1. UNCHANGED <<data, i, tensors, ranges>>
  BY DEF validateHeader, dataSection
<1>2. result # "ok"
  BY DEF validateHeader, dataSection
<1>3. headerError \in {"nil", "ErrUnsupportedEndian", "ErrUnsupportedVersion", "ErrInvalidFormat"}
  BY DEF headerError
<1>4. /\ pc' \in {"base", "tensors", "done"}
      /\ result' \in {result, "ErrUnsupportedEndian", "ErrUnsupportedVersion",
                      "ErrInvalidFormat", "ErrTensorOutOfBounds"}
  BY <1>3 DEF validateHeader, dataSection, returns
<1>5. TypeOK'
  BY <1>1, <1>4 DEF TypeOK
<1>6. pc \in {"header", "base"}
  BY DEF validateHeader, dataSection
<1>7. Inside' /\ Named' /\ Gathered' /\ Ordered'
  BY <1>1, <1>6 DEF Inside, Named, Gathered, Ordered
<1>8. Arranged' /\ Separate' /\ result' # "ok"
  BY <1>2, <1>4 DEF Arranged, Separate
<1> QED
  BY <1>5, <1>7, <1>8

(* A descriptor that passes the checks adds a tensor inside the file under *)
(* a new name (loader.go:176-209).                                         *)
LEMMA NormalizeStep ==
  ASSUME LoopInvariant, normalize
  PROVE  LoopInvariant'
<1> USE DEF LoopInvariant
<1> DEFINE t == data.items[i]
           start == (data.base + t.offset) % WordSize
           end == checkedAdd3(data.base, t.offset, t.size).sum
           new == [name |-> t.name, offset |-> start, size |-> t.size]
           range == [start |-> start, end |-> end]
<1>0. pc = "tensors" /\ result # "ok" /\ UNCHANGED data
  BY DEF normalize
<1>1. t \in Descriptors
  BY FileTyped DEF normalize, TypeOK
<1>t. /\ t.name \in STRING /\ t.offset \in 0..WordSize-1 /\ t.size \in 0..WordSize-1
      /\ data.base \in 0..WordSize-1 /\ data.size \in 0..WordSize-1
      /\ WordSize \in Nat \ {0}
  <2>1. /\ data.base \in 0..WordSize-1 /\ data.size \in 0..WordSize-1
        /\ WordSize \in Nat \ {0}
    BY FileTyped
  <2>2. t.name \in STRING /\ t.offset \in 0..WordSize-1 /\ t.size \in 0..WordSize-1
    <3> HIDE DEF t
    <3> QED
      BY <1>1 DEF Descriptors
  <2> QED
    BY <2>1, <2>2
<1> HIDE DEF t
<1>2. CASE fault(t) # "nil"
  <2>1. returns(fault(t)) /\ UNCHANGED <<data, i, tensors, ranges>>
    BY <1>2 DEF normalize, t
  <2>2. fault(t) \in {"ErrDuplicateTensor", "ErrUnsupportedTensor",
                      "ErrMisalignedTensor", "ErrTensorOutOfBounds"}
    BY <1>2 DEF fault
  <2>3. pc' = "done" /\ result' = fault(t)
    BY <2>1 DEF returns
  <2>4. TypeOK'
    BY <2>1, <2>2, <2>3 DEF TypeOK
  <2>5. Inside' /\ Named' /\ Ordered'
    BY <2>1 DEF Inside, Named, Ordered
  <2>6. Gathered' /\ Arranged' /\ Separate' /\ result' # "ok"
    BY <2>2, <2>3 DEF Gathered, Arranged, Separate
  <2> QED
    BY <2>4, <2>5, <2>6
<1>3. CASE fault(t) = "nil"
  <2>1. /\ tensors' = Append(tensors, new)
        /\ ranges' = Append(ranges, range)
        /\ i' = i + 1
        /\ UNCHANGED <<pc, result>>
    BY <1>3 DEF normalize, t
  <2>2. t.name \notin seen /\ ~outside(t)
    BY <1>3 DEF fault
  <2>3. /\ data.base + t.offset + t.size < WordSize
        /\ end = data.base + t.offset + t.size
        /\ end <= data.size
    <3>1. /\ checkedAdd3(data.base, t.offset, t.size).ok
          /\ ~(checkedAdd3(data.base, t.offset, t.size).sum > data.size)
      BY <2>2 DEF outside
    <3>2. /\ data.base + t.offset + t.size < WordSize
          /\ end = data.base + t.offset + t.size
      BY <1>t, <3>1, CheckedSum
    <3> QED
      BY <1>t, <3>1, <3>2
  <2>4. start = data.base + t.offset
    <3>1. data.base + t.offset \in 0..WordSize-1
      BY <1>t, <2>3
    <3> QED
      BY <1>t, <3>1, SmallMod
  <2>5. new \in Tensors /\ range \in Ranges
    <3>1. /\ data.base + t.offset \in 0..WordSize-1
          /\ data.base + t.offset + t.size \in 0..WordSize-1
      BY <1>t, <2>3
    <3>2. start \in 0..WordSize-1 /\ end \in 0..WordSize-1
      BY <2>3, <2>4, <3>1
    <3> HIDE DEF start, end
    <3> QED
      BY <1>t, <3>2 DEF Tensors, Ranges
  <2>6. tensors \in Seq(Tensors) /\ ranges \in Seq(Ranges) /\ Len(ranges) = Len(tensors)
    BY <1>0 DEF TypeOK, Gathered
  <2>7. /\ \A k \in DOMAIN tensors' :
              \/ k \in DOMAIN tensors /\ tensors'[k] = tensors[k]
              \/ k = Len(tensors) + 1 /\ tensors'[k] = new
        /\ \A k \in DOMAIN ranges' :
              \/ k \in DOMAIN ranges /\ ranges'[k] = ranges[k]
              \/ k = Len(tensors) + 1 /\ ranges'[k] = range
        /\ Len(ranges') = Len(tensors')
        /\ DOMAIN ranges = DOMAIN tensors
        /\ Len(tensors) + 1 \notin DOMAIN tensors
        /\ DOMAIN ranges' = DOMAIN tensors'
    <3> HIDE DEF new, range
    <3> QED
      BY <2>1, <2>5, <2>6
  <2>8. TypeOK'
    <3>1. tensors' \in Seq(Tensors) /\ ranges' \in Seq(Ranges)
      BY <2>1, <2>5, <2>6
    <3> QED
      BY <1>0, <2>1, <3>1 DEF TypeOK
  <2>9. Inside'
    <3>1. data.base <= new.offset /\ new.offset + new.size <= data.size
      BY <1>t, <2>3, <2>4
    <3> QED
      BY <1>0, <2>7, <3>1 DEF Inside
  <2>10. Named'
    <3>1. \A k \in DOMAIN tensors : tensors[k].name # new.name
      BY <2>2 DEF seen
    <3> HIDE DEF new
    <3> QED
      BY <2>7, <3>1 DEF Named
  <2>11. Gathered'
    <3>1. range = RangeOf(new)
      BY <2>3, <2>4 DEF RangeOf
    <3> HIDE DEF new, range
    <3> QED
      BY <1>0, <2>1, <2>7, <3>1 DEF Gathered
  <2>12. Ordered'
    <3>1. range.start <= range.end
      BY <1>t, <2>3, <2>4
    <3> HIDE DEF range
    <3> QED
      BY <2>7, <3>1 DEF Ordered
  <2>13. Arranged' /\ Separate' /\ result' # "ok"
    BY <1>0, <2>1 DEF Arranged, Separate
  <2> QED
    BY <2>8, <2>9, <2>10, <2>11, <2>12, <2>13
<1> QED
  BY <1>2, <1>3

(* The sort keeps the ranges of the tensors, one for each, in some order   *)
(* (loader.go:211-220).                                                    *)
LEMMA SortStep ==
  ASSUME LoopInvariant, sort
  PROVE  LoopInvariant'
<1> USE DEF LoopInvariant
<1>0. /\ pc = "tensors" /\ pc' = "overlap" /\ i' = 2
      /\ UNCHANGED <<data, tensors, result>>
      /\ result # "ok"
      /\ SortedByStart(ranges')
  BY DEF sort
<1> DEFINE D == DOMAIN ranges
<1>1. PICK p \in Bijection(D, D) : ranges' = [k \in D |-> ranges[p[k]]]
  BY DEF sort
<1>2. /\ D = 1..Len(ranges) /\ DOMAIN tensors = D /\ DOMAIN ranges' = D
      /\ ranges \in Seq(Ranges) /\ Len(ranges) \in Nat
  BY <1>0, <1>1 DEF TypeOK, Gathered
<1>3. /\ \A k \in D : p[k] \in D
      /\ \A k \in D : \E j \in D : p[j] = k
  BY <1>1 DEF Bijection, Injection, Surjection
<1>4. TypeOK'
  <2>1. ranges' \in [1..Len(ranges) -> Ranges]
    BY <1>1, <1>2, <1>3
  <2>2. ranges' \in Seq(Ranges)
    BY <1>2, <2>1
  <2> QED
    BY <1>0, <2>2 DEF TypeOK
<1>5. Inside' /\ Named' /\ Gathered'
  BY <1>0 DEF Inside, Named, Gathered
<1>6. Ordered'
  BY <1>1, <1>2, <1>3 DEF Ordered
<1>7. Arranged'
  <2> DEFINE q == [k \in D |-> CHOOSE j \in D : p[j] = k]
  <2>1. \A k \in D : q[k] \in D /\ p[q[k]] = k
    BY <1>3
  <2>2. q \in Injection(D, D)
    <3>1. q \in [D -> D]
      BY <2>1
    <3>2. IsInjective(q)
      BY <2>1 DEF IsInjective
    <3> QED
      BY <3>1, <3>2 DEF Injection
  <2>3. \A k \in D : ranges'[q[k]] = RangeOf(tensors[k])
    BY <1>0, <1>1, <1>2, <2>1 DEF Gathered
  <2> HIDE DEF q
  <2> QED
    BY <1>0, <1>2, <2>2, <2>3 DEF Arranged
<1>8. Separate'
  BY <1>0, <1>2 DEF Separate
<1> QED
  BY <1>0, <1>4, <1>5, <1>6, <1>7, <1>8

(* Comparing each range with its neighbour compares it with all before it; *)
(* when none is left the tensors are disjoint (loader.go:221-226).         *)
LEMMA OverlapStep ==
  ASSUME LoopInvariant, overlap
  PROVE  LoopInvariant'
<1> USE DEF LoopInvariant
<1>0. pc = "overlap" /\ result # "ok" /\ UNCHANGED <<data, tensors, ranges>>
  BY DEF overlap
<1>1. Inside' /\ Named' /\ Ordered'
  BY <1>0 DEF Inside, Named, Ordered
<1>2. /\ ranges \in Seq(Ranges) /\ tensors \in Seq(Tensors) /\ i \in Nat /\ i > 1
      /\ DOMAIN ranges = 1..Len(ranges) /\ Len(ranges) \in Nat
      /\ \A k \in DOMAIN ranges : ranges[k].start \in Int /\ ranges[k].end \in Int
  <2>1. /\ ranges \in Seq(Ranges) /\ tensors \in Seq(Tensors) /\ i \in Nat /\ i > 1
        /\ DOMAIN ranges = 1..Len(ranges) /\ Len(ranges) \in Nat
    BY <1>0 DEF TypeOK
  <2>2. \A x \in Ranges : x.start \in Int /\ x.end \in Int
    BY LoaderAssumption DEF Ranges
  <2> QED
    BY <2>1, <2>2
<1>3. CASE i > Len(ranges)
  <2>1. pc' = "done" /\ result' = "ok" /\ UNCHANGED i
    BY <1>2, <1>3 DEF overlap, returns
  <2>2. TypeOK'
    BY <1>0, <2>1 DEF TypeOK
  <2>3. PICK p \in Injection(DOMAIN tensors, DOMAIN ranges) :
          \A k \in DOMAIN tensors : ranges[p[k]] = RangeOf(tensors[k])
    BY <1>0 DEF Arranged
  <2>4. /\ \A k \in DOMAIN tensors : p[k] \in 1..Len(ranges)
        /\ \A j, k \in DOMAIN tensors : j # k => p[j] # p[k]
    BY <1>2, <2>3 DEF Injection, IsInjective
  <2>5. \A x, y \in DOMAIN ranges : x < y => ranges[x].end <= ranges[y].start
    BY <1>0, <1>2, <1>3 DEF Separate
  <2>6. Disjoint
    <3> SUFFICES ASSUME NEW j \in DOMAIN tensors, NEW k \in DOMAIN tensors, j # k
                 PROVE  \/ tensors[j].offset + tensors[j].size <= tensors[k].offset
                        \/ tensors[k].offset + tensors[k].size <= tensors[j].offset
      BY DEF Disjoint
    <3>1. p[j] < p[k] \/ p[k] < p[j]
      BY <1>2, <2>4
    <3>2. /\ ranges[p[j]].start = tensors[j].offset
          /\ ranges[p[j]].end = tensors[j].offset + tensors[j].size
          /\ ranges[p[k]].start = tensors[k].offset
          /\ ranges[p[k]].end = tensors[k].offset + tensors[k].size
      <4>1. ranges[p[j]] = RangeOf(tensors[j]) /\ ranges[p[k]] = RangeOf(tensors[k])
        BY <2>3
      <4>2. \A t : /\ RangeOf(t).start = t.offset
                   /\ RangeOf(t).end = t.offset + t.size
        BY DEF RangeOf
      <4> QED
        BY <4>1, <4>2
    <3>3. p[j] \in DOMAIN ranges /\ p[k] \in DOMAIN ranges
      BY <1>2, <2>4
    <3> QED
      BY <2>5, <3>1, <3>2, <3>3
  <2>7. Disjoint' /\ Gathered' /\ Arranged' /\ Separate'
    BY <1>0, <2>1, <2>6 DEF Disjoint, Gathered, Arranged, Separate
  <2> QED
    BY <1>1, <2>1, <2>2, <2>7
<1>4. CASE i <= Len(ranges) /\ ranges[i].start < ranges[i - 1].end
  <2>1. pc' = "done" /\ result' = "ErrOverlappingTensor" /\ UNCHANGED i
    <3>1. i - 1 \in DOMAIN ranges /\ i \in DOMAIN ranges
      BY <1>2, <1>4
    <3>2. ~(ranges[i].start >= ranges[i - 1].end) /\ ~(i > Len(ranges))
      BY <1>2, <1>4, <3>1
    <3> QED
      BY <3>2 DEF overlap, returns
  <2>2. TypeOK'
    BY <1>0, <2>1 DEF TypeOK
  <2>3. Gathered' /\ Arranged' /\ Separate'
    BY <2>1 DEF Gathered, Arranged, Separate
  <2> QED
    BY <1>1, <2>1, <2>2, <2>3
<1>5. CASE i <= Len(ranges) /\ ~(ranges[i].start < ranges[i - 1].end)
  <2>1. i' = i + 1 /\ UNCHANGED <<pc, result>> /\ ranges[i].start >= ranges[i - 1].end
    <3>1. ~(i > Len(ranges))
      BY <1>2, <1>5
    <3> QED
      BY <1>5, <3>1 DEF overlap
  <2>2. TypeOK'
    BY <1>0, <1>2, <2>1 DEF TypeOK
  <2>3. Gathered' /\ Arranged'
    BY <1>0, <2>1 DEF Gathered, Arranged, SortedByStart
  <2>4. Separate'
    <3> SUFFICES ASSUME NEW j \in DOMAIN ranges, NEW k \in DOMAIN ranges, j < k, k < i + 1
                 PROVE  ranges[j].end <= ranges[k].start
      BY <1>0, <2>1 DEF Separate
    <3>1. j \in Nat /\ k \in Nat
      BY <1>2
    <3>2. CASE k < i
      BY <1>0, <3>2 DEF Separate
    <3>3. CASE k = i /\ j = i - 1
      BY <2>1, <3>3, <1>2
    <3>4. CASE k = i /\ j < i - 1
      <4>1. i - 1 \in DOMAIN ranges /\ i - 1 < i
        BY <1>2, <1>5
      <4>2. ranges[j].end <= ranges[i - 1].start
        BY <1>0, <3>4, <4>1 DEF Separate
      <4>3. ranges[i - 1].start <= ranges[i - 1].end
        BY <4>1 DEF Ordered
      <4> QED
        BY <1>2, <2>1, <3>4, <4>1, <4>2, <4>3
    <3> QED
      BY <1>2, <3>1, <3>2, <3>3, <3>4
  <2> QED
    BY <1>0, <1>1, <2>1, <2>2, <2>3, <2>4
<1> QED
  BY <1>2, <1>3, <1>4, <1>5

-----------------------------------------------------------------------------
(* The theorems.                                                           *)

(***************************************************************************)
(* The loops keep every accepted tensor inside the file under its own      *)
(* name, gather one range per tensor and separate the ranges below i       *)
(* (loader.go:160-227), whatever the file and the word size.               *)
(***************************************************************************)
THEOREM LoopsInvariant == Spec => []LoopInvariant
<1>1. Init => LoopInvariant
  BY InitLoop
<1>2. LoopInvariant /\ [Next]_vars => LoopInvariant'
  <2>1. LoopInvariant /\ UNCHANGED vars => LoopInvariant'
    BY DEF LoopInvariant, vars, TypeOK, Inside, Named, Gathered, Arranged, Ordered,
           Separate, Disjoint, SortedByStart
  <2> QED
    BY <2>1, HeaderStep, NormalizeStep, SortStep, OverlapStep DEF Next
<1> QED
  BY <1>1, <1>2, PTL DEF Spec

(***************************************************************************)
(* Parse is type-correct; in particular the second loop never looks before *)
(* the first range (loader.go:221-222).                                    *)
(***************************************************************************)
THEOREM LoaderTyped == Spec => []TypeOK
<1>1. LoopInvariant => TypeOK
  BY DEF LoopInvariant
<1> QED
  BY <1>1, LoopsInvariant, PTL

(***************************************************************************)
(* The data of every accepted tensor lies in the data section of the file, *)
(* although base, offset and size are 64-bit words read from it            *)
(* (loader.go:193-197).                                                    *)
(***************************************************************************)
THEOREM TensorsInFile == Spec => []AcceptedInFile
<1>1. LoopInvariant => AcceptedInFile
  BY DEF LoopInvariant, Inside, AcceptedInFile
<1> QED
  BY <1>1, LoopsInvariant, PTL

(***************************************************************************)
(* Comparing neighbours after an unstable sort is enough: no two accepted  *)
(* tensors share a byte or a name (loader.go:180-183, 211-225).            *)
(***************************************************************************)
THEOREM TensorsDisjoint == Spec => []AcceptedDisjoint
<1>1. LoopInvariant => AcceptedDisjoint
  BY DEF LoopInvariant, Named, Disjoint, AcceptedDisjoint
<1> QED
  BY <1>1, LoopsInvariant, PTL

-----------------------------------------------------------------------------
(* Nothing well-formed is rejected.                                        *)

(* In the first loop the tensors and the ranges are those of the           *)
(* descriptors below i; that these are disjoint is kept through the sort,  *)
(* when it is no longer known which range is whose.                        *)
Copied ==
  /\ i = Len(tensors) + 1 /\ i <= Len(data.items) + 1
  /\ \A k \in DOMAIN tensors :
       /\ tensors[k].name = data.items[k].name
       /\ ranges[k].start = data.base + data.items[k].offset
       /\ ranges[k].end = data.base + data.items[k].offset + data.items[k].size

Apart(r) ==
  /\ \A k \in DOMAIN r : r[k].start < r[k].end
  /\ \A j, k \in DOMAIN r : j # k => r[j].end <= r[k].start \/ r[k].end <= r[j].start

Accepting ==
  WellFormed(data) =>
    /\ result = IF pc = "done" THEN "ok" ELSE "none"
    /\ pc \in {"header", "base", "tensors"} => Copied
    /\ pc = "overlap" => Apart(ranges)

(* A well-formed file has no fault in its head (loader.go:91-127, 160-174).*)
LEMMA AcceptingHeader ==
  ASSUME LoopInvariant, Accepting, validateHeader \/ dataSection
  PROVE  Accepting'
<1> SUFFICES ASSUME WellFormed(data)' PROVE Accepting'
  BY DEF Accepting
<1>1. UNCHANGED <<data, i, tensors, ranges>>
  BY DEF validateHeader, dataSection
<1>2. WellFormed(data)
  BY <1>1 DEF WellFormed, alignment
<1>3. data.header = "ok" /\ data.decodes /\ data.base <= data.size
  BY <1>2 DEF WellFormed
<1>4. headerError = "nil"
  BY <1>3 DEF headerError
<1>5. ~(data.base > data.size)
  BY <1>3, FileTyped DEF LoopInvariant
<1>6. pc \in {"header", "base"} /\ pc' \in {"base", "tensors"} /\ UNCHANGED result
  BY <1>3, <1>4, <1>5 DEF validateHeader, dataSection
<1> QED
  BY <1>1, <1>2, <1>6 DEF Accepting, Copied

(* A well-formed descriptor has no fault: its name is new, its offset      *)
(* aligned, and its end, which does not wrap, in the file                  *)
(* (loader.go:176-209).                                                    *)
LEMMA AcceptingNormalize ==
  ASSUME LoopInvariant, Accepting, normalize
  PROVE  Accepting'
<1> SUFFICES ASSUME WellFormed(data)' PROVE Accepting'
  BY DEF Accepting
<1> USE DEF LoopInvariant
<1> DEFINE t == data.items[i]
           b == data.base
           start == (b + t.offset) % WordSize
           end == checkedAdd3(b, t.offset, t.size).sum
           new == [name |-> t.name, offset |-> start, size |-> t.size]
           range == [start |-> start, end |-> end]
<1>1. pc = "tensors" /\ UNCHANGED data /\ i <= Len(data.items)
  BY DEF normalize
<1>2. WellFormed(data)
  BY <1>1 DEF WellFormed, alignment
<1>3. Copied /\ result = "none"
  BY <1>1, <1>2 DEF Accepting
<1>4. /\ i \in DOMAIN data.items /\ t \in Descriptors /\ i \in Nat \ {0}
      /\ Len(data.items) \in Nat /\ DOMAIN data.items = 1..Len(data.items)
  BY <1>1, FileTyped DEF TypeOK
<1>5. /\ t.size > 0 /\ t.offset % alignment = 0
      /\ b + t.offset + t.size <= data.size
  BY <1>2, <1>4 DEF WellFormed
<1>6. /\ tensors \in Seq(Tensors) /\ ranges \in Seq(Ranges) /\ Len(ranges) = Len(tensors)
      /\ i = Len(tensors) + 1 /\ DOMAIN tensors = 1..Len(tensors)
  BY <1>1, <1>3 DEF TypeOK, Gathered, Copied
<1>7. t.name \notin seen
  <2> SUFFICES ASSUME NEW k \in DOMAIN tensors PROVE tensors[k].name # t.name
    BY DEF seen
  <2>1. k # i /\ k \in DOMAIN data.items
    BY <1>1, <1>4, <1>6
  <2>2. data.items[k].name # t.name
    BY <1>2, <1>4, <2>1 DEF WellFormed
  <2> QED
    BY <1>3, <2>2 DEF Copied
<1>8. /\ t.offset \in 0..WordSize-1 /\ t.size \in 0..WordSize-1 /\ b \in 0..WordSize-1
      /\ data.size \in 0..WordSize-1 /\ WordSize \in Nat \ {0} /\ t.name \in STRING
  <2>1. b \in 0..WordSize-1 /\ data.size \in 0..WordSize-1 /\ WordSize \in Nat \ {0}
    BY FileTyped
  <2>2. t.offset \in 0..WordSize-1 /\ t.size \in 0..WordSize-1 /\ t.name \in STRING
    <3> HIDE DEF t
    <3> QED
      BY <1>4 DEF Descriptors
  <2> QED
    BY <2>1, <2>2
<1> HIDE DEF t, b
<1>9. /\ b + t.offset + t.size < WordSize
      /\ b + t.offset \in 0..WordSize-1
  BY <1>5, <1>8
<1>10. /\ checkedAdd3(b, t.offset, t.size).ok /\ end = b + t.offset + t.size
  <2>1. /\ checkedAdd3(b, t.offset, t.size).ok <=> b + t.offset + t.size < WordSize
        /\ checkedAdd3(b, t.offset, t.size).ok => end = b + t.offset + t.size
    BY <1>8, CheckedSum
  <2> QED
    BY <1>9, <2>1
<1>11. start = b + t.offset
  BY <1>8, <1>9, SmallMod
<1>12. ~outside(t)
  <2>1. ~(end > data.size)
    BY <1>5, <1>8, <1>10
  <2> QED
    BY <1>10, <2>1 DEF outside, b
<1>13. fault(t) = "nil"
  <2>1. ~(t.size = 0)
    BY <1>5
  <2> QED
    BY <1>5, <1>7, <1>12, <2>1 DEF fault
<1>14. /\ tensors' = Append(tensors, new) /\ ranges' = Append(ranges, range)
       /\ i' = i + 1 /\ UNCHANGED <<pc, result>>
  BY <1>13 DEF normalize, t, b
<1>15. /\ Len(tensors') = i /\ DOMAIN tensors' = 1..i
       /\ \A k \in 1..i-1 : tensors'[k] = tensors[k] /\ ranges'[k] = ranges[k]
       /\ tensors'[i] = new /\ ranges'[i] = range
  <2>1. new \in Tensors /\ range \in Ranges
    <3>1. start \in 0..WordSize-1 /\ end \in 0..WordSize-1
      BY <1>5, <1>8, <1>9, <1>10, <1>11
    <3> HIDE DEF start, end
    <3> QED
      BY <1>8, <3>1 DEF Tensors, Ranges
  <2> HIDE DEF new, range
  <2> QED
    BY <1>4, <1>6, <1>14, <2>1
<1>16. new.name = t.name /\ range.start = b + t.offset /\ range.end = b + t.offset + t.size
  BY <1>10, <1>11
<1> HIDE DEF new, range
<1>17. Copied'
  <2>1. i' = Len(tensors') + 1 /\ i' <= Len(data'.items) + 1
    BY <1>1, <1>4, <1>14, <1>15
  <2>2. ASSUME NEW k \in DOMAIN tensors'
        PROVE  /\ tensors'[k].name = data'.items[k].name
               /\ ranges'[k].start = data'.base + data'.items[k].offset
               /\ ranges'[k].end = data'.base + data'.items[k].offset + data'.items[k].size
    <3>1. CASE k = i
      BY <1>1, <1>15, <1>16, <3>1 DEF t, b
    <3>2. CASE k # i
      <4>1. k \in 1..i-1 /\ k \in DOMAIN tensors
        BY <1>4, <1>6, <1>15, <2>2, <3>2
      <4> QED
        BY <1>1, <1>3, <1>15, <4>1 DEF Copied
    <3> QED
      BY <3>1, <3>2
  <2> QED
    BY <2>1, <2>2 DEF Copied
<1> QED
  BY <1>1, <1>3, <1>14, <1>17 DEF Accepting

(* The sort only changes the places of disjoint ranges (loader.go:211-220).*)
LEMMA AcceptingSort ==
  ASSUME LoopInvariant, Accepting, sort
  PROVE  Accepting'
<1> SUFFICES ASSUME WellFormed(data)' PROVE Accepting'
  BY DEF Accepting
<1> USE DEF LoopInvariant
<1> DEFINE D == DOMAIN ranges
<1>1. /\ pc = "tensors" /\ i = Len(data.items) + 1 /\ pc' = "overlap"
      /\ UNCHANGED <<data, tensors, result>>
  BY DEF sort
<1>2. PICK p \in Bijection(D, D) : ranges' = [k \in D |-> ranges[p[k]]]
  BY DEF sort
<1>3. WellFormed(data)
  BY <1>1 DEF WellFormed, alignment
<1>4. Copied /\ result = "none"
  BY <1>1, <1>3 DEF Accepting
<1>5. /\ D = DOMAIN data.items /\ DOMAIN tensors = D
      /\ data.items \in Seq(Descriptors)
  BY <1>1, <1>4, FileTyped DEF TypeOK, Gathered, Copied
<1>6. /\ data.base \in Nat
      /\ \A k \in D : data.items[k].offset \in Nat /\ data.items[k].size \in Nat
  <2>1. WordSize \in Nat /\ data.base \in 0..WordSize-1
    BY FileTyped
  <2>2. \A t \in Descriptors : t.offset \in 0..WordSize-1 /\ t.size \in 0..WordSize-1
    BY DEF Descriptors
  <2>3. \A k \in D : data.items[k] \in Descriptors
    BY <1>5
  <2> QED
    BY <2>1, <2>2, <2>3
<1>7. Apart(ranges)
  <2>1. \A k \in D : /\ ranges[k].start = data.base + data.items[k].offset
                     /\ ranges[k].end = data.base + data.items[k].offset + data.items[k].size
    BY <1>4, <1>5 DEF Copied
  <2>2. \A k \in D : data.items[k].size > 0
    BY <1>3, <1>5 DEF WellFormed
  <2>3. \A j, k \in D : j # k =>
           \/ data.items[j].offset + data.items[j].size <= data.items[k].offset
           \/ data.items[k].offset + data.items[k].size <= data.items[j].offset
    BY <1>3, <1>5 DEF WellFormed
  <2>4. \A k \in D : ranges[k].start < ranges[k].end
    BY <1>6, <2>1, <2>2
  <2>5. ASSUME NEW j \in D, NEW k \in D, j # k
        PROVE  ranges[j].end <= ranges[k].start \/ ranges[k].end <= ranges[j].start
    BY <1>6, <2>1, <2>3, <2>5
  <2> QED
    BY <2>4, <2>5 DEF Apart
<1>8. /\ \A k \in D : p[k] \in D
      /\ \A j, k \in D : j # k => p[j] # p[k]
  BY <1>2 DEF Bijection, Injection, IsInjective
<1>9. Apart(ranges')
  BY <1>2, <1>7, <1>8 DEF Apart
<1>10. Apart(ranges)'
  BY <1>9 DEF Apart
<1> QED
  BY <1>1, <1>4, <1>10 DEF Accepting

(* Of disjoint neighbours in order none starts before the other's end      *)
(* (loader.go:221-226).                                                    *)
LEMMA AcceptingOverlap ==
  ASSUME LoopInvariant, Accepting, overlap
  PROVE  Accepting'
<1> SUFFICES ASSUME WellFormed(data)' PROVE Accepting'
  BY DEF Accepting
<1> USE DEF LoopInvariant
<1>1. pc = "overlap" /\ UNCHANGED <<data, tensors, ranges>>
  BY DEF overlap
<1>2. WellFormed(data)
  BY <1>1 DEF WellFormed, alignment
<1>3. Apart(ranges) /\ SortedByStart(ranges) /\ result = "none"
  BY <1>1, <1>2 DEF Accepting, Arranged
<1>4. Apart(ranges)'
  BY <1>1, <1>3 DEF Apart
<1>5. CASE i > Len(ranges) /\ returns("ok")
  BY <1>5 DEF Accepting, returns
<1>6. CASE i <= Len(ranges) /\ ranges[i].start < ranges[i - 1].end
  <2>1. i - 1 \in DOMAIN ranges /\ i \in DOMAIN ranges /\ i - 1 < i /\ i - 1 # i
    BY <1>1, <1>6 DEF TypeOK
  <2>2. \A k \in DOMAIN ranges : ranges[k].start \in Int /\ ranges[k].end \in Int
    <3>1. \A x \in Ranges : x.start \in Int /\ x.end \in Int
      BY LoaderAssumption DEF Ranges
    <3>2. \A k \in DOMAIN ranges : ranges[k] \in Ranges
      BY DEF TypeOK
    <3> QED
      BY <3>1, <3>2
  <2>3. /\ ranges[i - 1].start <= ranges[i].start
        /\ ranges[i].start < ranges[i].end
        /\ \/ ranges[i - 1].end <= ranges[i].start
           \/ ranges[i].end <= ranges[i - 1].start
    <3>1. \A j, k \in DOMAIN ranges : j < k => ranges[j].start <= ranges[k].start
      BY <1>3 DEF SortedByStart
    <3>2. /\ \A k \in DOMAIN ranges : ranges[k].start < ranges[k].end
          /\ \A j, k \in DOMAIN ranges : j # k =>
               ranges[j].end <= ranges[k].start \/ ranges[k].end <= ranges[j].start
      BY <1>3 DEF Apart
    <3> QED
      BY <2>1, <3>1, <3>2
  <2> QED
    BY <1>6, <2>1, <2>2, <2>3
<1>7. CASE i' = i + 1 /\ UNCHANGED <<pc, result>>
  BY <1>1, <1>3, <1>4, <1>7 DEF Accepting
<1> QED
  BY <1>5, <1>6, <1>7 DEF overlap

(***************************************************************************)
(* Parse rejects nothing well-formed, whatever the word size, the order of *)
(* the tensors and what the unstable sort makes of it (loader.go:160-227). *)
(***************************************************************************)
THEOREM WellFormedAccepted == Spec => []AcceptsWellFormed
<1>1. Init => Accepting
  <2> SUFFICES ASSUME Init PROVE Accepting
    OBVIOUS
  <2>1. i = 1 /\ tensors = <<>> /\ pc = "header" /\ result = "none"
    BY DEF Init
  <2>2. Len(data.items) \in Nat
    BY LoaderAssumption DEF Init
  <2> QED
    BY <2>1, <2>2 DEF Accepting, Copied
<1>2. LoopInvariant /\ Accepting /\ [Next]_vars => Accepting'
  <2>1. Accepting /\ UNCHANGED vars => Accepting'
    BY DEF Accepting, Copied, Apart, vars, WellFormed, alignment
  <2> QED
    BY <2>1, AcceptingHeader, AcceptingNormalize, AcceptingSort, AcceptingOverlap DEF Next
<1>3. Accepting => AcceptsWellFormed
  BY DEF Accepting, AcceptsWellFormed
<1> QED
  BY <1>1, <1>2, <1>3, LoopsInvariant, PTL DEF Spec
=============================================================================
