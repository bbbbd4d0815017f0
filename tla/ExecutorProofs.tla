--------------------------- MODULE ExecutorProofs ---------------------------
(***************************************************************************)
(* Proofs about Executor, for any number of workers, rows and products and *)
(* any distance between two looks at the context.                          *)
(***************************************************************************)
EXTENDS Executor, TLAPS

-----------------------------------------------------------------------------
(* Arithmetic.                                                             *)

(* What division and remainder are.                                        *)
LEMMA DivMod ==
  ASSUME NEW a \in Nat, NEW b \in Nat \ {0}
  PROVE  /\ a \div b \in Nat
         /\ a % b \in 0..b-1
         /\ a = (a \div b) * b + (a % b)
<1>1. a \div b \in Nat
  BY SMT
<1>2. a % b \in 0..b-1
  BY SMT
<1>3. a \in Int /\ b \in Int /\ b > 0
  OBVIOUS
<1>4. a = (a \div b) * b + (a % b)
  BY <1>3, SMT
<1> QED
  BY <1>1, <1>2, <1>4

(* A quotient of a number by no more than itself is not zero.              *)
LEMMA DivPositive ==
  ASSUME NEW a \in Nat, NEW b \in Nat \ {0}, b <= a
  PROVE  a \div b >= 1
BY SMT

(* No time.                                                                *)
LEMMA NoTimes ==
  ASSUME NEW b \in Nat
  PROVE  0 * b = 0
BY SMT

(* One more time.                                                          *)
LEMMA Distribute ==
  ASSUME NEW a \in Nat, NEW b \in Nat
  PROVE  (a + 1) * b = a * b + b
BY SMT

(* A product grows with its first factor.                                  *)
LEMMA Monotone ==
  ASSUME NEW a \in Nat, NEW b \in Nat, NEW c \in Nat, a <= b
  PROVE  a * c <= b * c /\ a * c \in Nat
BY SMT

(* One more, in the remainders.                                            *)
LEMMA ModNext ==
  ASSUME NEW k \in Nat, NEW c \in Nat \ {0}
  PROVE  (k + 1) % c = 0 \/ (k + 1) % c = (k % c) + 1
<1> DEFINE q1 == k \div c   r1 == k % c   q2 == (k + 1) \div c   r2 == (k + 1) % c
<1>1. k + 1 \in Nat
  OBVIOUS
<1>2. r1 \in 0..c-1 /\ k = q1 * c + r1 /\ q1 \in Nat
  BY DivMod
<1>3. r2 \in 0..c-1 /\ k + 1 = q2 * c + r2 /\ q2 \in Nat
  BY <1>1, DivMod
<1> HIDE DEF q1, r1, q2, r2
<1>4. CASE q2 = q1
  <2>1. r2 = r1 + 1
    BY <1>2, <1>3, <1>4
  <2> QED
    BY <2>1 DEF r1, r2
<1>5. CASE q1 < q2
  <2>1. (q1 + 1) * c <= q2 * c /\ (q1 + 1) * c = q1 * c + c /\ q1 * c \in Nat /\ q2 * c \in Nat
    BY <1>2, <1>3, <1>5, Monotone, Distribute
  <2>2. r2 = 0
    <3> DEFINE x == q1 * c  y == q2 * c
    <3> HIDE DEF x, y
    <3>1. x \in Nat /\ y \in Nat /\ x + c <= y /\ k = x + r1 /\ k + 1 = y + r2
      BY <1>2, <1>3, <2>1 DEF x, y
    <3> QED
      BY <1>2, <1>3, <3>1
  <2> QED
    BY <2>2 DEF r2
<1>6. CASE q2 < q1
  <2>1. (q2 + 1) * c <= q1 * c /\ (q2 + 1) * c = q2 * c + c /\ q1 * c \in Nat /\ q2 * c \in Nat
    BY <1>2, <1>3, <1>6, Monotone, Distribute
  <2> DEFINE x == q1 * c  y == q2 * c
  <2> HIDE DEF x, y
  <2>2. x \in Nat /\ y \in Nat /\ y + c <= x /\ k = x + r1 /\ k + 1 = y + r2
    BY <1>2, <1>3, <2>1 DEF x, y
  <2> QED
    BY <1>2, <1>3, <2>2
<1> QED
  BY <1>2, <1>3, <1>4, <1>5, <1>6

-----------------------------------------------------------------------------
(* The inductive invariant.                                                *)

(* Between the head of run and its return the partition is that of the     *)
(* current product.                                                        *)
Shared == pc \in {"spawn", "wait"}

base  == n \div parts
extra == n % parts

(* Where the next part starts: p parts of base rows, and one more row for  *)
(* each of the first extra parts.                                          *)
StartIs ==
  /\ pc # "idle" => n >= 1
  /\ Shared => /\ parts \in 1..Workers /\ parts <= n /\ p <= parts
               /\ start = p * base + (IF p < extra THEN p ELSE extra)
  /\ pc = "wait" => p = parts

(* The parts below p have been spawned, and no other; they lie below start.*)
Spawned ==
  /\ Shared => \A q \in Parts :
       IF q < p THEN /\ wpc[q] # "none"
                     /\ first[q] <= row[q] /\ row[q] <= last[q] /\ last[q] <= start
                ELSE wpc[q] = "none"
  /\ ~Shared => \A q \in Parts : wpc[q] \in {"none", "done"}
  /\ \A q \in Parts : Running(q) => row[q] < last[q]

(* They follow one another without an overlap and without a gap.           *)
Consecutive ==
  Shared => \A q, r \in Parts : q < r /\ r < p => last[q] <= first[r]

Covered ==
  Shared => \A i \in 0..start-1 : \E q \in Parts : q < p /\ first[q] <= i /\ i < last[q]

Partition == StartIs /\ Spawned /\ Consecutive /\ Covered

(* The elements of this product are the rows its parts have passed.        *)
Computed ==
  Shared => \A i \in Rows :
    dst[i] = call <=> \E q \in Parts : q < p /\ first[q] <= i /\ i < row[q]

(* No element is of a later product, nor of one that has not started.      *)
Fresh ==
  /\ \A i \in Rows : dst[i] <= call
  /\ pc = "run" => \A i \in Rows : dst[i] # call

(* A part that stopped without an error has passed all its rows.           *)
Finished ==
  Shared => \A q \in Parts :
    q < p /\ wpc[q] = "done" /\ errs[q] = "nil" => row[q] = last[q]

(* Since the context is done a part has computed no more rows than since   *)
(* its last look at it.                                                    *)
Lateness ==
  \A q \in Parts :
    /\ late[q] <= CheckEvery
    /\ ~cancelled => late[q] = 0
    /\ wpc[q] = "row" => late[q] <= (row[q] - first[q]) % CheckEvery

ExecutorInvariant ==
  /\ TypeOK /\ Partition
  /\ Computed /\ Fresh /\ Finished /\ NilMeansComplete
  /\ Lateness

-----------------------------------------------------------------------------
(* The partition.                                                          *)

(* There is a worker (executor.go:16-22).                                  *)
LEMMA WorkersNat == Workers \in Nat \ {0}
BY ExecutorAssumption DEF Workers

(* The shape of a partition (executor.go:35-45).                           *)
LEMMA Shape ==
  ASSUME TypeOK, StartIs, Shared
  PROVE  /\ n \in Nat /\ parts \in Nat \ {0} /\ p \in Nat /\ start \in Nat
         /\ base \in Nat /\ base >= 1
         /\ extra \in Nat /\ extra < parts
         /\ n = parts * base + extra
         /\ parts * base \in Nat /\ p * base \in Nat
<1>1. n \in Nat /\ parts \in Nat \ {0} /\ p \in Nat /\ start \in Nat /\ parts <= n
  BY WorkersNat, ExecutorAssumption DEF TypeOK, StartIs
<1>2. base \in Nat /\ extra \in 0..parts-1 /\ n = base * parts + extra
  BY <1>1, DivMod DEF base, extra
<1>3. base >= 1
  BY <1>1, DivPositive DEF base
<1> HIDE DEF base, extra
<1>4. parts * base = base * parts /\ parts * base \in Nat /\ p * base \in Nat
  BY <1>1, <1>2, SMT
<1> QED
  BY <1>1, <1>2, <1>3, <1>4

(* The next part has a row at least, ends inside the matrix, and the part  *)
(* after it starts there (executor.go:47-53).                              *)
LEMMA NextStart ==
  ASSUME TypeOK, StartIs, pc = "spawn", p < parts
  PROVE  /\ size(p) \in Nat /\ size(p) >= 1
         /\ start + size(p) = (p + 1) * base + (IF p + 1 < extra THEN p + 1 ELSE extra)
         /\ start + size(p) <= n
<1>1. /\ n \in Nat /\ parts \in Nat \ {0} /\ p \in Nat /\ start \in Nat
      /\ base \in Nat /\ base >= 1
      /\ extra \in Nat /\ extra < parts
      /\ n = parts * base + extra
      /\ parts * base \in Nat /\ p * base \in Nat
  BY Shape DEF Shared
<1>2. start = p * base + (IF p < extra THEN p ELSE extra)
  BY DEF StartIs, Shared
<1>3. size(p) = base + (IF p < extra THEN 1 ELSE 0)
  BY DEF size, base, extra
<1>4. (p + 1) * base = p * base + base /\ (p + 1) * base <= parts * base
  BY <1>1, Distribute, Monotone
<1> DEFINE x == p * base   y == (p + 1) * base   z == parts * base
<1>5. /\ x \in Nat /\ z \in Nat /\ y = x + base /\ y <= z
      /\ n = z + extra
      /\ start = x + (IF p < extra THEN p ELSE extra)
  BY <1>1, <1>2, <1>4
<1> HIDE DEF base, extra, x, y, z
<1>6. /\ size(p) \in Nat /\ size(p) >= 1
      /\ start + size(p) = y + (IF p + 1 < extra THEN p + 1 ELSE extra)
      /\ start + size(p) <= n
  BY <1>1, <1>3, <1>5
<1> QED
  BY <1>6 DEF y

(* When all parts are spawned they cover the matrix (executor.go:47-62).   *)
LEMMA LastStart ==
  ASSUME TypeOK, StartIs, pc = "wait"
  PROVE  start = n
<1>1. /\ parts \in Nat /\ extra \in Nat /\ extra < parts
      /\ n = parts * base + extra /\ parts * base \in Nat
  BY Shape DEF Shared
<1>2. start = parts * base + (IF parts < extra THEN parts ELSE extra)
  BY DEF StartIs, Shared
<1> DEFINE z == parts * base
<1>3. z \in Nat /\ n = z + extra /\ start = z + (IF parts < extra THEN parts ELSE extra)
  BY <1>1, <1>2
<1> HIDE DEF z, extra
<1> QED
  BY <1>1, <1>3

-----------------------------------------------------------------------------
(* The steps preserve the types and the partition.                         *)

(* A running goroutine is a spawned part inside the matrix.                *)
LEMMA RunningPart ==
  ASSUME TypeOK, Partition, NEW q \in Parts, Running(q)
  PROVE  /\ Shared /\ q < p /\ q \in Nat
         /\ first[q] \in Nat /\ row[q] \in Nat /\ last[q] \in Nat
         /\ first[q] <= row[q] /\ row[q] < last[q] /\ last[q] <= start
         /\ row[q] \in Rows /\ row[q] + 1 \in 0..MaxRows
         /\ row[q] - first[q] \in Nat
<1>1. Shared /\ wpc[q] # "none" /\ row[q] < last[q]
  BY DEF Running, Partition, Spawned
<1>2. q < p /\ first[q] <= row[q] /\ last[q] <= start
  BY <1>1 DEF Partition, Spawned
<1>3. /\ first[q] \in 0..MaxRows /\ row[q] \in 0..MaxRows /\ last[q] \in 0..MaxRows
      /\ q \in Nat /\ MaxRows \in Nat
  BY WorkersNat, ExecutorAssumption DEF TypeOK, Parts
<1> QED
  BY <1>1, <1>2, <1>3 DEF Rows

(* The types, under every step.                                            *)
LEMMA TypeStep ==
  ASSUME TypeOK, Partition, [Next]_vars
  PROVE  TypeOK'
<1> USE ExecutorAssumption, WorkersNat DEF TypeOK, callVars, partVars
<1>1. CASE MatVec
  BY <1>1 DEF MatVec
<1>2. CASE run
  BY <1>2 DEF run
<1>3. CASE spawn
  <2>1. /\ size(p) \in Nat /\ size(p) >= 1 /\ start + size(p) <= n
        /\ p \in Parts /\ p + 1 \in 0..Workers
    <3>1. parts <= Workers
      BY <1>3 DEF spawn
    <3>2. p \in Parts /\ p + 1 \in 0..Workers
      BY <1>3, <3>1 DEF spawn, Parts
    <3> QED
      BY <1>3, <3>2, NextStart DEF spawn, Partition
  <2>2. start \in 0..MaxRows /\ start + size(p) \in 0..MaxRows
    BY <2>1
  <2>3. /\ first' = [first EXCEPT ![p] = start]
        /\ last' = [last EXCEPT ![p] = start + size(p)]
        /\ row' = [row EXCEPT ![p] = start]
        /\ wpc' = [wpc EXCEPT ![p] = "check"]
        /\ start' = start + size(p) /\ p' = p + 1
        /\ UNCHANGED <<call, n, parts, pc, errs, late, dst, cancelled, result>>
    BY <1>3, <2>1 DEF spawn
  <2> QED
    BY <2>1, <2>2, <2>3
<1>4. CASE spawned
  BY <1>4 DEF spawned
<1>5. CASE join
  BY <1>5 DEF join
<1>6. ASSUME NEW q \in Parts, check(q)
      PROVE  TypeOK'
  BY <1>6 DEF check
<1>7. ASSUME NEW q \in Parts, computeRow(q)
      PROVE  TypeOK'
  <2>1. row[q] \in Rows /\ row[q] + 1 \in 0..MaxRows
    BY <1>7, RunningPart DEF computeRow, Running
  <2>2. nextPc(q) \in {"done", "row", "check"}
    BY DEF nextPc
  <2>3. dst' \in [Rows -> 0..MaxCalls] /\ row' \in [Parts -> 0..MaxRows]
    BY <1>7, <2>1 DEF computeRow
  <2>4. wpc' \in [Parts -> {"none", "check", "row", "done"}] /\ late' \in [Parts -> Nat]
    BY <1>7, <2>2 DEF computeRow
  <2> QED
    BY <1>7, <2>3, <2>4 DEF computeRow
<1>8. CASE Cancel
  BY <1>8 DEF Cancel
<1>9. CASE UNCHANGED vars
  BY <1>9 DEF vars
<1> QED
  BY <1>1, <1>2, <1>3, <1>4, <1>5, <1>6, <1>7, <1>8, <1>9 DEF Next, Caller, Worker

(* What a turn of the spawning loop does: the size of a part is not 0      *)
(* (executor.go:47-62).                                                    *)
LEMMA SpawnStep ==
  ASSUME TypeOK, StartIs, spawn
  PROVE  /\ pc = "spawn" /\ p < parts /\ p \in Parts /\ p \in Nat
         /\ size(p) \in Nat /\ size(p) >= 1 /\ start \in Nat /\ start + size(p) <= n
         /\ first' = [first EXCEPT ![p] = start]
         /\ last' = [last EXCEPT ![p] = start + size(p)]
         /\ row' = [row EXCEPT ![p] = start]
         /\ wpc' = [wpc EXCEPT ![p] = "check"]
         /\ start' = start + size(p) /\ p' = p + 1
         /\ UNCHANGED <<call, n, parts, pc, errs, late, dst, cancelled, result>>
<1>1. pc = "spawn" /\ p < parts
  BY DEF spawn
<1>2. p \in Nat /\ parts \in Nat /\ parts <= Workers /\ start \in Nat
  BY WorkersNat, ExecutorAssumption DEF TypeOK
<1>3. p \in Parts
  BY <1>1, <1>2, WorkersNat DEF Parts
<1>4. size(p) \in Nat /\ size(p) >= 1 /\ start + size(p) <= n
  BY <1>1, NextStart
<1> QED
  BY <1>1, <1>2, <1>3, <1>4 DEF spawn, callVars

(* What computing a row does (matvec.go:55-65).                            *)
LEMMA RowStep ==
  ASSUME TypeOK, Partition, NEW q \in Parts, computeRow(q)
  PROVE  /\ wpc[q] = "row" /\ Running(q)
         /\ dst' = [dst EXCEPT ![row[q]] = call]
         /\ row' = [row EXCEPT ![q] = row[q] + 1]
         /\ wpc' = [wpc EXCEPT ![q] = nextPc(q)]
         /\ late' = [late EXCEPT ![q] = IF cancelled THEN late[q] + 1 ELSE late[q]]
         /\ nextPc(q) \in {"done", "row", "check"}
         /\ row[q] + 1 = last[q] <=> nextPc(q) = "done"
         /\ UNCHANGED <<call, n, parts, pc, p, start, first, last, errs, cancelled, result>>
<1>1. /\ nextPc(q) \in {"done", "row", "check"}
      /\ row[q] + 1 = last[q] <=> nextPc(q) = "done"
  BY DEF nextPc
<1> QED
  BY <1>1 DEF computeRow, Running, callVars

(* The parts in order, under every step (executor.go:43-62).               *)
LEMMA PartitionStep ==
  ASSUME TypeOK, Partition, [Next]_vars
  PROVE  Partition'
<1>0. /\ p \in Nat /\ start \in Nat /\ n \in Nat /\ parts \in Nat /\ Workers \in Nat \ {0}
      /\ \A q \in Parts : /\ q \in Nat
                          /\ first[q] \in Nat /\ row[q] \in Nat /\ last[q] \in Nat
      /\ DOMAIN wpc = Parts /\ DOMAIN row = Parts /\ DOMAIN first = Parts /\ DOMAIN last = Parts
  BY ExecutorAssumption, WorkersNat DEF TypeOK, Parts
<1>1. CASE MatVec
  <2>1. /\ pc = "idle" /\ pc' \in {"idle", "run"} /\ (pc' = "run" => n' >= 1)
        /\ UNCHANGED <<parts, p, start, first, last, row, wpc>>
    BY <1>1, ExecutorAssumption DEF MatVec, partVars
  <2>2. StartIs'
    BY <2>1 DEF StartIs, Shared
  <2>3. Spawned' /\ Consecutive' /\ Covered'
    BY <2>1 DEF Partition, Spawned, Consecutive, Covered, Shared, Running
  <2> QED
    BY <2>2, <2>3 DEF Partition
<1>2. CASE run
  <2>1. CASE cancelled
    <3>1. pc = "run" /\ pc' = "idle" /\ UNCHANGED <<n, parts, p, start, first, last, row, wpc>>
      BY <1>2, <2>1 DEF run, partVars
    <3> QED
      BY <3>1 DEF Partition, StartIs, Spawned, Consecutive, Covered, Shared, Running
  <2>2. CASE ~cancelled
    <3>1. /\ pc = "run" /\ pc' = "spawn" /\ p' = 0 /\ start' = 0 /\ UNCHANGED n
          /\ parts' = (IF Workers > n THEN n ELSE Workers)
          /\ wpc' = [q \in Parts |-> "none"]
      BY <1>2, <2>2 DEF run, partVars
    <3>2. n >= 1
      BY <3>1 DEF Partition, StartIs
    <3>3. parts' \in 1..Workers /\ parts' <= n /\ parts' \in Nat \ {0}
      BY <1>0, <3>1, <3>2
    <3>4. StartIs'
      <4>1. extra' \in Nat /\ base' \in Nat
        BY <1>0, <3>1, <3>3, DivMod DEF extra, base
      <4> DEFINE b == base'   e == extra'
      <4> HIDE DEF b, e
      <4>2. b \in Nat /\ e \in Nat
        BY <4>1 DEF b, e
      <4>3. 0 = 0 * b + (IF 0 < e THEN 0 ELSE e)
        <5>1. 0 * b = 0
          BY <4>2, NoTimes
        <5> QED
          BY <4>2, <5>1
      <4>4. start' = p' * base' + (IF p' < extra' THEN p' ELSE extra')
        BY <3>1, <4>3 DEF b, e
      <4> QED
        BY <3>1, <3>2, <3>3, <4>4 DEF StartIs, Shared
    <3>5. Spawned'
      BY <1>0, <3>1 DEF Spawned, Shared, Running
    <3>6. Consecutive' /\ Covered'
      BY <1>0, <3>1 DEF Consecutive, Covered
    <3> QED
      BY <3>4, <3>5, <3>6 DEF Partition
  <2> QED
    BY <2>1, <2>2
<1>3. CASE spawn
  <2> USE DEF Partition
  <2>1. /\ pc = "spawn" /\ p < parts /\ p \in Parts /\ p \in Nat
        /\ size(p) \in Nat /\ size(p) >= 1 /\ start \in Nat /\ start + size(p) <= n
        /\ first' = [first EXCEPT ![p] = start]
        /\ last' = [last EXCEPT ![p] = start + size(p)]
        /\ row' = [row EXCEPT ![p] = start]
        /\ wpc' = [wpc EXCEPT ![p] = "check"]
        /\ start' = start + size(p) /\ p' = p + 1
        /\ UNCHANGED <<call, n, parts, pc, errs, late, dst, cancelled, result>>
    BY <1>3, SpawnStep
  <2>2. Shared /\ Shared'
    BY <2>1 DEF Shared
  <2>3. /\ first'[p] = start /\ last'[p] = start + size(p) /\ row'[p] = start
        /\ wpc'[p] = "check"
        /\ \A q \in Parts : q # p =>
             /\ first'[q] = first[q] /\ last'[q] = last[q]
             /\ row'[q] = row[q] /\ wpc'[q] = wpc[q]
    BY <1>0, <2>1
  <2>4. StartIs'
    <3>1. start + size(p) = (p + 1) * base + (IF p + 1 < extra THEN p + 1 ELSE extra)
      BY <2>1, NextStart
    <3>2. base' = base /\ extra' = extra
      BY <2>1 DEF base, extra
    <3>3. p + 1 <= parts
      BY <1>0, <2>1
    <3> QED
      BY <2>1, <2>2, <3>1, <3>2, <3>3 DEF StartIs
  <2>5. Spawned'
    <3> HIDE DEF Partition
    <3>1. \A q \in Parts :
            IF q < p + 1 THEN /\ wpc'[q] # "none"
                              /\ first'[q] <= row'[q] /\ row'[q] <= last'[q]
                              /\ last'[q] <= start + size(p)
                         ELSE wpc'[q] = "none"
      <4> SUFFICES ASSUME NEW q \in Parts
                   PROVE  IF q < p + 1 THEN /\ wpc'[q] # "none"
                                            /\ first'[q] <= row'[q] /\ row'[q] <= last'[q]
                                            /\ last'[q] <= start + size(p)
                                       ELSE wpc'[q] = "none"
        OBVIOUS
      <4>1. CASE q = p
        BY <2>1, <2>3, <4>1
      <4>2. CASE q # p
        <5>1. IF q < p THEN /\ wpc[q] # "none"
                            /\ first[q] <= row[q] /\ row[q] <= last[q] /\ last[q] <= start
                       ELSE wpc[q] = "none"
          BY <2>2 DEF Partition, Spawned
        <5> QED
          BY <1>0, <2>1, <2>3, <4>2, <5>1
      <4> QED
        BY <4>1, <4>2
    <3>2. \A q \in Parts : Running(q)' => row'[q] < last'[q]
      <4> SUFFICES ASSUME NEW q \in Parts, Running(q)'
                   PROVE  row'[q] < last'[q]
        OBVIOUS
      <4>1. CASE q = p
        BY <2>1, <2>3, <4>1
      <4>2. CASE q # p
        BY <2>3, <4>2 DEF Partition, Spawned, Running
      <4> QED
        BY <4>1, <4>2
    <3> QED
      BY <2>1, <2>2, <3>1, <3>2 DEF Spawned
  <2>6. Consecutive'
    <3> SUFFICES ASSUME NEW q \in Parts, NEW r \in Parts, q < r, r < p + 1
                 PROVE  last'[q] <= first'[r]
      BY <2>1, <2>2 DEF Consecutive
    <3>1. q # p /\ q < p
      BY <1>0, <2>1
    <3>2. CASE r = p
      <4>1. last[q] <= start
        BY <2>2, <3>1 DEF Spawned
      <4> QED
        BY <2>3, <3>1, <3>2, <4>1
    <3>3. CASE r # p
      <4>1. r < p
        BY <1>0, <2>1, <3>3
      <4> QED
        BY <2>2, <2>3, <3>1, <3>3, <4>1 DEF Consecutive
    <3> QED
      BY <3>2, <3>3
  <2>7. Covered'
    <3> SUFFICES ASSUME NEW i \in 0..start + size(p) - 1
                 PROVE  \E q \in Parts : q < p + 1 /\ first'[q] <= i /\ i < last'[q]
      BY <2>1, <2>2 DEF Covered
    <3>1. CASE i < start
      <4>1. PICK q \in Parts : q < p /\ first[q] <= i /\ i < last[q]
        BY <2>1, <2>2, <3>1 DEF Covered
      <4>2. q # p /\ q < p + 1
        BY <1>0, <2>1, <4>1
      <4> QED
        BY <2>3, <4>1, <4>2
    <3>2. CASE i >= start
      <4>1. p < p + 1 /\ first'[p] <= i /\ i < last'[p]
        BY <2>1, <2>3, <3>2
      <4> QED
        BY <2>1, <4>1
    <3> QED
      BY <2>1, <3>1, <3>2
  <2> QED
    BY <2>4, <2>5, <2>6, <2>7
<1>4. CASE spawned
  <2>1. /\ pc = "spawn" /\ pc' = "wait" /\ p = parts
        /\ UNCHANGED <<n, parts, p, start, first, last, row, wpc>>
    BY <1>4 DEF spawned, callVars, partVars
  <2> QED
    BY <2>1 DEF Partition, StartIs, Spawned, Consecutive, Covered, Shared, Running, base, extra
<1>5. CASE join
  <2>1. /\ pc = "wait" /\ pc' = "idle" /\ \A q \in Parts : wpc[q] \in {"none", "done"}
        /\ UNCHANGED <<n, parts, p, start, first, last, row, wpc>>
    BY <1>5 DEF join, callVars, partVars
  <2> QED
    BY <2>1 DEF Partition, StartIs, Spawned, Consecutive, Covered, Shared, Running
<1>6. ASSUME NEW q \in Parts, check(q)
      PROVE  Partition'
  <2>1. /\ wpc[q] = "check" /\ Running(q)
        /\ \E w \in {"row", "done"} : wpc' = [wpc EXCEPT ![q] = w]
        /\ UNCHANGED <<pc, n, parts, p, start, first, last, row>>
    BY <1>6 DEF check, callVars, Running
  <2>2. StartIs' /\ Consecutive' /\ Covered'
    BY <2>1 DEF Partition, StartIs, Consecutive, Covered, Shared, base, extra
  <2>3. Shared /\ q < p /\ row[q] < last[q]
    BY <2>1, RunningPart
  <2>4. \A r \in Parts : /\ wpc'[r] = "none" <=> wpc[r] = "none"
                         /\ Running(r)' => Running(r)
    BY <1>0, <2>1 DEF Running
  <2>5. Spawned'
    BY <2>1, <2>3, <2>4 DEF Partition, Spawned, Shared
  <2> QED
    BY <2>2, <2>5 DEF Partition
<1>7. ASSUME NEW q \in Parts, computeRow(q)
      PROVE  Partition'
  <2>1. /\ wpc[q] = "row" /\ Running(q)
        /\ row' = [row EXCEPT ![q] = row[q] + 1]
        /\ wpc' = [wpc EXCEPT ![q] = nextPc(q)]
        /\ nextPc(q) \in {"done", "row", "check"}
        /\ row[q] + 1 = last[q] <=> nextPc(q) = "done"
        /\ UNCHANGED <<call, n, parts, pc, p, start, first, last, errs, cancelled, result>>
    BY <1>7, RowStep
  <2>2. StartIs' /\ Consecutive' /\ Covered'
    BY <2>1 DEF Partition, StartIs, Consecutive, Covered, Shared, base, extra
  <2>3. /\ Shared /\ q < p
        /\ first[q] <= row[q] /\ row[q] < last[q] /\ last[q] <= start
    BY <2>1, RunningPart
  <2>4. /\ row'[q] = row[q] + 1 /\ wpc'[q] = nextPc(q)
        /\ \A r \in Parts : r # q => row'[r] = row[r] /\ wpc'[r] = wpc[r]
    BY <1>0, <2>1
  <2>5. /\ first[q] <= row'[q] /\ row'[q] <= last[q]
        /\ wpc'[q] \in {"row", "check"} => row'[q] < last[q]
    BY <1>0, <2>1, <2>3, <2>4
  <2>6. Spawned'
    <3>1. \A r \in Parts :
            IF r < p THEN /\ wpc'[r] # "none"
                          /\ first[r] <= row'[r] /\ row'[r] <= last[r] /\ last[r] <= start
                     ELSE wpc'[r] = "none"
      BY <2>1, <2>3, <2>4, <2>5 DEF Partition, Spawned
    <3>2. \A r \in Parts : Running(r)' => row'[r] < last[r]
      BY <2>4, <2>5 DEF Partition, Spawned, Running
    <3> QED
      BY <2>1, <2>3, <3>1, <3>2 DEF Spawned, Shared
  <2> QED
    BY <2>2, <2>6 DEF Partition
<1>8. CASE Cancel
  BY <1>8 DEF Cancel, callVars, partVars, Partition, StartIs, Spawned, Consecutive,
              Covered, Shared, Running, base, extra
<1>9. CASE UNCHANGED vars
  BY <1>9 DEF vars, Partition, StartIs, Spawned, Consecutive, Covered, Shared, Running,
              base, extra
<1> QED
  BY <1>1, <1>2, <1>3, <1>4, <1>5, <1>6, <1>7, <1>8, <1>9 DEF Next, Caller, Worker

-----------------------------------------------------------------------------
(* The data and the cancellation.                                          *)

(* The elements computed, the parts finished, and what nil vouches for,    *)
(* under every step (executor.go:57-69, matvec.go:55-65).                  *)
LEMMA DataStep ==
  ASSUME TypeOK, Partition, Computed, Fresh, Finished, NilMeansComplete, [Next]_vars
  PROVE  Computed' /\ Fresh' /\ Finished' /\ NilMeansComplete'
<1>0. /\ call \in Nat /\ n \in Nat /\ p \in Nat /\ n <= MaxRows /\ MaxRows \in Nat
      /\ \A i \in Rows : dst[i] \in Nat
      /\ \A q \in Parts : /\ q \in Nat
                          /\ first[q] \in Nat /\ row[q] \in Nat /\ last[q] \in Nat
      /\ DOMAIN dst = Rows /\ DOMAIN wpc = Parts /\ DOMAIN row = Parts
      /\ DOMAIN first = Parts /\ DOMAIN last = Parts /\ DOMAIN errs = Parts
  BY ExecutorAssumption, WorkersNat DEF TypeOK, Parts
<1>1. CASE MatVec
  <2>1. /\ pc = "idle" /\ call' = call + 1 /\ dst' = dst
        /\ \/ pc' = "run"
           \/ pc' = "idle" /\ result' = "invalid"
    BY <1>1 DEF MatVec
  <2>2. Fresh'
    BY <1>0, <2>1 DEF Fresh
  <2> QED
    BY <2>1, <2>2 DEF Computed, Finished, NilMeansComplete, Shared
<1>2. CASE run
  <2>1. CASE cancelled
    <3>1. /\ pc = "run" /\ pc' = "idle" /\ result' = "ctx.Err" /\ UNCHANGED <<call, dst>>
      BY <1>2, <2>1 DEF run
    <3> QED
      BY <3>1 DEF Computed, Fresh, Finished, NilMeansComplete, Shared
  <2>2. CASE ~cancelled
    <3>1. /\ pc = "run" /\ pc' = "spawn" /\ p' = 0 /\ UNCHANGED <<call, dst>>
      BY <1>2, <2>2 DEF run
    <3> QED
      BY <1>0, <3>1 DEF Computed, Fresh, Finished, NilMeansComplete, Shared
  <2> QED
    BY <2>1, <2>2
<1>3. CASE spawn
  <2>1. /\ pc = "spawn" /\ p \in Parts /\ start \in Nat
        /\ first' = [first EXCEPT ![p] = start]
        /\ last' = [last EXCEPT ![p] = start + size(p)]
        /\ row' = [row EXCEPT ![p] = start]
        /\ wpc' = [wpc EXCEPT ![p] = "check"]
        /\ p' = p + 1
        /\ UNCHANGED <<call, pc, errs, dst>>
    BY <1>3, SpawnStep DEF Partition
  <2>2. /\ first'[p] = start /\ row'[p] = start /\ wpc'[p] = "check"
        /\ \A q \in Parts : q # p =>
             /\ first'[q] = first[q] /\ last'[q] = last[q]
             /\ row'[q] = row[q] /\ wpc'[q] = wpc[q]
    BY <1>0, <2>1
  <2>3. Shared /\ Shared'
    BY <2>1 DEF Shared
  <2>4. Computed'
    <3> SUFFICES ASSUME NEW i \in Rows
                 PROVE  dst[i] = call <=>
                          \E q \in Parts : q < p + 1 /\ first'[q] <= i /\ i < row'[q]
      BY <2>1 DEF Computed
    <3>1. i \in Nat
      BY <1>0 DEF Rows
    <3>2. ASSUME NEW q \in Parts
          PROVE  q < p + 1 /\ first'[q] <= i /\ i < row'[q]
                   <=> q < p /\ first[q] <= i /\ i < row[q]
      <4>1. CASE q = p
        BY <1>0, <2>1, <2>2, <3>1, <4>1
      <4>2. CASE q # p
        BY <1>0, <2>2, <4>2
      <4> QED
        BY <4>1, <4>2
    <3> QED
      BY <2>3, <3>2 DEF Computed
  <2>5. Finished'
    <3> SUFFICES ASSUME NEW q \in Parts, q < p + 1, wpc'[q] = "done", errs[q] = "nil"
                 PROVE  row'[q] = last'[q]
      BY <2>1 DEF Finished
    <3>1. q # p /\ q < p
      BY <1>0, <2>2
    <3> QED
      BY <2>2, <2>3, <3>1 DEF Finished
  <2> QED
    BY <2>1, <2>4, <2>5 DEF Fresh, NilMeansComplete
<1>4. CASE spawned
  <2>1. /\ pc = "spawn" /\ pc' = "wait"
        /\ UNCHANGED <<call, p, first, last, row, wpc, errs, dst>>
    BY <1>4 DEF spawned, callVars, partVars
  <2> QED
    BY <2>1 DEF Computed, Fresh, Finished, NilMeansComplete, Shared
<1>5. CASE join
  <2>1. /\ pc = "wait" /\ pc' = "idle" /\ \A q \in Parts : wpc[q] \in {"none", "done"}
        /\ result' = "nil" => \A q \in Parts : errs[q] = "nil"
        /\ UNCHANGED <<call, n, dst>>
    BY <1>5 DEF join, callVars
  <2>2. NilMeansComplete'
    <3> SUFFICES ASSUME result' = "nil", NEW i \in 0..n-1
                 PROVE  dst[i] = call
      BY <2>1 DEF NilMeansComplete
    <3>1. start = n /\ Shared /\ i \in Rows
      BY <1>0, <2>1, LastStart DEF Partition, Shared, Rows
    <3>2. PICK q \in Parts : q < p /\ first[q] <= i /\ i < last[q]
      BY <3>1 DEF Partition, Covered
    <3>3. wpc[q] = "done" /\ errs[q] = "nil"
      BY <2>1, <3>1, <3>2 DEF Partition, Spawned
    <3>4. row[q] = last[q]
      BY <3>1, <3>2, <3>3 DEF Finished
    <3> QED
      BY <3>1, <3>2, <3>4 DEF Computed
  <2> QED
    BY <2>1, <2>2 DEF Computed, Fresh, Finished, Shared
<1>6. ASSUME NEW q \in Parts, check(q)
      PROVE  Computed' /\ Fresh' /\ Finished' /\ NilMeansComplete'
  <2>1. /\ wpc[q] = "check" /\ Running(q)
        /\ \/ errs' = [errs EXCEPT ![q] = "ctx.Err"] /\ wpc' = [wpc EXCEPT ![q] = "done"]
           \/ wpc' = [wpc EXCEPT ![q] = "row"] /\ errs' = errs
        /\ UNCHANGED <<call, pc, p, first, last, row, dst>>
    BY <1>6 DEF check, callVars, Running
  <2>2. Shared
    BY <2>1, RunningPart
  <2>3. Finished'
    <3> SUFFICES ASSUME NEW r \in Parts, r < p, wpc'[r] = "done", errs'[r] = "nil"
                 PROVE  row[r] = last[r]
      BY <2>1 DEF Finished
    <3>1. r # q
      BY <1>0, <2>1
    <3>2. wpc[r] = "done" /\ errs[r] = "nil"
      BY <1>0, <2>1, <3>1
    <3> QED
      BY <2>2, <3>2 DEF Finished
  <2> QED
    BY <2>1, <2>2, <2>3 DEF Computed, Fresh, NilMeansComplete, Shared
<1>7. ASSUME NEW q \in Parts, computeRow(q)
      PROVE  Computed' /\ Fresh' /\ Finished' /\ NilMeansComplete'
  <2>1. /\ wpc[q] = "row" /\ Running(q)
        /\ dst' = [dst EXCEPT ![row[q]] = call]
        /\ row' = [row EXCEPT ![q] = row[q] + 1]
        /\ wpc' = [wpc EXCEPT ![q] = nextPc(q)]
        /\ row[q] + 1 = last[q] <=> nextPc(q) = "done"
        /\ UNCHANGED <<call, n, parts, pc, p, start, first, last, errs, cancelled, result>>
    BY <1>7, RowStep
  <2>2. /\ Shared /\ Shared' /\ q < p /\ row[q] \in Rows
        /\ first[q] <= row[q] /\ row[q] < last[q]
    BY <2>1, RunningPart DEF Shared
  <2>3. /\ row'[q] = row[q] + 1 /\ wpc'[q] = nextPc(q)
        /\ \A r \in Parts : r # q => row'[r] = row[r] /\ wpc'[r] = wpc[r]
        /\ dst'[row[q]] = call
        /\ \A i \in Rows : i # row[q] => dst'[i] = dst[i]
    BY <1>0, <2>1, <2>2
  <2>4. Computed'
    <3> SUFFICES ASSUME NEW i \in Rows
                 PROVE  dst'[i] = call <=>
                          \E r \in Parts : r < p /\ first[r] <= i /\ i < row'[r]
      BY <2>1 DEF Computed
    <3>1. i \in Nat
      BY <1>0 DEF Rows
    <3>2. CASE i = row[q]
      <4>1. q < p /\ first[q] <= i /\ i < row'[q]
        BY <1>0, <2>2, <2>3, <3>2
      <4> QED
        BY <2>3, <3>2, <4>1
    <3>3. CASE i # row[q]
      <4>1. ASSUME NEW r \in Parts
            PROVE  i < row'[r] <=> i < row[r]
        <5>1. CASE r = q
          BY <1>0, <2>3, <3>1, <3>3, <5>1
        <5>2. CASE r # q
          BY <2>3, <5>2
        <5> QED
          BY <5>1, <5>2
      <4> QED
        BY <2>2, <2>3, <3>3, <4>1 DEF Computed
    <3> QED
      BY <3>2, <3>3
  <2>5. Fresh'
    <3>1. \A i \in Rows : dst'[i] <= call
      BY <1>0, <2>3 DEF Fresh
    <3> QED
      BY <2>1, <2>2, <3>1 DEF Fresh, Shared
  <2>6. Finished'
    <3> SUFFICES ASSUME NEW r \in Parts, r < p, wpc'[r] = "done", errs[r] = "nil"
                 PROVE  row'[r] = last[r]
      BY <2>1 DEF Finished
    <3>1. CASE r = q
      BY <2>1, <2>3, <3>1
    <3>2. CASE r # q
      BY <2>2, <2>3, <3>2 DEF Finished
    <3> QED
      BY <3>1, <3>2
  <2> QED
    BY <2>1, <2>2, <2>4, <2>5, <2>6 DEF NilMeansComplete, Shared
<1>8. CASE Cancel
  <2>1. UNCHANGED <<call, n, pc, p, first, last, row, wpc, errs, dst, result>>
    BY <1>8 DEF Cancel, callVars, partVars
  <2> QED
    BY <2>1 DEF Computed, Fresh, Finished, NilMeansComplete, Shared
<1>9. CASE UNCHANGED vars
  <2>1. UNCHANGED <<call, n, pc, p, first, last, row, wpc, errs, dst, result>>
    BY <1>9 DEF vars
  <2> QED
    BY <2>1 DEF Computed, Fresh, Finished, NilMeansComplete, Shared
<1> QED
  BY <1>1, <1>2, <1>3, <1>4, <1>5, <1>6, <1>7, <1>8, <1>9 DEF Next, Caller, Worker

(* The rows computed since the context is done, under every step           *)
(* (matvec.go:55-65).                                                      *)
LEMMA LateStep ==
  ASSUME TypeOK, Partition, Lateness, [Next]_vars
  PROVE  Lateness'
<1>0. /\ CheckEvery \in Nat \ {0}
      /\ DOMAIN wpc = Parts /\ DOMAIN row = Parts /\ DOMAIN first = Parts /\ DOMAIN late = Parts
      /\ \A q \in Parts : late[q] \in Nat
  BY ExecutorAssumption DEF TypeOK
<1>1. CASE UNCHANGED <<first, row, wpc, late>> /\ (~cancelled' => ~cancelled)
  BY <1>1 DEF Lateness
<1>2. CASE run /\ ~cancelled
  <2>1. wpc' = [q \in Parts |-> "none"] /\ late' = [q \in Parts |-> 0]
    BY <1>2 DEF run
  <2> QED
    BY <1>0, <2>1 DEF Lateness
<1>3. CASE spawn
  <2>1. /\ p \in Parts
        /\ first' = [first EXCEPT ![p] = start]
        /\ row' = [row EXCEPT ![p] = start]
        /\ wpc' = [wpc EXCEPT ![p] = "check"]
        /\ UNCHANGED <<late, cancelled>>
    BY <1>3, SpawnStep DEF Partition
  <2> SUFFICES ASSUME NEW q \in Parts
               PROVE  wpc'[q] = "row" => late[q] <= (row'[q] - first'[q]) % CheckEvery
    BY <2>1 DEF Lateness
  <2>2. CASE q = p
    BY <1>0, <2>1, <2>2
  <2>3. CASE q # p
    BY <1>0, <2>1, <2>3 DEF Lateness
  <2> QED
    BY <2>2, <2>3
<1>4. ASSUME NEW q \in Parts, check(q)
      PROVE  Lateness'
  <2>1. /\ Running(q)
        /\ \/ wpc' = [wpc EXCEPT ![q] = "done"]
           \/ ~cancelled /\ wpc' = [wpc EXCEPT ![q] = "row"]
        /\ UNCHANGED <<first, row, late, cancelled>>
    BY <1>4 DEF check, callVars, Running
  <2> SUFFICES ASSUME NEW r \in Parts
               PROVE  wpc'[r] = "row" => late[r] <= (row[r] - first[r]) % CheckEvery
    BY <2>1 DEF Lateness
  <2>2. CASE r = q
    <3>1. row[q] - first[q] \in Nat
      BY <2>1, RunningPart
    <3>2. (row[q] - first[q]) % CheckEvery \in 0..CheckEvery-1
      BY <1>0, <3>1, DivMod
    <3>3. ~cancelled => late[q] = 0
      BY DEF Lateness
    <3>4. 0 <= (row[q] - first[q]) % CheckEvery
      BY <1>0, <3>2
    <3>5. wpc'[q] = "row" => ~cancelled
      BY <1>0, <2>1
    <3> QED
      BY <2>2, <3>3, <3>4, <3>5
  <2>3. CASE r # q
    <3>1. wpc'[r] = wpc[r]
      BY <1>0, <2>1, <2>3
    <3> QED
      BY <3>1 DEF Lateness
  <2> QED
    BY <2>2, <2>3
<1>5. ASSUME NEW q \in Parts, computeRow(q)
      PROVE  Lateness'
  <2>1. /\ wpc[q] = "row" /\ Running(q)
        /\ row' = [row EXCEPT ![q] = row[q] + 1]
        /\ wpc' = [wpc EXCEPT ![q] = nextPc(q)]
        /\ late' = [late EXCEPT ![q] = IF cancelled THEN late[q] + 1 ELSE late[q]]
        /\ UNCHANGED <<first, cancelled>>
    BY <1>5, RowStep
  <2> DEFINE k == row[q] - first[q]
  <2>2. k \in Nat /\ row[q] \in Nat /\ first[q] \in Nat
    BY <2>1, RunningPart
  <2>3. row[q] + 1 - first[q] = k + 1
    BY <2>2
  <2>4. nextPc(q) = "row" => (k + 1) % CheckEvery # 0
    BY <2>3 DEF nextPc
  <2>5. /\ row'[q] = row[q] + 1 /\ wpc'[q] = nextPc(q)
        /\ late'[q] = IF cancelled THEN late[q] + 1 ELSE late[q]
        /\ \A r \in Parts : r # q => /\ row'[r] = row[r] /\ wpc'[r] = wpc[r]
                                     /\ late'[r] = late[r]
    BY <1>0, <2>1
  <2>6. late[q] <= k % CheckEvery /\ (~cancelled => late[q] = 0)
    BY <2>1 DEF Lateness
  <2>7. row'[q] - first'[q] = k + 1
    <3>1. first'[q] = first[q]
      BY <2>1
    <3>2. row'[q] = row[q] + 1
      BY <2>5
    <3>3. row'[q] - first'[q] = row[q] + 1 - first[q]
      BY <2>2, <3>1, <3>2
    <3> QED
      BY <2>3, <3>3
  <2> HIDE DEF k
  <2>8. k % CheckEvery \in 0..CheckEvery-1 /\ (k + 1) % CheckEvery \in 0..CheckEvery-1
    <3>1. k \in Nat /\ k + 1 \in Nat /\ CheckEvery \in Nat \ {0}
      BY <1>0, <2>2
    <3>2. k % CheckEvery \in 0..CheckEvery-1
      BY <3>1, DivMod
    <3>3. (k + 1) % CheckEvery \in 0..CheckEvery-1
      BY <3>1, DivMod
    <3> QED
      BY <3>2, <3>3
  <2>9. (k + 1) % CheckEvery = 0 \/ (k + 1) % CheckEvery = (k % CheckEvery) + 1
    BY <1>0, <2>2, ModNext
  <2>10. /\ late'[q] <= CheckEvery
         /\ ~cancelled => late'[q] = 0
         /\ nextPc(q) = "row" => late'[q] <= (k + 1) % CheckEvery
    <3> DEFINE m == k % CheckEvery   m1 == (k + 1) % CheckEvery
    <3>1. /\ m \in 0..CheckEvery-1 /\ m1 \in 0..CheckEvery-1
          /\ m1 = 0 \/ m1 = m + 1
          /\ nextPc(q) = "row" => m1 # 0
          /\ late[q] <= m
      BY <2>4, <2>6, <2>8, <2>9
    <3> HIDE DEF m, m1
    <3>2. /\ late'[q] <= CheckEvery
          /\ ~cancelled => late'[q] = 0
          /\ nextPc(q) = "row" => late'[q] <= m1
      BY <1>0, <2>5, <2>6, <3>1
    <3> QED
      BY <3>2 DEF m1
  <2> SUFFICES ASSUME NEW r \in Parts
               PROVE  /\ late'[r] <= CheckEvery
                      /\ ~cancelled => late'[r] = 0
                      /\ wpc'[r] = "row" => late'[r] <= (row'[r] - first'[r]) % CheckEvery
    BY <2>1 DEF Lateness
  <2>11. CASE r = q
    BY <2>5, <2>7, <2>10, <2>11
  <2>12. CASE r # q
    BY <2>1, <2>5, <2>12 DEF Lateness
  <2> QED
    BY <2>11, <2>12
<1>6. CASE MatVec
  BY <1>1, <1>6 DEF MatVec, partVars
<1>7. CASE run /\ cancelled
  BY <1>1, <1>7 DEF run, partVars
<1>8. CASE spawned
  BY <1>1, <1>8 DEF spawned, partVars
<1>9. CASE join
  BY <1>1, <1>9 DEF join, partVars
<1>10. CASE Cancel
  BY <1>1, <1>10 DEF Cancel, partVars
<1>11. CASE UNCHANGED vars
  BY <1>1, <1>11 DEF vars
<1> QED
  BY <1>2, <1>3, <1>4, <1>5, <1>6, <1>7, <1>8, <1>9, <1>10, <1>11 DEF Next, Caller, Worker

-----------------------------------------------------------------------------
(* The theorems.                                                           *)

(* The invariant holds at first.                                           *)
LEMMA InitHolds == Init => ExecutorInvariant
<1> SUFFICES ASSUME Init
             PROVE  ExecutorInvariant
  OBVIOUS
<1>1. TypeOK
  <2>1. 0 \in Nat /\ 0 \in 0..MaxCalls /\ 0 \in 0..MaxRows /\ 0 \in 0..Workers
    BY ExecutorAssumption, WorkersNat
  <2>2. FALSE \in BOOLEAN
    OBVIOUS
  <2> QED
    BY <2>1, <2>2 DEF Init, TypeOK
<1>2. Partition
  BY DEF Init, Partition, StartIs, Spawned, Consecutive, Covered, Shared, Running
<1>3. Computed /\ Fresh /\ Finished /\ NilMeansComplete
  BY DEF Init, Computed, Fresh, Finished, NilMeansComplete, Shared
<1>4. Lateness
  BY ExecutorAssumption DEF Init, Lateness
<1> QED
  BY <1>1, <1>2, <1>3, <1>4 DEF ExecutorInvariant

(***************************************************************************)
(* The parts of a product are consecutive, disjoint and, when all of them  *)
(* are spawned, complete; the elements of the product are the rows its     *)
(* parts have passed (executor.go:25-70, matvec.go:55-65).                 *)
(***************************************************************************)
THEOREM PartitionInvariant == Safety => []ExecutorInvariant
<1>1. ExecutorInvariant /\ [Next]_vars => ExecutorInvariant'
  BY TypeStep, PartitionStep, DataStep, LateStep DEF ExecutorInvariant
<1> QED
  BY InitHolds, <1>1, PTL DEF Safety

(* Every variable keeps its type: no index leaves a vector.                *)
THEOREM ExecutorTyped == Safety => []TypeOK
<1>1. ExecutorInvariant => TypeOK
  BY DEF ExecutorInvariant
<1> QED
  BY <1>1, PartitionInvariant, PTL

(***************************************************************************)
(* No element is written by two goroutines, whatever the number of workers *)
(* and of rows ("every output row is computed entirely by one worker",     *)
(* executor.go:8-11).                                                      *)
(***************************************************************************)
THEOREM RowsNotShared == Safety => []OneWorkerPerRow
<1>1. ASSUME ExecutorInvariant
      PROVE  OneWorkerPerRow
  <2>0. TypeOK /\ Partition /\ Computed
    BY <1>1 DEF ExecutorInvariant
  <2>1. ASSUME NEW q \in Parts, NEW r \in Parts, Running(q), Running(r), q < r
        PROVE  last[q] <= row[r]
    <3>1. Shared /\ r < p /\ last[q] \in Nat /\ first[r] \in Nat /\ row[r] \in Nat
          /\ first[r] <= row[r]
      BY <2>0, <2>1, RunningPart
    <3>2. last[q] <= first[r]
      BY <2>0, <2>1, <3>1 DEF Partition, Consecutive
    <3> QED
      BY <3>1, <3>2
  <2>2. ASSUME NEW q \in Parts, Running(q), NEW i \in row[q]..last[q]-1
        PROVE  dst[i] # call
    <3>1. /\ Shared /\ q < p /\ q \in Nat /\ p \in Nat
          /\ first[q] \in Nat /\ row[q] \in Nat /\ last[q] \in Nat
          /\ first[q] <= row[q]
      BY <2>0, <2>2, RunningPart, WorkersNat DEF TypeOK
    <3>2. i \in Rows
      BY <2>0, <3>1, ExecutorAssumption DEF TypeOK, Rows
    <3>3. ASSUME NEW r \in Parts, r < p, first[r] <= i, i < row[r]
          PROVE  FALSE
      <4>1. /\ r \in Nat /\ row[r] <= last[r]
            /\ first[r] \in Nat /\ row[r] \in Nat /\ last[r] \in Nat
        BY <2>0, <3>1, <3>3, WorkersNat, ExecutorAssumption
           DEF TypeOK, Parts, Partition, Spawned
      <4>2. CASE r = q
        BY <3>1, <3>3, <4>2
      <4>3. CASE r < q
        <5>1. last[r] <= first[q]
          BY <2>0, <3>1, <4>3 DEF Partition, Consecutive
        <5> QED
          BY <3>1, <3>3, <4>1, <5>1
      <4>4. CASE q < r
        <5>1. last[q] <= first[r]
          BY <2>0, <3>1, <3>3, <4>4 DEF Partition, Consecutive
        <5> QED
          BY <3>1, <3>3, <4>1, <5>1
      <4> QED
        BY <3>1, <4>1, <4>2, <4>3, <4>4
    <3> QED
      BY <2>0, <3>1, <3>2, <3>3 DEF Computed
  <2>3. \A q, r \in Parts : q # r => q < r \/ r < q
    BY WorkersNat DEF Parts
  <2> QED
    BY <2>1, <2>2, <2>3 DEF OneWorkerPerRow
<1> QED
  BY <1>1, PartitionInvariant, PTL

(***************************************************************************)
(* A product that returned nil computed every row of its matrix, wherever  *)
(* a cancellation fell (executor.go:63-69).                                *)
(***************************************************************************)
THEOREM NilVouches == Safety => []NilMeansComplete
<1>1. ExecutorInvariant => NilMeansComplete
  BY DEF ExecutorInvariant
<1> QED
  BY <1>1, PartitionInvariant, PTL

(***************************************************************************)
(* No goroutine of a product is left when it returns (executor.go:57-63).  *)
(***************************************************************************)
THEOREM NoneLeft == Safety => []NoWorkerOutlivesRun
<1>1. ExecutorInvariant => NoWorkerOutlivesRun
  BY DEF ExecutorInvariant, Partition, Spawned, Shared, Running, NoWorkerOutlivesRun
<1> QED
  BY <1>1, PartitionInvariant, PTL

(***************************************************************************)
(* After the context is done a part computes at most the rows between two  *)
(* looks at it (matvec.go:10-12, 55-65).                                   *)
(***************************************************************************)
THEOREM StopsSoon == Safety => []CancelIsBounded
<1>1. ExecutorInvariant => CancelIsBounded
  BY DEF ExecutorInvariant, Lateness, CancelIsBounded
<1> QED
  BY <1>1, PartitionInvariant, PTL
=============================================================================
