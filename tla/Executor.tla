------------------------------ MODULE Executor ------------------------------
(***************************************************************************)
(* One matrix-vector product after another through ops.Executor: the       *)
(* partition of the rows, the goroutines that compute them, the periodic   *)
(* look at the context, and the join (internal/ops/executor.go, MatVecF32  *)
(* and MatVecQ8K of matvec.go, which differ only in how a row is computed).*)
(*                                                                         *)
(* The caller is one goroutine, a session inside Forward; the destination  *)
(* is a scratch vector of this session that the next product overwrites.   *)
(* An element of dst is the number of the product that wrote it, 0 for     *)
(* none: whether two goroutines may write the same element, and whether a  *)
(* returned nil vouches for all of them, is what the properties are about. *)
(*                                                                         *)
(* An operator whose comment starts with "Mutant" is not part of the model:*)
(* it is a plausible bug in the definition that follows it.                *)
(***************************************************************************)
EXTENDS Integers, FiniteSets

CONSTANTS
  Configured,   \* the worker count given to NewExecutor
  MaxRows,      \* bound: rows of the largest matrix
  CheckEvery,   \* rows between two looks at the context, 64 in the code
  MaxCalls      \* bound: products in one behaviour

ASSUME ExecutorAssumption ==
  /\ Configured \in Int
  /\ MaxRows \in Nat
  /\ CheckEvery \in Nat \ {0}
  /\ MaxCalls \in Nat

(* NewExecutor.                                                            *)
Workers == IF Configured < 1 THEN 1 ELSE Configured

Parts == 0..Workers-1
Rows  == 0..MaxRows-1

VARIABLES
  call,       \* number of the current product
  pc,         \* where the caller is
  n,          \* m.Rows of the current product
  parts,      \* parts of the current product
  p,          \* the loop variable of the spawning loop
  start,      \* start of the next part
  first,      \* first row of each part
  last,       \* the row after the last of each part
  row,        \* the row each part is at
  wpc,        \* where the goroutine of each part is
  errs,       \* errs[p], "nil" until the part returns an error
  dst,        \* the product that computed each element, 0 if none
  cancelled,  \* whether the context is done
  late,       \* rows each part computed since the context is done, a ghost
  result      \* what the last product returned

vars == <<call, pc, n, parts, p, start, first, last, row, wpc, errs, dst,
          cancelled, late, result>>

callVars == <<call, n, parts>>
partVars == <<first, last, row, wpc, errs, late>>

TypeOK ==
  /\ call \in 0..MaxCalls
  /\ pc \in {"idle", "run", "spawn", "wait"}
  /\ n \in 0..MaxRows
  /\ parts \in 0..Workers
  /\ p \in 0..Workers
  /\ start \in 0..MaxRows
  /\ first \in [Parts -> 0..MaxRows]
  /\ last \in [Parts -> 0..MaxRows]
  /\ row \in [Parts -> 0..MaxRows]
  /\ wpc \in [Parts -> {"none", "check", "row", "done"}]
  /\ errs \in [Parts -> {"nil", "ctx.Err"}]
  /\ dst \in [Rows -> 0..MaxCalls]
  /\ cancelled \in BOOLEAN
  /\ late \in [Parts -> Nat]
  /\ result \in {"nil", "ctx.Err", "invalid"}

Init ==
  /\ call = 0
  /\ pc = "idle"
  /\ n = 0 /\ parts = 0 /\ p = 0 /\ start = 0
  /\ first = [q \in Parts |-> 0]
  /\ last = [q \in Parts |-> 0]
  /\ row = [q \in Parts |-> 0]
  /\ wpc = [q \in Parts |-> "none"]
  /\ errs = [q \in Parts |-> "nil"]
  /\ dst = [r \in Rows |-> 0]
  /\ cancelled = FALSE
  /\ late = [q \in Parts |-> 0]
  /\ result = "nil"

-----------------------------------------------------------------------------
(* The caller.                                                             *)

(***************************************************************************)
(* MatVecF32 or MatVecQ8K: the kind, the shape and the lengths are checked *)
(* before anything runs.  A matrix that passes Validate has a row.         *)
(***************************************************************************)
MatVec ==
  /\ pc = "idle"
  /\ call < MaxCalls
  /\ call' = call + 1
  /\ \/ /\ \E rows \in 1..MaxRows : n' = rows
        /\ pc' = "run"
        /\ UNCHANGED result
     \/ /\ result' = "invalid"
        /\ UNCHANGED <<n, pc>>
  /\ UNCHANGED <<parts, p, start, partVars, dst, cancelled>>

(***************************************************************************)
(* The head of run: a done context returns before any row; otherwise the   *)
(* rows are shared between at most as many parts as there are rows.  With  *)
(* a single part fn runs in the caller, which is the same as a goroutine   *)
(* the caller immediately waits for.                                       *)
(***************************************************************************)
run ==
  /\ pc = "run"
  /\ \/ /\ cancelled
        /\ pc' = "idle"
        /\ result' = "ctx.Err"
        /\ UNCHANGED <<parts, p, start, partVars>>
     \/ /\ ~cancelled
        /\ parts' = IF Workers > n THEN n ELSE Workers
        /\ p' = 0 /\ start' = 0
        /\ wpc' = [q \in Parts |-> "none"]
        /\ errs' = [q \in Parts |-> "nil"]
        /\ late' = [q \in Parts |-> 0]
        /\ pc' = "spawn"
        /\ UNCHANGED <<first, last, row, result>>
  /\ UNCHANGED <<call, n, dst, cancelled>>

(* Mutant: one part too many gets a row of the remainder.                  *)
size_extra(q) == (n \div parts) + IF q <= n % parts THEN 1 ELSE 0

(* base plus one for the first n % parts parts.                            *)
size(q) == (n \div parts) + IF q < n % parts THEN 1 ELSE 0

(* Mutant: start advances by base, whatever the size of the part.          *)
spawn_baseStep ==
  /\ pc = "spawn"
  /\ p < parts
  /\ first' = [first EXCEPT ![p] = start]
  /\ last' = [last EXCEPT ![p] = start + size(p)]
  /\ row' = [row EXCEPT ![p] = start]
  /\ wpc' = [wpc EXCEPT ![p] = "check"]
  /\ start' = start + (n \div parts)
  /\ p' = p + 1
  /\ UNCHANGED <<callVars, pc, errs, late, dst, cancelled, result>>

(* One turn of the spawning loop: wg.Add and go, or continue.              *)
spawn ==
  /\ pc = "spawn"
  /\ p < parts
  /\ IF size(p) = 0
     THEN UNCHANGED <<first, last, row, wpc>>
     ELSE /\ first' = [first EXCEPT ![p] = start]
          /\ last' = [last EXCEPT ![p] = start + size(p)]
          /\ row' = [row EXCEPT ![p] = start]
          /\ wpc' = [wpc EXCEPT ![p] = "check"]
  /\ start' = start + size(p)
  /\ p' = p + 1
  /\ UNCHANGED <<callVars, pc, errs, late, dst, cancelled, result>>

spawned ==
  /\ pc = "spawn"
  /\ p = parts
  /\ pc' = "wait"
  /\ UNCHANGED <<callVars, p, start, partVars, dst, cancelled, result>>

(* Mutant: returns the first error at once, without waiting for the rest.  *)
join_early ==
  /\ pc = "wait"
  /\ \/ \A q \in Parts : wpc[q] \in {"none", "done"}
     \/ \E q \in Parts : errs[q] # "nil"
  /\ result' = IF \E q \in Parts : errs[q] # "nil" THEN "ctx.Err" ELSE "nil"
  /\ pc' = "idle"
  /\ UNCHANGED <<callVars, p, start, partVars, dst, cancelled>>

(* wg.Wait, then the first error of errs.                                  *)
join ==
  /\ pc = "wait"
  /\ \A q \in Parts : wpc[q] \in {"none", "done"}
  /\ result' = IF \E q \in Parts : errs[q] # "nil" THEN "ctx.Err" ELSE "nil"
  /\ pc' = "idle"
  /\ UNCHANGED <<callVars, p, start, partVars, dst, cancelled>>

-----------------------------------------------------------------------------
(* The goroutine of part q.                                                *)

(* Mutant: leaves the loop on a done context as if it were finished.       *)
check_silent(q) ==
  /\ wpc[q] = "check"
  /\ wpc' = [wpc EXCEPT ![q] = IF cancelled THEN "done" ELSE "row"]
  /\ UNCHANGED <<callVars, pc, p, start, first, last, row, errs, late, dst, cancelled, result>>

(* Mutant: returns without wg.Done on a done context.                      *)
check_notDone(q) ==
  /\ wpc[q] = "check"
  /\ wpc' = [wpc EXCEPT ![q] = IF cancelled THEN "lost" ELSE "row"]
  /\ UNCHANGED <<callVars, pc, p, start, first, last, row, errs, late, dst, cancelled, result>>

(* ctx.Err at a row that is a multiple of CheckEvery from the part's start.*)
check(q) ==
  /\ wpc[q] = "check"
  /\ \/ /\ cancelled
        /\ errs' = [errs EXCEPT ![q] = "ctx.Err"]
        /\ wpc' = [wpc EXCEPT ![q] = "done"]
     \/ /\ ~cancelled
        /\ wpc' = [wpc EXCEPT ![q] = "row"]
        /\ UNCHANGED errs
  /\ UNCHANGED <<callVars, pc, p, start, first, last, row, late, dst, cancelled, result>>

(* Mutant: looks at the context before the first row only.                 *)
nextPc_once(q) == IF row[q] + 1 = last[q] THEN "done" ELSE "row"

(* Where the loop goes after the row it is at.                             *)
nextPc(q) ==
  IF row[q] + 1 = last[q] THEN "done"
  ELSE IF (row[q] + 1 - first[q]) % CheckEvery = 0 THEN "check" ELSE "row"

computeRow(q) ==
  /\ wpc[q] = "row"
  /\ dst' = [dst EXCEPT ![row[q]] = call]
  /\ row' = [row EXCEPT ![q] = @ + 1]
  /\ wpc' = [wpc EXCEPT ![q] = nextPc(q)]
  /\ late' = [late EXCEPT ![q] = IF cancelled THEN @ + 1 ELSE @]
  /\ UNCHANGED <<callVars, pc, p, start, first, last, errs, cancelled, result>>

(* The context of the request is cancelled.                                *)
Cancel ==
  /\ ~cancelled
  /\ cancelled' = TRUE
  /\ UNCHANGED <<callVars, pc, p, start, partVars, dst, result>>

-----------------------------------------------------------------------------

Caller == MatVec \/ run \/ spawn \/ spawned \/ join
Worker(q) == check(q) \/ computeRow(q)

Next == Caller \/ Cancel \/ \E q \in Parts : Worker(q)

Safety == Init /\ [][Next]_vars

(* The scheduler runs every runnable goroutine; nobody has to start a      *)
(* product or to cancel one.                                               *)
Fairness ==
  /\ WF_vars(run \/ spawn \/ spawned \/ join)
  /\ \A q \in Parts : WF_vars(Worker(q))

Spec == Safety /\ Fairness

-----------------------------------------------------------------------------
(* Properties.                                                             *)

Running(q) == wpc[q] \in {"check", "row"}

(***************************************************************************)
(* No element is written by two goroutines, at any distance in time: the   *)
(* rows two parts still have to compute are disjoint, and none of them has *)
(* been computed in this product already ("every output row is computed    *)
(* entirely by one worker", executor.go:8-11).                             *)
(***************************************************************************)
OneWorkerPerRow ==
  /\ \A q, r \in Parts : Running(q) /\ Running(r) /\ q # r =>
       last[q] <= row[r] \/ last[r] <= row[q]
  /\ \A q \in Parts : Running(q) =>
       \A i \in row[q]..last[q]-1 : dst[i] # call

(***************************************************************************)
(* A nil result vouches for every row, whatever the number of workers and  *)
(* wherever a cancellation fell: an abandoned part is always reported      *)
(* (executor.go:63-69).                                                    *)
(***************************************************************************)
NilMeansComplete ==
  pc = "idle" /\ call > 0 /\ result = "nil" => \A i \in 0..n-1 : dst[i] = call

(***************************************************************************)
(* Nothing is left running behind a product that returned, so the vectors  *)
(* may be reused by the next one and the session given back to the pool    *)
(* (executor.go:57-63).                                                    *)
(***************************************************************************)
NoWorkerOutlivesRun ==
  \A q \in Parts : Running(q) => pc \in {"spawn", "wait"}

(***************************************************************************)
(* A cancelled product stops soon: after the context is done a part        *)
(* computes at most the rows between two looks at it ("cancellation is     *)
(* checked at bounded row intervals", matvec.go:10-12).                    *)
(***************************************************************************)
CancelIsBounded ==
  \A q \in Parts : late[q] <= CheckEvery

(* Every product returns.                                                  *)
ProductReturns == pc # "idle" ~> pc = "idle"
=============================================================================
