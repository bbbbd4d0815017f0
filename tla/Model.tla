------------------------------- MODULE Model -------------------------------
(***************************************************************************)
(* The public Model of manboml: Generate and Chat called from many         *)
(* goroutines, the channel of pooled sessions, cancellation, and Close     *)
(* (model.go, generate.go, chat.go).                                       *)
(*                                                                         *)
(* A caller goroutine runs one request at a time; each of its steps is one *)
(* operation on shared state.  The critical sections of m.mu (in begin and *)
(* in Close) are single actions: every access to m.closed is under m.mu.   *)
(* The numerical work of a request is one action per evaluated token: what *)
(* matters here is that each evaluation reads the mapped weights and       *)
(* advances the position of the leased session (module Session has the     *)
(* rest).                                                                  *)
(*                                                                         *)
(* An operator whose comment starts with "Mutant" is not part of the model:*)
(* it is a plausible bug in the definition that follows it, against which  *)
(* the properties are tried.                                               *)
(***************************************************************************)
EXTENDS Integers, Sequences, FiniteSets, Functions

CONSTANTS
  Callers,       \* goroutines that call Generate or Chat
  Closers,       \* goroutines that call Close, once each
  Sessions,      \* the sessions allocated by Open
  ContextSize,   \* capacity of a session, in tokens
  None           \* "no session"

ASSUME ModelAssumption ==
  /\ IsFiniteSet(Callers)
  /\ IsFiniteSet(Sessions)
  /\ ContextSize \in Nat \ {0}
  /\ None \notin Sessions

MaxConcurrent == Cardinality(Sessions)

VARIABLES
  closed,     \* m.closed, guarded by m.mu
  done,       \* whether the channel m.done is closed
  active,     \* the counter of the WaitGroup m.active
  sessions,   \* the contents of the channel m.sessions, oldest first
  mapped,     \* whether the backing still holds the file's bytes
  pos,        \* the position of each session
  pc,         \* where each caller is
  held,       \* the session each caller leases, or None
  cancelled,  \* whether the context of the caller's request is done
  evaluated,  \* tokens the caller's request has evaluated, a ghost
  err,        \* the error the request returns, "nil" so far
  closerPc    \* where each closer is

vars == <<closed, done, active, sessions, mapped, pos,
          pc, held, cancelled, evaluated, err, closerPc>>

modelVars   == <<closed, done, active, mapped>>
sessionVars == <<sessions, pos>>
callerVars  == <<pc, held, cancelled, evaluated, err>>

Errors == {"nil", "ErrInvalidRequest", "ErrFormat", "ErrClosed", "ctx.Err", "generation"}

CallerPcs == {"idle", "begin", "acquire", "encode", "generate", "reset", "send", "end"}

(* begin has counted the request and end has not yet uncounted it.         *)
Registered == {"acquire", "encode", "generate", "reset", "send", "end"}

(* The pcs between acquire and the send of release.                        *)
Leased == {"encode", "generate", "reset", "send"}

TypeOK ==
  /\ closed \in BOOLEAN
  /\ done \in BOOLEAN
  /\ active \in Nat
  /\ sessions \in Seq(Sessions)
  /\ mapped \in BOOLEAN
  /\ pos \in [Sessions -> 0..ContextSize]
  /\ pc \in [Callers -> CallerPcs]
  /\ held \in [Callers -> Sessions \cup {None}]
  /\ cancelled \in [Callers -> BOOLEAN]
  /\ evaluated \in [Callers -> Nat]
  /\ err \in [Callers -> Errors]
  /\ closerPc \in [Closers -> {"idle", "wait", "unmap", "returned"}]

(* Open has filled the channel with every session, each at position 0.     *)
Init ==
  /\ closed = FALSE
  /\ done = FALSE
  /\ active = 0
  /\ sessions \in Bijection(1..MaxConcurrent, Sessions)
  /\ mapped = TRUE
  /\ pos = [s \in Sessions |-> 0]
  /\ pc = [c \in Callers |-> "idle"]
  /\ held = [c \in Callers |-> None]
  /\ cancelled = [c \in Callers |-> FALSE]
  /\ evaluated = [c \in Callers |-> 0]
  /\ err = [c \in Callers |-> "nil"]
  /\ closerPc = [k \in Closers |-> "idle"]

-----------------------------------------------------------------------------
(* Moving a caller.                                                        *)

Goto(c, from, to) ==
  /\ pc[c] = from
  /\ pc' = [pc EXCEPT ![c] = to]

Fail(c, e) == err' = [err EXCEPT ![c] = e]

(***************************************************************************)
(* Generate(ctx, req) with a context that may already be done.  A request  *)
(* whose MaxTokens is not positive returns at once.                        *)
(***************************************************************************)
Generate(c) ==
  /\ pc[c] = "idle"
  /\ \/ /\ Goto(c, "idle", "begin")
        /\ Fail(c, "nil")
        /\ \E b \in BOOLEAN : cancelled' = [cancelled EXCEPT ![c] = b]
     \/ /\ Fail(c, "ErrInvalidRequest")
        /\ UNCHANGED <<pc, cancelled>>
  /\ UNCHANGED <<modelVars, sessionVars, held, evaluated, closerPc>>

(***************************************************************************)
(* Chat(ctx, req) formats the messages and then calls Generate; MaxTokens  *)
(* is checked first, and a template or message error returns before        *)
(* Generate is called, whether or not the model is closed.                 *)
(***************************************************************************)
Chat(c) ==
  \/ Generate(c)
  \/ /\ pc[c] = "idle"
     /\ Fail(c, "ErrFormat")
     /\ UNCHANGED <<modelVars, sessionVars, pc, held, cancelled, evaluated, closerPc>>

(* The caller's context is cancelled or times out.                         *)
Cancel(c) ==
  /\ pc[c] # "idle"
  /\ ~cancelled[c]
  /\ cancelled' = [cancelled EXCEPT ![c] = TRUE]
  /\ UNCHANGED <<modelVars, sessionVars, pc, held, evaluated, err, closerPc>>

(* Mutant: registers without looking at m.closed.                          *)
begin_unchecked(c) ==
  /\ Goto(c, "begin", "acquire")
  /\ active' = active + 1
  /\ UNCHANGED <<closed, done, mapped, sessionVars, held, cancelled, evaluated, err, closerPc>>

(* begin, under m.mu.                                                      *)
begin(c) ==
  /\ \/ /\ closed
        /\ Goto(c, "begin", "idle")
        /\ Fail(c, "ErrClosed")
        /\ UNCHANGED active
     \/ /\ ~closed
        /\ Goto(c, "begin", "acquire")
        /\ active' = active + 1
        /\ UNCHANGED err
  /\ UNCHANGED <<closed, done, mapped, sessionVars, held, cancelled, evaluated, closerPc>>

(* Mutant: a pool that hands out its head without taking it.               *)
acquireSession_shared(c) ==
  /\ sessions # <<>>
  /\ Goto(c, "acquire", "encode")
  /\ held' = [held EXCEPT ![c] = Head(sessions)]
  /\ UNCHANGED <<modelVars, sessionVars, cancelled, evaluated, err, closerPc>>

(* Mutant: returns past the deferred end.                                  *)
acquireCancelled_unregistered(c) ==
  /\ cancelled[c]
  /\ Goto(c, "acquire", "idle")
  /\ Fail(c, "ctx.Err")
  /\ UNCHANGED <<modelVars, sessionVars, held, cancelled, evaluated, closerPc>>

(***************************************************************************)
(* acquire: the three cases of the select.  When several are ready Go      *)
(* picks any of them, so a cancelled request, or a request on a closing    *)
(* model, may still be given a session.                                    *)
(***************************************************************************)
acquireSession(c) ==
  /\ sessions # <<>>
  /\ Goto(c, "acquire", "encode")
  /\ held' = [held EXCEPT ![c] = Head(sessions)]
  /\ sessions' = Tail(sessions)
  /\ UNCHANGED <<modelVars, pos, cancelled, evaluated, err, closerPc>>

acquireCancelled(c) ==
  /\ cancelled[c]
  /\ Goto(c, "acquire", "end")
  /\ Fail(c, "ctx.Err")
  /\ UNCHANGED <<modelVars, sessionVars, held, cancelled, evaluated, closerPc>>

acquireDone(c) ==
  /\ done
  /\ Goto(c, "acquire", "end")
  /\ Fail(c, "ErrClosed")
  /\ UNCHANGED <<modelVars, sessionVars, held, cancelled, evaluated, closerPc>>

acquire(c) == acquireSession(c) \/ acquireCancelled(c) \/ acquireDone(c)

(***************************************************************************)
(* Encode, then the checks GenerateTokens makes before its loop: any of    *)
(* them may fail the request; a done context always does.  Otherwise the   *)
(* session is reset and evaluation starts.                                 *)
(***************************************************************************)
startGeneration(c) ==
  /\ \/ /\ Goto(c, "encode", "reset")
        /\ Fail(c, IF cancelled[c] THEN "ctx.Err" ELSE "generation")
        /\ UNCHANGED <<pos, evaluated>>
     \/ /\ ~cancelled[c]
        /\ Goto(c, "encode", "generate")
        /\ pos' = [pos EXCEPT ![held[c]] = 0]
        /\ evaluated' = [evaluated EXCEPT ![c] = 0]
        /\ UNCHANGED err
  /\ UNCHANGED <<modelVars, sessions, held, cancelled, closerPc>>

(***************************************************************************)
(* One token evaluated by Forward, which reads the mapped weights.  It     *)
(* checks the context on the way; one that is done only after the last     *)
(* check commutes with the commit of the token.                            *)
(***************************************************************************)
evaluate(c) ==
  /\ Goto(c, "generate", "generate")
  /\ ~cancelled[c]
  /\ pos[held[c]] < ContextSize
  /\ pos' = [pos EXCEPT ![held[c]] = @ + 1]
  /\ evaluated' = [evaluated EXCEPT ![c] = @ + 1]
  /\ UNCHANGED <<modelVars, sessions, held, cancelled, err, closerPc>>

(***************************************************************************)
(* GenerateTokens returns: with a result after at least one evaluation,    *)
(* with the context's error, or with an error of the evaluation.           *)
(***************************************************************************)
generateReturns(c) ==
  /\ Goto(c, "generate", "reset")
  /\ \/ evaluated[c] > 0 /\ UNCHANGED err
     \/ cancelled[c] /\ Fail(c, "ctx.Err")
     \/ Fail(c, "generation")
  /\ UNCHANGED <<modelVars, sessionVars, held, cancelled, evaluated, closerPc>>

(* Mutant: the session is returned by the error path and by the defer.     *)
releaseSend_twice(c) ==
  /\ Goto(c, "send", "end")
  /\ Len(sessions) < MaxConcurrent
  /\ sessions' = sessions \o <<held[c], held[c]>>
  /\ held' = [held EXCEPT ![c] = None]
  /\ UNCHANGED <<modelVars, pos, cancelled, evaluated, err, closerPc>>

(* Mutant: a failed request keeps its session.                             *)
releaseSend_lost(c) ==
  /\ Goto(c, "send", "end")
  /\ Len(sessions) < MaxConcurrent
  /\ sessions' = IF err[c] = "nil" THEN Append(sessions, held[c]) ELSE sessions
  /\ held' = [held EXCEPT ![c] = None]
  /\ UNCHANGED <<modelVars, pos, cancelled, evaluated, err, closerPc>>

(***************************************************************************)
(* The deferred calls: release, which resets the session and sends it back *)
(* (a send that would block on a full channel), then end.                  *)
(***************************************************************************)
releaseReset(c) ==
  /\ Goto(c, "reset", "send")
  /\ pos' = [pos EXCEPT ![held[c]] = 0]
  /\ UNCHANGED <<modelVars, sessions, held, cancelled, evaluated, err, closerPc>>

releaseSend(c) ==
  /\ Goto(c, "send", "end")
  /\ Len(sessions) < MaxConcurrent
  /\ sessions' = Append(sessions, held[c])
  /\ held' = [held EXCEPT ![c] = None]
  /\ UNCHANGED <<modelVars, pos, cancelled, evaluated, err, closerPc>>

end(c) ==
  /\ Goto(c, "end", "idle")
  /\ active' = active - 1
  /\ UNCHANGED <<closed, done, mapped, sessionVars, held, cancelled, evaluated, err, closerPc>>

-----------------------------------------------------------------------------
(* Mutant: Close without the check of m.closed.                            *)
Close_unchecked(k) ==
  /\ closerPc[k] = "idle"
  /\ closerPc' = [closerPc EXCEPT ![k] = "wait"]
  /\ closed' = TRUE
  /\ done' = TRUE
  /\ UNCHANGED <<active, mapped, sessionVars, callerVars>>

(* Mutant: does not wait for the registered requests.                      *)
closeWait_skipped(k) ==
  /\ closerPc[k] = "wait"
  /\ closerPc' = [closerPc EXCEPT ![k] = "unmap"]
  /\ UNCHANGED <<modelVars, sessionVars, callerVars>>

(***************************************************************************)
(* Close.  The first section runs under m.mu; only the goroutine that sets *)
(* closed goes on to wait and to close the backing.                        *)
(***************************************************************************)
Close(k) ==
  /\ closerPc[k] = "idle"
  /\ IF closed
     THEN /\ closerPc' = [closerPc EXCEPT ![k] = "returned"]
          /\ UNCHANGED <<closed, done>>
     ELSE /\ closerPc' = [closerPc EXCEPT ![k] = "wait"]
          /\ closed' = TRUE
          /\ done' = TRUE
  /\ UNCHANGED <<active, mapped, sessionVars, callerVars>>

closeWait(k) ==
  /\ closerPc[k] = "wait"
  /\ active = 0
  /\ closerPc' = [closerPc EXCEPT ![k] = "unmap"]
  /\ UNCHANGED <<modelVars, sessionVars, callerVars>>

(* backing.Close, which nothing guards.                                    *)
closeBacking(k) ==
  /\ closerPc[k] = "unmap"
  /\ closerPc' = [closerPc EXCEPT ![k] = "returned"]
  /\ mapped' = FALSE
  /\ UNCHANGED <<closed, done, active, sessionVars, callerVars>>

-----------------------------------------------------------------------------

RequestStep(c) ==
  \/ begin(c)
  \/ acquire(c)
  \/ startGeneration(c)
  \/ evaluate(c)
  \/ generateReturns(c)
  \/ releaseReset(c)
  \/ releaseSend(c)
  \/ end(c)

Next ==
  \/ \E c \in Callers : Generate(c) \/ Chat(c) \/ Cancel(c) \/ RequestStep(c)
  \/ \E k \in Closers : Close(k) \/ closeWait(k) \/ closeBacking(k)

Safety == Init /\ [][Next]_vars

(***************************************************************************)
(* A started call keeps running; nobody is obliged to call, to cancel or   *)
(* to close.  A caller parked in acquire needs strong fairness, since the  *)
(* channel may be emptied again before it runs: Go queues the receivers of *)
(* a channel in order and hands a sent session to the first, so a parked   *)
(* caller is passed over finitely often.                                   *)
(***************************************************************************)
Fairness ==
  /\ \A c \in Callers : WF_vars(RequestStep(c)) /\ SF_vars(acquire(c))
  /\ \A k \in Closers : WF_vars(closeWait(k)) /\ WF_vars(closeBacking(k))

Spec == Safety /\ Fairness

-----------------------------------------------------------------------------
(* Properties.                                                             *)

(***************************************************************************)
(* No evaluation reads unmapped weights: while a caller is between its     *)
(* begin and its end, the backing is there, whichever way Close and the    *)
(* request interleave (model.go:43-55, generate.go:22-31).                 *)
(***************************************************************************)
MappedWhileRegistered ==
  \A c \in Callers : pc[c] \in Registered => mapped

(***************************************************************************)
(* Every session is in exactly one place: once in the channel, or leased   *)
(* to exactly one caller.  A lost session starves the pool for ever, one   *)
(* sent back twice is shared by two requests (model.go:71-86).             *)
(***************************************************************************)
SessionsConserved ==
  /\ \A i, j \in DOMAIN sessions : sessions[i] = sessions[j] => i = j
  /\ \A c, d \in Callers : held[c] = held[d] /\ held[c] # None => c = d
  /\ \A s \in Sessions :
       (\E i \in DOMAIN sessions : sessions[i] = s) # (\E c \in Callers : held[c] = s)

(***************************************************************************)
(* The deferred send of release always finds room in the channel, so a     *)
(* request never hangs in its cleanup and Close never waits on one that    *)
(* does (model.go:83-86).                                                  *)
(***************************************************************************)
ReleaseNeverBlocks ==
  \A c \in Callers : pc[c] = "send" => Len(sessions) < MaxConcurrent

(***************************************************************************)
(* The position of a leased session counts exactly the tokens its own      *)
(* request has evaluated: no other request, and no late Reset of an        *)
(* earlier one, moves it (generate.go:27-37, model.go:83-86).              *)
(***************************************************************************)
PositionIsOwn ==
  \A c \in Callers : pc[c] = "generate" => pos[held[c]] = evaluated[c]

(***************************************************************************)
(* Sessions wait in the channel with their position reset, whatever ended  *)
(* the request that used them (model.go:83-86).                            *)
(***************************************************************************)
PooledSessionsReset ==
  \A i \in DOMAIN sessions : pos[sessions[i]] = 0

(* The closers that shut the model and have not released it yet.           *)
Winners == {k \in Closers : closerPc[k] \in {"wait", "unmap"}}

(***************************************************************************)
(* Backing.Close is not synchronised (backing.go:76-87): it is safe only   *)
(* because at most one closer ever gets past the check of m.closed, and    *)
(* none once the backing is gone.                                          *)
(***************************************************************************)
OneCloserReleases ==
  /\ \A j, k \in Winners : j = k
  /\ ~mapped => Winners = {}

(* The wait of Close is over.                                              *)
Drained == ~mapped \/ \E k \in Closers : closerPc[k] = "unmap"

(***************************************************************************)
(* Once the wait of Close is over it stays over: no request is counted,    *)
(* and none will be (the rule on WaitGroup.Add against Wait, which begin   *)
(* keeps by checking m.closed under m.mu; model.go:58-66).                 *)
(***************************************************************************)
DrainedForGood ==
  [][Drained => active = 0 /\ active' = 0]_vars

(* Every call of Generate or Chat returns.                                 *)
RequestsReturn ==
  \A c \in Callers : pc[c] # "idle" ~> pc[c] = "idle"

(* The Close that shut the model returns, having released the backing.     *)
CloseReturns ==
  \A k \in Closers : closerPc[k] = "wait" ~> (closerPc[k] = "returned" /\ ~mapped)

(***************************************************************************)
(* The inductive invariant behind the safety properties.  m.active counts  *)
(* the callers between begin and end; a session is leased from acquire to  *)
(* the send of release, and back at position 0 when it is sent; and Close  *)
(* gets past its wait only with the counter at zero, where it stays.       *)
(***************************************************************************)
RegisteredCallers == {c \in Callers : pc[c] \in Registered}

ActiveCounts == active = Cardinality(RegisteredCallers)

CloseProgress ==
  /\ done = closed
  /\ ~closed => mapped /\ Winners = {}
  /\ Drained => active = 0
  /\ OneCloserReleases

LeaseMatchesPc ==
  \A c \in Callers : held[c] # None <=> pc[c] \in Leased

ReturnedReset ==
  \A c \in Callers : pc[c] = "send" => pos[held[c]] = 0

Inductive ==
  /\ TypeOK
  /\ ActiveCounts
  /\ CloseProgress
  /\ SessionsConserved
  /\ LeaseMatchesPc
  /\ ReturnedReset
  /\ PooledSessionsReset
  /\ PositionIsOwn

-----------------------------------------------------------------------------
(* The model implements its lifecycle promise.                             *)

L == INSTANCE Lifecycle WITH
       phase    <- IF ~mapped THEN "released" ELSE IF closed THEN "closing" ELSE "open",
       inflight <- {c \in Callers : pc[c] \in Registered},
       lease    <- held

(***************************************************************************)
(* What Lifecycle promises, with and without its fairness: one session per *)
(* request and request per session, no entry after Close, no release of    *)
(* the backing under a request, and every request and Close completes      *)
(* (model.go:12-14, 41-42, 70, 82).                                        *)
(***************************************************************************)
LifecycleSafety == L!Safety
LifecycleSpec   == L!Spec
=============================================================================
