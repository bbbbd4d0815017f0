---------------------------- MODULE ModelProofs ----------------------------
(***************************************************************************)
(* Proofs about Model, for any finite set of callers and sessions, any set *)
(* of closers and any context size.                                        *)
(***************************************************************************)
EXTENDS Model, FiniteSetTheorems, TLAPS

-----------------------------------------------------------------------------
(* Counting the registered callers.                                        *)

(* The number of sessions, hence the capacity of the channel, is a natural *)
(* number (model.go:19, open.go:77).                                       *)
LEMMA MaxConcurrentNat == MaxConcurrent \in Nat
BY ModelAssumption, FS_CardinalityType DEF MaxConcurrent

(* Sets of callers are finite: m.active can count them.                    *)
LEMMA CallersCounted ==
  ASSUME NEW S \in SUBSET Callers
  PROVE  IsFiniteSet(S) /\ Cardinality(S) \in Nat
BY ModelAssumption, FS_Subset, FS_CardinalityType

(* A step that moves no caller across begin or end keeps the set it counts. *)
LEMMA CountFrame ==
  ASSUME ActiveCounts, active' = active,
         \A c \in Callers : pc'[c] \in Registered <=> pc[c] \in Registered
  PROVE  ActiveCounts'
<1>1. RegisteredCallers' = RegisteredCallers
  BY DEF RegisteredCallers
<1> QED
  BY <1>1 DEF ActiveCounts

(* m.active counts the callers between begin and end, whatever happens     *)
(* (model.go:58-68).                                                       *)
LEMMA CountStep ==
  ASSUME TypeOK, ActiveCounts, [Next]_vars
  PROVE  ActiveCounts'
<1> USE DEF Registered, Goto, Fail, TypeOK
<1>0. IsFiniteSet(RegisteredCallers) /\ Cardinality(RegisteredCallers) \in Nat
  BY CallersCounted DEF RegisteredCallers
<1>1. ASSUME NEW c \in Callers, begin(c)
      PROVE  ActiveCounts'
  <2>1. CASE closed
    BY <1>1, <2>1, CountFrame DEF begin
  <2>2. CASE ~closed
    <3>1. RegisteredCallers' = RegisteredCallers \cup {c} /\ c \notin RegisteredCallers
      BY <1>1, <2>2 DEF begin, RegisteredCallers
    <3>2. active' = active + 1
      BY <1>1, <2>2 DEF begin
    <3> QED
      BY <1>0, <3>1, <3>2, FS_AddElement DEF ActiveCounts
  <2> QED
    BY <2>1, <2>2
<1>2. ASSUME NEW c \in Callers, end(c)
      PROVE  ActiveCounts'
  <2>1. RegisteredCallers' = RegisteredCallers \ {c} /\ c \in RegisteredCallers
    BY <1>2 DEF end, RegisteredCallers
  <2>2. active' = active - 1
    BY <1>2 DEF end
  <2> QED
    BY <1>0, <2>1, <2>2, FS_RemoveElement DEF ActiveCounts
<1>3. ASSUME NEW c \in Callers,
             Generate(c) \/ Chat(c) \/ Cancel(c) \/ acquire(c) \/ startGeneration(c)
      PROVE  ActiveCounts'
  BY <1>3, CountFrame
  DEF Generate, Chat, Cancel, acquire, acquireSession, acquireCancelled, acquireDone,
      startGeneration, modelVars
<1>4. ASSUME NEW c \in Callers,
             evaluate(c) \/ generateReturns(c) \/ releaseReset(c) \/ releaseSend(c)
      PROVE  ActiveCounts'
  BY <1>4, CountFrame DEF evaluate, generateReturns, releaseReset, releaseSend, modelVars
<1>5. ASSUME NEW k \in Closers, Close(k) \/ closeWait(k) \/ closeBacking(k)
      PROVE  ActiveCounts'
  BY <1>5, CountFrame DEF Close, closeWait, closeBacking, modelVars, callerVars
<1>6. CASE UNCHANGED vars
  BY <1>6, CountFrame DEF vars
<1> QED
  BY <1>1, <1>2, <1>3, <1>4, <1>5, <1>6 DEF Next, RequestStep

-----------------------------------------------------------------------------
(* Typing.                                                                 *)

(* Every step keeps the types (the counter stays natural because it counts *)
(* a set; a position stays below the capacity of the session).             *)
LEMMA TypeStep ==
  ASSUME TypeOK, ActiveCounts, LeaseMatchesPc, [Next]_vars
  PROVE  TypeOK'
<1> USE DEF TypeOK, Goto, Fail, CallerPcs, Errors, modelVars, sessionVars, callerVars
<1>0. active' \in Nat
  <2>1. RegisteredCallers' \in SUBSET Callers
    BY DEF RegisteredCallers
  <2> QED
    BY <2>1, CountStep, CallersCounted DEF ActiveCounts
<1>10. 0 \in 0..ContextSize
  BY ModelAssumption
<1>1. ASSUME NEW c \in Callers, Generate(c) \/ Chat(c) \/ Cancel(c)
      PROVE  TypeOK'
  BY <1>1 DEF Generate, Chat, Cancel
<1>2. ASSUME NEW c \in Callers, begin(c) \/ end(c)
      PROVE  TypeOK'
  BY <1>0, <1>2 DEF begin, end
<1>3. ASSUME NEW c \in Callers, acquire(c)
      PROVE  TypeOK'
  <2>1. CASE acquireSession(c)
    <3>1. Head(sessions) \in Sessions /\ Tail(sessions) \in Seq(Sessions)
      BY <2>1 DEF acquireSession
    <3> QED
      BY <2>1, <3>1 DEF acquireSession
  <2>2. CASE acquireCancelled(c) \/ acquireDone(c)
    BY <2>2 DEF acquireCancelled, acquireDone
  <2> QED
    BY <1>3, <2>1, <2>2 DEF acquire
<1>4. ASSUME NEW c \in Callers, startGeneration(c)
      PROVE  TypeOK'
  <2>1. pos' \in [Sessions -> 0..ContextSize]
    BY <1>4, <1>10 DEF startGeneration
  <2>2. err' \in [Callers -> Errors] /\ pc' \in [Callers -> CallerPcs]
    BY <1>4 DEF startGeneration
  <2> QED
    BY <1>4, <2>1, <2>2 DEF startGeneration
<1>5. ASSUME NEW c \in Callers, evaluate(c)
      PROVE  TypeOK'
  <2>1. held[c] \in Sessions
    BY <1>5 DEF evaluate, LeaseMatchesPc, Leased
  <2>2. pos[held[c]] + 1 \in 0..ContextSize
    BY <1>5, <2>1, ModelAssumption DEF evaluate
  <2> QED
    BY <1>5, <2>1, <2>2 DEF evaluate
<1>6. ASSUME NEW c \in Callers, generateReturns(c) \/ releaseReset(c)
      PROVE  TypeOK'
  <2>1. CASE generateReturns(c)
    BY <2>1 DEF generateReturns
  <2>2. CASE releaseReset(c)
    BY <2>2, <1>10 DEF releaseReset
  <2> QED
    BY <1>6, <2>1, <2>2
<1>7. ASSUME NEW c \in Callers, releaseSend(c)
      PROVE  TypeOK'
  <2>1. held[c] \in Sessions
    BY <1>7 DEF releaseSend, LeaseMatchesPc, Leased
  <2> QED
    BY <1>7, <2>1 DEF releaseSend
<1>8. ASSUME NEW k \in Closers, Close(k) \/ closeWait(k) \/ closeBacking(k)
      PROVE  TypeOK'
  BY <1>8 DEF Close, closeWait, closeBacking
<1>9. CASE UNCHANGED vars
  BY <1>9 DEF vars
<1> QED
  BY <1>1, <1>2, <1>3, <1>4, <1>5, <1>6, <1>7, <1>8, <1>9 DEF Next, RequestStep

-----------------------------------------------------------------------------
(* Leases.                                                                 *)

(* A caller holds a session exactly between acquire and the send of        *)
(* release, whatever ends its request (generate.go:27-37).                 *)
LEMMA LeaseStep ==
  ASSUME TypeOK, LeaseMatchesPc, [Next]_vars
  PROVE  LeaseMatchesPc'
<1> USE DEF TypeOK, LeaseMatchesPc, Leased, Goto, Fail, modelVars, sessionVars, callerVars
<1>1. ASSUME NEW c \in Callers, Generate(c) \/ Chat(c) \/ Cancel(c) \/ begin(c) \/ end(c)
      PROVE  LeaseMatchesPc'
  BY <1>1 DEF Generate, Chat, Cancel, begin, end
<1>2. ASSUME NEW c \in Callers, acquire(c)
      PROVE  LeaseMatchesPc'
  <2>1. CASE acquireSession(c)
    <3>1. Head(sessions) # None
      BY <2>1, ModelAssumption DEF acquireSession
    <3> QED
      BY <2>1, <3>1 DEF acquireSession
  <2>2. CASE acquireCancelled(c) \/ acquireDone(c)
    BY <2>2 DEF acquireCancelled, acquireDone
  <2> QED
    BY <1>2, <2>1, <2>2 DEF acquire
<1>3. ASSUME NEW c \in Callers,
             startGeneration(c) \/ evaluate(c) \/ generateReturns(c) \/ releaseReset(c)
      PROVE  LeaseMatchesPc'
  BY <1>3 DEF startGeneration, evaluate, generateReturns, releaseReset
<1>4. ASSUME NEW c \in Callers, releaseSend(c)
      PROVE  LeaseMatchesPc'
  BY <1>4 DEF releaseSend
<1>5. ASSUME NEW k \in Closers, Close(k) \/ closeWait(k) \/ closeBacking(k)
      PROVE  LeaseMatchesPc'
  BY <1>5 DEF Close, closeWait, closeBacking
<1>6. CASE UNCHANGED vars
  BY <1>6 DEF vars
<1> QED
  BY <1>1, <1>2, <1>3, <1>4, <1>5, <1>6 DEF Next, RequestStep

(* acquire takes a session out of the channel and release puts it back, so *)
(* each stays in exactly one place (model.go:71-86).                       *)
LEMMA ConservedStep ==
  ASSUME TypeOK, LeaseMatchesPc, SessionsConserved, [Next]_vars
  PROVE  SessionsConserved'
<1> DEFINE InChannel(s) == \E i \in DOMAIN sessions : sessions[i] = s
           IsHeld(s)    == \E d \in Callers : held[d] = s
<1>1. ASSUME NEW c \in Callers, acquireSession(c)
      PROVE  SessionsConserved'
  <2> DEFINE s0 == Head(sessions)
  <2>a. held[c] = None
    BY <1>1 DEF acquireSession, Goto, LeaseMatchesPc, Leased
  <2>b. sessions \in Seq(Sessions) /\ sessions # <<>>
    BY <1>1 DEF acquireSession, TypeOK
  <2>c. Len(sessions) \in Nat /\ Len(sessions) > 0
    BY <2>b
  <2>1. /\ held[c] = None
        /\ held' = [held EXCEPT ![c] = s0]
        /\ sessions' = Tail(sessions)
        /\ sessions \in Seq(Sessions) /\ Len(sessions) \in Nat /\ Len(sessions) > 0
        /\ held \in [Callers -> Sessions \cup {None}]
    BY <1>1, <2>a, <2>b, <2>c DEF acquireSession, TypeOK
  <2>2. /\ s0 = sessions[1] /\ s0 \in Sessions /\ s0 # None
        /\ Len(sessions') = Len(sessions) - 1
        /\ \A i \in 1..Len(sessions') : sessions'[i] = sessions[i+1] /\ i+1 \in DOMAIN sessions
        /\ DOMAIN sessions' = 1..Len(sessions')
        /\ DOMAIN sessions = 1..Len(sessions)
    BY <2>1, ModelAssumption
  <2>3. \A d \in Callers : held[d] # s0
    BY <2>2, <2>1 DEF SessionsConserved
  <2>4. \A i, j \in DOMAIN sessions' : sessions'[i] = sessions'[j] => i = j
    BY <2>2, <2>1 DEF SessionsConserved
  <2>5. \A d, e \in Callers : held'[d] = held'[e] /\ held'[d] # None => d = e
    BY <2>1, <2>2, <2>3 DEF SessionsConserved
  <2>6. ASSUME NEW s \in Sessions
        PROVE  (\E i \in DOMAIN sessions' : sessions'[i] = s)
                 # (\E d \in Callers : held'[d] = s)
    <3>1. CASE s = s0
      <4>1. \E d \in Callers : held'[d] = s
        BY <2>1, <3>1
      <4>2. ~ \E i \in DOMAIN sessions' : sessions'[i] = s
        BY <2>1, <2>2, <3>1 DEF SessionsConserved
      <4> QED
        BY <4>1, <4>2
    <3>2. CASE s # s0
      <4>1. (\E d \in Callers : held'[d] = s) <=> IsHeld(s)
        BY <2>1, <3>2, ModelAssumption
      <4>2. InChannel(s) => \E i \in DOMAIN sessions' : sessions'[i] = s
        <5> SUFFICES ASSUME NEW j \in DOMAIN sessions, sessions[j] = s
                     PROVE  \E i \in DOMAIN sessions' : sessions'[i] = s
          OBVIOUS
        <5>1. j # 1
          BY <2>2, <3>2
        <5>2. j - 1 \in DOMAIN sessions' /\ sessions'[j-1] = s
          BY <5>1, <2>1, <2>2
        <5> QED
          BY <5>2
      <4>3. (\E i \in DOMAIN sessions' : sessions'[i] = s) => InChannel(s)
        BY <2>1, <2>2
      <4> QED
        BY <4>1, <4>2, <4>3 DEF SessionsConserved
    <3> QED
      BY <3>1, <3>2
  <2> QED
    BY <2>4, <2>5, <2>6 DEF SessionsConserved
<1>2. ASSUME NEW c \in Callers, releaseSend(c)
      PROVE  SessionsConserved'
  <2> DEFINE s0 == held[c]
  <2>1. /\ s0 \in Sessions
        /\ held' = [held EXCEPT ![c] = None]
        /\ sessions' = Append(sessions, s0)
        /\ sessions \in Seq(Sessions) /\ Len(sessions) \in Nat
        /\ held \in [Callers -> Sessions \cup {None}]
    BY <1>2 DEF releaseSend, Goto, TypeOK, LeaseMatchesPc, Leased
  <2>2. /\ DOMAIN sessions = 1..Len(sessions)
        /\ DOMAIN sessions' = 1..(Len(sessions) + 1)
        /\ \A i \in DOMAIN sessions : sessions'[i] = sessions[i]
        /\ sessions'[Len(sessions) + 1] = s0
    BY <2>1
  <2>3. ~InChannel(s0)
    BY <2>1 DEF SessionsConserved
  <2>4. \A i, j \in DOMAIN sessions' : sessions'[i] = sessions'[j] => i = j
    BY <2>1, <2>2, <2>3 DEF SessionsConserved
  <2>5. \A d, e \in Callers : held'[d] = held'[e] /\ held'[d] # None => d = e
    BY <2>1 DEF SessionsConserved
  <2>6. ASSUME NEW s \in Sessions
        PROVE  (\E i \in DOMAIN sessions' : sessions'[i] = s)
                 # (\E d \in Callers : held'[d] = s)
    <3>1. CASE s = s0
      <4>1. \E i \in DOMAIN sessions' : sessions'[i] = s
        <5>1. Len(sessions) + 1 \in DOMAIN sessions'
          BY <2>1, <2>2
        <5> QED
          BY <5>1, <2>2, <3>1
      <4>2. ~ \E d \in Callers : held'[d] = s
        BY <2>1, <3>1, ModelAssumption DEF SessionsConserved
      <4> QED
        BY <4>1, <4>2
    <3>2. CASE s # s0
      <4>1. (\E d \in Callers : held'[d] = s) <=> IsHeld(s)
        BY <2>1, <3>2, ModelAssumption
      <4>2. (\E i \in DOMAIN sessions' : sessions'[i] = s) <=> InChannel(s)
        BY <2>1, <2>2, <3>2
      <4> QED
        BY <4>1, <4>2 DEF SessionsConserved
    <3> QED
      BY <3>1, <3>2
  <2> QED
    BY <2>4, <2>5, <2>6 DEF SessionsConserved
<1>3. CASE UNCHANGED <<sessions, held>>
  BY <1>3 DEF SessionsConserved
<1>4. ASSUME NEW c \in Callers,
             \/ Generate(c) \/ Chat(c) \/ Cancel(c) \/ begin(c)
             \/ acquireCancelled(c) \/ acquireDone(c) \/ startGeneration(c)
             \/ evaluate(c) \/ generateReturns(c) \/ releaseReset(c) \/ end(c)
      PROVE  UNCHANGED <<sessions, held>>
  BY <1>4 DEF Generate, Chat, Cancel, begin, acquireCancelled, acquireDone, startGeneration,
              evaluate, generateReturns, releaseReset, end, sessionVars
<1>5. ASSUME NEW k \in Closers, Close(k) \/ closeWait(k) \/ closeBacking(k)
      PROVE  UNCHANGED <<sessions, held>>
  BY <1>5 DEF Close, closeWait, closeBacking, sessionVars, callerVars
<1>6. ASSUME UNCHANGED vars
      PROVE  UNCHANGED <<sessions, held>>
  BY <1>6 DEF vars
<1> QED
  BY <1>1, <1>2, <1>3, <1>4, <1>5, <1>6 DEF Next, RequestStep, acquire

-----------------------------------------------------------------------------
(* Positions.                                                              *)

(* Only the caller that leases a session moves its position, and it is 0   *)
(* again when the session goes back (generate.go:27-37, model.go:83-86).   *)
LEMMA PositionStep ==
  ASSUME TypeOK, LeaseMatchesPc, SessionsConserved,
         ReturnedReset, PooledSessionsReset, PositionIsOwn, [Next]_vars
  PROVE  ReturnedReset' /\ PooledSessionsReset' /\ PositionIsOwn'
<1> USE DEF Goto, Fail, modelVars, sessionVars, callerVars
<1> DEFINE Positions == ReturnedReset /\ PooledSessionsReset /\ PositionIsOwn
<1>0. \A c \in Callers : pc[c] \in Leased =>
        /\ held[c] \in Sessions
        /\ \A i \in DOMAIN sessions : sessions[i] # held[c]
        /\ \A d \in Callers : held[d] = held[c] => c = d
  BY DEF TypeOK, LeaseMatchesPc, SessionsConserved
<1>1. ASSUME NEW c \in Callers, acquireSession(c)
      PROVE  Positions'
  <2>1. \A i \in DOMAIN sessions' : \E j \in DOMAIN sessions : sessions'[i] = sessions[j]
    <3>1. sessions \in Seq(Sessions) /\ sessions # <<>> /\ sessions' = Tail(sessions)
      BY <1>1 DEF acquireSession, TypeOK
    <3>2. \A i \in DOMAIN sessions' :
            i + 1 \in DOMAIN sessions /\ sessions'[i] = sessions[i + 1]
      BY <3>1
    <3> QED
      BY <3>2
  <2>2. PooledSessionsReset'
    BY <1>1, <2>1 DEF acquireSession, PooledSessionsReset
  <2>3. ReturnedReset' /\ PositionIsOwn'
    BY <1>1 DEF acquireSession, TypeOK, ReturnedReset, PositionIsOwn
  <2> QED
    BY <2>2, <2>3
<1>2. ASSUME NEW c \in Callers, startGeneration(c)
      PROVE  Positions'
  <2>1. CASE UNCHANGED pos /\ pc' = [pc EXCEPT ![c] = "reset"] /\ UNCHANGED evaluated
    BY <1>2, <2>1 DEF startGeneration, TypeOK, ReturnedReset, PooledSessionsReset, PositionIsOwn
  <2>2. CASE /\ pos' = [pos EXCEPT ![held[c]] = 0]
             /\ evaluated' = [evaluated EXCEPT ![c] = 0]
             /\ pc' = [pc EXCEPT ![c] = "generate"]
    <3>1. held[c] \in Sessions /\ pos \in [Sessions -> 0..ContextSize]
      BY <1>0, <1>2 DEF startGeneration, Leased, TypeOK
    <3>2. PooledSessionsReset'
      BY <1>0, <1>2, <2>2, <3>1 DEF startGeneration, Leased, PooledSessionsReset
    <3>3. ReturnedReset'
      BY <1>0, <1>2, <2>2, <3>1 DEF startGeneration, Leased, ReturnedReset, TypeOK
    <3>4. PositionIsOwn'
      BY <1>0, <1>2, <2>2, <3>1 DEF startGeneration, Leased, PositionIsOwn, TypeOK
    <3> QED
      BY <3>2, <3>3, <3>4
  <2> QED
    BY <1>2, <2>1, <2>2 DEF startGeneration
<1>8. ASSUME NEW c \in Callers, releaseReset(c)
      PROVE  Positions'
  <2>1. held[c] \in Sessions /\ pos \in [Sessions -> 0..ContextSize]
    BY <1>0, <1>8 DEF releaseReset, Leased, TypeOK
  <2>2. PooledSessionsReset'
    BY <1>0, <1>8, <2>1 DEF releaseReset, Leased, PooledSessionsReset
  <2>3. ReturnedReset'
    BY <1>0, <1>8, <2>1 DEF releaseReset, Leased, ReturnedReset, TypeOK
  <2>4. PositionIsOwn'
    BY <1>0, <1>8, <2>1 DEF releaseReset, Leased, PositionIsOwn, TypeOK
  <2> QED
    BY <2>2, <2>3, <2>4
<1>3. ASSUME NEW c \in Callers, evaluate(c)
      PROVE  Positions'
  <2>1. held[c] \in Sessions /\ pos \in [Sessions -> 0..ContextSize]
    BY <1>0, <1>3 DEF evaluate, Leased, TypeOK
  <2>2. PooledSessionsReset'
    BY <1>0, <1>3, <2>1 DEF evaluate, Leased, PooledSessionsReset
  <2>3. ReturnedReset'
    BY <1>0, <1>3, <2>1 DEF evaluate, Leased, ReturnedReset, TypeOK
  <2>4. PositionIsOwn'
    BY <1>0, <1>3, <2>1 DEF evaluate, Leased, PositionIsOwn, TypeOK
  <2> QED
    BY <2>2, <2>3, <2>4
<1>4. ASSUME NEW c \in Callers, releaseSend(c)
      PROVE  Positions'
  <2>1. \A i \in DOMAIN sessions' :
          sessions'[i] = held[c] \/ \E j \in DOMAIN sessions : sessions'[i] = sessions[j]
    <3>1. sessions \in Seq(Sessions) /\ sessions' = Append(sessions, held[c])
      BY <1>4 DEF releaseSend, TypeOK
    <3> QED
      BY <3>1
  <2>2. PooledSessionsReset'
    BY <1>4, <2>1 DEF releaseSend, PooledSessionsReset, ReturnedReset
  <2>3. ReturnedReset' /\ PositionIsOwn'
    BY <1>4 DEF releaseSend, TypeOK, ReturnedReset, PositionIsOwn
  <2> QED
    BY <2>2, <2>3
<1>5. ASSUME NEW c \in Callers,
             \/ Generate(c) \/ Chat(c) \/ Cancel(c) \/ begin(c)
             \/ acquireCancelled(c) \/ acquireDone(c) \/ generateReturns(c) \/ end(c)
      PROVE  Positions'
  BY <1>5 DEF Generate, Chat, Cancel, begin, acquireCancelled, acquireDone,
              generateReturns, end, TypeOK, ReturnedReset, PooledSessionsReset, PositionIsOwn
<1>6. ASSUME NEW k \in Closers, Close(k) \/ closeWait(k) \/ closeBacking(k)
      PROVE  Positions'
  BY <1>6 DEF Close, closeWait, closeBacking, ReturnedReset, PooledSessionsReset, PositionIsOwn
<1>7. CASE UNCHANGED vars
  BY <1>7 DEF vars, ReturnedReset, PooledSessionsReset, PositionIsOwn
<1> QED
  BY <1>1, <1>2, <1>3, <1>4, <1>5, <1>6, <1>7, <1>8 DEF Next, RequestStep, acquire

-----------------------------------------------------------------------------
(* Closing.                                                                *)

(* While the counter is zero no caller is registered (model.go:58-68).     *)
LEMMA NobodyRegistered ==
  ASSUME ActiveCounts, active = 0
  PROVE  RegisteredCallers = {}
<1>1. IsFiniteSet(RegisteredCallers)
  BY CallersCounted DEF RegisteredCallers
<1> QED
  BY <1>1, FS_EmptySet DEF ActiveCounts

(* Once Close is past its wait the counter stays at zero: begin looks at   *)
(* m.closed, and nobody is left to call end (model.go:43-68).              *)
LEMMA DrainedStaysEmpty ==
  ASSUME TypeOK, ActiveCounts, CloseProgress, Drained, [Next]_vars
  PROVE  active = 0 /\ active' = 0
<1> USE DEF modelVars, callerVars
<1>1. active = 0 /\ RegisteredCallers = {} /\ closed
  BY NobodyRegistered DEF CloseProgress, Drained, Winners
<1>2. ASSUME NEW c \in Callers, begin(c) \/ end(c)
      PROVE  active' = 0
  BY <1>1, <1>2 DEF begin, end, Goto, RegisteredCallers, Registered
<1>3. ASSUME NEW c \in Callers,
             \/ Generate(c) \/ Chat(c) \/ Cancel(c) \/ acquire(c) \/ startGeneration(c)
             \/ evaluate(c) \/ generateReturns(c) \/ releaseReset(c) \/ releaseSend(c)
      PROVE  active' = 0
  BY <1>1, <1>3 DEF Generate, Chat, Cancel, acquire, acquireSession, acquireCancelled,
     acquireDone, startGeneration, evaluate, generateReturns, releaseReset, releaseSend
<1>4. ASSUME NEW k \in Closers, Close(k) \/ closeWait(k) \/ closeBacking(k)
      PROVE  active' = 0
  BY <1>1, <1>4 DEF Close, closeWait, closeBacking
<1>5. CASE UNCHANGED vars
  BY <1>1, <1>5 DEF vars
<1> QED
  BY <1>1, <1>2, <1>3, <1>4, <1>5 DEF Next, RequestStep

(* Close runs its three parts in order, in one goroutine (model.go:43-55). *)
LEMMA CloseStep ==
  ASSUME TypeOK, ActiveCounts, CloseProgress, [Next]_vars
  PROVE  CloseProgress'
<1> USE DEF CloseProgress, OneCloserReleases, Winners, Drained, modelVars, callerVars
<1>1. ASSUME NEW k \in Closers, Close(k)
      PROVE  CloseProgress'
  <2>1. CASE closed
    BY <1>1, <2>1 DEF Close, TypeOK
  <2>2. CASE ~closed
    BY <1>1, <2>2 DEF Close, TypeOK
  <2> QED
    BY <2>1, <2>2
<1>2. ASSUME NEW k \in Closers, closeWait(k)
      PROVE  CloseProgress'
  BY <1>2 DEF closeWait, TypeOK
<1>3. ASSUME NEW k \in Closers, closeBacking(k)
      PROVE  CloseProgress'
  BY <1>3 DEF closeBacking, TypeOK
<1>4. ASSUME UNCHANGED <<closed, done, mapped, closerPc>>
      PROVE  CloseProgress'
  <2>1. Drained => active' = 0
    BY DrainedStaysEmpty
  <2> QED
    BY <1>4, <2>1
<1>5. ASSUME NEW c \in Callers,
             Generate(c) \/ Chat(c) \/ Cancel(c) \/ RequestStep(c)
      PROVE  UNCHANGED <<closed, done, mapped, closerPc>>
  BY <1>5 DEF Generate, Chat, Cancel, RequestStep, begin, acquire, acquireSession,
     acquireCancelled, acquireDone, startGeneration, evaluate, generateReturns,
     releaseReset, releaseSend, end
<1>6. ASSUME UNCHANGED vars
      PROVE  UNCHANGED <<closed, done, mapped, closerPc>>
  BY <1>6 DEF vars
<1> QED
  BY <1>1, <1>2, <1>3, <1>4, <1>5, <1>6 DEF Next

-----------------------------------------------------------------------------
(* The theorems.                                                           *)

(* Open leaves a model that satisfies the invariant (open.go:73-96).       *)
LEMMA InitInductive == Init => Inductive
<1> SUFFICES ASSUME Init PROVE Inductive
  OBVIOUS
<1> USE DEF Init
<1>1. /\ sessions \in [1..MaxConcurrent -> Sessions]
      /\ \A i, j \in 1..MaxConcurrent : sessions[i] = sessions[j] => i = j
      /\ \A s \in Sessions : \E i \in 1..MaxConcurrent : sessions[i] = s
  BY DEF Bijection, Injection, Surjection, IsInjective
<1>2. sessions \in Seq(Sessions) /\ DOMAIN sessions = 1..MaxConcurrent
  BY <1>1, MaxConcurrentNat
<1>3. TypeOK
  <2>1. 0 \in 0..ContextSize
    BY ModelAssumption
  <2>2. pos \in [Sessions -> 0..ContextSize]
    BY <2>1
  <2> QED
    BY <1>2, <2>2 DEF TypeOK, CallerPcs, Errors
<1>4. ActiveCounts
  <2>1. RegisteredCallers = {}
    BY DEF RegisteredCallers, Registered
  <2> QED
    BY <2>1, FS_EmptySet DEF ActiveCounts
<1>5. CloseProgress
  BY DEF CloseProgress, OneCloserReleases, Winners, Drained
<1>6. SessionsConserved
  BY <1>1, <1>2, ModelAssumption DEF SessionsConserved
<1>7. LeaseMatchesPc /\ ReturnedReset /\ PooledSessionsReset /\ PositionIsOwn
  BY <1>1, <1>2 DEF LeaseMatchesPc, Leased, ReturnedReset, PooledSessionsReset, PositionIsOwn
<1> QED
  BY <1>3, <1>4, <1>5, <1>6, <1>7 DEF Inductive

(* The inductive invariant holds of every reachable state, whatever the    *)
(* number of callers, closers and sessions (model.go, generate.go).        *)
THEOREM InductiveInvariant == Safety => []Inductive
<1>1. Inductive /\ [Next]_vars => Inductive'
  BY TypeStep, CountStep, CloseStep, ConservedStep, LeaseStep, PositionStep DEF Inductive
<1> QED
  BY InitInductive, <1>1, PTL DEF Safety

(* Every variable keeps its type: the counter never goes negative and no   *)
(* position exceeds the capacity of its session (forward.go:22-24).        *)
THEOREM TypeCorrect == Safety => []TypeOK
<1>1. Inductive => TypeOK
  BY DEF Inductive
<1> QED
  BY <1>1, InductiveInvariant, PTL

(* No request reads the weights after Close has unmapped them              *)
(* (model.go:43-55, generate.go:22-31).                                    *)
THEOREM NoReadAfterUnmap == Safety => []MappedWhileRegistered
<1>1. Inductive => MappedWhileRegistered
  <2> SUFFICES ASSUME Inductive, ~mapped PROVE RegisteredCallers = {}
    BY DEF MappedWhileRegistered, RegisteredCallers
  <2> QED
    BY NobodyRegistered DEF Inductive, CloseProgress, Drained
<1> QED
  BY <1>1, InductiveInvariant, PTL

(* No session is lost, duplicated or shared by two requests                *)
(* (model.go:71-86).                                                       *)
THEOREM PoolConserved == Safety => []SessionsConserved
<1>1. Inductive => SessionsConserved
  BY DEF Inductive
<1> QED
  BY <1>1, InductiveInvariant, PTL

(* The channel has room for every session a request still holds: its other *)
(* contents are distinct sessions, and not that one (model.go:83-86).      *)
THEOREM ReleaseHasRoom == Safety => []ReleaseNeverBlocks
<1>1. Inductive => ReleaseNeverBlocks
  <2> SUFFICES ASSUME Inductive, NEW c \in Callers, pc[c] = "send"
               PROVE  Len(sessions) < MaxConcurrent
    BY DEF ReleaseNeverBlocks
  <2> DEFINE Others == Sessions \ {held[c]}
  <2>1. held[c] \in Sessions /\ sessions \in Seq(Sessions)
    BY DEF Inductive, TypeOK, LeaseMatchesPc, Leased
  <2>2. Len(sessions) \in Nat /\ DOMAIN sessions = 1..Len(sessions)
    BY <2>1
  <2>3. sessions \in [1..Len(sessions) -> Others]
    <3>1. \A i \in 1..Len(sessions) : sessions[i] \in Others
      BY <2>1, <2>2 DEF Inductive, SessionsConserved
    <3> QED
      BY <2>1, <2>2, <3>1
  <2>4. sessions \in Injection(1..Len(sessions), Others)
    BY <2>2, <2>3 DEF Injection, IsInjective, Inductive, SessionsConserved
  <2>5. IsFiniteSet(Others) /\ Cardinality(Others) = MaxConcurrent - 1
    BY <2>1, ModelAssumption, FS_RemoveElement DEF MaxConcurrent
  <2>6. Cardinality(1..Len(sessions)) = Len(sessions)
    <3>1. 1 \in Int /\ Len(sessions) \in Int
      BY <2>2
    <3>2. Cardinality(1..Len(sessions)) = IF 1 > Len(sessions) THEN 0 ELSE Len(sessions) - 1 + 1
      BY <3>1, FS_Interval
    <3> QED
      BY <2>2, <3>2
  <2>7. Cardinality(1..Len(sessions)) <= Cardinality(Others)
    BY <2>4, <2>5, FS_Injection
  <2> QED
    BY <2>2, <2>5, <2>6, <2>7, MaxConcurrentNat
<1> QED
  BY <1>1, InductiveInvariant, PTL

(* The unsynchronised Close of the backing runs at most once               *)
(* (model.go:43-55, backing.go:76-87).                                     *)
THEOREM BackingClosedOnce == Safety => []OneCloserReleases
<1>1. Inductive => OneCloserReleases
  BY DEF Inductive, CloseProgress
<1> QED
  BY <1>1, InductiveInvariant, PTL

(* No request is ever counted again once the wait of Close is over         *)
(* (model.go:53, 58-66).                                                   *)
THEOREM NoRequestAfterWait == Safety => DrainedForGood
<1>1. Inductive /\ [Next]_vars => [Drained => active = 0 /\ active' = 0]_vars
  BY DrainedStaysEmpty DEF Inductive
<1> QED
  BY <1>1, InductiveInvariant, PTL DEF Safety, DrainedForGood

-----------------------------------------------------------------------------
(* Refinement.                                                             *)

(* Under the refinement mapping every step of a caller is a step of        *)
(* Lifecycle or none: begin enters, the receive of acquire leases, the     *)
(* send of release returns, end leaves (generate.go:18-46, model.go:58-86).*)
LEMMA CallerRefines ==
  ASSUME Inductive, NEW c \in Callers,
         Generate(c) \/ Chat(c) \/ Cancel(c) \/ RequestStep(c)
  PROVE  [L!Next]_(L!lifecycleVars)
<1> USE DEF Goto, Fail, Registered, modelVars, sessionVars
<1>0. TypeOK /\ LeaseMatchesPc /\ SessionsConserved
  BY DEF Inductive
<1> DEFINE Inflight == {d \in Callers : pc[d] \in Registered}
           Phase == IF ~mapped THEN "released" ELSE IF closed THEN "closing" ELSE "open"
<1>1. CASE UNCHANGED <<closed, mapped, held>> /\ Inflight' = Inflight
  BY <1>1 DEF L!lifecycleVars
<1>2. ASSUME Generate(c) \/ Chat(c) \/ Cancel(c) \/ (begin(c) /\ closed)
      PROVE  UNCHANGED <<closed, mapped, held>> /\ Inflight' = Inflight
  BY <1>0, <1>2 DEF Generate, Chat, Cancel, begin, TypeOK
<1>3. ASSUME acquireCancelled(c) \/ acquireDone(c) \/ startGeneration(c) \/ evaluate(c)
             \/ generateReturns(c) \/ releaseReset(c)
      PROVE  UNCHANGED <<closed, mapped, held>> /\ Inflight' = Inflight
  BY <1>0, <1>3 DEF acquireCancelled, acquireDone, startGeneration, evaluate,
                    generateReturns, releaseReset, TypeOK
<1>4. CASE begin(c) /\ ~closed
  <2>1. mapped
    BY <1>4 DEF Inductive, CloseProgress
  <2>2. L!Enter(c)
    BY <1>0, <1>4, <2>1 DEF L!Enter, begin, TypeOK
  <2> QED
    BY <2>2 DEF L!Next
<1>5. CASE acquireSession(c)
  <2> DEFINE s == Head(sessions)
  <2>1. sessions \in Seq(Sessions) /\ sessions # <<>>
    BY <1>0, <1>5 DEF acquireSession, TypeOK
  <2>2. s \in Sessions /\ 1 \in DOMAIN sessions /\ s = sessions[1]
    BY <2>1
  <2>3. \A d \in Callers : held[d] # s
    BY <1>0, <2>2 DEF SessionsConserved
  <2>4. held[c] = None
    BY <1>0, <1>5 DEF acquireSession, LeaseMatchesPc, Leased
  <2>5. Inflight' = Inflight /\ c \in Inflight /\ UNCHANGED Phase
    BY <1>0, <1>5 DEF acquireSession, TypeOK
  <2>6. held' = [held EXCEPT ![c] = s]
    BY <1>5 DEF acquireSession
  <2>7. L!Lease(c, s)
    BY <2>3, <2>4, <2>5, <2>6 DEF L!Lease
  <2> QED
    BY <2>2, <2>7 DEF L!Next
<1>6. CASE releaseSend(c)
  <2>1. held[c] # None
    BY <1>0, <1>6 DEF releaseSend, LeaseMatchesPc, Leased
  <2>2. Inflight' = Inflight /\ UNCHANGED Phase
    BY <1>0, <1>6 DEF releaseSend, TypeOK
  <2>3. L!Return(c)
    BY <1>6, <2>1, <2>2 DEF L!Return, releaseSend
  <2> QED
    BY <2>3 DEF L!Next
<1>7. CASE end(c)
  <2>1. held[c] = None
    BY <1>0, <1>7 DEF end, LeaseMatchesPc, Leased
  <2>2. Inflight' = Inflight \ {c} /\ c \in Inflight
    BY <1>0, <1>7 DEF end, TypeOK
  <2>3. L!Leave(c)
    BY <1>7, <2>1, <2>2 DEF L!Leave, end
  <2> QED
    BY <2>3 DEF L!Next
<1> QED
  BY <1>1, <1>2, <1>3, <1>4, <1>5, <1>6, <1>7 DEF RequestStep, acquire

(* The first Close shuts, its backing.Close releases, and neither happens  *)
(* out of turn (model.go:43-55).                                           *)
LEMMA CloserRefines ==
  ASSUME Inductive, NEW k \in Closers, Close(k) \/ closeWait(k) \/ closeBacking(k)
  PROVE  [L!Next]_(L!lifecycleVars)
<1> USE DEF modelVars, sessionVars, callerVars
<1>0. TypeOK /\ ActiveCounts /\ CloseProgress
  BY DEF Inductive
<1>1. CASE Close(k) /\ ~closed
  <2>1. mapped
    BY <1>0, <1>1 DEF CloseProgress
  <2>2. L!Shut
    BY <1>1, <2>1 DEF L!Shut, Close
  <2> QED
    BY <2>2 DEF L!Next
<1>2. CASE (Close(k) /\ closed) \/ closeWait(k)
  BY <1>2 DEF Close, closeWait, L!lifecycleVars
<1>3. CASE closeBacking(k)
  <2>1. k \in Winners /\ Drained
    BY <1>3 DEF closeBacking, Winners, Drained
  <2>2. closed /\ mapped /\ RegisteredCallers = {}
    BY <1>0, <2>1, NobodyRegistered DEF CloseProgress, OneCloserReleases
  <2>3. L!Release
    BY <1>3, <2>2 DEF L!Release, closeBacking, RegisteredCallers
  <2> QED
    BY <2>3 DEF L!Next
<1> QED
  BY <1>1, <1>2, <1>3

(* The model implements the lifecycle its comments promise, for any number *)
(* of callers, closers and sessions (model.go:12-14, 41-42).               *)
THEOREM ModelImplementsLifecycle == Safety => LifecycleSafety
<1>1. Init => L!Init
  BY DEF Init, L!Init, Registered
<1>2. Inductive /\ [Next]_vars => [L!Next]_(L!lifecycleVars)
  <2> SUFFICES ASSUME Inductive, [Next]_vars
               PROVE  [L!Next]_(L!lifecycleVars)
    OBVIOUS
  <2>1. CASE UNCHANGED vars
    BY <2>1 DEF vars, L!lifecycleVars
  <2> QED
    BY <2>1, CallerRefines, CloserRefines DEF Next
<1> QED
  BY <1>1, <1>2, InductiveInvariant, PTL DEF Safety, LifecycleSafety, L!Safety
=============================================================================
