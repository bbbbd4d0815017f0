----------------------------- MODULE Lifecycle -----------------------------
(***************************************************************************)
(* What an opened model promises its callers, whatever the mechanism: the  *)
(* comments of model.go read as a specification.                           *)
(*                                                                         *)
(*   - "a bounded pool of inference sessions": a request works with one    *)
(*     session of a fixed set, and no two requests share one;              *)
(*   - "Close rejects new work": a request enters only while open;         *)
(*   - "waits for active requests, and releases all resources": resources  *)
(*     go only when the model is closing and nobody is left inside.        *)
(***************************************************************************)

CONSTANTS
  Callers,   \* goroutines that call Generate or Chat
  Sessions,  \* the eagerly allocated sessions
  None       \* "no session", not a member of Sessions

VARIABLES
  phase,     \* "open", "closing" or "released"
  inflight,  \* the callers inside a registered request
  lease      \* the session each caller holds, or None

lifecycleVars == <<phase, inflight, lease>>

TypeOK ==
  /\ phase \in {"open", "closing", "released"}
  /\ inflight \in SUBSET Callers
  /\ lease \in [Callers -> Sessions \cup {None}]

Init ==
  /\ phase = "open"
  /\ inflight = {}
  /\ lease = [c \in Callers |-> None]

-----------------------------------------------------------------------------

Enter(c) ==
  /\ phase = "open"
  /\ c \notin inflight
  /\ inflight' = inflight \cup {c}
  /\ UNCHANGED <<phase, lease>>

Lease(c, s) ==
  /\ c \in inflight
  /\ lease[c] = None
  /\ \A d \in Callers : lease[d] # s
  /\ lease' = [lease EXCEPT ![c] = s]
  /\ UNCHANGED <<phase, inflight>>

Return(c) ==
  /\ lease[c] # None
  /\ lease' = [lease EXCEPT ![c] = None]
  /\ UNCHANGED <<phase, inflight>>

Leave(c) ==
  /\ c \in inflight
  /\ lease[c] = None
  /\ inflight' = inflight \ {c}
  /\ UNCHANGED <<phase, lease>>

Shut ==
  /\ phase = "open"
  /\ phase' = "closing"
  /\ UNCHANGED <<inflight, lease>>

Release ==
  /\ phase = "closing"
  /\ inflight = {}
  /\ phase' = "released"
  /\ UNCHANGED <<inflight, lease>>

Next ==
  \/ \E c \in Callers : Enter(c) \/ Return(c) \/ Leave(c)
  \/ \E c \in Callers, s \in Sessions : Lease(c, s)
  \/ Shut
  \/ Release

Safety == Init /\ [][Next]_lifecycleVars

(***************************************************************************)
(* A registered request ends, a lease is given back, and a closing model   *)
(* that is empty is released.                                              *)
(***************************************************************************)
Spec ==
  /\ Safety
  /\ \A c \in Callers : WF_lifecycleVars(Return(c)) /\ WF_lifecycleVars(Leave(c))
  /\ WF_lifecycleVars(Release)
=============================================================================
