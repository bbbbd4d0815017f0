------------------------------ MODULE Context ------------------------------
(***************************************************************************)
(* A session as its caller may think of it: a sequence of tokens that only *)
(* a complete evaluation extends, and the logits of a past sequence        *)
(* ("a canceled or failed evaluation never becomes visible to later        *)
(* attention", forward.go:11-15; "resets the logical position",            *)
(* internal/arch/qwen3/model.go:149-151).                                  *)
(***************************************************************************)
EXTENDS Integers, Sequences

CONSTANTS
  Tokens,    \* the vocabulary
  Capacity,  \* positions of the session
  Junk       \* what a computation from unrelated inputs yields

VARIABLES
  committed,  \* the tokens evaluated since the last Reset
  logits      \* the sequence the logits were computed from, or Junk

contextVars == <<committed, logits>>

Init ==
  /\ committed = <<>>
  /\ logits = Junk

Reset ==
  /\ committed' = <<>>
  /\ UNCHANGED logits

(* A complete evaluation, with or without logits.                          *)
Extend(t) ==
  /\ Len(committed) < Capacity
  /\ committed' = Append(committed, t)
  /\ logits' \in {logits, committed'}

(* An evaluation abandoned in the vocabulary projection.                   *)
Abandon ==
  /\ logits' = Junk
  /\ UNCHANGED committed

Next == Reset \/ Abandon \/ \E t \in Tokens : Extend(t)

Spec == Init /\ [][Next]_contextVars
=============================================================================
