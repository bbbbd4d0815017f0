------------------------------ MODULE Session ------------------------------
(***************************************************************************)
(* One inference session: Forward, layer by layer, over the session's KV   *)
(* cache, and Reset (internal/arch/qwen3/forward.go, model.go, kv.go).     *)
(*                                                                         *)
(* Numbers are abstracted to their provenance.  A vector computed from the *)
(* evaluation of a sequence of tokens is that sequence; a vector computed  *)
(* from inputs that do not belong together is Junk.  What matters is which *)
(* cached rows an evaluation reads, and what they were computed from.      *)
(*                                                                         *)
(* The caches keep the code's layout: per layer one flat array, head-major,*)
(* so that position i of head h is element h * Capacity + i.               *)
(*                                                                         *)
(* An operator whose comment starts with "Mutant" is not part of the model:*)
(* it is a plausible bug in the definition that follows it.                *)
(***************************************************************************)
EXTENDS Integers, Sequences

CONSTANTS
  Tokens,      \* the vocabulary
  Nil,         \* not a token
  Layers,      \* cfg.Layers
  QueryHeads,  \* cfg.QueryHeads
  KVHeads,     \* cfg.KVHeads, a divisor of QueryHeads (config.go:104)
  Capacity     \* s.capacity, the context size

ASSUME SessionAssumption ==
  /\ Nil \notin Tokens
  /\ Layers \in Nat \ {0}
  /\ KVHeads \in Nat \ {0}
  /\ QueryHeads \in Nat \ {0}
  /\ QueryHeads % KVHeads = 0
  /\ Capacity \in Nat \ {0}

Junk == <<Nil>>

VARIABLES
  pos,        \* s.pos, the committed position
  kv,         \* s.kv: per layer, the rows of every head and position
  hidden,     \* s.hidden
  logits,     \* s.logits
  fpc,        \* where Forward is, "idle" outside
  layer,      \* the layer Forward is at
  token,      \* its argument token
  project,    \* its argument computeLogits
  cancelled,  \* whether its context is done
  ferr        \* what the last Forward returned

sessionVars == <<pos, kv, hidden, logits, fpc, layer, token, project, cancelled, ferr>>

Slots == 0..KVHeads*Capacity-1

(* A row of a cache: the head it belongs to and its provenance.            *)
Zero == [head |-> 0, from |-> <<>>]

SessionInit ==
  /\ pos = 0
  /\ kv = [l \in 1..Layers |-> [x \in Slots |-> Zero]]
  /\ hidden = Junk
  /\ logits = Junk
  /\ fpc = "idle"
  /\ layer = 0
  /\ token = Nil
  /\ project = FALSE
  /\ cancelled = FALSE
  /\ ferr = "nil"

-----------------------------------------------------------------------------
(* Attention.                                                              *)

Last(s) == s[Len(s)]

(* The row that head h of layer l holds for the last token of a sequence.  *)
(* The first layer sees an embedding alone, later layers what the earlier  *)
(* attention mixed in.                                                     *)
KVRow(l, h, s) == [head |-> h, from |-> IF l = 1 THEN <<Last(s)>> ELSE s]

slot(h, i) == h * Capacity + i

(* Mutant: query heads are spread over the KV heads round robin.           *)
kvHead_roundRobin(h) == h % KVHeads

(* The KV head of a query head.                                            *)
kvHead(h) == (h * KVHeads) \div QueryHeads

(* The query heads of a group share the KV head of the group's number.     *)
Group(h) == h \div (QueryHeads \div KVHeads)

(* The rows attention reads.                                               *)
seqLen == pos + 1

(***************************************************************************)
(* What query head h of layer l computes from rows 0..seqLen-1 of its KV   *)
(* head in a cache: the sequence they were computed from, if it is one.    *)
(***************************************************************************)
attend(l, h, cache) ==
  LET row(i) == cache[slot(kvHead(h), i - 1)]
      seen   == [i \in 1..seqLen |-> IF row(i) = Zero THEN Nil ELSE Last(row(i).from)]
  IN  IF \A i \in 1..seqLen : row(i) = KVRow(l, Group(h), SubSeq(seen, 1, i))
      THEN seen
      ELSE Junk

-----------------------------------------------------------------------------
(* The steps of Forward.                                                   *)

(* Forward returns e; its arguments and its loop variable are gone.        *)
forwardReturns(e) ==
  /\ fpc' = "idle"
  /\ ferr' = e
  /\ layer' = 0 /\ token' = Nil /\ project' = FALSE

(***************************************************************************)
(* Forward(ctx, t, b): the checks, then the embedding.                     *)
(***************************************************************************)
Forward(t, b) ==
  /\ fpc = "idle"
  /\ \/ /\ t \notin Tokens
        /\ forwardReturns("ErrInvalidMetadata")
        /\ UNCHANGED hidden
     \/ /\ t \in Tokens /\ pos >= Capacity
        /\ forwardReturns("ErrContextLimit")
        /\ UNCHANGED hidden
     \/ /\ t \in Tokens /\ pos < Capacity /\ cancelled
        /\ forwardReturns("ctx.Err")
        /\ UNCHANGED hidden
     \/ /\ t \in Tokens /\ pos < Capacity /\ ~cancelled
        /\ fpc' = "attention"
        /\ layer' = 1 /\ token' = t /\ project' = b
        /\ hidden' = <<t>>
        /\ UNCHANGED ferr
  /\ UNCHANGED <<pos, kv, logits, cancelled>>

(***************************************************************************)
(* A product of this step fails: the context is done, or ops refuses the   *)
(* matrix.  Forward returns at once, whatever it has written so far.       *)
(***************************************************************************)
abort ==
  /\ \/ cancelled /\ forwardReturns("ctx.Err")
     \/ forwardReturns("ops")
  /\ hidden' = Junk
  /\ UNCHANGED <<pos, kv, cancelled>>

(* The rows of the current position are written for every KV head ...      *)
written(l) ==
  [x \in Slots |->
     IF \E h \in 0..KVHeads-1 : x = slot(h, pos)
     THEN [head |-> CHOOSE h \in 0..KVHeads-1 : x = slot(h, pos), from |-> hidden]
     ELSE kv[l][x]]

(* Mutant: the first layer commits the position before the others ran.     *)
attention_commits ==
  /\ fpc = "attention"
  /\ ~cancelled
  /\ kv' = [kv EXCEPT ![layer] = written(layer)]
  /\ hidden' = attend(layer, 0, kv'[layer])
  /\ pos' = IF layer = 1 THEN pos + 1 ELSE pos
  /\ fpc' = "ffn"
  /\ UNCHANGED <<logits, layer, token, project, cancelled, ferr>>

(* ... and every query head attends to its rows, the new one included.     *)
attention ==
  /\ fpc = "attention"
  /\ \/ /\ abort
        /\ UNCHANGED logits
     \/ /\ ~cancelled
        /\ kv' = [kv EXCEPT ![layer] = written(layer)]
        /\ LET values == {attend(layer, h, kv'[layer]) : h \in 0..QueryHeads-1}
           IN  hidden' = IF \E v \in values : values = {v}
                         THEN CHOOSE v \in values : TRUE
                         ELSE Junk
        /\ fpc' = "ffn"
        /\ UNCHANGED <<pos, logits, layer, token, project, cancelled, ferr>>

(* The output projection and the feed-forward network, token by token.     *)
feedForward ==
  /\ fpc = "ffn"
  /\ \/ /\ abort
        /\ UNCHANGED logits
     \/ /\ ~cancelled
        /\ \/ layer < Layers /\ layer' = layer + 1 /\ fpc' = "attention"
           \/ layer = Layers /\ fpc' = "logits" /\ UNCHANGED layer
        /\ UNCHANGED <<pos, kv, hidden, logits, token, project, cancelled, ferr>>

(* Mutant: commits although the projection failed.                         *)
finish_always ==
  /\ fpc = "logits"
  /\ \/ ~cancelled /\ logits' = (IF project THEN hidden ELSE logits) /\ forwardReturns("nil")
     \/ cancelled /\ logits' = Junk /\ forwardReturns("ctx.Err")
  /\ pos' = pos + 1
  /\ UNCHANGED <<kv, hidden, cancelled>>

(***************************************************************************)
(* The vocabulary projection, if asked for, then the commit.  A projection *)
(* that is abandoned may have overwritten part of the logits.              *)
(***************************************************************************)
finish ==
  /\ fpc = "logits"
  /\ \/ /\ project
        /\ abort
        /\ \E v \in {logits, Junk} : logits' = v
     \/ /\ project => ~cancelled
        /\ logits' = IF project THEN hidden ELSE logits
        /\ pos' = pos + 1
        /\ forwardReturns("nil")
        /\ UNCHANGED <<kv, hidden, cancelled>>

Reset ==
  /\ fpc = "idle"
  /\ pos' = 0
  /\ UNCHANGED <<kv, hidden, logits, fpc, layer, token, project, cancelled, ferr>>

forwardStep == attention \/ feedForward \/ finish

-----------------------------------------------------------------------------
(* A caller that does anything a caller can: any token, valid or not, with *)
(* or without logits, under a new context for every call, and Reset.       *)

Call ==
  /\ fpc = "idle"
  /\ \E t \in Tokens \cup {Nil}, b \in BOOLEAN : Forward(t, b)

NewContext ==
  /\ fpc = "idle"
  /\ cancelled
  /\ cancelled' = FALSE
  /\ UNCHANGED <<pos, kv, hidden, logits, fpc, layer, token, project, ferr>>

Cancel ==
  /\ ~cancelled
  /\ cancelled' = TRUE
  /\ UNCHANGED <<pos, kv, hidden, logits, fpc, layer, token, project, ferr>>

SessionNext == Call \/ Reset \/ NewContext \/ Cancel \/ forwardStep

SessionSpec == SessionInit /\ [][SessionNext]_sessionVars

-----------------------------------------------------------------------------
(* Properties.                                                             *)

TypeOK ==
  /\ pos \in 0..Capacity
  /\ DOMAIN kv = 1..Layers
  /\ \A l \in 1..Layers : \A x \in Slots : kv[l][x].head \in 0..KVHeads-1
  /\ fpc \in {"idle", "attention", "ffn", "logits"}
  /\ layer \in 0..Layers
  /\ token \in Tokens \cup {Nil}
  /\ project \in BOOLEAN
  /\ cancelled \in BOOLEAN
  /\ ferr \in {"nil", "ErrInvalidMetadata", "ErrContextLimit", "ctx.Err", "ops"}

(* The tokens below the committed position, as the first layer holds them. *)
Committed == [i \in 1..pos |-> Last(kv[1][slot(0, i - 1)].from)]

(***************************************************************************)
(* Below the committed position the caches of all layers and heads hold    *)
(* the rows of one sequence, whatever aborted evaluations and earlier      *)
(* requests left above it (forward.go:11-15, model.go:149-151).            *)
(***************************************************************************)
RowsAgree ==
  \A l \in 1..Layers, h \in 0..KVHeads-1, i \in 1..pos :
    kv[l][slot(h, i - 1)] = KVRow(l, h, SubSeq(Committed, 1, i))

(***************************************************************************)
(* An evaluation sees the committed tokens and its own, nothing else: no   *)
(* stale row, no row of another head, none missing (forward.go:67-88).     *)
(***************************************************************************)
AttendsToOwnContext ==
  fpc \in {"ffn", "logits"} => hidden = Append(Committed, token)

(***************************************************************************)
(* The session is a Context: only a complete Forward extends the sequence, *)
(* by its token; a failed one leaves it as it was.                         *)
(***************************************************************************)
C == INSTANCE Context WITH committed <- Committed, logits <- logits

IsContext == C!Spec
=============================================================================
