----------------------------- MODULE Generation -----------------------------
(***************************************************************************)
(* GenerateTokens and its sampling loop over one session, request after    *)
(* request (internal/arch/qwen3/generate.go).  The session is that of      *)
(* module Session, whose Forward runs step by step under the loop; the     *)
(* pool hands the same session from one request to the next, with whatever *)
(* a request that failed or was cancelled left in it.                      *)
(*                                                                         *)
(* What the network answers is not fixed: sampling may pick any token, and *)
(* the properties speak of the sequence the sampled logits stand for.      *)
(***************************************************************************)
EXTENDS Session

CONSTANTS
  EOG,        \* the end-of-generation tokens
  Prompts,    \* bound: the sequences Encode may return, Nil standing for an
              \* id of the tokenizer that the embedding has no row for
  MaxNews,    \* bound: the values of maxTokens
  MaxInt      \* the largest value of Go's int

ASSUME GenerationAssumption ==
  /\ EOG \subseteq Tokens
  /\ Prompts \subseteq Seq(Tokens \cup {Nil})
  /\ MaxInt \in Nat /\ Capacity <= MaxInt
  /\ MaxNews \subseteq -MaxInt..MaxInt

VARIABLES
  gpc,        \* where GenerateTokens is, "idle" outside
  ids,        \* its argument ids
  maxTokens,  \* its argument maxTokens
  i,          \* tokens of ids evaluated so far
  out,        \* the tokens generated so far
  result      \* the error or the finish reason of the last request

generationVars == <<gpc, ids, maxTokens, i, out, result>>

vars == <<sessionVars, generationVars>>

Results == {"none", "ErrInvalidRequest", "ErrContextLimit", "ErrInvalidMetadata", "ctx.Err", "ops",
            "decode", "eog", "max_tokens"}

GenerationTypeOK ==
  /\ TypeOK
  /\ gpc \in {"idle", "checks", "prefill", "sample", "forward"}
  /\ ids \in Prompts \cup {<<>>}
  /\ maxTokens \in MaxNews \cup {0}
  /\ i \in 0..Len(ids)
  /\ out \in Seq(Tokens \ EOG)
  /\ result \in Results

Init ==
  /\ SessionInit
  /\ gpc = "idle"
  /\ ids = <<>>
  /\ maxTokens = 0
  /\ i = 0
  /\ out = <<>>
  /\ result = "none"

-----------------------------------------------------------------------------

(* GenerateTokens returns; its result holds out.                           *)
returns(r) ==
  /\ gpc' = "idle"
  /\ result' = r

(* A request arrives with a context of its own, which may be done already. *)
GenerateTokens ==
  /\ gpc = "idle"
  /\ gpc' = "checks"
  /\ ids' \in Prompts
  /\ maxTokens' \in MaxNews
  /\ cancelled' \in BOOLEAN
  /\ i' = 0 /\ out' = <<>> /\ result' = "none"
  /\ UNCHANGED <<pos, kv, hidden, logits, fpc, layer, token, project, ferr>>

(* Go's sum of two non-negative ints.                                      *)
plus(x, y) == IF x + y > MaxInt THEN x + y - 2*(MaxInt + 1) ELSE x + y

(* Mutant: a request that just fits does not.                              *)
exceeds_orEqual(n, new) == plus(n, new) >= Capacity

(* len(ids)+maxTokens > m.contextSize.                                     *)
exceeds(n, new) == plus(n, new) > Capacity

(* Mutant: starts without a Reset.                                         *)
checks_noReset ==
  /\ gpc = "checks"
  /\ \/ maxTokens <= 0 /\ returns("ErrInvalidRequest")
     \/ maxTokens > 0 /\ cancelled /\ returns("ctx.Err")
     \/ maxTokens > 0 /\ ~cancelled /\ ids = <<>> /\ returns("ErrInvalidRequest")
     \/ /\ maxTokens > 0 /\ ~cancelled /\ ids # <<>> /\ exceeds(Len(ids), maxTokens)
        /\ returns("ErrContextLimit")
     \/ /\ maxTokens > 0 /\ ~cancelled /\ ids # <<>> /\ ~exceeds(Len(ids), maxTokens)
        /\ gpc' = "prefill"
        /\ UNCHANGED result
  /\ UNCHANGED <<sessionVars, ids, maxTokens, i, out>>

(* The checks in the order of the code, then Reset.                        *)
checks ==
  /\ gpc = "checks"
  /\ \/ /\ \/ maxTokens <= 0 /\ returns("ErrInvalidRequest")
           \/ maxTokens > 0 /\ cancelled /\ returns("ctx.Err")
           \/ maxTokens > 0 /\ ~cancelled /\ ids = <<>> /\ returns("ErrInvalidRequest")
           \/ /\ maxTokens > 0 /\ ~cancelled /\ ids # <<>>
              /\ exceeds(Len(ids), maxTokens)
              /\ returns("ErrContextLimit")
        /\ UNCHANGED sessionVars
     \/ /\ maxTokens > 0 /\ ~cancelled /\ ids # <<>>
        /\ ~exceeds(Len(ids), maxTokens)
        /\ Reset
        /\ gpc' = "prefill"
        /\ UNCHANGED result
  /\ UNCHANGED <<ids, maxTokens, i, out>>

(* One turn of the prefill loop, up to the call of Forward; only the last  *)
(* token of the prompt asks for logits.                                    *)
prefill ==
  /\ gpc = "prefill"
  /\ \/ /\ cancelled
        /\ returns("ctx.Err")
        /\ UNCHANGED <<sessionVars, i>>
     \/ /\ ~cancelled
        /\ Forward(ids[i + 1], i + 1 = Len(ids))
        /\ i' = i + 1
        /\ gpc' = "forward"
        /\ UNCHANGED result
  /\ UNCHANGED <<ids, maxTokens, out>>

(* Mutant: evaluates the token of the prompt again after an error.         *)
forwardReturned_retries ==
  /\ gpc = "forward"
  /\ fpc = "idle"
  /\ \/ /\ ferr # "nil" /\ out = <<>>
        /\ i' = i - 1
        /\ gpc' = "prefill"
        /\ UNCHANGED result
     \/ /\ ferr # "nil" /\ out # <<>>
        /\ returns(ferr)
        /\ UNCHANGED i
     \/ /\ ferr = "nil"
        /\ gpc' = IF i < Len(ids) THEN "prefill" ELSE "sample"
        /\ UNCHANGED <<i, result>>
  /\ UNCHANGED <<sessionVars, ids, maxTokens, out>>

(* Back from Forward: its error is the request's.                          *)
forwardReturned ==
  /\ gpc = "forward"
  /\ fpc = "idle"
  /\ \/ ferr # "nil" /\ returns(ferr)
     \/ /\ ferr = "nil"
        /\ gpc' = IF i < Len(ids) THEN "prefill" ELSE "sample"
        /\ UNCHANGED result
  /\ UNCHANGED <<sessionVars, ids, maxTokens, i, out>>

(* Mutant: a token is added to the text before it is looked at.            *)
sample_keepsEOG ==
  /\ gpc = "sample"
  /\ \E next \in Tokens :
       /\ out' = Append(out, next)
       /\ IF next \in EOG
          THEN returns("eog") /\ UNCHANGED sessionVars
          ELSE IF Len(out') < maxTokens
          THEN Forward(next, TRUE) /\ gpc' = "forward" /\ UNCHANGED result
          ELSE returns("max_tokens") /\ UNCHANGED sessionVars
  /\ UNCHANGED <<ids, maxTokens, i>>

(***************************************************************************)
(* One turn of the sampling loop: the greedy token ends the generation, or *)
(* is decoded and counted, and evaluated if another is wanted.             *)
(***************************************************************************)
sample ==
  /\ gpc = "sample"
  /\ \E next \in Tokens :
       \/ /\ next \in EOG
          /\ returns("eog")
          /\ UNCHANGED <<sessionVars, out>>
       \/ /\ next \notin EOG
          /\ returns("decode")
          /\ UNCHANGED <<sessionVars, out>>
       \/ /\ next \notin EOG
          /\ out' = Append(out, next)
          /\ IF Len(out') < maxTokens
             THEN Forward(next, TRUE) /\ gpc' = "forward" /\ UNCHANGED result
             ELSE returns("max_tokens") /\ UNCHANGED sessionVars
  /\ UNCHANGED <<ids, maxTokens, i>>

(* Forward runs; the loop waits for it.                                    *)
forwardRuns ==
  /\ gpc = "forward"
  /\ forwardStep
  /\ UNCHANGED generationVars

cancel ==
  /\ gpc # "idle"
  /\ Cancel
  /\ UNCHANGED generationVars

-----------------------------------------------------------------------------

step == checks \/ prefill \/ forwardReturned \/ sample \/ forwardRuns

Next == GenerateTokens \/ step \/ cancel

(* The goroutine of a request runs until the request returns.              *)
Spec == Init /\ [][Next]_vars /\ WF_vars(step)

-----------------------------------------------------------------------------
(* Properties.                                                             *)

(***************************************************************************)
(* Every token is sampled from the logits of exactly the prompt and the    *)
(* tokens generated so far: nothing of an earlier request on the session,  *)
(* nothing of an abandoned evaluation, no logits of an earlier token       *)
(* (generate.go:47-76, 80-106; forward.go:11-15).                          *)
(***************************************************************************)
SamplesFromOwnContext ==
  gpc = "sample" => /\ logits = ids \o out
                    /\ Committed = ids \o out

(***************************************************************************)
(* The outcome is the one the caller asked for: a request whose prompt and *)
(* new tokens do fit the context is never turned away for its size,        *)
(* neither at once nor by Forward when the session is full; a result has   *)
(* as many tokens as were asked for, or fewer and an end of generation     *)
(* (generate.go:61-64, 80-106; forward.go:22-24).                          *)
(***************************************************************************)
AnswersAsAsked ==
  /\ result = "ErrContextLimit" => Len(ids) + maxTokens > Capacity
  /\ result = "max_tokens" => Len(out) = maxTokens
  /\ result = "eog" => Len(out) < maxTokens

(* Every request returns.                                                  *)
RequestReturns == gpc # "idle" ~> gpc = "idle"
=============================================================================
