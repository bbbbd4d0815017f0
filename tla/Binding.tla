------------------------------ MODULE Binding ------------------------------
(***************************************************************************)
(* From a parsed file to a session that can evaluate: NewModel with        *)
(* NewConfig, kvBytes and BindWeights, then NewSession                     *)
(* (internal/arch/qwen3/config.go, weights.go, kv.go, model.go, and        *)
(* Matrix.Validate of internal/ops/matrix.go).  What Forward later takes   *)
(* for granted of both is Evaluates.                                       *)
(*                                                                         *)
(* A metadata value is a natural number, Absent, or NotUint for any other  *)
(* type.  A tensor is its kind, shape and size; its bytes are in the file, *)
(* which Loader has checked, so the second check of BindWeights cannot     *)
(* fail and the offset is left out.  The tensors of a file are chosen as   *)
(* they are looked up.  A uint64 is a word of WordSize values, an int the  *)
(* two's complement of the intSize that the platform gives it.             *)
(*                                                                         *)
(* An operator whose comment starts with "Mutant" is not part of the model:*)
(* it is a plausible bug in the definition that follows it.                *)
(***************************************************************************)
EXTENDS Integers, Sequences

CONSTANTS
  Metas,        \* bound: the metadata of the files
  Contexts,     \* bound: the values of Options.ContextSize
  Dims,         \* bound: the dimensions of the tensors
  Kinds,        \* bound: the encodings of the tensors
  FileSize,     \* bound: the size of the file
  Default,      \* DefaultContextSize, 2048
  BlockSize,    \* Q8KBlockSize, Q4KBlockSize and Q6KBlockSize, 256
  Groups,       \* Q8KGroupCount, 16
  Q4KTypeSize,  \* 144
  Q6KTypeSize,  \* 210
  WordSize,     \* the number of values of a uint64
  IntSizes,     \* bound: the platforms' numbers of values of an int
  LayerBytes,   \* the size of a LayerWeights
  MaxAlloc      \* the largest number of bytes the runtime allocates

Absent  == -1
NotUint == -2

Required == {"block_count", "embedding_length", "feed_forward_length", "head_count",
             "head_count_kv", "key_length", "context_length"}

Optional == {"value_length", "dimension_count", "scaling"}

ASSUME BindingAssumption ==
  /\ WordSize \in Nat \ {0}
  /\ \A n \in IntSizes : n \in Nat \ {0} /\ n % 2 = 0 /\ WordSize % n = 0
  /\ Metas \subseteq [Required \cup Optional -> {Absent, NotUint} \cup 0..WordSize-1]
  /\ \A n \in IntSizes : Contexts \subseteq 0..(n \div 2 - 1)
  /\ Dims \subseteq 0..WordSize-1
  /\ Kinds \subseteq {"F32", "Q4K", "Q6K", "Q5K"}
  /\ \A n \in IntSizes : FileSize \in 0..(n \div 2 - 1) /\ Default \in 1..(n \div 2 - 1)
  /\ BlockSize \in Nat \ {0} /\ Groups \in Nat \ {0}
  /\ Q4KTypeSize \in 4..BlockSize /\ Q6KTypeSize \in 4..BlockSize
  /\ LayerBytes \in Nat \ {0}
  /\ \A n \in IntSizes : MaxAlloc \in 0..(n \div 2 - 1)

VARIABLES
  intSize,      \* the number of values of an int
  meta,         \* the metadata
  contextSize,  \* NewModel's argument, then Model.contextSize
  pc,           \* the stage
  cfg,          \* Config
  weights,      \* the tensors bound so far, in the order of BindWeights
  session,      \* the lengths of a session's slices
  result        \* the error, "panic", or "ok"

vars == <<intSize, meta, contextSize, pc, cfg, weights, session, result>>

returns(r) == pc' = "done" /\ result' = r

-----------------------------------------------------------------------------
(* Integers.                                                               *)

MaxInt == intSize \div 2 - 1

(* The int of a uint64 or of a product of ints.                            *)
asInt(x) == IF x % intSize > MaxInt THEN (x % intSize) - intSize ELSE x % intSize

(* uint64(n) of an int.                                                    *)
asWord(n) == n % WordSize

(* mulU64 of two words.                                                    *)
mulOverflows(x, n) == n # 0 /\ x > (WordSize - 1) \div n

-----------------------------------------------------------------------------
(* NewConfig.                                                              *)

(* Model.Uint.                                                             *)
given(key) == meta[key] >= 0

(* Mutant: the number need not be an int.                                  *)
requiredInt_anyWord(key) == given(key)

(* requiredInt.                                                            *)
requiredInt(key) == given(key) /\ meta[key] <= MaxInt

NoConfig == [layers |-> 0, hidden |-> 0, ffn |-> 0, queryHeads |-> 0, kvHeads |-> 0,
             headDim |-> 0, ropeDim |-> 0, contextLength |-> 0, queryWidth |-> 0,
             kvWidth |-> 0]

(* What is read, before validate.                                          *)
config ==
  [layers        |-> meta["block_count"],
   hidden        |-> meta["embedding_length"],
   ffn           |-> meta["feed_forward_length"],
   queryHeads    |-> meta["head_count"],
   kvHeads       |-> meta["head_count_kv"],
   headDim       |-> meta["key_length"],
   ropeDim       |-> IF given("dimension_count") THEN asInt(meta["dimension_count"])
                     ELSE meta["key_length"],
   contextLength |-> meta["context_length"],
   queryWidth    |-> asInt(meta["head_count"] * meta["key_length"]),
   kvWidth       |-> asInt(meta["head_count_kv"] * meta["key_length"])]

(* Config.validate; the floats are left out.                               *)
valid(c) ==
  /\ \A f \in {"layers", "hidden", "ffn", "queryHeads", "kvHeads", "headDim",
               "contextLength"} : c[f] > 0
  /\ c.queryHeads % c.kvHeads = 0
  /\ c.ropeDim > 0 /\ c.ropeDim % 2 = 0 /\ c.ropeDim <= c.headDim

newConfig ==
  /\ pc = "config"
  /\ \/ /\ \E key \in Required : ~requiredInt(key)
        /\ returns("ErrInvalidMetadata")
        /\ UNCHANGED cfg
     \/ /\ \A key \in Required : requiredInt(key)
        /\ \/ given("value_length") /\ asInt(meta["value_length"]) # config.headDim
           \/ given("scaling")
        /\ returns("ErrUnsupportedModel")
        /\ UNCHANGED cfg
     \/ /\ \A key \in Required : requiredInt(key)
        /\ given("value_length") => asInt(meta["value_length"]) = config.headDim
        /\ ~given("scaling")
        /\ IF valid(config)
           THEN cfg' = config /\ pc' = "plan" /\ UNCHANGED result
           ELSE returns("ErrInvalidMetadata") /\ UNCHANGED cfg
  /\ UNCHANGED <<intSize, meta, contextSize, weights, session>>

-----------------------------------------------------------------------------
(* The plan.                                                               *)

(* kvBytes for a context of n tokens.                                      *)
kvBytes(n) ==
  LET perHead  == cfg.kvHeads * n
      perCache == perHead * cfg.headDim
      perLayer == perCache * 2
      both     == (perLayer * 2) % WordSize
  IN  IF \/ n <= 0 \/ n > cfg.contextLength
         \/ mulOverflows(cfg.kvHeads, n) \/ mulOverflows(perHead, cfg.headDim)
         \/ mulOverflows(perCache, 2) \/ mulOverflows(both, cfg.layers)
      THEN [ok |-> FALSE, bytes |-> 0]
      ELSE [ok |-> TRUE, bytes |-> both * cfg.layers]

(* What Q8_K activations ask of the dimensions.                            *)
multiples == \A n \in {cfg.hidden, cfg.queryWidth, cfg.ffn} : n % BlockSize = 0

(* NewModel up to BindWeights.                                             *)
plan ==
  /\ pc = "plan"
  /\ LET n == IF contextSize = 0 THEN Default ELSE contextSize
     IN  /\ contextSize' = n
         /\ \/ n > cfg.contextLength /\ returns("ErrContextLimit")
            \/ n <= cfg.contextLength /\ ~multiples /\ returns("ErrUnsupportedModel")
            \/ n <= cfg.contextLength /\ multiples /\ ~kvBytes(n).ok
               /\ returns("ErrContextLimit")
            \/ n <= cfg.contextLength /\ multiples /\ kvBytes(n).ok
               /\ pc' = "bind" /\ UNCHANGED result
  /\ UNCHANGED <<intSize, meta, cfg, weights, session>>

-----------------------------------------------------------------------------
(* The tensors.                                                            *)

(* The bytes of a block of a kind and the values in it.                    *)
Encoding(kind) ==
  CASE kind = "F32" -> [bytes |-> 4, values |-> 1]
    [] kind = "Q4K" -> [bytes |-> Q4KTypeSize, values |-> BlockSize]
    [] OTHER        -> [bytes |-> Q6KTypeSize, values |-> BlockSize]

(* Tensor.Elements and Tensor.Size of the library, which wrap.             *)
Elements(shape) ==
  IF shape = <<>> THEN 1
  ELSE IF Len(shape) = 1 THEN shape[1] ELSE (shape[1] * shape[2]) % WordSize

TensorSize(kind, shape) ==
  ((Elements(shape) * Encoding(kind).bytes) % WordSize) \div Encoding(kind).values

Shapes == {<<>>} \cup {<<d>> : d \in Dims} \cup (Dims \X Dims)

(* The tensors the loader lets pass.  "Q5K" is a kind of another codec.    *)
Tensors ==
  {t \in [kind : Kinds, shape : Shapes] :
     /\ TensorSize(t.kind, t.shape) <= FileSize
     /\ TensorSize(t.kind, t.shape) = 0 => Elements(t.shape) = 0}

Matrices == {"embedding", "output", "q", "k", "v", "attnOut", "gate", "up", "down"}

(* The order of BindWeights.                                               *)
HeadOrder  == <<"embedding", "output", "outputNorm">>
LayerOrder == <<"attnNorm", "q", "k", "v", "qNorm", "kNorm", "attnOut", "ffnNorm",
                "gate", "up", "down">>

role(i) ==
  IF i <= Len(HeadOrder) THEN HeadOrder[i]
  ELSE LayerOrder[((i - Len(HeadOrder) - 1) % Len(LayerOrder)) + 1]

Last(c) == Len(HeadOrder) + c.layers * Len(LayerOrder)

(* Mutant: attn_output read as if it were attn_q.                          *)
wanted_transposed(r, c, v) ==
  CASE r \in {"embedding", "output"} -> <<c.hidden, v>>
    [] r \in {"q", "attnOut"}        -> <<c.hidden, c.queryWidth>>
    [] r \in {"k", "v"}              -> <<c.hidden, c.kvWidth>>
    [] r \in {"gate", "up"}          -> <<c.hidden, c.ffn>>
    [] r = "down"                    -> <<c.ffn, c.hidden>>
    [] r \in {"qNorm", "kNorm"}      -> <<c.headDim>>
    [] OTHER                         -> <<c.hidden>>

(* The shape of a tensor: columns and rows, or the length.                 *)
wanted(r, c, v) ==
  CASE r \in {"embedding", "output"} -> <<c.hidden, v>>
    [] r = "q"                       -> <<c.hidden, c.queryWidth>>
    [] r \in {"k", "v"}              -> <<c.hidden, c.kvWidth>>
    [] r = "attnOut"                 -> <<c.queryWidth, c.hidden>>
    [] r \in {"gate", "up"}          -> <<c.hidden, c.ffn>>
    [] r = "down"                    -> <<c.ffn, c.hidden>>
    [] r \in {"qNorm", "kNorm"}      -> <<c.headDim>>
    [] OTHER                         -> <<c.hidden>>

(* RowBytes, in int.                                                       *)
rowBytes(m) ==
  IF m.cols <= 0 \/ m.cols % Encoding(m.kind).values # 0 THEN 0
  ELSE asInt((m.cols \div Encoding(m.kind).values) * Encoding(m.kind).bytes)

(* Mutant: the number of bytes is compared, wrapped.                       *)
validates_unchecked(m) ==
  /\ m.rows > 0 /\ m.cols > 0
  /\ rowBytes(m) # 0
  /\ m.size = asInt(m.rows * rowBytes(m))

(* Matrix.Validate; a negative rowBytes fails the comparison of the rows.  *)
validates(m) ==
  /\ m.rows > 0 /\ m.cols > 0
  /\ rowBytes(m) > 0
  /\ m.rows <= MaxInt \div rowBytes(m)
  /\ m.size = m.rows * rowBytes(m)

(* A tensor that is not in the file.                                       *)
NotFound == [kind |-> "none", shape |-> <<>>]

(* What is kept of a tensor: a matrix, or as one row a vector.             *)
bound(t) ==
  [kind |-> t.kind,
   cols |-> asInt(t.shape[1]),
   rows |-> IF Len(t.shape) = 2 THEN asInt(t.shape[2]) ELSE 1,
   size |-> TensorSize(t.kind, t.shape)]

vocab == weights[1].rows

(* matrix and vector on a tensor for a role, in a vocabulary of v tokens.  *)
fits(t, r, v) ==
  /\ Len(t.shape) = Len(wanted(r, cfg, v))
  /\ \A d \in DOMAIN t.shape : asInt(t.shape[d]) = wanted(r, cfg, v)[d]
  /\ IF r \in Matrices
     THEN t.kind \in {"F32", "Q4K", "Q6K"} /\ validates(bound(t))
     ELSE t.kind = "F32" /\ TensorSize(t.kind, t.shape) = asWord(asInt(bound(t).cols * 4))

(* vocabSize, which looks at the embedding before matrix does.             *)
vocabOf(t) ==
  IF Len(weights) > 0 THEN vocab
  ELSE IF Len(t.shape) = 2 /\ t.shape[2] <= MaxInt THEN t.shape[2] ELSE 0

(***************************************************************************)
(* The lookup of the next tensor.  The floats of a norm are copied; the    *)
(* slice of the layers is made before the first of them.                   *)
(***************************************************************************)
bind ==
  LET i == Len(weights) + 1
      r == role(i)
  IN
  /\ pc = "bind"
  /\ i <= Last(cfg)
  /\ \/ /\ i = Len(HeadOrder) + 1 /\ cfg.layers * LayerBytes > MaxAlloc
        /\ returns("panic")
        /\ UNCHANGED weights
     \/ /\ i = Len(HeadOrder) + 1 => cfg.layers * LayerBytes <= MaxAlloc
        /\ \E t \in Tensors \cup {NotFound} :
             IF ~fits(t, r, vocabOf(t)) \/ vocabOf(t) <= 0
             THEN returns("ErrInvalidWeights") /\ UNCHANGED weights
             ELSE IF r \notin Matrices /\ bound(t).cols * 4 > MaxAlloc
             THEN returns("panic") /\ UNCHANGED weights
             ELSE weights' = Append(weights, bound(t)) /\ UNCHANGED <<pc, result>>
  /\ UNCHANGED <<intSize, meta, contextSize, cfg, session>>

(* NewRoPETable.  The model is complete.                                   *)
newRoPETable ==
  /\ pc = "bind"
  /\ Len(weights) = Last(cfg)
  /\ LET freqDim == cfg.ropeDim \div 2
     IN  \/ contextSize > MaxInt \div freqDim /\ returns("ops")
         \/ /\ contextSize <= MaxInt \div freqDim
            /\ IF contextSize * freqDim * 4 > MaxAlloc
               THEN returns("panic")
               ELSE pc' = "model" /\ UNCHANGED result
  /\ UNCHANGED <<intSize, meta, contextSize, cfg, weights, session>>

-----------------------------------------------------------------------------
(* The sessions.                                                           *)

larger(x, y) == IF x > y THEN x ELSE y

maxAct == larger(cfg.hidden, larger(cfg.queryWidth, cfg.ffn))

NoSession ==
  [f \in {"hidden", "norm", "q", "k", "v", "attn", "proj", "gate", "up", "logits",
          "scores", "keys", "values", "q8"} |-> 0]

(* The slices of NewSession; keys and values are those of one layer.       *)
slices ==
  LET cache == asInt(cfg.kvHeads * contextSize * cfg.headDim)
  IN  [NoSession EXCEPT
         !.hidden = cfg.hidden, !.norm = cfg.hidden, !.proj = cfg.hidden,
         !.q = cfg.queryWidth, !.attn = cfg.queryWidth,
         !.k = cfg.kvWidth, !.v = cfg.kvWidth,
         !.gate = cfg.ffn, !.up = cfg.ffn,
         !.logits = vocab, !.scores = contextSize,
         !.keys = cache, !.values = cache,
         !.q8 = maxAct]

(* The bytes the slices of a session take.                                 *)
Allocated(s) ==
    (s.keys + s.values) * 2 * cfg.layers
  + (s.hidden + s.norm + s.q + s.k + s.v + s.attn + s.proj + s.gate + s.up
       + s.logits + s.scores) * 4
  + (s.q8 \div BlockSize) * 4 + s.q8 + (s.q8 \div BlockSize) * Groups * 2

(* f32 of SessionBytes.                                                    *)
f32(n) == (asWord(n) * 4) % WordSize

(* Mutant: the projection is forgotten.                                    *)
SessionBytes_noProj ==
  (  kvBytes(contextSize).bytes
   + f32(asInt(cfg.hidden * 2)) + f32(asInt(cfg.queryWidth * 2)) + f32(asInt(cfg.kvWidth * 2))
   + f32(asInt(cfg.ffn * 2)) + f32(vocab) + f32(contextSize)
   + f32(maxAct \div BlockSize) + maxAct + asWord((maxAct \div BlockSize) * Groups * 2))
  % WordSize

SessionBytes ==
  (  kvBytes(contextSize).bytes
   + f32(asInt(cfg.hidden * 2)) + f32(asInt(cfg.queryWidth * 2)) + f32(asInt(cfg.kvWidth * 2))
   + f32(cfg.hidden) + f32(asInt(cfg.ffn * 2)) + f32(vocab) + f32(contextSize)
   + f32(maxAct \div BlockSize) + maxAct + asWord((maxAct \div BlockSize) * Groups * 2))
  % WordSize

(* NewSession with newKVCache: the caches of every layer first.            *)
newSession ==
  /\ pc = "model"
  /\ \/ /\ \/ ~kvBytes(contextSize).ok
           \/ (contextSize * cfg.headDim * cfg.kvHeads) % WordSize > MaxInt
        /\ returns("ErrContextLimit")
        /\ UNCHANGED session
     \/ /\ kvBytes(contextSize).ok
        /\ (contextSize * cfg.headDim * cfg.kvHeads) % WordSize <= MaxInt
        /\ IF Allocated(slices) > MaxAlloc
           THEN returns("panic") /\ UNCHANGED session
           ELSE session' = slices /\ returns("ok")
  /\ UNCHANGED <<intSize, meta, contextSize, cfg, weights>>

-----------------------------------------------------------------------------

Init ==
  /\ intSize \in IntSizes
  /\ meta \in Metas
  /\ contextSize \in Contexts
  /\ pc = "config"
  /\ cfg = NoConfig
  /\ weights = <<>>
  /\ session = NoSession
  /\ result = "none"

Next == newConfig \/ plan \/ bind \/ newRoPETable \/ newSession

Spec == Init /\ [][Next]_vars

-----------------------------------------------------------------------------
(* What Forward asks of a model and its session.                           *)

tensor(r, l) == weights[CHOOSE i \in 1..Last(cfg) :
                          /\ role(i) = r
                          /\ i > Len(HeadOrder) =>
                               (i - Len(HeadOrder) - 1) \div Len(LayerOrder) = l]

(* View, QuantizeQ8K and MatVecQ8K: from a vector of n to one of out.      *)
Product(m, n, out) ==
  /\ n > 0 /\ n % BlockSize = 0 /\ n <= session.q8
  /\ m.kind \in {"Q4K", "Q6K"} /\ validates(m)
  /\ out = m.rows /\ n = m.cols

(* RMSNorm of n values.                                                    *)
Norm(w, n) == w.cols = n /\ n > 0

(* RMSNormHeads and RoPETable.Apply: their checks, and their slices.       *)
PerHead(w, n, heads) ==
  /\ w.cols = cfg.headDim
  /\ n = asInt(heads * cfg.headDim) /\ heads * cfg.headDim <= n

(* One layer, with the cached rows and the scores of every position.       *)
LayerRuns(l) ==
  LET s == session
  IN  /\ Norm(tensor("attnNorm", l), s.hidden) /\ s.norm = s.hidden
      /\ Product(tensor("q", l), s.norm, s.q)
      /\ Product(tensor("k", l), s.norm, s.k)
      /\ Product(tensor("v", l), s.norm, s.v)
      /\ PerHead(tensor("qNorm", l), s.q, cfg.queryHeads)
      /\ PerHead(tensor("kNorm", l), s.k, cfg.kvHeads)
      /\ cfg.kvHeads * contextSize * cfg.headDim <= s.keys
      /\ cfg.kvHeads * contextSize * cfg.headDim <= s.values
      /\ cfg.queryHeads * cfg.headDim <= s.attn /\ s.v = s.k
      /\ cfg.queryHeads % cfg.kvHeads = 0
      /\ contextSize <= s.scores
      /\ Product(tensor("attnOut", l), s.attn, s.proj) /\ s.proj = s.hidden
      /\ Norm(tensor("ffnNorm", l), s.hidden)
      /\ Product(tensor("gate", l), s.norm, s.gate)
      /\ Product(tensor("up", l), s.norm, s.up) /\ s.up = s.gate
      /\ Product(tensor("down", l), s.gate, s.proj)

(* Forward on any token of the vocabulary, at any position.                *)
Evaluates ==
  /\ validates(tensor("embedding", 0)) /\ tensor("embedding", 0).rows >= vocab
  /\ tensor("embedding", 0).cols = session.hidden
  /\ \A l \in 0..cfg.layers-1 : LayerRuns(l)
  /\ Norm(tensor("outputNorm", 0), session.hidden)
  /\ Product(tensor("output", 0), session.norm, session.logits)

-----------------------------------------------------------------------------
(* Properties.                                                             *)

opened == pc = "model" \/ result = "ok"

TypeOK ==
  /\ contextSize \in 0..MaxInt
  /\ pc \in {"config", "plan", "bind", "model", "done"}
  /\ \A f \in DOMAIN NoConfig : cfg[f] \in (-MaxInt-1)..MaxInt
  /\ \A i \in DOMAIN weights : weights[i].cols \in 1..MaxInt /\ weights[i].rows \in 1..MaxInt
  /\ \A f \in DOMAIN NoSession : session[f] \in 0..MaxInt
  /\ result \in {"none", "ErrInvalidMetadata", "ErrUnsupportedModel", "ErrContextLimit",
                 "ErrInvalidWeights", "ops", "panic", "ok"}

(***************************************************************************)
(* Every row a product or a lookup may slice out of a bound matrix is in   *)
(* its data, in the numbers themselves and not in int, though the bytes of *)
(* a row and the size of a tensor wrap (matrix.go:24-66, weights.go:36-71).*)
(***************************************************************************)
RowsInData ==
  opened => \A i \in DOMAIN weights :
    LET m == weights[i]
    IN  m.rows * ((m.cols \div Encoding(m.kind).values) * Encoding(m.kind).bytes) <= m.size

(***************************************************************************)
(* "SessionBytes returns the exact per-session payload in bytes"           *)
(* (model.go:81-82): of every session that can be allocated, although the  *)
(* terms of the sum are computed from the configuration and wrap.          *)
(***************************************************************************)
PlanIsExact == result = "ok" => SessionBytes = Allocated(session)

(* All heads together are as wide as an int can say.                       *)
WidthsFit == cfg.queryHeads * cfg.headDim <= MaxInt

Quantized ==
  \A i \in 2..Len(weights) : role(i) \in Matrices => weights[i].kind \in {"Q4K", "Q6K"}

(***************************************************************************)
(* A quantised model that opens evaluates: no operator refuses a length    *)
(* and no slice ends outside its array, for any shape of file that passed  *)
(* the checks (forward.go:16-137 against config.go, weights.go and         *)
(* NewSession).                                                            *)
(***************************************************************************)
OpenedEvaluates == result = "ok" /\ WidthsFit /\ Quantized => Evaluates

(***************************************************************************)
(* "Missing tensors, shape mismatches and unsupported encodings are        *)
(* rejected" (weights.go:37-38): what Open accepts, Forward can use.       *)
(***************************************************************************)
UnsupportedIsRejected == result = "ok" /\ WidthsFit => Evaluates
=============================================================================
