--------------------------- MODULE BindingProofs ---------------------------
(***************************************************************************)
(* Proofs about Binding, for any file, any platform, and any size of an    *)
(* int and of a uint64.                                                    *)
(***************************************************************************)
EXTENDS Binding, TLAPS

-----------------------------------------------------------------------------
(* The inductive invariant.                                                *)

Bounds == [kind : {"F32", "Q4K", "Q6K"}, cols : Int, rows : Int, size : Nat]

(* Past NewConfig the numbers of the configuration are positive ints; the  *)
(* two widths are products that may have wrapped.                          *)
Configured ==
  pc \in {"plan", "bind", "model"} \/ result = "ok" =>
    /\ \A f \in {"layers", "hidden", "ffn", "queryHeads", "kvHeads", "headDim",
                 "contextLength"} : cfg[f] \in 1..MaxInt
    /\ cfg.queryHeads % cfg.kvHeads = 0
    /\ cfg.ropeDim % 2 = 0 /\ cfg.ropeDim > 0
    /\ cfg.queryWidth = asInt(cfg.queryHeads * cfg.headDim)
    /\ cfg.kvWidth = asInt(cfg.kvHeads * cfg.headDim)

(* Past the plan the context is in range and its cache is a word.          *)
Planned ==
  pc \in {"bind", "model"} \/ result = "ok" =>
    contextSize \in 1..cfg.contextLength /\ multiples /\ kvBytes(contextSize).ok

(* A bound tensor has the shape of its role: a matrix that was validated,  *)
(* or a vector whose floats could be allocated.                            *)
Bound(i) ==
  LET m == weights[i]
      w == wanted(role(i), cfg, vocab)
  IN  /\ m.cols = w[1] /\ m.cols \in 1..MaxInt /\ m.rows \in 1..MaxInt
      /\ role(i) \in Matrices => m.rows = w[2] /\ validates(m)
      /\ role(i) \notin Matrices =>
           m.kind = "F32" /\ m.rows = 1 /\ m.size = m.cols * 4 /\ m.size <= MaxAlloc

AllBound ==
  /\ weights \in Seq(Bounds)
  /\ \A i \in DOMAIN weights : Bound(i)
  /\ pc \in {"config", "plan"} => weights = <<>>
  /\ opened => Len(weights) = Last(cfg)

(* A session is what newSession could allocate.                            *)
Opened ==
  IF result = "ok"
  THEN /\ pc = "done"
       /\ session = slices
       /\ Allocated(slices) <= MaxAlloc
       /\ (contextSize * cfg.headDim * cfg.kvHeads) % WordSize <= MaxInt
  ELSE session = NoSession

BindingInv ==
  /\ intSize \in IntSizes
  /\ meta \in Metas
  /\ TypeOK
  /\ Configured
  /\ Planned
  /\ AllBound
  /\ Opened

-----------------------------------------------------------------------------
(* Integers of a size that is a constant, and words of another.            *)

(* An int is the smaller, and what can be allocated fits one.              *)
LEMMA Sizes ==
  ASSUME intSize \in IntSizes
  PROVE  /\ intSize \in Nat \ {0} /\ WordSize \in Nat \ {0} /\ WordSize % intSize = 0
         /\ MaxInt \in Nat /\ intSize = 2 * MaxInt + 2 /\ MaxInt < WordSize
         /\ MaxAlloc \in 0..MaxInt /\ Default \in 1..MaxInt /\ FileSize \in 0..MaxInt
         /\ Contexts \subseteq 0..MaxInt
<1>1. /\ intSize \in Nat \ {0} /\ intSize % 2 = 0 /\ WordSize % intSize = 0
      /\ WordSize \in Nat \ {0}
  BY BindingAssumption
<1>2. MaxInt \in Nat /\ intSize = 2 * MaxInt + 2
  BY <1>1, SMT DEF MaxInt
<1>3. ~(WordSize < intSize)
  <2> SUFFICES ASSUME WordSize < intSize PROVE FALSE
    OBVIOUS
  <2>1. WordSize % intSize = WordSize
    BY <1>1, SMT
  <2> QED
    BY <1>1, <2>1
<1>4. /\ MaxAlloc \in 0..MaxInt /\ Default \in 1..MaxInt /\ FileSize \in 0..MaxInt
      /\ Contexts \subseteq 0..MaxInt
  BY BindingAssumption DEF MaxInt
<1> QED
  BY <1>1, <1>2, <1>3, <1>4

(* A number that an int or a word holds is not changed.                    *)
LEMMA NoWrap ==
  ASSUME intSize \in IntSizes
  PROVE  /\ \A x \in 0..MaxInt : asInt(x) = x
         /\ \A x \in 0..WordSize-1 : x % WordSize = x
         /\ \A x \in 0..MaxInt : asWord(x) = x
<1>1. /\ intSize \in Nat /\ WordSize \in Nat /\ MaxInt \in Nat
      /\ MaxInt < intSize /\ MaxInt < WordSize
  BY Sizes
<1>2. ASSUME NEW w \in Nat, NEW x \in 0..w-1 PROVE x % w = x
  BY <1>2, SMT
<1>3. \A x \in 0..MaxInt : x \in 0..intSize-1 /\ x \in 0..WordSize-1
  BY <1>1
<1>4. \A x \in 0..MaxInt : x % intSize = x /\ x % WordSize = x
  BY <1>1, <1>2, <1>3
<1>5. \A x \in 0..MaxInt : asInt(x) = x
  BY <1>1, <1>4 DEF asInt
<1> QED
  BY <1>1, <1>2, <1>4, <1>5 DEF asWord

(* The int of any natural number is an int.                                *)
LEMMA AsIntRange ==
  ASSUME intSize \in IntSizes, NEW x \in Nat
  PROVE  asInt(x) \in (-MaxInt-1)..MaxInt
<1>1. /\ intSize \in Nat \ {0} /\ MaxInt \in Nat /\ intSize = 2 * MaxInt + 2
  BY Sizes
<1>2. x % intSize \in 0..intSize-1
  BY <1>1, SMT
<1> QED
  BY <1>1, <1>2 DEF asInt

-----------------------------------------------------------------------------
(* The roles of tensors, and their encodings.                              *)

(* A block takes at least four bytes, and no more than it has values.      *)
LEMMA EncodingTyped ==
  ASSUME NEW kind
  PROVE  /\ Encoding(kind).bytes \in Nat \ {0} /\ Encoding(kind).values \in Nat \ {0}
         /\ Encoding(kind).bytes >= 4
         /\ kind = "F32" => Encoding(kind).bytes = 4 /\ Encoding(kind).values = 1
         /\ kind # "F32" => /\ Encoding(kind).values = BlockSize
                            /\ Encoding(kind).bytes <= BlockSize
<1>1. /\ BlockSize \in Nat \ {0} /\ Q4KTypeSize \in 4..BlockSize /\ Q6KTypeSize \in 4..BlockSize
  BY BindingAssumption
<1>2. CASE kind = "F32"
  <2>1. Encoding(kind) = [bytes |-> 4, values |-> 1]
    BY <1>2, Zenon DEF Encoding
  <2> QED
    BY <1>2, <2>1
<1>3. CASE kind = "Q4K"
  <2>1. Encoding(kind) = [bytes |-> Q4KTypeSize, values |-> BlockSize]
    BY <1>3, Zenon DEF Encoding
  <2> QED
    BY <1>1, <1>3, <2>1
<1>4. CASE kind # "F32" /\ kind # "Q4K"
  <2>1. Encoding(kind) = [bytes |-> Q6KTypeSize, values |-> BlockSize]
    BY <1>4, Zenon DEF Encoding
  <2> QED
    BY <1>1, <1>4, <2>1
<1> QED
  BY <1>2, <1>3, <1>4

(* A matrix is wanted with two dimensions, a vector with one.              *)
LEMMA WantedLengths ==
  ASSUME NEW r, NEW c, NEW v
  PROVE  /\ r \in Matrices => Len(wanted(r, c, v)) = 2
         /\ r \notin Matrices =>
              wanted(r, c, v) = IF r \in {"qNorm", "kNorm"} THEN <<c.headDim>> ELSE <<c.hidden>>
<1>1. CASE r \in {"embedding", "output"}
  <2>1. wanted(r, c, v) = <<c.hidden, v>>
    BY <1>1, Zenon DEF wanted
  <2> QED
    BY <1>1, <2>1 DEF Matrices
<1>2. CASE r = "q"
  <2>1. wanted(r, c, v) = <<c.hidden, c.queryWidth>>
    BY <1>2, Zenon DEF wanted
  <2> QED
    BY <1>2, <2>1 DEF Matrices
<1>3. CASE r \in {"k", "v"}
  <2>1. wanted(r, c, v) = <<c.hidden, c.kvWidth>>
    BY <1>3, Zenon DEF wanted
  <2> QED
    BY <1>3, <2>1 DEF Matrices
<1>4. CASE r = "attnOut"
  <2>1. wanted(r, c, v) = <<c.queryWidth, c.hidden>>
    BY <1>4, Zenon DEF wanted
  <2> QED
    BY <1>4, <2>1 DEF Matrices
<1>5. CASE r \in {"gate", "up"}
  <2>1. wanted(r, c, v) = <<c.hidden, c.ffn>>
    BY <1>5, Zenon DEF wanted
  <2> QED
    BY <1>5, <2>1 DEF Matrices
<1>6. CASE r = "down"
  <2>1. wanted(r, c, v) = <<c.ffn, c.hidden>>
    BY <1>6, Zenon DEF wanted
  <2> QED
    BY <1>6, <2>1 DEF Matrices
<1>7. CASE r \notin Matrices
  <2>1. CASE r \in {"qNorm", "kNorm"}
    BY <1>7, <2>1, Zenon DEF wanted, Matrices
  <2>2. CASE r \notin {"qNorm", "kNorm"}
    <3>1. /\ r \notin {"embedding", "output"} /\ r # "q" /\ r \notin {"k", "v"}
          /\ r # "attnOut" /\ r \notin {"gate", "up"} /\ r # "down"
      BY <1>7 DEF Matrices
    <3>2. wanted(r, c, v) = <<c.hidden>>
      BY <2>2, <3>1, Zenon DEF wanted
    <3> QED
      BY <1>7, <2>2, <3>2
  <2> QED
    BY <1>7, <2>1, <2>2
<1> QED
  BY <1>1, <1>2, <1>3, <1>4, <1>5, <1>6, <1>7 DEF Matrices

(* What is said of a tensor does not change while the platform does not.   *)
LEMMA Unmoved ==
  ASSUME intSize' = intSize
  PROVE  /\ MaxInt' = MaxInt
         /\ \A m : validates(m)' <=> validates(m)
         /\ \A x : asInt(x)' = asInt(x)
<1>1. MaxInt' = MaxInt
  BY DEF MaxInt
<1>2. \A x : asInt(x)' = asInt(x)
  BY <1>1 DEF asInt
<1>3. \A m : rowBytes(m)' = rowBytes(m)
  BY <1>2 DEF rowBytes
<1>4. \A m : validates(m)' <=> validates(m)
  BY <1>1, <1>3 DEF validates
<1> QED
  BY <1>1, <1>2, <1>4

-----------------------------------------------------------------------------
(* The configuration and the plan.                                         *)

Fields == {"layers", "hidden", "ffn", "queryHeads", "kvHeads", "headDim", "ropeDim",
           "contextLength", "queryWidth", "kvWidth"}

(* A configuration has these fields.                                       *)
LEMMA ConfigFields == DOMAIN NoConfig = Fields
BY DEF NoConfig, Fields

(* Nothing is read, bound or allocated at first.                           *)
LEMMA InitBinding ==
  ASSUME Init
  PROVE  BindingInv
<1>1. /\ intSize \in IntSizes /\ meta \in Metas /\ contextSize \in Contexts /\ pc = "config"
      /\ cfg = NoConfig /\ weights = <<>> /\ session = NoSession /\ result = "none"
  BY DEF Init
<1>2. MaxInt \in Nat /\ contextSize \in 0..MaxInt
  BY <1>1, Sizes
<1>3. Configured /\ Planned /\ Opened
  BY <1>1 DEF Configured, Planned, Opened
<1>4. AllBound
  BY <1>1 DEF AllBound, opened
<1>5. \A f \in Fields : cfg[f] \in (-MaxInt-1)..MaxInt
  BY <1>1, <1>2 DEF Fields, NoConfig
<1>6. \A f \in DOMAIN NoSession : session[f] \in 0..MaxInt
  BY <1>1, <1>2 DEF NoSession
<1>7. TypeOK
  BY <1>1, <1>2, <1>5, <1>6, ConfigFields DEF TypeOK
<1> QED
  BY <1>1, <1>3, <1>4, <1>7 DEF BindingInv

(* What is in the metadata under a key.                                    *)
LEMMA MetaTyped ==
  ASSUME meta \in Metas, NEW key \in Required \cup Optional
  PROVE  meta[key] \in Int /\ (given(key) => meta[key] \in 0..WordSize-1)
<1>1. meta[key] \in {Absent, NotUint} \cup 0..WordSize-1 /\ WordSize \in Nat
  BY BindingAssumption
<1> QED
  BY <1>1 DEF Absent, NotUint, given

(* What is read is a configuration of ints (config.go:31-104).             *)
LEMMA ConfigTyped ==
  ASSUME intSize \in IntSizes, meta \in Metas, \A key \in Required : requiredInt(key)
  PROVE  /\ \A f \in Fields : config[f] \in (-MaxInt-1)..MaxInt
         /\ \A f \in {"layers", "hidden", "ffn", "queryHeads", "kvHeads", "headDim",
                      "contextLength"} : config[f] \in 0..MaxInt
         /\ config.queryWidth = asInt(config.queryHeads * config.headDim)
         /\ config.kvWidth = asInt(config.kvHeads * config.headDim)
<1>1. MaxInt \in Nat
  BY Sizes
<1>2. \A key \in Required : meta[key] \in 0..MaxInt
  <2> TAKE key \in Required
  <2>1. meta[key] \in Int
    BY MetaTyped
  <2> QED
    BY <1>1, <2>1 DEF requiredInt, given
<1>3. /\ config.layers = meta["block_count"] /\ config.hidden = meta["embedding_length"]
      /\ config.ffn = meta["feed_forward_length"] /\ config.queryHeads = meta["head_count"]
      /\ config.kvHeads = meta["head_count_kv"] /\ config.headDim = meta["key_length"]
      /\ config.contextLength = meta["context_length"]
      /\ config.queryWidth = asInt(meta["head_count"] * meta["key_length"])
      /\ config.kvWidth = asInt(meta["head_count_kv"] * meta["key_length"])
      /\ config.ropeDim = IF given("dimension_count") THEN asInt(meta["dimension_count"])
                          ELSE meta["key_length"]
  BY DEF config
<1>4. /\ meta["block_count"] \in 0..MaxInt /\ meta["embedding_length"] \in 0..MaxInt
      /\ meta["feed_forward_length"] \in 0..MaxInt /\ meta["head_count"] \in 0..MaxInt
      /\ meta["head_count_kv"] \in 0..MaxInt /\ meta["key_length"] \in 0..MaxInt
      /\ meta["context_length"] \in 0..MaxInt
  BY <1>2 DEF Required
<1>5. /\ config.queryWidth \in (-MaxInt-1)..MaxInt
      /\ config.kvWidth \in (-MaxInt-1)..MaxInt
  <2>1. \A x, y \in 0..MaxInt : x * y \in Nat
    BY <1>1, SMT
  <2> QED
    BY <1>3, <1>4, <2>1, AsIntRange
<1>6. config.ropeDim \in (-MaxInt-1)..MaxInt
  <2>1. CASE given("dimension_count")
    <3>1. meta["dimension_count"] \in Nat
      BY <2>1, MetaTyped, Sizes DEF Optional
    <3> QED
      BY <1>3, <2>1, <3>1, AsIntRange
  <2>2. CASE ~given("dimension_count")
    BY <1>1, <1>3, <1>4, <2>2
  <2> QED
    BY <2>1, <2>2
<1>7. \A f \in {"layers", "hidden", "ffn", "queryHeads", "kvHeads", "headDim",
                "contextLength"} : config[f] \in 0..MaxInt
  BY <1>3, <1>4
<1>8. \A f \in Fields : config[f] \in (-MaxInt-1)..MaxInt
  BY <1>1, <1>5, <1>6, <1>7 DEF Fields
<1> QED
  BY <1>3, <1>7, <1>8

(* The tensors that are bound stay bound.                                  *)
LEMMA BoundKept ==
  ASSUME \A i \in DOMAIN weights : Bound(i), UNCHANGED <<intSize, cfg, weights>>
  PROVE  \A i \in DOMAIN weights : Bound(i)'
<1>1. vocab' = vocab
  BY DEF vocab
<1>2. MaxInt' = MaxInt /\ \A m : validates(m)' <=> validates(m)
  BY Unmoved
<1>3. TAKE i \in DOMAIN weights
<1>4. Bound(i)
  OBVIOUS
<1> QED
  BY <1>1, <1>2, <1>4 DEF Bound

Refusals == {"ErrInvalidMetadata", "ErrUnsupportedModel", "ErrContextLimit",
             "ErrInvalidWeights", "ops", "panic"}

(* A stage that fails ends the opening and leaves what there is.           *)
LEMMA RefusedStep ==
  ASSUME BindingInv, pc # "done", pc' = "done", result' \in Refusals,
         contextSize' \in 0..MaxInt,
         UNCHANGED <<intSize, meta, cfg, weights, session>>
  PROVE  BindingInv'
<1> USE DEF BindingInv
<1>1. result' # "ok" /\ result # "ok"
  BY DEF Refusals, Opened
<1>2. intSize' \in IntSizes /\ meta' \in Metas
  OBVIOUS
<1>3. Configured' /\ Planned' /\ Opened'
  BY <1>1 DEF Configured, Planned, Opened
<1>4. \A i \in DOMAIN weights : Bound(i)'
  BY BoundKept DEF AllBound
<1>5. AllBound'
  BY <1>1, <1>4 DEF AllBound, opened
<1>6. MaxInt' = MaxInt
  BY DEF MaxInt
<1>7. \A f \in Fields : cfg'[f] \in (-MaxInt'-1)..MaxInt'
  BY <1>6 DEF TypeOK, NoConfig, Fields
<1>8. \A f \in DOMAIN NoSession : session'[f] \in 0..MaxInt'
  BY <1>6 DEF TypeOK
<1>9. result' \in {"none", "ErrInvalidMetadata", "ErrUnsupportedModel", "ErrContextLimit",
                   "ErrInvalidWeights", "ops", "panic", "ok"}
  BY DEF Refusals
<1>10. \A i \in DOMAIN weights' : weights'[i].cols \in 1..MaxInt' /\ weights'[i].rows \in 1..MaxInt'
  BY <1>4 DEF Bound
<1>11. TypeOK'
  BY <1>6, <1>7, <1>8, <1>9, <1>10, ConfigFields DEF TypeOK
<1> QED
  BY <1>2, <1>3, <1>5, <1>11

(* A stage that succeeds goes on with the next one.                        *)
LEMMA PassedStep ==
  ASSUME BindingInv, pc # "done", pc' \in {"plan", "bind", "model"}, UNCHANGED result,
         contextSize' \in 0..MaxInt,
         \A f \in Fields : cfg'[f] \in (-MaxInt-1)..MaxInt,
         Configured', Planned', AllBound',
         UNCHANGED <<intSize, meta, session>>
  PROVE  BindingInv'
<1> USE DEF BindingInv
<1>1. result # "ok" /\ session = NoSession
  BY DEF Opened
<1>2. Opened'
  BY <1>1 DEF Opened
<1>3. MaxInt' = MaxInt
  BY DEF MaxInt
<1>4. \A f \in DOMAIN NoSession : session'[f] \in 0..MaxInt'
  BY <1>3 DEF TypeOK
<1>5. result' \in {"none", "ErrInvalidMetadata", "ErrUnsupportedModel", "ErrContextLimit",
                   "ErrInvalidWeights", "ops", "panic", "ok"}
  BY DEF TypeOK
<1>6. \A i \in DOMAIN weights' : weights'[i].cols \in 1..MaxInt' /\ weights'[i].rows \in 1..MaxInt'
  BY DEF AllBound, Bound
<1>7. TypeOK'
  BY <1>3, <1>4, <1>5, <1>6, ConfigFields DEF TypeOK
<1> QED
  BY <1>2, <1>7

(* NewConfig (config.go:31-134).                                           *)
LEMMA NewConfigStep ==
  ASSUME BindingInv, newConfig
  PROVE  BindingInv'
<1> USE DEF BindingInv
<1>1. /\ pc = "config" /\ UNCHANGED <<intSize, meta, contextSize, weights, session>>
      /\ contextSize' \in 0..MaxInt
  BY DEF newConfig, TypeOK
<1>2. CASE pc' = "done" /\ result' \in Refusals /\ UNCHANGED cfg
  BY <1>1, <1>2, RefusedStep
<1>3. CASE /\ \A key \in Required : requiredInt(key)
           /\ valid(config) /\ cfg' = config /\ pc' = "plan" /\ UNCHANGED result
  <2>1. /\ \A f \in Fields : config[f] \in (-MaxInt-1)..MaxInt
        /\ \A f \in {"layers", "hidden", "ffn", "queryHeads", "kvHeads", "headDim",
                     "contextLength"} : config[f] \in 0..MaxInt
        /\ config.queryWidth = asInt(config.queryHeads * config.headDim)
        /\ config.kvWidth = asInt(config.kvHeads * config.headDim)
    BY <1>3, ConfigTyped
  <2>2. MaxInt' = MaxInt /\ MaxInt \in Nat /\ \A x : asInt(x)' = asInt(x)
    BY <1>1, Unmoved, Sizes
  <2>3. \A f \in {"layers", "hidden", "ffn", "queryHeads", "kvHeads", "headDim",
                  "contextLength"} : config[f] \in 1..MaxInt
    BY <1>3, <2>1, <2>2 DEF valid
  <2>4. config.queryHeads % config.kvHeads = 0 /\ config.ropeDim % 2 = 0 /\ config.ropeDim > 0
    BY <1>3 DEF valid
  <2>5. Configured'
    BY <1>3, <2>1, <2>2, <2>3, <2>4 DEF Configured
  <2>6. Planned'
    BY <1>1, <1>3 DEF Planned, Opened
  <2>7. result # "ok" /\ weights' = <<>>
    BY <1>1 DEF AllBound, Opened
  <2>8. AllBound'
    BY <1>3, <2>7 DEF AllBound, opened
  <2> QED
    BY <1>1, <1>3, <2>1, <2>5, <2>6, <2>8, PassedStep
<1> QED
  BY <1>1, <1>2, <1>3 DEF newConfig, returns, Refusals

(* NewModel up to BindWeights (model.go:36-63).                            *)
LEMMA PlanStep ==
  ASSUME BindingInv, plan
  PROVE  BindingInv'
<1> USE DEF BindingInv
<1> DEFINE n == IF contextSize = 0 THEN Default ELSE contextSize
<1>1. pc = "plan" /\ contextSize' = n /\ UNCHANGED <<intSize, meta, cfg, weights, session>>
  BY DEF plan
<1>2. MaxInt \in Nat /\ contextSize \in 0..MaxInt /\ Default \in 1..MaxInt
  BY Sizes DEF TypeOK
<1>3. n \in 1..MaxInt /\ n \in 0..MaxInt
  BY <1>2
<1>4. CASE pc' = "done" /\ result' \in Refusals
  BY <1>1, <1>3, <1>4, RefusedStep
<1>5. CASE n <= cfg.contextLength /\ multiples /\ kvBytes(n).ok /\ pc' = "bind" /\ UNCHANGED result
  <2>1. MaxInt' = MaxInt /\ \A x : asInt(x)' = asInt(x)
    BY <1>1, Unmoved
  <2>2. Configured /\ result # "ok"
    BY <1>1 DEF Opened
  <2>3. Configured'
    BY <1>1, <1>5, <2>1, <2>2 DEF Configured
  <2>4. cfg.contextLength \in 1..MaxInt
    BY <1>1 DEF Configured
  <2>5. multiples'
    BY <1>1, <1>5 DEF multiples
  <2>6. kvBytes(n)' = kvBytes(n)
    BY <1>1 DEF kvBytes, mulOverflows
  <2>7. contextSize' \in 1..cfg'.contextLength
    BY <1>1, <1>2, <1>3, <1>5, <2>4
  <2>8. kvBytes(contextSize)'.ok
    BY <1>1, <1>5 DEF kvBytes, mulOverflows
  <2>9. Planned'
    BY <2>5, <2>7, <2>8 DEF Planned
  <2>10. weights' = <<>>
    BY <1>1 DEF AllBound
  <2>11. AllBound'
    BY <1>5, <2>2, <2>10 DEF AllBound, opened
  <2>12. \A f \in Fields : cfg'[f] \in (-MaxInt-1)..MaxInt
    BY <1>1, ConfigFields DEF TypeOK
  <2> QED
    BY <1>1, <1>3, <1>5, <2>3, <2>9, <2>11, <2>12, PassedStep
<1> QED
  BY <1>4, <1>5 DEF plan, returns, Refusals

-----------------------------------------------------------------------------
(* The tensors.                                                            *)

(* A tensor of a file has at most two dimensions, and a size.              *)
LEMMA TensorTyped ==
  ASSUME NEW t \in Tensors
  PROVE  /\ t.kind \in Kinds
         /\ Len(t.shape) \in {0, 1, 2}
         /\ \A d \in 1..Len(t.shape) : t.shape[d] \in 0..WordSize-1
         /\ DOMAIN t.shape = 1..Len(t.shape)
         /\ TensorSize(t.kind, t.shape) \in Nat
<1>1. t.kind \in Kinds /\ t.shape \in Shapes
  BY DEF Tensors
<1>2. Dims \subseteq 0..WordSize-1 /\ WordSize \in Nat \ {0}
  BY BindingAssumption
<1>3. /\ Len(t.shape) \in {0, 1, 2}
      /\ \A d \in 1..Len(t.shape) : t.shape[d] \in 0..WordSize-1
      /\ DOMAIN t.shape = 1..Len(t.shape)
  <2>1. CASE t.shape = <<>>
    BY <2>1
  <2>2. CASE \E d \in Dims : t.shape = <<d>>
    BY <1>2, <2>2
  <2>3. CASE t.shape \in Dims \X Dims
    <3>1. PICK d \in Dims, e \in Dims : t.shape = <<d, e>>
      BY <2>3
    <3> QED
      BY <1>2, <3>1
  <2> QED
    BY <1>1, <2>1, <2>2, <2>3 DEF Shapes
<1>4. Elements(t.shape) \in Nat
  <2>1. CASE Len(t.shape) = 0
    <3>1. t.shape = <<>>
      BY <1>1, <2>1 DEF Shapes
    <3> QED
      BY <3>1 DEF Elements
  <2>2. CASE Len(t.shape) = 1
    BY <1>2, <1>3, <2>2 DEF Elements
  <2>3. CASE Len(t.shape) = 2
    <3>1. t.shape[1] \in Nat /\ t.shape[2] \in Nat
      BY <1>2, <1>3, <2>3
    <3>2. t.shape[1] * t.shape[2] \in Nat
      BY <3>1
    <3>3. (t.shape[1] * t.shape[2]) % WordSize \in Nat
      BY <1>2, <3>2
    <3>4. t.shape # <<>>
      BY <2>3
    <3> QED
      BY <2>3, <3>3, <3>4 DEF Elements
  <2> QED
    BY <1>3, <2>1, <2>2, <2>3
<1>5. Encoding(t.kind).bytes \in Nat \ {0} /\ Encoding(t.kind).values \in Nat \ {0}
  BY EncodingTyped
<1> DEFINE e == Elements(t.shape)
           by == Encoding(t.kind).bytes
           va == Encoding(t.kind).values
<1>6. TensorSize(t.kind, t.shape) = ((e * by) % WordSize) \div va
  BY DEF TensorSize
<1> HIDE DEF e, by, va
<1>7. e \in Nat /\ by \in Nat \ {0} /\ va \in Nat \ {0}
  BY <1>4, <1>5 DEF e, by, va
<1>8. e * by \in Nat
  BY <1>7
<1>9. (e * by) % WordSize \in Nat
  BY <1>2, <1>8
<1>10. ((e * by) % WordSize) \div va \in Nat
  BY <1>7, <1>9
<1> QED
  BY <1>1, <1>3, <1>6, <1>10

(* What is bound for a role is a matrix that was validated or a vector     *)
(* whose floats are there (weights.go:40-92).                              *)
LEMMA FitsBound ==
  ASSUME BindingInv, pc = "bind", NEW r, NEW t \in Tensors \cup {NotFound},
         NEW v, fits(t, r, v), r \notin Matrices => ~(bound(t).cols * 4 > MaxAlloc)
  PROVE  LET m == bound(t)
             w == wanted(r, cfg, v)
         IN  /\ m \in Bounds
             /\ m.cols = w[1] /\ m.cols \in 1..MaxInt /\ m.rows \in 1..MaxInt
             /\ r \in Matrices => m.rows = w[2] /\ validates(m) /\ Len(t.shape) = 2
             /\ r \notin Matrices =>
                  m.kind = "F32" /\ m.rows = 1 /\ m.size = m.cols * 4 /\ m.size <= MaxAlloc
<1> USE DEF BindingInv
<1> DEFINE m == bound(t)
           w == wanted(r, cfg, v)
<1>1. /\ MaxInt \in Nat /\ WordSize \in Nat \ {0} /\ MaxAlloc \in 0..MaxInt
      /\ MaxInt < WordSize
  BY Sizes
<1>2. Len(t.shape) = Len(w) /\ \A d \in DOMAIN t.shape : asInt(t.shape[d]) = w[d]
  BY DEF fits
<1>3. Len(w) = 2 \/ Len(w) = 1
  BY WantedLengths
<1> HIDE DEF m, w
<1>4. t \in Tensors
  <2>1. NotFound.shape = <<>>
    BY DEF NotFound
  <2>2. Len(<<>>) = 0
    OBVIOUS
  <2>3. Len(t.shape) = Len(w)
    BY <1>2
  <2>4. Len(t.shape) # 0
    <3> DEFINE n == Len(t.shape)
    <3> HIDE DEF n
    <3>1. n = 2 \/ n = 1
      BY <1>3, <2>3 DEF n
    <3>2. n # 0
      BY <3>1
    <3> QED
      BY <3>2, Zenon DEF n
  <2> QED
    BY <2>1, <2>2, <2>4
<1>5. /\ Len(t.shape) \in {0, 1, 2}
      /\ \A d \in 1..Len(t.shape) : t.shape[d] \in 0..WordSize-1
      /\ DOMAIN t.shape = 1..Len(t.shape)
      /\ TensorSize(t.kind, t.shape) \in Nat
  BY <1>4, TensorTyped
<1>6. m.cols = w[1] /\ m.cols \in (-MaxInt-1)..MaxInt
  <2> DEFINE n == Len(t.shape)
  <2> HIDE DEF n
  <2>0. n \in {1, 2}
    BY <1>2, <1>3 DEF n
  <2>1. t.shape[1] \in 0..WordSize-1 /\ 1 \in DOMAIN t.shape
    BY <1>5, <2>0 DEF n
  <2>2. asInt(t.shape[1]) = w[1] /\ asInt(t.shape[1]) \in (-MaxInt-1)..MaxInt
    BY <1>1, <1>2, <2>1, AsIntRange
  <2> QED
    BY <2>2 DEF bound, m
<1>7. /\ m.kind = t.kind /\ m.size = TensorSize(t.kind, t.shape)
      /\ m = [kind |-> m.kind, cols |-> m.cols, rows |-> m.rows, size |-> m.size]
  BY DEF bound, m
<1>8. CASE r \in Matrices
  <2>1. m.kind \in {"F32", "Q4K", "Q6K"} /\ validates(m)
    BY <1>7, <1>8 DEF fits, m
  <2>2. Len(t.shape) = 2
    BY <1>2, <1>8, WantedLengths DEF w
  <2>3. t.shape[2] \in Nat /\ 2 \in DOMAIN t.shape
    BY <1>1, <1>5, <2>2
  <2>4. m.rows = asInt(t.shape[2])
    BY <2>2 DEF bound, m
  <2>5. m.rows = w[2] /\ m.rows \in (-MaxInt-1)..MaxInt
    BY <1>2, <2>3, <2>4, AsIntRange
  <2>6. m.rows \in 1..MaxInt /\ m.cols \in 1..MaxInt
    BY <1>1, <1>6, <2>1, <2>5 DEF validates
  <2>7. m \in Bounds
    BY <1>1, <1>5, <1>7, <2>1, <2>6 DEF Bounds
  <2> QED
    BY <1>6, <1>8, <2>1, <2>2, <2>5, <2>6, <2>7 DEF m, w
<1>9. CASE r \notin Matrices
  <2>1. m.kind = "F32" /\ TensorSize(t.kind, t.shape) = asWord(asInt(m.cols * 4))
    BY <1>7, <1>9 DEF fits, m
  <2>2. w = IF r \in {"qNorm", "kNorm"} THEN <<cfg.headDim>> ELSE <<cfg.hidden>>
    BY <1>9, WantedLengths DEF w
  <2>3. cfg.headDim \in 1..MaxInt /\ cfg.hidden \in 1..MaxInt
    BY DEF Configured
  <2>4. m.cols \in 1..MaxInt /\ Len(t.shape) = 1
    BY <1>2, <1>6, <2>2, <2>3
  <2>5. m.rows = 1
    BY <2>4 DEF bound, m
  <2>6. m.cols * 4 \in 0..MaxInt /\ m.cols * 4 <= MaxAlloc
    <3>1. ~(m.cols * 4 > MaxAlloc)
      BY <1>9 DEF m
    <3> QED
      BY <1>1, <2>4, <3>1
  <2>7. m.size = m.cols * 4
    BY <1>7, <2>1, <2>6, NoWrap
  <2>8. m.rows \in 1..MaxInt
    BY <1>1, <2>4, <2>5
  <2>9. m \in Bounds
    BY <1>1, <1>7, <2>1, <2>4, <2>5, <2>6, <2>7 DEF Bounds
  <2> QED
    BY <1>6, <1>9, <2>1, <2>4, <2>5, <2>6, <2>7, <2>8, <2>9 DEF m, w
<1> QED
  BY <1>8, <1>9 DEF m, w

(* One more tensor that fits.                                              *)
LEMMA AppendBound ==
  ASSUME BindingInv, pc = "bind", NEW t \in Tensors \cup {NotFound},
         fits(t, role(Len(weights) + 1), vocabOf(t)),
         role(Len(weights) + 1) \notin Matrices => ~(bound(t).cols * 4 > MaxAlloc),
         weights' = Append(weights, bound(t)),
         UNCHANGED <<intSize, cfg, pc, result>>
  PROVE  AllBound'
<1> USE DEF BindingInv
<1> SUFFICES ASSUME NEW i, i = Len(weights) + 1 PROVE AllBound'
  OBVIOUS
<1> DEFINE m == bound(t)
           v == vocabOf(t)
           w == wanted(role(i), cfg, v)
<1>1. weights \in Seq(Bounds) /\ \A j \in DOMAIN weights : Bound(j)
  BY DEF AllBound
<1>2. /\ m \in Bounds
      /\ m.cols = w[1] /\ m.cols \in 1..MaxInt /\ m.rows \in 1..MaxInt
      /\ role(i) \in Matrices => m.rows = w[2] /\ validates(m)
      /\ role(i) \notin Matrices =>
           m.kind = "F32" /\ m.rows = 1 /\ m.size = m.cols * 4 /\ m.size <= MaxAlloc
  BY FitsBound
<1> HIDE DEF m
<1>3. /\ weights' = Append(weights, m)
      /\ weights' \in Seq(Bounds) /\ DOMAIN weights' = 1..i /\ weights'[i] = m
      /\ DOMAIN weights = 1..Len(weights) /\ Len(weights) \in Nat
      /\ \A j \in 1..Len(weights) : weights'[j] = weights[j]
  BY <1>1, <1>2 DEF m
<1>4. vocab' = v
  <2>1. CASE Len(weights) = 0
    <3>1. i = 1 /\ role(1) = "embedding"
      BY <2>1 DEF role, HeadOrder
    <3>2. w = <<cfg.hidden, v>>
      BY <3>1, Zenon DEF wanted
    <3>3. m.rows = v
      BY <1>2, <3>1, <3>2 DEF Matrices
    <3> QED
      BY <1>3, <3>1, <3>3 DEF vocab
  <2>2. CASE Len(weights) # 0
    <3>1. Len(weights) > 0 /\ 1 \in 1..Len(weights)
      BY <1>3, <2>2
    <3>2. weights'[1] = weights[1]
      BY <1>3, <3>1
    <3> QED
      BY <3>1, <3>2 DEF vocab, vocabOf
  <2> QED
    BY <2>1, <2>2
<1>5. MaxInt' = MaxInt /\ \A x : validates(x)' <=> validates(x)
  BY Unmoved
<1>6. Bound(i)'
  <2>1. wanted(role(i), cfg', vocab') = w
    BY <1>4
  <2>2. weights'[i] = m
    BY <1>3
  <2> QED
    BY <1>2, <1>5, <2>1, <2>2 DEF Bound
<1>7. ASSUME NEW j \in 1..Len(weights) PROVE Bound(j)'
  <2>1. Len(weights) > 0 /\ j \in DOMAIN weights
    BY <1>3
  <2>2. vocab' = vocab
    BY <1>4, <2>1 DEF vocabOf
  <2>3. Bound(j) /\ weights'[j] = weights[j]
    BY <1>1, <1>3, <2>1
  <2> QED
    BY <1>5, <2>2, <2>3 DEF Bound
<1>8. \A j \in DOMAIN weights' : Bound(j)'
  <2>1. \A j \in DOMAIN weights' : j = i \/ j \in 1..Len(weights)
    BY <1>3
  <2> QED
    BY <1>6, <1>7, <2>1
<1>9. ~opened'
  BY DEF opened, Opened
<1> QED
  BY <1>3, <1>8, <1>9 DEF AllBound

(* What a stage that leaves the plan alone keeps of it.                    *)
LEMMA PlanKept ==
  ASSUME BindingInv, pc \in {"bind", "model"},
         pc' \in {"bind", "model"} \/ result' = "ok",
         UNCHANGED <<intSize, contextSize, cfg>>
  PROVE  /\ Configured' /\ Planned'
         /\ contextSize' \in 0..MaxInt
         /\ \A f \in Fields : cfg'[f] \in (-MaxInt-1)..MaxInt
<1> USE DEF BindingInv
<1>1. MaxInt' = MaxInt /\ \A x : asInt(x)' = asInt(x)
  BY Unmoved
<1>2. Configured'
  BY <1>1 DEF Configured
<1>3. kvBytes(contextSize)' = kvBytes(contextSize)
  BY DEF kvBytes, mulOverflows
<1>4. multiples' = multiples
  BY DEF multiples
<1>5. Planned'
  BY <1>3, <1>4 DEF Planned
<1>6. contextSize \in 0..MaxInt /\ \A f \in Fields : cfg[f] \in (-MaxInt-1)..MaxInt
  BY ConfigFields DEF TypeOK
<1> QED
  BY <1>2, <1>5, <1>6

(* The lookup of one tensor (weights.go:95-157).                           *)
LEMMA BindStep ==
  ASSUME BindingInv, bind
  PROVE  BindingInv'
<1> DEFINE i == Len(weights) + 1
           r == role(i)
<1>1. pc = "bind" /\ UNCHANGED <<intSize, meta, contextSize, cfg, session>>
  BY DEF bind
<1>2. contextSize' \in 0..MaxInt
  BY <1>1 DEF BindingInv, TypeOK
<1>3. CASE pc' = "done" /\ result' \in Refusals /\ UNCHANGED weights
  BY <1>1, <1>2, <1>3, RefusedStep
<1>4. CASE \E t \in Tensors \cup {NotFound} :
             /\ fits(t, r, vocabOf(t)) /\ (r \notin Matrices => ~(bound(t).cols * 4 > MaxAlloc))
             /\ weights' = Append(weights, bound(t)) /\ UNCHANGED <<pc, result>>
  <2>1. PICK t \in Tensors \cup {NotFound} :
             /\ fits(t, r, vocabOf(t)) /\ (r \notin Matrices => ~(bound(t).cols * 4 > MaxAlloc))
             /\ weights' = Append(weights, bound(t)) /\ UNCHANGED <<pc, result>>
    BY <1>4
  <2>2. AllBound'
    BY <1>1, <2>1, AppendBound
  <2>3. /\ Configured' /\ Planned'
        /\ \A f \in Fields : cfg'[f] \in (-MaxInt-1)..MaxInt
    BY <1>1, <2>1, PlanKept
  <2> QED
    BY <1>1, <1>2, <2>1, <2>2, <2>3, PassedStep
<1> QED
  BY <1>3, <1>4, Zenon DEF bind, returns, Refusals

(* NewRoPETable; with it the model is complete (model.go:64-79).           *)
LEMMA RoPEStep ==
  ASSUME BindingInv, newRoPETable
  PROVE  BindingInv'
<1>1. /\ pc = "bind" /\ Len(weights) = Last(cfg)
      /\ UNCHANGED <<intSize, meta, contextSize, cfg, weights, session>>
  BY DEF newRoPETable
<1>2. contextSize' \in 0..MaxInt
  BY <1>1 DEF BindingInv, TypeOK
<1>3. CASE pc' = "done" /\ result' \in Refusals
  BY <1>1, <1>2, <1>3, RefusedStep
<1>4. CASE pc' = "model" /\ UNCHANGED result
  <2>1. /\ Configured' /\ Planned'
        /\ \A f \in Fields : cfg'[f] \in (-MaxInt-1)..MaxInt
    BY <1>1, <1>4, PlanKept
  <2>2. \A j \in DOMAIN weights : Bound(j)'
    BY <1>1, BoundKept DEF BindingInv, AllBound
  <2>3. AllBound'
    BY <1>1, <1>4, <2>2 DEF BindingInv, AllBound
  <2> QED
    BY <1>1, <1>2, <1>4, <2>1, <2>3, PassedStep
<1> QED
  BY <1>3, <1>4, Zenon DEF newRoPETable, returns, Refusals

-----------------------------------------------------------------------------
(* The sessions.                                                           *)

(* A product that passed mulU64 is a word (model.go:147-153).              *)
LEMMA MulFits ==
  ASSUME NEW x \in Nat, NEW n \in Nat \ {0}, ~mulOverflows(x, n)
  PROVE  x * n \in 0..WordSize-1
<1>1. WordSize \in Nat \ {0}
  BY BindingAssumption
<1> DEFINE d == (WordSize - 1) \div n
<1>2. x <= d
  BY <1>1 DEF mulOverflows
<1>3. d \in Nat /\ d * n <= WordSize - 1
  BY <1>1, SMT
<1> HIDE DEF d
<1>4. x * n <= d * n /\ x * n \in Nat
  BY <1>2, <1>3, SMT
<1> QED
  BY <1>1, <1>3, <1>4

(* The elements of one layer's keys.                                       *)
Cache == cfg.kvHeads * contextSize * cfg.headDim

(* What kvBytes has checked, and what it returns (kv.go:17-42).            *)
LEMMA KVChecked ==
  ASSUME kvBytes(contextSize).ok
  PROVE  /\ ~mulOverflows(cfg.kvHeads, contextSize)
         /\ ~mulOverflows(cfg.kvHeads * contextSize, cfg.headDim)
         /\ ~mulOverflows(Cache, 2)
         /\ kvBytes(contextSize).bytes = ((Cache * 2 * 2) % WordSize) * cfg.layers
<1> DEFINE n == contextSize
           perHead  == cfg.kvHeads * n
           perCache == perHead * cfg.headDim
           perLayer == perCache * 2
           both     == (perLayer * 2) % WordSize
           bad == \/ n <= 0 \/ n > cfg.contextLength
                  \/ mulOverflows(cfg.kvHeads, n) \/ mulOverflows(perHead, cfg.headDim)
                  \/ mulOverflows(perCache, 2) \/ mulOverflows(both, cfg.layers)
<1>1. kvBytes(n) = IF bad THEN [ok |-> FALSE, bytes |-> 0]
                   ELSE [ok |-> TRUE, bytes |-> both * cfg.layers]
  BY Zenon DEF kvBytes
<1>2. ~bad
  <2> HIDE DEF bad
  <2>1. SUFFICES ASSUME bad PROVE FALSE
    OBVIOUS
  <2>2. kvBytes(n) = [ok |-> FALSE, bytes |-> 0]
    BY <1>1, <2>1
  <2> QED
    BY <2>2
<1>3. kvBytes(n) = [ok |-> TRUE, bytes |-> both * cfg.layers]
  BY <1>1, <1>2, Zenon
<1>4. kvBytes(n).bytes = both * cfg.layers
  BY <1>3
<1> QED
  BY <1>2, <1>4, Zenon DEF Cache

(* When a model is complete, the first layer has shown that the widths are *)
(* positive ints: some matrix has as many rows.                            *)
LEMMA WidthsBound ==
  ASSUME BindingInv, opened
  PROVE  /\ Last(cfg) \in Nat /\ Last(cfg) >= 14
         /\ Len(weights) = Last(cfg) /\ DOMAIN weights = 1..Last(cfg)
         /\ vocab \in 1..MaxInt
         /\ validates(weights[5]) /\ weights[5].rows = cfg.queryWidth
                                  /\ weights[5].cols = cfg.hidden
         /\ cfg.queryWidth \in 1..MaxInt /\ cfg.kvWidth \in 1..MaxInt
         /\ validates(weights[12]) /\ weights[12].rows = cfg.ffn
                                   /\ weights[12].cols = cfg.hidden
<1> USE DEF BindingInv
<1>1. /\ cfg.layers \in 1..MaxInt /\ MaxInt \in Nat
      /\ weights \in Seq(Bounds) /\ Len(weights) = Last(cfg)
      /\ \A i \in DOMAIN weights : Bound(i)
  BY Sizes DEF opened, Configured, AllBound
<1>2. Last(cfg) = 3 + cfg.layers * 11
  BY DEF Last, HeadOrder, LayerOrder
<1>3. Last(cfg) \in Nat /\ Last(cfg) >= 14 /\ DOMAIN weights = 1..Last(cfg)
  BY <1>1, <1>2
<1>4. Bound(1) /\ Bound(5) /\ Bound(6) /\ Bound(12)
  BY <1>1, <1>3
<1>5. role(5) = "q" /\ role(6) = "k" /\ role(12) = "gate"
  BY DEF role, HeadOrder, LayerOrder
<1>6. /\ wanted("q", cfg, vocab) = <<cfg.hidden, cfg.queryWidth>>
      /\ wanted("k", cfg, vocab) = <<cfg.hidden, cfg.kvWidth>>
      /\ wanted("gate", cfg, vocab) = <<cfg.hidden, cfg.ffn>>
  BY Zenon DEF wanted
<1>7. {"q", "k", "gate"} \subseteq Matrices
  BY DEF Matrices
<1>8. vocab \in 1..MaxInt
  BY <1>4 DEF Bound, vocab
<1>9. /\ validates(weights[5]) /\ weights[5].rows = cfg.queryWidth
      /\ weights[5].cols = cfg.hidden /\ weights[5].rows \in 1..MaxInt
  BY <1>4, <1>5, <1>6, <1>7 DEF Bound
<1>10. weights[6].rows = cfg.kvWidth /\ weights[6].rows \in 1..MaxInt
  BY <1>4, <1>5, <1>6, <1>7 DEF Bound
<1>11. validates(weights[12]) /\ weights[12].rows = cfg.ffn /\ weights[12].cols = cfg.hidden
  BY <1>4, <1>5, <1>6, <1>7 DEF Bound
<1> QED
  BY <1>1, <1>3, <1>8, <1>9, <1>10, <1>11

(* The length of a cache is the product of its dimensions, whatever wraps  *)
(* on the way to it (kv.go:52-81).                                         *)
LEMMA CacheExact ==
  ASSUME BindingInv, opened,
         (contextSize * cfg.headDim * cfg.kvHeads) % WordSize <= MaxInt
  PROVE  Cache \in 0..MaxInt /\ asInt(Cache) = Cache
<1> USE DEF BindingInv
<1>1. /\ cfg.kvHeads \in Nat \ {0} /\ cfg.headDim \in Nat \ {0} /\ contextSize \in Nat \ {0}
      /\ kvBytes(contextSize).ok
  <2>1. MaxInt \in Nat
    BY Sizes
  <2>2. /\ cfg.kvHeads \in 1..MaxInt /\ cfg.headDim \in 1..MaxInt
        /\ cfg.contextLength \in 1..MaxInt
    BY DEF Configured, opened
  <2>3. contextSize \in 1..cfg.contextLength /\ kvBytes(contextSize).ok
    BY DEF Planned, opened
  <2> QED
    BY <2>1, <2>2, <2>3
<1>2. ~mulOverflows(cfg.kvHeads * contextSize, cfg.headDim)
  BY <1>1, KVChecked
<1>3. cfg.kvHeads * contextSize \in Nat
  BY <1>1
<1>4. Cache \in 0..WordSize-1
  BY <1>1, <1>2, <1>3, MulFits DEF Cache
<1>5. Cache % WordSize = Cache
  BY <1>4, NoWrap
<1>6. contextSize * cfg.headDim * cfg.kvHeads = Cache
  BY <1>1, SMT DEF Cache
<1>7. Cache <= MaxInt
  BY <1>5, <1>6
<1>8. Cache \in 0..MaxInt
  BY <1>4, <1>7, Sizes
<1> QED
  BY <1>8, NoWrap

(* The lengths of a session's slices, by name.                             *)
LEMMA SliceLengths ==
  /\ slices.hidden = cfg.hidden /\ slices.norm = cfg.hidden /\ slices.proj = cfg.hidden
  /\ slices.q = cfg.queryWidth /\ slices.attn = cfg.queryWidth
  /\ slices.k = cfg.kvWidth /\ slices.v = cfg.kvWidth
  /\ slices.gate = cfg.ffn /\ slices.up = cfg.ffn
  /\ slices.logits = vocab /\ slices.scores = contextSize
  /\ slices.keys = asInt(Cache) /\ slices.values = asInt(Cache)
  /\ slices.q8 = maxAct
BY DEF slices, NoSession, Cache

(* The longest input of a product is the longest of three.                 *)
LEMMA MaxActOf ==
  ASSUME BindingInv, opened
  PROVE  /\ maxAct \in {cfg.hidden, cfg.queryWidth, cfg.ffn}
         /\ maxAct \in 1..MaxInt
         /\ cfg.hidden <= maxAct /\ cfg.queryWidth <= maxAct /\ cfg.ffn <= maxAct
         /\ maxAct % BlockSize = 0
<1>1. /\ cfg.hidden \in 1..MaxInt /\ cfg.ffn \in 1..MaxInt /\ cfg.queryWidth \in 1..MaxInt
      /\ MaxInt \in Nat
  BY WidthsBound, Sizes DEF BindingInv, Configured, opened
<1>2. \A n \in {cfg.hidden, cfg.queryWidth, cfg.ffn} : n % BlockSize = 0
  BY DEF BindingInv, Planned, opened, multiples
<1>3. /\ maxAct \in {cfg.hidden, cfg.queryWidth, cfg.ffn}
      /\ cfg.hidden <= maxAct /\ cfg.queryWidth <= maxAct /\ cfg.ffn <= maxAct
  BY <1>1 DEF maxAct, larger
<1> QED
  BY <1>1, <1>2, <1>3

(* The bytes of the slices, summed up.                                     *)
LEMMA AllocatedSum ==
  ASSUME BindingInv, opened,
         (contextSize * cfg.headDim * cfg.kvHeads) % WordSize <= MaxInt
  PROVE  LET b == maxAct \div BlockSize
             floats == 3 * cfg.hidden + 2 * cfg.queryWidth + 2 * cfg.kvWidth + 2 * cfg.ffn
                       + vocab + contextSize
         IN  /\ Allocated(slices) = 4 * Cache * cfg.layers + floats * 4 + b * 4 + maxAct
                                      + b * Groups * 2
             /\ 4 * Cache * cfg.layers \in Nat /\ floats \in Nat /\ b \in Nat /\ maxAct \in Nat
             /\ b * Groups * 2 \in Nat
             /\ cfg.hidden \in Nat /\ cfg.queryWidth \in Nat /\ cfg.kvWidth \in Nat
             /\ cfg.ffn \in Nat /\ vocab \in Nat /\ contextSize \in Nat
<1> DEFINE b == maxAct \div BlockSize
           c == Cache
           h == cfg.hidden
           q == cfg.queryWidth
           k == cfg.kvWidth
           f == cfg.ffn
           v == vocab
           l == cfg.layers
           n == contextSize
           x == maxAct
<1>1. h \in Nat /\ q \in Nat /\ k \in Nat /\ f \in Nat /\ v \in Nat /\ l \in Nat /\ x \in Nat
  <2>1. MaxInt \in Nat
    BY Sizes DEF BindingInv
  <2>2. h \in 1..MaxInt /\ f \in 1..MaxInt /\ l \in 1..MaxInt
    BY DEF BindingInv, Configured, opened
  <2>3. q \in 1..MaxInt /\ k \in 1..MaxInt /\ v \in 1..MaxInt /\ x \in 1..MaxInt
    BY WidthsBound, MaxActOf
  <2> HIDE DEF h, q, k, f, v, l, x
  <2> QED
    BY <2>1, <2>2, <2>3
<1>2. n \in Nat
  BY Sizes DEF BindingInv, TypeOK
<1>3. c \in Nat /\ asInt(Cache) = c
  BY CacheExact, Sizes DEF BindingInv
<1>4. b \in Nat /\ Groups \in Nat
  BY <1>1, BindingAssumption
<1>5. Allocated(slices) = (c + c) * 2 * l
                          + (h + h + q + k + k + q + h + f + f + v + n) * 4
                          + b * 4 + x + b * Groups * 2
  BY <1>3, SliceLengths, Zenon DEF Allocated
<1> HIDE DEF b, c, h, q, k, f, v, l, n, x
<1>6. (c + c) * 2 * l = 4 * c * l /\ 4 * c * l \in Nat
  BY <1>1, <1>3, SMT
<1>7. b * Groups * 2 \in Nat
  BY <1>4
<1>8. (h + h + q + k + k + q + h + f + f + v + n) * 4
        = (3 * h + 2 * q + 2 * k + 2 * f + v + n) * 4
  BY <1>1, <1>2
<1>9. 3 * h + 2 * q + 2 * k + 2 * f + v + n \in Nat
  BY <1>1, <1>2
<1>10. Allocated(slices) = 4 * c * l + (3 * h + 2 * q + 2 * k + 2 * f + v + n) * 4
                           + b * 4 + x + b * Groups * 2
  BY <1>5, <1>6, <1>8
<1> QED
  BY <1>1, <1>2, <1>4, <1>6, <1>7, <1>9, <1>10, Zenon DEF b, c, h, q, k, f, v, l, n, x

(* NewSession with newKVCache (model.go:97-139).                           *)
LEMMA NewSessionStep ==
  ASSUME BindingInv, newSession
  PROVE  BindingInv'
<1> USE DEF BindingInv
<1>1. pc = "model" /\ UNCHANGED <<intSize, meta, contextSize, cfg, weights>>
  BY DEF newSession
<1>2. contextSize' \in 0..MaxInt /\ contextSize \in 0..MaxInt
  BY <1>1 DEF TypeOK
<1>3. CASE pc' = "done" /\ result' \in Refusals /\ UNCHANGED session
  BY <1>1, <1>2, <1>3, RefusedStep
<1>4. CASE /\ (contextSize * cfg.headDim * cfg.kvHeads) % WordSize <= MaxInt
           /\ ~(Allocated(slices) > MaxAlloc)
           /\ session' = slices /\ pc' = "done" /\ result' = "ok"
  <2>1. opened
    BY <1>1 DEF opened
  <2>2. /\ Configured' /\ Planned'
        /\ \A f \in Fields : cfg'[f] \in (-MaxInt-1)..MaxInt
    BY <1>1, <1>4, PlanKept
  <2>3. \A j \in DOMAIN weights : Bound(j)'
    BY <1>1, BoundKept DEF AllBound
  <2>4. AllBound'
    BY <1>1, <1>4, <2>1, <2>3 DEF AllBound
  <2>5. MaxInt' = MaxInt /\ MaxInt \in Nat
    BY <1>1, Sizes DEF MaxInt
  <2>6. slices' = slices
    BY <1>1 DEF slices, asInt, MaxInt, maxAct, larger, vocab
  <2>7. Allocated(slices)' = Allocated(slices)
    BY <1>1, <2>6 DEF Allocated
  <2>8. Opened'
    <3>1. Allocated(slices) \in Nat
      <4> DEFINE b == maxAct \div BlockSize
                 s == 3 * cfg.hidden + 2 * cfg.queryWidth + 2 * cfg.kvWidth + 2 * cfg.ffn
                      + vocab + contextSize
                 c == 4 * Cache * cfg.layers
                 g == b * Groups * 2
      <4>1. /\ Allocated(slices) = c + s * 4 + b * 4 + maxAct + g
            /\ c \in Nat /\ s \in Nat /\ b \in Nat /\ maxAct \in Nat /\ g \in Nat
        BY <1>4, <2>1, AllocatedSum
      <4> HIDE DEF b, s, c, g
      <4> QED
        BY <4>1
    <3>2. Allocated(slices) <= MaxAlloc
      BY <1>4, <3>1, Sizes
    <3> QED
      BY <1>1, <1>4, <2>5, <2>6, <2>7, <3>2 DEF Opened
  <2>9. \A f \in DOMAIN NoSession : session'[f] \in 0..MaxInt
    <3>1. /\ cfg.hidden \in 1..MaxInt /\ cfg.ffn \in 1..MaxInt
          /\ cfg.queryWidth \in 1..MaxInt /\ cfg.kvWidth \in 1..MaxInt
          /\ vocab \in 1..MaxInt /\ maxAct \in 1..MaxInt
      BY <2>1, WidthsBound, MaxActOf DEF Configured, opened
    <3>2. asInt(Cache) \in 0..MaxInt
      BY <1>4, <2>1, CacheExact
    <3>3. DOMAIN NoSession = {"hidden", "norm", "q", "k", "v", "attn", "proj", "gate", "up",
                              "logits", "scores", "keys", "values", "q8"}
      BY DEF NoSession
    <3> QED
      BY <1>2, <1>4, <2>5, <3>1, <3>2, <3>3, SliceLengths
  <2>10. \A i \in DOMAIN weights' :
           weights'[i].cols \in 1..MaxInt' /\ weights'[i].rows \in 1..MaxInt'
    BY <1>1, <2>3 DEF Bound
  <2>11. TypeOK'
    BY <1>2, <1>4, <2>2, <2>5, <2>9, <2>10, ConfigFields DEF TypeOK
  <2> QED
    BY <1>1, <2>2, <2>4, <2>8, <2>11
<1> QED
  BY <1>3, <1>4, Zenon DEF newSession, returns, Refusals

-----------------------------------------------------------------------------
(* Every opening, on every platform.                                       *)

(* From any file and on any platform: what an opening keeps about the      *)
(* configuration, the tensors bound so far and the session.                *)
THEOREM BindingInvariant == Spec => []BindingInv
<1>1. Init => BindingInv
  BY InitBinding
<1>2. BindingInv /\ [Next]_vars => BindingInv'
  <2> SUFFICES ASSUME BindingInv, [Next]_vars PROVE BindingInv'
    OBVIOUS
  <2>1. CASE newConfig
    BY <2>1, NewConfigStep
  <2>2. CASE plan
    BY <2>2, PlanStep
  <2>3. CASE bind
    BY <2>3, BindStep
  <2>4. CASE newRoPETable
    BY <2>4, RoPEStep
  <2>5. CASE newSession
    BY <2>5, NewSessionStep
  <2>6. CASE UNCHANGED vars
    <3>1. UNCHANGED <<intSize, meta, contextSize, pc, cfg, weights, session, result>>
      BY <2>6 DEF vars
    <3>2. MaxInt' = MaxInt /\ \A x : asInt(x)' = asInt(x)
      BY <3>1, Unmoved
    <3>3. TypeOK'
      BY <3>1, <3>2 DEF BindingInv, TypeOK
    <3>4. Configured'
      BY <3>1, <3>2 DEF BindingInv, Configured
    <3>5. kvBytes(contextSize)' = kvBytes(contextSize) /\ multiples' = multiples
      BY <3>1 DEF kvBytes, mulOverflows, multiples
    <3>6. Planned'
      BY <3>1, <3>5 DEF BindingInv, Planned
    <3>7. \A i \in DOMAIN weights : Bound(i)'
      BY <3>1, BoundKept DEF BindingInv, AllBound
    <3>8. AllBound'
      BY <3>1, <3>7 DEF BindingInv, AllBound, opened
    <3>9. slices' = slices
      BY <3>1, <3>2 DEF slices, maxAct, larger, vocab
    <3>10. Allocated(slices)' = Allocated(slices)
      BY <3>1, <3>9 DEF Allocated
    <3>11. Opened'
      BY <3>1, <3>2, <3>9, <3>10 DEF BindingInv, Opened
    <3> QED
      BY <3>1, <3>3, <3>4, <3>6, <3>8, <3>11 DEF BindingInv
  <2> QED
    BY <2>1, <2>2, <2>3, <2>4, <2>5, <2>6 DEF Next
<1> QED
  BY <1>1, <1>2, PTL DEF Spec

(* No width, length or dimension that is kept leaves the range of an int   *)
(* (config.go:31-134, weights.go:40-92, model.go:97-139).                  *)
THEOREM BindingTypeOK == Spec => []TypeOK
<1>1. BindingInv => TypeOK
  BY DEF BindingInv
<1> QED
  BY <1>1, BindingInvariant, PTL

-----------------------------------------------------------------------------
(* Rows are in their data.                                                 *)

(* The int RowBytes is the number of bytes of a row, unless four bytes for *)
(* each column may wrap (matrix.go:24-44).                                 *)
LEMMA RowBytesExact ==
  ASSUME intSize \in IntSizes, NEW m, m.cols \in 1..MaxInt,
         m.kind = "F32" => m.cols * 4 <= MaxInt,
         rowBytes(m) > 0
  PROVE  /\ rowBytes(m) = (m.cols \div Encoding(m.kind).values) * Encoding(m.kind).bytes
         /\ rowBytes(m) \in Nat /\ rowBytes(m) >= 4
<1> DEFINE by == Encoding(m.kind).bytes
           va == Encoding(m.kind).values
           n  == m.cols \div va
<1>1. /\ by \in Nat \ {0} /\ va \in Nat \ {0} /\ by >= 4
      /\ m.kind = "F32" => by = 4 /\ va = 1
      /\ m.kind # "F32" => by <= va
  <2>1. BlockSize \in Nat \ {0}
    BY BindingAssumption
  <2> QED
    BY <2>1, EncodingTyped
<1>2. m.cols \in Nat /\ MaxInt \in Nat /\ m.cols <= MaxInt
  BY Sizes
<1>3. rowBytes(m) = IF m.cols <= 0 \/ m.cols % va # 0 THEN 0 ELSE asInt(n * by)
  BY Zenon DEF rowBytes
<1> DEFINE c == m.cols
<1>4. c \in Nat /\ n = c \div va
  BY <1>2
<1> HIDE DEF by, va, n, c
<1>5. n \in Nat /\ n * va <= c
  BY <1>1, <1>4, SMT
<1>6. n * by \in Nat
  BY <1>1, <1>5
<1>7. n * by <= MaxInt
  <2>1. CASE m.kind = "F32"
    <3>1. n * by <= c * 4
      BY <1>1, <1>4, <1>5, <2>1
    <3>2. c * 4 <= MaxInt
      BY <2>1 DEF c
    <3> QED
      BY <1>2, <1>4, <1>6, <3>1, <3>2
  <2>2. CASE m.kind # "F32"
    <3>1. by <= va
      BY <1>1, <2>2
    <3>2. n * by <= n * va /\ n * va \in Nat
      BY <1>1, <1>5, <3>1, SMT
    <3>3. c <= MaxInt
      BY <1>2 DEF c
    <3> QED
      BY <1>2, <1>4, <1>5, <1>6, <3>2, <3>3
  <2> QED
    BY <2>1, <2>2
<1>8. asInt(n * by) = n * by
  BY <1>2, <1>6, <1>7, NoWrap
<1>9. rowBytes(m) = n * by
  BY <1>3, <1>8
<1>10. n >= 1
  <2>1. n * by > 0
    BY <1>9
  <2>2. n = 0 => n * by = 0
    BY <1>1
  <2> QED
    BY <1>5, <2>1, <2>2
<1>11. n * by >= 4
  BY <1>1, <1>5, <1>10, SMT
<1> QED
  BY <1>6, <1>9, <1>11 DEF n, by, va

(* A matrix that was validated has no more rows than fit, of four bytes    *)
(* or more each (matrix.go:47-62).                                         *)
LEMMA RowsFit ==
  ASSUME intSize \in IntSizes, NEW m, validates(m), m.rows \in Nat, m.cols \in 1..MaxInt,
         m.kind = "F32" => m.cols * 4 <= MaxInt
  PROVE  m.rows * 4 <= MaxInt
<1> DEFINE b == rowBytes(m)
           r == m.rows
<1>1. b > 0 /\ r <= MaxInt \div b
  BY DEF validates
<1>2. b \in Nat /\ b >= 4
  BY <1>1, RowBytesExact
<1>3. MaxInt \in Nat /\ r \in Nat
  BY Sizes
<1> HIDE DEF b, r
<1> DEFINE d == MaxInt \div b
           M == MaxInt
<1>4. M \in Nat /\ d = M \div b
  BY <1>3
<1> HIDE DEF d, M
<1>5. d \in Nat /\ d * b <= M
  BY <1>2, <1>4, SMT
<1>6. r <= d
  BY <1>1 DEF d
<1>7. r * 4 <= d * 4 /\ d * 4 <= d * b
  BY <1>2, <1>3, <1>5, <1>6, SMT
<1>8. d * b \in Nat /\ r * 4 \in Nat /\ d * 4 \in Nat
  BY <1>2, <1>3, <1>5
<1>9. r * 4 <= M
  BY <1>4, <1>5, <1>7, <1>8
<1> QED
  BY <1>9 DEF r, M

(* No width of a complete model is so large that its floats are more than  *)
(* an int: the vectors of norms were allocated, and some validated matrix  *)
(* has as many rows as the widths of the attention and of the feed-forward.*)
LEMMA FloatsFit ==
  ASSUME BindingInv, opened
  PROVE  /\ cfg.hidden * 4 <= MaxInt /\ cfg.queryWidth * 4 <= MaxInt
         /\ cfg.ffn * 4 <= MaxInt
<1> USE DEF BindingInv
<1>1. /\ MaxInt \in Nat /\ MaxAlloc \in 0..MaxInt
      /\ cfg.hidden \in 1..MaxInt /\ cfg.ffn \in 1..MaxInt
  BY Sizes DEF Configured, opened
<1>2. cfg.hidden * 4 <= MaxInt
  <2>1. role(3) = "outputNorm" /\ "outputNorm" \notin Matrices
    BY DEF role, HeadOrder, Matrices
  <2>2. wanted("outputNorm", cfg, vocab) = <<cfg.hidden>>
    BY <2>1, WantedLengths
  <2>3. 3 \in DOMAIN weights
    BY WidthsBound
  <2>4. Bound(3)
    BY <2>3 DEF AllBound
  <2>5. weights[3].cols = cfg.hidden /\ weights[3].cols * 4 <= MaxAlloc
    BY <2>1, <2>2, <2>4 DEF Bound
  <2> QED
    BY <1>1, <2>5
<1>3. cfg.queryWidth * 4 <= MaxInt
  <2> DEFINE m == weights[5]
  <2>1. validates(m) /\ m.rows = cfg.queryWidth /\ m.cols = cfg.hidden
        /\ cfg.queryWidth \in 1..MaxInt
    BY WidthsBound
  <2> HIDE DEF m
  <2>2. m.rows \in Nat /\ m.cols \in 1..MaxInt /\ m.cols * 4 <= MaxInt
    BY <1>1, <1>2, <2>1
  <2>3. m.rows * 4 <= MaxInt
    BY <2>1, <2>2, RowsFit
  <2> QED
    BY <2>1, <2>3
<1>4. cfg.ffn * 4 <= MaxInt
  <2> DEFINE m == weights[12]
  <2>1. validates(m) /\ m.rows = cfg.ffn /\ m.cols = cfg.hidden
    BY WidthsBound
  <2> HIDE DEF m
  <2>2. m.rows \in Nat /\ m.cols \in 1..MaxInt /\ m.cols * 4 <= MaxInt
    BY <1>1, <1>2, <2>1
  <2>3. m.rows * 4 <= MaxInt
    BY <2>1, <2>2, RowsFit
  <2> QED
    BY <2>1, <2>3
<1> QED
  BY <1>2, <1>3, <1>4

(* The columns of every matrix are one of three widths.                    *)
LEMMA MatrixColumns ==
  ASSUME NEW r \in Matrices, NEW c, NEW v
  PROVE  wanted(r, c, v)[1] \in {c.hidden, c.queryWidth, c.ffn}
<1>1. CASE r \in {"embedding", "output"}
  <2>1. wanted(r, c, v) = <<c.hidden, v>>
    BY <1>1, Zenon DEF wanted
  <2> QED
    BY <2>1
<1>2. CASE r = "q"
  <2>1. wanted(r, c, v) = <<c.hidden, c.queryWidth>>
    BY <1>2, Zenon DEF wanted
  <2> QED
    BY <2>1
<1>3. CASE r \in {"k", "v"}
  <2>1. wanted(r, c, v) = <<c.hidden, c.kvWidth>>
    BY <1>3, Zenon DEF wanted
  <2> QED
    BY <2>1
<1>4. CASE r = "attnOut"
  <2>1. wanted(r, c, v) = <<c.queryWidth, c.hidden>>
    BY <1>4, Zenon DEF wanted
  <2> QED
    BY <2>1
<1>5. CASE r \in {"gate", "up"}
  <2>1. wanted(r, c, v) = <<c.hidden, c.ffn>>
    BY <1>5, Zenon DEF wanted
  <2> QED
    BY <2>1
<1>6. CASE r = "down"
  <2>1. wanted(r, c, v) = <<c.ffn, c.hidden>>
    BY <1>6, Zenon DEF wanted
  <2> QED
    BY <2>1
<1> QED
  BY <1>1, <1>2, <1>3, <1>4, <1>5, <1>6 DEF Matrices

(* Every row that Forward may slice out of a weight is in the weight's     *)
(* data, for any encoding and any size of an int, though RowBytes itself   *)
(* is computed without a check (matrix.go:24-66, weights.go:36-71).        *)
THEOREM RowsAreInData == Spec => []RowsInData
<1>1. ASSUME BindingInv, opened, NEW i \in DOMAIN weights
      PROVE  LET m == weights[i]
             IN  m.rows * ((m.cols \div Encoding(m.kind).values) * Encoding(m.kind).bytes)
                   <= m.size
  <2> DEFINE m == weights[i]
             bytes == (m.cols \div Encoding(m.kind).values) * Encoding(m.kind).bytes
  <2>1. Bound(i) /\ m \in Bounds /\ intSize \in IntSizes
    BY <1>1 DEF BindingInv, AllBound
  <2>2. m.size \in Nat /\ m.cols \in 1..MaxInt /\ m.rows \in 1..MaxInt
    BY <2>1 DEF Bound, Bounds
  <2>3. MaxInt \in Nat
    BY <2>1, Sizes
  <2>4. CASE role(i) \in Matrices
    <3>1. validates(m) /\ m.cols = wanted(role(i), cfg, vocab)[1]
      BY <2>1, <2>4 DEF Bound
    <3>2. m.cols * 4 <= MaxInt
      <4>1. m.cols \in {cfg.hidden, cfg.queryWidth, cfg.ffn}
        BY <2>4, <3>1, MatrixColumns
      <4> HIDE DEF m
      <4> QED
        BY <1>1, <4>1, FloatsFit
    <3>3. rowBytes(m) > 0 /\ m.size = m.rows * rowBytes(m)
      BY <3>1 DEF validates
    <3>4. rowBytes(m) = bytes /\ rowBytes(m) \in Nat
      <4> HIDE DEF m
      <4> QED
        BY <2>1, <2>2, <3>2, <3>3, RowBytesExact
    <3>5. m.size = m.rows * bytes
      BY <3>3, <3>4, Zenon
    <3> HIDE DEF m, bytes
    <3>6. m.rows * bytes <= m.size
      BY <2>2, <3>5
    <3> QED
      BY <3>6 DEF m, bytes
  <2>5. CASE role(i) \notin Matrices
    <3>1. m.kind = "F32" /\ m.rows = 1 /\ m.size = m.cols * 4
      BY <2>1, <2>5 DEF Bound
    <3>2. Encoding(m.kind).bytes = 4 /\ Encoding(m.kind).values = 1
      BY <3>1, EncodingTyped
    <3>3. m.rows * bytes <= m.size
      BY <2>2, <2>3, <3>1, <3>2
    <3> QED
      BY <3>3
  <2> QED
    BY <2>4, <2>5
<1>2. BindingInv => RowsInData
  BY <1>1, Zenon DEF RowsInData
<1> QED
  BY <1>2, BindingInvariant, PTL

-----------------------------------------------------------------------------
(* The plan is what is allocated.                                          *)

(* f32 does not wrap on floats that fit an int (model.go:71-73).           *)
LEMMA F32Exact ==
  ASSUME intSize \in IntSizes, NEW n \in Nat, n * 4 <= MaxInt
  PROVE  /\ asInt(n) = n
         /\ f32(n) = n * 4
<1>1. MaxInt \in Nat /\ WordSize \in Nat /\ MaxInt < WordSize
  BY Sizes
<1> DEFINE four == n * 4
<1>2. n \in 0..MaxInt /\ four \in 0..WordSize-1
  BY <1>1
<1>3. asInt(n) = n /\ asWord(n) = n
  BY <1>2, NoWrap
<1>4. four % WordSize = four
  <2> HIDE DEF four
  <2> QED
    BY <1>2, NoWrap
<1> QED
  BY <1>3, <1>4, Zenon DEF f32

(* No term of the plan is larger than what was allocated.                  *)
LEMMA TermsFit ==
  ASSUME BindingInv, result = "ok"
  PROVE  LET b == maxAct \div BlockSize
         IN  /\ cfg.hidden * 2 * 4 <= MaxInt /\ cfg.queryWidth * 2 * 4 <= MaxInt
             /\ cfg.kvWidth * 2 * 4 <= MaxInt /\ cfg.ffn * 2 * 4 <= MaxInt
             /\ cfg.hidden * 4 <= MaxInt
             /\ vocab * 4 <= MaxInt /\ contextSize * 4 <= MaxInt /\ b * 4 <= MaxInt
             /\ b * Groups * 2 <= MaxInt /\ 4 * Cache * cfg.layers <= MaxInt
             /\ Allocated(slices) \in 0..MaxInt
<1> DEFINE b == maxAct \div BlockSize
           h == cfg.hidden
           q == cfg.queryWidth
           k == cfg.kvWidth
           f == cfg.ffn
           v == vocab
           n == contextSize
           x == maxAct
           g == b * Groups * 2
           c == 4 * Cache * cfg.layers
           a == Allocated(slices)
           M == MaxInt
<1>1. /\ a <= MaxAlloc
      /\ (contextSize * cfg.headDim * cfg.kvHeads) % WordSize <= MaxInt
      /\ opened
  BY DEF BindingInv, Opened, opened
<1>2. /\ a = c + (3 * h + 2 * q + 2 * k + 2 * f + v + n) * 4 + b * 4 + x + g
      /\ c \in Nat /\ b \in Nat /\ x \in Nat /\ g \in Nat
      /\ h \in Nat /\ q \in Nat /\ k \in Nat /\ f \in Nat /\ v \in Nat /\ n \in Nat
  BY <1>1, AllocatedSum
<1>3. M \in Nat /\ MaxAlloc \in 0..M
  BY Sizes DEF BindingInv
<1> HIDE DEF b, h, q, k, f, v, n, x, g, c, a, M
<1>4. a \in 0..M
  BY <1>1, <1>2, <1>3
<1>5. /\ h * 2 * 4 <= M /\ q * 2 * 4 <= M /\ k * 2 * 4 <= M /\ f * 2 * 4 <= M /\ h * 4 <= M
      /\ v * 4 <= M /\ n * 4 <= M /\ b * 4 <= M /\ g <= M /\ c <= M
  BY <1>2, <1>3, <1>4
<1> QED
  BY <1>4, <1>5, Zenon DEF b, h, q, k, f, v, n, x, g, c, a, M

(* The bytes of the caches, which kvBytes computes in words.               *)
LEMMA CacheBytes ==
  ASSUME BindingInv, result = "ok"
  PROVE  kvBytes(contextSize).bytes = 4 * Cache * cfg.layers
<1>1. /\ opened /\ kvBytes(contextSize).ok
      /\ (contextSize * cfg.headDim * cfg.kvHeads) % WordSize <= MaxInt
  BY DEF BindingInv, Planned, Opened, opened
<1> DEFINE c == Cache
           l == cfg.layers
           four == c * 2 * 2
<1>2. c \in Nat /\ l \in Nat \ {0} /\ MaxInt \in Nat /\ WordSize \in Nat /\ MaxInt < WordSize
  <2>1. MaxInt \in Nat /\ WordSize \in Nat /\ MaxInt < WordSize
    BY Sizes DEF BindingInv
  <2>2. c \in 0..MaxInt
    BY <1>1, CacheExact
  <2>3. l \in 1..MaxInt
    BY DEF BindingInv, Configured
  <2> HIDE DEF c, l
  <2> QED
    BY <2>1, <2>2, <2>3
<1>3. 4 * c * l <= MaxInt
  BY TermsFit
<1>4. kvBytes(contextSize).bytes = (four % WordSize) * l
  BY <1>1, KVChecked
<1> HIDE DEF c, l
<1>5. four \in Nat /\ four = 4 * c /\ 4 * c <= 4 * c * l
  BY <1>2, SMT
<1>6. 4 * c * l \in Nat
  BY <1>2
<1>7. four \in 0..WordSize-1
  BY <1>2, <1>3, <1>5, <1>6
<1>8. four % WordSize = four
  <2> HIDE DEF four
  <2> QED
    BY <1>7, NoWrap DEF BindingInv
<1>9. (four % WordSize) * l = 4 * c * l
  BY <1>5, <1>8
<1> QED
  BY <1>4, <1>9 DEF c, l

(* Of every session that was allocated the plan is exact: no term and no   *)
(* partial sum of SessionBytes wraps, in int or in uint64, although it is  *)
(* computed before anything is allocated (model.go:45-93, kv.go:17-42).    *)
THEOREM PlanIsExactHolds == Spec => []PlanIsExact
<1>1. ASSUME BindingInv, result = "ok"
      PROVE  SessionBytes = Allocated(session)
  <2> DEFINE b == maxAct \div BlockSize
             h == cfg.hidden
             q == cfg.queryWidth
             k == cfg.kvWidth
             f == cfg.ffn
             v == vocab
             n == contextSize
             x == maxAct
             g == b * Groups * 2
             c == 4 * Cache * cfg.layers
             a == Allocated(slices)
  <2>1. /\ session = slices /\ opened /\ intSize \in IntSizes
        /\ (contextSize * cfg.headDim * cfg.kvHeads) % WordSize <= MaxInt
    BY <1>1 DEF BindingInv, Opened, opened
  <2>2. /\ a = c + (3 * h + 2 * q + 2 * k + 2 * f + v + n) * 4 + b * 4 + x + g
        /\ c \in Nat /\ b \in Nat /\ x \in Nat /\ g \in Nat
        /\ h \in Nat /\ q \in Nat /\ k \in Nat /\ f \in Nat /\ v \in Nat /\ n \in Nat
    BY <1>1, <2>1, AllocatedSum
  <2>3. /\ h * 2 * 4 <= MaxInt /\ q * 2 * 4 <= MaxInt /\ k * 2 * 4 <= MaxInt
        /\ f * 2 * 4 <= MaxInt /\ h * 4 <= MaxInt /\ v * 4 <= MaxInt /\ n * 4 <= MaxInt
        /\ b * 4 <= MaxInt /\ g <= MaxInt /\ a \in 0..MaxInt
    BY <1>1, TermsFit
  <2>4. kvBytes(n).bytes = c
    BY <1>1, CacheBytes
  <2>5. SessionBytes = (kvBytes(n).bytes + f32(asInt(h * 2)) + f32(asInt(q * 2))
                          + f32(asInt(k * 2)) + f32(h) + f32(asInt(f * 2)) + f32(v) + f32(n)
                          + f32(b) + x + asWord(g)) % WordSize
    BY Zenon DEF SessionBytes
  <2> HIDE DEF b, h, q, k, f, v, n, x, g, c, a
  <2>6. h * 2 \in Nat /\ q * 2 \in Nat /\ k * 2 \in Nat /\ f * 2 \in Nat
    BY <2>2
  <2>7. /\ f32(asInt(h * 2)) = h * 2 * 4 /\ f32(asInt(q * 2)) = q * 2 * 4
        /\ f32(asInt(k * 2)) = k * 2 * 4 /\ f32(asInt(f * 2)) = f * 2 * 4
    <3>1. \A m \in Nat : m * 4 <= MaxInt => asInt(m) = m /\ f32(m) = m * 4
      BY <2>1, F32Exact
    <3>2. /\ asInt(h * 2) = h * 2 /\ f32(h * 2) = h * 2 * 4
          /\ asInt(q * 2) = q * 2 /\ f32(q * 2) = q * 2 * 4
          /\ asInt(k * 2) = k * 2 /\ f32(k * 2) = k * 2 * 4
          /\ asInt(f * 2) = f * 2 /\ f32(f * 2) = f * 2 * 4
      BY <2>3, <2>6, <3>1
    <3> QED
      BY <3>2
  <2>8. f32(h) = h * 4 /\ f32(v) = v * 4 /\ f32(n) = n * 4 /\ f32(b) = b * 4
    BY <2>1, <2>2, <2>3, F32Exact
  <2>9. MaxInt \in Nat /\ WordSize \in Nat /\ MaxInt < WordSize
    BY <2>1, Sizes
  <2>10. asWord(g) = g
    BY <2>1, <2>2, <2>3, <2>9, NoWrap
  <2>11. SessionBytes = (c + h * 2 * 4 + q * 2 * 4 + k * 2 * 4 + h * 4 + f * 2 * 4 + v * 4
                           + n * 4 + b * 4 + x + g) % WordSize
    BY <2>4, <2>5, <2>7, <2>8, <2>10
  <2>12. c + h * 2 * 4 + q * 2 * 4 + k * 2 * 4 + h * 4 + f * 2 * 4 + v * 4
           + n * 4 + b * 4 + x + g = a
    BY <2>2
  <2>13. a \in 0..WordSize-1
    BY <2>3, <2>9
  <2>14. a % WordSize = a
    BY <2>1, <2>13, NoWrap
  <2>15. SessionBytes = a
    BY <2>11, <2>12, <2>14
  <2> QED
    BY <2>1, <2>15 DEF a
<1>2. BindingInv => PlanIsExact
  BY <1>1 DEF PlanIsExact
<1> QED
  BY <1>2, BindingInvariant, PTL

-----------------------------------------------------------------------------
(* A quantised model that opens evaluates.                                 *)

(* Where the tensors of a layer are among the weights (weights.go:52-85).  *)
LEMMA LayerPlace ==
  ASSUME cfg.layers \in Nat, NEW l \in 0..cfg.layers-1, NEW k \in 1..11
  PROVE  LET i == 3 + 11 * l + k
         IN  /\ i \in 1..Last(cfg) /\ role(i) = LayerOrder[k]
             /\ (i - Len(HeadOrder) - 1) \div Len(LayerOrder) = l
<1> DEFINE i == 3 + 11 * l + k
           n == cfg.layers
<1>1. Len(HeadOrder) = 3 /\ Len(LayerOrder) = 11
  BY DEF HeadOrder, LayerOrder
<1>2. l \in Nat /\ n \in Nat /\ l < n /\ k \in Nat /\ k >= 1 /\ k <= 11
  OBVIOUS
<1>3. Last(cfg) = 3 + n * 11
  BY <1>1 DEF Last
<1> HIDE DEF n
<1>4. i \in Nat /\ i > 3 /\ i <= 3 + n * 11
  BY <1>2
<1>5. (i - 3 - 1) % 11 = k - 1 /\ (i - 3 - 1) \div 11 = l
  BY <1>2, SMT
<1>6. role(i) = LayerOrder[((i - 3 - 1) % 11) + 1]
  <2>1. ~(i <= Len(HeadOrder))
    BY <1>1, <1>4
  <2> HIDE DEF i
  <2> QED
    BY <1>1, <2>1 DEF role
<1>7. ((i - 3 - 1) % 11) + 1 = k
  BY <1>2, <1>5
<1>8. role(i) = LayerOrder[k]
  BY <1>6, <1>7
<1>9. i \in 1..Last(cfg)
  BY <1>2, <1>3, <1>4
<1> QED
  BY <1>1, <1>5, <1>8, <1>9

LayerRoles == {"attnNorm", "q", "k", "v", "qNorm", "kNorm", "attnOut", "ffnNorm",
               "gate", "up", "down"}

(* A tensor that Forward asks for was bound in its role, with the shape    *)
(* and the checks of that role (weights.go:94-140).                        *)
LEMMA BoundTensor ==
  ASSUME BindingInv, opened, NEW r, NEW l,
         \/ r \in LayerRoles /\ l \in 0..cfg.layers-1
         \/ r \in {"embedding", "output", "outputNorm"}
  PROVE  LET m == tensor(r, l)
             w == wanted(r, cfg, vocab)
         IN  /\ m.cols = w[1] /\ m.cols \in 1..MaxInt
             /\ r \in Matrices => m.rows = w[2] /\ validates(m)
             /\ r \in Matrices \ {"embedding"} /\ Quantized => m.kind \in {"Q4K", "Q6K"}
<1> DEFINE place(i) == /\ role(i) = r
                       /\ i > Len(HeadOrder) =>
                            (i - Len(HeadOrder) - 1) \div Len(LayerOrder) = l
<1>1. cfg.layers \in Nat /\ Last(cfg) \in Nat /\ Last(cfg) >= 14
      /\ DOMAIN weights = 1..Last(cfg) /\ Len(weights) = Last(cfg)
  <2>1. cfg.layers \in 1..MaxInt
    BY DEF BindingInv, Configured, opened
  <2>2. MaxInt \in Nat
    BY Sizes DEF BindingInv
  <2>3. cfg.layers \in Nat
    BY <2>1, <2>2
  <2> QED
    BY <2>3, WidthsBound
<1>2. \E i \in 1..Last(cfg) : place(i)
  <2>1. CASE r \in LayerRoles /\ l \in 0..cfg.layers-1
    <3>1. PICK k \in 1..11 : LayerOrder[k] = r
      <4>1. /\ LayerOrder[1] = "attnNorm" /\ LayerOrder[2] = "q" /\ LayerOrder[3] = "k"
            /\ LayerOrder[4] = "v" /\ LayerOrder[5] = "qNorm" /\ LayerOrder[6] = "kNorm"
            /\ LayerOrder[7] = "attnOut" /\ LayerOrder[8] = "ffnNorm"
            /\ LayerOrder[9] = "gate" /\ LayerOrder[10] = "up" /\ LayerOrder[11] = "down"
        BY DEF LayerOrder
      <4> QED
        BY <2>1, <4>1 DEF LayerRoles
    <3> DEFINE i == 3 + 11 * l + k
    <3>2. /\ i \in 1..Last(cfg) /\ role(i) = LayerOrder[k]
          /\ (i - Len(HeadOrder) - 1) \div Len(LayerOrder) = l
      BY <1>1, <2>1, LayerPlace
    <3> HIDE DEF i
    <3> QED
      BY <3>1, <3>2
  <2>2. CASE r \in {"embedding", "output", "outputNorm"}
    <3>1. role(1) = "embedding" /\ role(2) = "output" /\ role(3) = "outputNorm"
      BY DEF role, HeadOrder
    <3>2. Len(HeadOrder) = 3
      BY DEF HeadOrder
    <3>3. 1 \in 1..Last(cfg) /\ 2 \in 1..Last(cfg) /\ 3 \in 1..Last(cfg)
      BY <1>1
    <3>4. ~(1 > Len(HeadOrder)) /\ ~(2 > Len(HeadOrder)) /\ ~(3 > Len(HeadOrder))
      BY <3>2
    <3> QED
      BY <2>2, <3>1, <3>3, <3>4
  <2> QED
    BY <2>1, <2>2
<1> DEFINE j == CHOOSE i \in 1..Last(cfg) : place(i)
<1>3. j \in 1..Last(cfg) /\ role(j) = r
  <2>1. j \in 1..Last(cfg) /\ place(j)
    <3> HIDE DEF place
    <3> QED
      BY <1>2
  <2> QED
    BY <2>1
<1>4. tensor(r, l) = weights[j]
  BY Zenon DEF tensor
<1> HIDE DEF j
<1>5. Bound(j)
  BY <1>1, <1>3 DEF BindingInv, AllBound
<1>6. /\ weights[j].cols = wanted(r, cfg, vocab)[1] /\ weights[j].cols \in 1..MaxInt
      /\ r \in Matrices => weights[j].rows = wanted(r, cfg, vocab)[2] /\ validates(weights[j])
  BY <1>3, <1>5 DEF Bound
<1>7. r \in Matrices \ {"embedding"} /\ Quantized => weights[j].kind \in {"Q4K", "Q6K"}
  <2> SUFFICES ASSUME r \in Matrices, r # "embedding", Quantized
               PROVE  weights[j].kind \in {"Q4K", "Q6K"}
    OBVIOUS
  <2>1. role(1) = "embedding"
    BY DEF role, HeadOrder
  <2>2. j # 1
    BY <1>3, <2>1
  <2>3. j \in 2..Len(weights)
    BY <1>1, <1>3, <2>2
  <2> QED
    BY <1>3, <2>3 DEF Quantized
<1> QED
  BY <1>4, <1>6, <1>7

(* A product of two widths of the configuration, with slices of them.      *)
LEMMA ProductRuns ==
  ASSUME BindingInv, result = "ok", Quantized, NEW l,
         NEW r \in Matrices \ {"embedding"},
         (r \in LayerRoles /\ l \in 0..cfg.layers-1) \/ r = "output",
         NEW n \in {cfg.hidden, cfg.queryWidth, cfg.ffn}, NEW out,
         wanted(r, cfg, vocab) = <<n, out>>
  PROVE  Product(tensor(r, l), n, out)
<1>1. opened /\ session = slices
  BY DEF BindingInv, Opened, opened
<1> DEFINE m == tensor(r, l)
<1>2. /\ m.cols = wanted(r, cfg, vocab)[1] /\ m.cols \in 1..MaxInt
      /\ m.rows = wanted(r, cfg, vocab)[2] /\ validates(m) /\ m.kind \in {"Q4K", "Q6K"}
  BY <1>1, BoundTensor
<1> HIDE DEF m
<1>3. m.cols = n /\ m.rows = out
  BY <1>2
<1>4. n % BlockSize = 0
  BY <1>1 DEF BindingInv, Planned, opened, multiples
<1>5. n <= session.q8
  BY <1>1, MaxActOf, SliceLengths
<1>6. MaxInt \in Nat
  BY Sizes DEF BindingInv
<1>7. n > 0
  BY <1>2, <1>3, <1>6
<1>8. Product(m, n, out)
  BY <1>2, <1>3, <1>4, <1>5, <1>7 DEF Product
<1> QED
  BY <1>8 DEF m

(* The heads of the keys are no wider than those of the queries, so both   *)
(* widths are what their heads add up to (config.go:93-94).                *)
LEMMA WidthsExact ==
  ASSUME BindingInv, opened, WidthsFit
  PROVE  /\ cfg.queryWidth = cfg.queryHeads * cfg.headDim
         /\ cfg.kvWidth = cfg.kvHeads * cfg.headDim
<1> DEFINE q == cfg.queryHeads
           k == cfg.kvHeads
           d == cfg.headDim
<1>1. /\ q \in 1..MaxInt /\ k \in 1..MaxInt /\ d \in 1..MaxInt
      /\ q % k = 0 /\ cfg.queryWidth = asInt(q * d) /\ cfg.kvWidth = asInt(k * d)
  BY DEF BindingInv, Configured, opened
<1>2. MaxInt \in Nat /\ q * d <= MaxInt
  BY Sizes DEF BindingInv, WidthsFit
<1> HIDE DEF q, k, d
<1>3. q \in Nat \ {0} /\ k \in Nat \ {0} /\ d \in Nat \ {0}
  BY <1>1, <1>2
<1>4. k <= q
  <2>1. k > q => q % k = q
    BY <1>3, SMT
  <2> QED
    BY <1>1, <1>3, <2>1
<1>5. k * d <= q * d /\ k * d \in Nat /\ q * d \in Nat
  BY <1>3, <1>4, SMT
<1>6. k * d \in 0..MaxInt /\ q * d \in 0..MaxInt
  BY <1>2, <1>5
<1>7. asInt(k * d) = k * d /\ asInt(q * d) = q * d
  BY <1>6, NoWrap DEF BindingInv
<1>8. cfg.queryWidth = q * d /\ cfg.kvWidth = k * d
  BY <1>1, <1>7
<1> QED
  BY <1>8 DEF q, k, d

(* Every layer runs.                                                       *)
LEMMA LayerRunsOf ==
  ASSUME BindingInv, result = "ok", WidthsFit, Quantized, NEW l \in 0..cfg.layers-1
  PROVE  LayerRuns(l)
<1>1. /\ opened /\ session = slices
      /\ (contextSize * cfg.headDim * cfg.kvHeads) % WordSize <= MaxInt
  BY DEF BindingInv, Opened, opened
<1>2. /\ cfg.hidden \in 1..MaxInt /\ cfg.queryHeads % cfg.kvHeads = 0 /\ MaxInt \in Nat
      /\ contextSize \in 0..MaxInt
  BY Sizes DEF BindingInv, Configured, TypeOK
<1>3. /\ session.hidden = cfg.hidden /\ session.norm = cfg.hidden /\ session.proj = cfg.hidden
      /\ session.q = cfg.queryWidth /\ session.attn = cfg.queryWidth
      /\ session.k = cfg.kvWidth /\ session.v = cfg.kvWidth
      /\ session.gate = cfg.ffn /\ session.up = cfg.ffn /\ session.scores = contextSize
      /\ session.keys = asInt(Cache) /\ session.values = asInt(Cache)
  BY <1>1, SliceLengths
<1>4. Cache \in 0..MaxInt /\ asInt(Cache) = Cache
  BY <1>1, CacheExact
<1>5. /\ Cache <= session.keys /\ Cache <= session.values /\ contextSize <= session.scores
  BY <1>2, <1>3, <1>4
<1>6. /\ Product(tensor("q", l), cfg.hidden, cfg.queryWidth)
      /\ Product(tensor("k", l), cfg.hidden, cfg.kvWidth)
      /\ Product(tensor("v", l), cfg.hidden, cfg.kvWidth)
      /\ Product(tensor("attnOut", l), cfg.queryWidth, cfg.hidden)
      /\ Product(tensor("gate", l), cfg.hidden, cfg.ffn)
      /\ Product(tensor("up", l), cfg.hidden, cfg.ffn)
      /\ Product(tensor("down", l), cfg.ffn, cfg.hidden)
  <2>1. {"q", "k", "v", "attnOut", "gate", "up", "down"} \subseteq LayerRoles
        /\ {"q", "k", "v", "attnOut", "gate", "up", "down"} \subseteq Matrices \ {"embedding"}
    BY DEF LayerRoles, Matrices
  <2>2. /\ wanted("q", cfg, vocab) = <<cfg.hidden, cfg.queryWidth>>
        /\ wanted("k", cfg, vocab) = <<cfg.hidden, cfg.kvWidth>>
        /\ wanted("v", cfg, vocab) = <<cfg.hidden, cfg.kvWidth>>
        /\ wanted("attnOut", cfg, vocab) = <<cfg.queryWidth, cfg.hidden>>
        /\ wanted("gate", cfg, vocab) = <<cfg.hidden, cfg.ffn>>
        /\ wanted("up", cfg, vocab) = <<cfg.hidden, cfg.ffn>>
        /\ wanted("down", cfg, vocab) = <<cfg.ffn, cfg.hidden>>
    BY Zenon DEF wanted
  <2>3. \A r \in {"q", "k", "v", "attnOut", "gate", "up", "down"} :
          \A n \in {cfg.hidden, cfg.queryWidth, cfg.ffn} : \A out :
            wanted(r, cfg, vocab) = <<n, out>> => Product(tensor(r, l), n, out)
    BY <2>1, ProductRuns
  <2> QED
    BY <2>2, <2>3
<1>7. /\ tensor("attnNorm", l).cols = cfg.hidden /\ tensor("ffnNorm", l).cols = cfg.hidden
      /\ tensor("qNorm", l).cols = cfg.headDim /\ tensor("kNorm", l).cols = cfg.headDim
  <2>1. {"attnNorm", "ffnNorm", "qNorm", "kNorm"} \subseteq LayerRoles
        /\ \A r \in {"attnNorm", "ffnNorm", "qNorm", "kNorm"} : r \notin Matrices
    BY DEF LayerRoles, Matrices
  <2>2. /\ wanted("attnNorm", cfg, vocab) = <<cfg.hidden>>
        /\ wanted("ffnNorm", cfg, vocab) = <<cfg.hidden>>
        /\ wanted("qNorm", cfg, vocab) = <<cfg.headDim>>
        /\ wanted("kNorm", cfg, vocab) = <<cfg.headDim>>
    BY <2>1, WantedLengths
  <2>3. \A r \in {"attnNorm", "ffnNorm", "qNorm", "kNorm"} :
          tensor(r, l).cols = wanted(r, cfg, vocab)[1]
    BY <1>1, <2>1, BoundTensor
  <2> QED
    BY <2>2, <2>3
<1>8. /\ Norm(tensor("attnNorm", l), cfg.hidden) /\ Norm(tensor("ffnNorm", l), cfg.hidden)
  BY <1>2, <1>7 DEF Norm
<1>9. /\ cfg.queryWidth = cfg.queryHeads * cfg.headDim
      /\ cfg.kvWidth = cfg.kvHeads * cfg.headDim
      /\ cfg.queryWidth = asInt(cfg.queryHeads * cfg.headDim)
      /\ cfg.kvWidth = asInt(cfg.kvHeads * cfg.headDim)
      /\ cfg.queryWidth \in 1..MaxInt /\ cfg.kvWidth \in 1..MaxInt
  BY <1>1, WidthsExact, WidthsBound DEF BindingInv, Configured
<1>10. cfg.queryWidth <= cfg.queryWidth /\ cfg.kvWidth <= cfg.kvWidth
  BY <1>2, <1>9
<1>11. /\ PerHead(tensor("qNorm", l), cfg.queryWidth, cfg.queryHeads)
       /\ PerHead(tensor("kNorm", l), cfg.kvWidth, cfg.kvHeads)
  <2>1. /\ cfg.queryHeads * cfg.headDim <= cfg.queryWidth
        /\ cfg.kvHeads * cfg.headDim <= cfg.kvWidth
    BY <1>9, <1>10
  <2> QED
    BY <1>7, <1>9, <2>1, Zenon DEF PerHead
<1>12. cfg.queryHeads * cfg.headDim <= session.attn
  BY <1>3, <1>9, <1>10
<1> QED
  BY <1>2, <1>3, <1>5, <1>6, <1>8, <1>11, <1>12, Zenon DEF LayerRuns, Cache

(* A quantised model that opens evaluates, for any file, any configuration *)
(* whose heads fit an int, and any size of an int: no operator refuses a   *)
(* length and no slice ends outside its array (forward.go:16-137).         *)
THEOREM OpenedEvaluatesHolds == Spec => []OpenedEvaluates
<1>1. ASSUME BindingInv, result = "ok", WidthsFit, Quantized
      PROVE  Evaluates
  <2>1. /\ opened /\ session = slices
    BY <1>1 DEF BindingInv, Opened, opened
  <2>2. /\ session.hidden = cfg.hidden /\ session.norm = cfg.hidden /\ session.logits = vocab
        /\ cfg.hidden \in 1..MaxInt /\ MaxInt \in Nat /\ vocab \in 1..MaxInt
    BY <1>1, <2>1, SliceLengths, WidthsBound, Sizes DEF BindingInv, Configured
  <2>3. /\ wanted("embedding", cfg, vocab) = <<cfg.hidden, vocab>>
        /\ wanted("output", cfg, vocab) = <<cfg.hidden, vocab>>
        /\ "embedding" \in Matrices /\ "output" \in Matrices \ {"embedding"}
        /\ "outputNorm" \notin Matrices
    BY Zenon DEF wanted, Matrices
  <2>4. /\ validates(tensor("embedding", 0)) /\ tensor("embedding", 0).rows = vocab
        /\ tensor("embedding", 0).cols = cfg.hidden
    BY <1>1, <2>1, <2>3, BoundTensor
  <2>5. tensor("embedding", 0).rows >= vocab
    BY <2>2, <2>4
  <2>6. \A l \in 0..cfg.layers-1 : LayerRuns(l)
    BY <1>1, LayerRunsOf
  <2>7. tensor("outputNorm", 0).cols = cfg.hidden
    <3>1. wanted("outputNorm", cfg, vocab) = <<cfg.hidden>>
      BY <2>3, WantedLengths
    <3>2. tensor("outputNorm", 0).cols = wanted("outputNorm", cfg, vocab)[1]
      BY <1>1, <2>1, BoundTensor
    <3> QED
      BY <3>1, <3>2
  <2>8. Norm(tensor("outputNorm", 0), cfg.hidden)
    BY <2>2, <2>7 DEF Norm
  <2>9. Product(tensor("output", 0), cfg.hidden, vocab)
    BY <1>1, <2>3, ProductRuns
  <2> QED
    BY <2>2, <2>4, <2>5, <2>6, <2>8, <2>9, Zenon DEF Evaluates
<1>2. BindingInv => OpenedEvaluates
  BY <1>1 DEF OpenedEvaluates
<1> QED
  BY <1>2, BindingInvariant, PTL
=============================================================================
