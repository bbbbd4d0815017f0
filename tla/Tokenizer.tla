----------------------------- MODULE Tokenizer -----------------------------
(***************************************************************************)
(* From the tokenizer metadata of a GGUF file to a Tokenizer, and the      *)
(* requests of Chat it formats (internal/tokenizer/tokenizer.go,           *)
(* internal/loader/loader.go:229-281, chat.go).                            *)
(*                                                                         *)
(* A metadata value is a tagged union: Absent, a value that is no integer, *)
(* or an integer of one of GGUF's widths.  Integers keep the three widths  *)
(* the code goes through: uint64 in the file, int64 in loader.Tokenizer,   *)
(* int32 in Tokenizer.  The byte-pair encoding is the library's.           *)
(***************************************************************************)
EXTENDS Template, FiniteSets

CONSTANTS
  MaxInt32,     \* math.MaxInt32
  MaxInt64,     \* 1<<63 - 1
  Models,       \* bound: values of tokenizer.ggml.model
  Sizes,        \* bound: vocabulary sizes
  Numbers,      \* bound: integers under the id keys
  Templates,    \* bound: embedded chat templates
  Conversations \* bound: the messages handed to Chat

MaxUint64 == 2*MaxInt64 + 1

ASSUME TokenizerAssumption ==
  /\ MaxInt32 \in Nat /\ MaxInt64 \in Nat /\ MaxInt32 < MaxInt64
  /\ Sizes \subseteq 0..MaxInt64
  /\ Numbers \subseteq (-MaxInt64-1)..MaxUint64
  /\ Conversations \subseteq Seq([role : STRING, content : STRING])

Absent  == [kind |-> "absent"]
Other   == [kind |-> "other"]
Number(n)  == [kind |-> "int", n |-> n]
Values  == {Absent, Other} \cup {Number(n) : n \in Numbers}

(* The keys of the special tokens that a Tokenizer uses.                   *)
eogKeys == {"eos", "eot", "eom"}
idKeys  == {"bos"} \cup eogKeys

VARIABLES
  kv,       \* the metadata of the file under the tokenizer keys, until New
  tok,      \* Model.tok: a Tokenizer, or what New failed with
  asked,    \* the messages of the last Chat
  answer    \* what it handed to Generate, or failed with

vars == <<kv, tok, asked, answer>>

(* token_type is there with the right length or not at all.                *)
Metadata == [model : Models, tokens : Sizes, types : BOOLEAN,
             template : Templates, ids : [idKeys -> Values]]

(* Any file.                                                               *)
Init ==
  /\ kv \in Metadata
  /\ tok = [err |-> "none"]
  /\ asked = <<>>
  /\ answer = Failed("none")

-----------------------------------------------------------------------------
(* Parse: extractTokenizer.                                                *)

(* numeric: a negative integer of a signed type is refused.                *)
numeric(v) == v.kind = "int" /\ v.n >= 0

(* An id that is missing, no integer or no int64 is none.                  *)
tokenID(v) == IF numeric(v) /\ v.n <= MaxInt64 THEN v.n ELSE -1

extractTokenizer(m) ==
  [model |-> m.model, tokens |-> m.tokens, types |-> m.types, template |-> m.template,
   ids |-> [k \in idKeys |-> tokenID(m.ids[k])]]

-----------------------------------------------------------------------------
(* Open: tokenizer.New.                                                    *)

(* Go's conversion of an int64 to int32.                                   *)
int32(n) == ((n + MaxInt32 + 1) % (2*(MaxInt32 + 1))) - (MaxInt32 + 1)

(* Everything is normal except the special ids inside the vocabulary.      *)
synthesizeTypes(meta) ==
  [i \in 0..meta.tokens-1 |->
     IF \E k \in idKeys : meta.ids[k] = i THEN "control" ELSE "normal"]

(* Mutant: no check of the range.                                          *)
outOfRange_never(meta) == FALSE

(* An end-of-generation id that an int32 does not hold.                    *)
outOfRange(meta) == \E k \in eogKeys : meta.ids[k] > MaxInt32

(* The Tokenizer; BOS is converted without a check.  A token_type array of *)
(* the right length is taken over, which <<>> stands for.                  *)
built(meta) ==
  [err      |-> "nil",
   eog      |-> {int32(meta.ids[k]) : k \in {k \in eogKeys : meta.ids[k] >= 0}},
   bos      |-> IF meta.ids["bos"] >= 0 THEN int32(meta.ids["bos"]) ELSE -1,
   types    |-> IF meta.types THEN <<>> ELSE synthesizeTypes(meta),
   template |-> meta.template,
   size     |-> meta.tokens]

(* New: the checks in the order of the code.                               *)
NewTokenizer(meta) ==
  IF meta.model # "gpt2" THEN [err |-> "ErrUnsupportedTokenizer"]
  ELSE IF meta.tokens = 0 \/ meta.tokens > MaxInt32 \/ outOfRange(meta)
  THEN [err |-> "ErrInvalidVocabulary"]
  ELSE built(meta)

New ==
  /\ tok.err = "none"
  /\ tok' = NewTokenizer(extractTokenizer(kv))
  /\ kv' = Absent
  /\ UNCHANGED <<asked, answer>>

-----------------------------------------------------------------------------
(* A Tokenizer in use.                                                     *)

IsEOG(id) == id \in tok.eog

Format(messages) ==
  IF RecognizeTemplate(tok.template)
  THEN FormatQwen3Guard(messages)
  ELSE Failed("ErrUnsupportedTemplate")

(* Chat, up to the call of Generate (module Model goes on from there).     *)
Chat(messages, maxTokens) ==
  /\ tok.err = "nil"
  /\ asked' = messages
  /\ answer' = IF maxTokens <= 0 THEN Failed("ErrInvalidRequest") ELSE Format(messages)
  /\ UNCHANGED <<kv, tok>>

Next ==
  \/ New
  \/ \E messages \in Conversations, maxTokens \in {0, 1} : Chat(messages, maxTokens)

Spec == Init /\ [][Next]_vars

-----------------------------------------------------------------------------
(* Properties.                                                             *)

(* The file names the number n under one of the keys.                      *)
Names(keys, n) == \E k \in keys : kv.ids[k] = Number(n)

(***************************************************************************)
(* Through three integer widths, the ids that end a generation are exactly *)
(* the numbers the file gives for them, none made up by a conversion and   *)
(* none lost; and without types in the file exactly the special ids inside *)
(* the vocabulary are control tokens (loader.go:249-281,                   *)
(* tokenizer.go:51-74, 95-127).                                            *)
(***************************************************************************)
SpecialTokensExact ==
  [][New /\ tok'.err = "nil" =>
       /\ \A id \in (-MaxInt32-1)..MaxInt32 :
            IsEOG(id)' <=> id >= 0 /\ Names(eogKeys, id)
       /\ ~kv.types => \A id \in 0..kv.tokens-1 :
            tok'.types[id] = "control" <=> Names(idKeys, id)]_vars

(***************************************************************************)
(* A prompt is what the embedded template renders for the messages: the    *)
(* compiled renderer follows the Jinja text "exactly" (template.go:56-58), *)
(* and only under the template it was compiled from.                       *)
(***************************************************************************)
RendersTemplate ==
  answer.err = "nil" => /\ answer.text = Jinja(asked)
                        /\ RecognizeTemplate(tok.template)

(* The fixed texts of a prompt, before, after and between the contents.    *)
FixedTexts == {"UserPrefix", "UserSuffix", "AssistantPrefix", "AssistantSuffix",
               "USER: ", "\n\n", "\n\nASSISTANT: ", "\n\nUSER: "}

(* The messages that a conversation keeps in its prompt.                   *)
Kept(ms) == {i \in 1..Len(ms) : \/ ms[i].role = "user"
                                \/ ms[i].role = "assistant" /\ i > 1
                                \/ ms[i].role = "system" /\ i = 1}

(* The text holds the contents of the messages at the indices kept, in     *)
(* their order, and beside them fixed texts only.                          *)
Holds(text, ms, kept) ==
  \E at \in [kept -> 1..Len(text)] :
    /\ \A i \in kept : text[at[i]] = ms[i].content
    /\ \A i, j \in kept : i < j => at[i] < at[j]
    /\ \A p \in 1..Len(text) : (\E i \in kept : p = at[i]) \/ text[p] \in FixedTexts

(***************************************************************************)
(* A moderation prompt holds every user message of the conversation and    *)
(* every answer but one that opens it, in order (template.go:82-111).      *)
(***************************************************************************)
KeepsMessages == answer.err = "nil" => Holds(answer.text, asked, Kept(asked))
=============================================================================
