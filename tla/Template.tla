------------------------------ MODULE Template ------------------------------
(***************************************************************************)
(* The chat template (internal/tokenizer/template.go): the renderer        *)
(* compiled into the program, and what the embedded Jinja text would       *)
(* render.                                                                 *)
(*                                                                         *)
(* A text is a sequence of pieces: the fixed texts by name, and the        *)
(* contents of messages, which nobody looks into.  A rendering is          *)
(* [err, text], err being "nil" or the error returned.                     *)
(***************************************************************************)
EXTENDS Integers, SequencesExt

Roles == {"system", "user", "assistant"}

Rendered(text) == [err |-> "nil", text |-> text]
Failed(e)      == [err |-> e, text |-> <<>>]

-----------------------------------------------------------------------------
(* Recognition.                                                            *)

Whitespace == {"space", "newline"}

compactWhitespace(s) == SelectSeq(s, LAMBDA piece : piece \notin Whitespace)

(* The pinned text, of which its policy and its message loop matter here.  *)
qwen3GuardTemplate == <<"policy", "newline", "loop">>

RecognizeTemplate(template) ==
  compactWhitespace(template) = compactWhitespace(qwen3GuardTemplate)

-----------------------------------------------------------------------------
(* FormatQwen3Guard.                                                       *)

(* The fixed texts before and after the conversation.                      *)
UserText      == [prefix |-> <<"UserPrefix">>, suffix |-> <<"UserSuffix">>]
AssistantText == [prefix |-> <<"AssistantPrefix">>, suffix |-> <<"AssistantSuffix">>]

(* Mutant: a leading system message is remembered for every later user.    *)
chunk_lookBehind(ms, i) ==
  LET m == ms[i] IN
  IF i = 1
  THEN IF m.role \in {"system", "user"} THEN <<"USER: ", m.content>> ELSE <<>>
  ELSE IF ms[1].role = "system" /\ m.role = "user" THEN <<"\n\n", m.content>>
  ELSE IF m.role = "assistant" THEN <<"\n\nASSISTANT: ", m.content>>
  ELSE IF m.role = "user" THEN <<"\n\nUSER: ", m.content>>
  ELSE <<>>

(* Mutant: a user message after a system message adds nothing.             *)
chunk_noBareUser(ms, i) ==
  LET m == ms[i] IN
  IF i = 1
  THEN IF m.role \in {"system", "user"} THEN <<"USER: ", m.content>> ELSE <<>>
  ELSE IF ms[i - 1].role = "system" THEN <<>>
  ELSE IF m.role = "assistant" THEN <<"\n\nASSISTANT: ", m.content>>
  ELSE IF m.role = "user" THEN <<"\n\nUSER: ", m.content>>
  ELSE <<>>

(* What renderConversation writes for message i.                           *)
chunk(ms, i) ==
  LET m == ms[i] IN
  IF i = 1
  THEN IF m.role \in {"system", "user"} THEN <<"USER: ", m.content>> ELSE <<>>
  ELSE IF ms[i - 1].role = "system" /\ m.role = "user" THEN <<"\n\n", m.content>>
  ELSE IF m.role = "assistant" THEN <<"\n\nASSISTANT: ", m.content>>
  ELSE IF m.role = "user" THEN <<"\n\nUSER: ", m.content>>
  ELSE <<>>

renderConversation(ms) == FlattenSeq([i \in 1..Len(ms) |-> chunk(ms, i)])

(* The checks in the order of the code, then the variant of the last role. *)
FormatQwen3Guard(ms) ==
  IF ms = <<>> \/ \E i \in 1..Len(ms) : ms[i].role \notin Roles
  THEN Failed("ErrInvalidMessages")
  ELSE LET conversation == renderConversation(ms)
           last == ms[Len(ms)].role
       IN  IF last = "user"
           THEN Rendered(UserText.prefix \o conversation \o UserText.suffix)
           ELSE IF last = "assistant"
           THEN Rendered(AssistantText.prefix \o conversation \o AssistantText.suffix)
           ELSE Failed("ErrInvalidMessages")

-----------------------------------------------------------------------------
(* The embedded Jinja text, read by Jinja's rules.                         *)

(* {%- if loop.first -%} ... {%- else -%} ... {%- endif -%}                *)
JinjaChunk(ms, i) ==
  LET message == ms[i] IN
  IF i = 1
  THEN IF message.role = "system" THEN <<"USER: ", message.content>>
       ELSE IF message.role = "user" THEN <<"USER: ", message.content>>
       ELSE <<>>
  ELSE IF ms[i - 1].role = "system" /\ message.role = "user"
       THEN <<"\n\n", message.content>>
       ELSE IF message.role = "assistant" THEN <<"\n\nASSISTANT: ", message.content>>
       ELSE IF message.role = "user" THEN <<"\n\nUSER: ", message.content>>
       ELSE <<>>

(* A role the text does not name falls through; only "user" is special at  *)
(* the end, and an empty conversation renders to nothing.                  *)
Jinja(ms) ==
  LET conversation == FlattenSeq([i \in 1..Len(ms) |-> JinjaChunk(ms, i)])
      fixed == IF ms[Len(ms)].role = "user" THEN UserText ELSE AssistantText
  IN  IF ms = <<>> THEN <<>> ELSE fixed.prefix \o conversation \o fixed.suffix
=============================================================================
