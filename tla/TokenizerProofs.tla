--------------------------- MODULE TokenizerProofs ---------------------------
(***************************************************************************)
(* What module Tokenizer promises, for every conversation, every           *)
(* vocabulary and every width of the integers.                             *)
(***************************************************************************)
EXTENDS Tokenizer, WellFoundedInduction, TLAPS

-----------------------------------------------------------------------------
(* The renderer.                                                           *)

(* The compiled switch and the nested Jinja conditions say the same of     *)
(* every message, whatever its role (template.go:88-109, 292-312).         *)
LEMMA ChunkIsJinjaChunk ==
  ASSUME NEW ms, NEW i \in Nat \ {0}
  PROVE  chunk(ms, i) = JinjaChunk(ms, i)
<1>1. CASE i = 1
  BY <1>1 DEF chunk, JinjaChunk
<1>2. CASE i # 1 /\ ms[i - 1].role = "system"
  BY <1>2 DEF chunk, JinjaChunk
<1>3. CASE i # 1 /\ ms[i - 1].role # "system"
  BY <1>3 DEF chunk, JinjaChunk
<1> QED BY <1>1, <1>2, <1>3

(* What FormatQwen3Guard returns without an error is the Jinja rendering   *)
(* (template.go:56-80).                                                    *)
LEMMA FormatIsJinja ==
  ASSUME NEW ms, Len(ms) \in Nat, FormatQwen3Guard(ms).err = "nil"
  PROVE  FormatQwen3Guard(ms).text = Jinja(ms)
<1>1. [i \in 1..Len(ms) |-> chunk(ms, i)] = [i \in 1..Len(ms) |-> JinjaChunk(ms, i)]
  BY ChunkIsJinjaChunk
<1>2. renderConversation(ms) = FlattenSeq([i \in 1..Len(ms) |-> JinjaChunk(ms, i)])
  BY <1>1 DEF renderConversation
<1>3. ms # <<>>
  BY DEF FormatQwen3Guard, Failed
<1>4. CASE ms[Len(ms)].role = "user"
  <2> DEFINE text == UserText.prefix \o renderConversation(ms) \o UserText.suffix
  <2>1. FormatQwen3Guard(ms) = Rendered(text)
    BY <1>3, <1>4 DEF FormatQwen3Guard, Failed
  <2>2. Jinja(ms) = text
    BY <1>2, <1>3, <1>4, Zenon DEF Jinja
  <2>3. Rendered(text).text = text
    BY DEF Rendered
  <2> QED BY <2>1, <2>2, <2>3
<1>5. CASE ms[Len(ms)].role = "assistant"
  <2> DEFINE text == AssistantText.prefix \o renderConversation(ms) \o AssistantText.suffix
  <2>1. FormatQwen3Guard(ms) = Rendered(text)
    BY <1>3, <1>5 DEF FormatQwen3Guard, Failed
  <2>2. Jinja(ms) = text
    BY <1>2, <1>3, <1>5, Zenon DEF Jinja
  <2>3. Rendered(text).text = text
    BY DEF Rendered
  <2> QED BY <2>1, <2>2, <2>3
<1>6. CASE ms[Len(ms)].role \notin {"user", "assistant"}
  BY <1>6 DEF FormatQwen3Guard, Failed
<1> QED BY <1>4, <1>5, <1>6

(* A prompt is rendered by a constructed tokenizer only.                   *)
PromptInv ==
  answer.err = "nil" => /\ tok.err = "nil"
                        /\ answer.text = Jinja(asked)
                        /\ RecognizeTemplate(tok.template)

(* Chat answers with the rendering of the messages, or with an error.      *)
LEMMA ChatRenders ==
  ASSUME NEW messages \in Conversations, NEW maxTokens \in {0, 1},
         Chat(messages, maxTokens)
  PROVE  PromptInv'
<1> SUFFICES ASSUME answer'.err = "nil"
             PROVE  /\ tok'.err = "nil"
                    /\ answer'.text = Jinja(asked')
                    /\ RecognizeTemplate(tok'.template)
  BY DEF PromptInv
<1>1. /\ tok.err = "nil" /\ tok' = tok
      /\ asked' = messages
      /\ answer' = IF maxTokens <= 0 THEN Failed("ErrInvalidRequest") ELSE Format(messages)
  BY DEF Chat
<1>2. maxTokens > 0 /\ answer' = Format(messages)
  BY <1>1 DEF Failed
<1>3. RecognizeTemplate(tok.template) /\ answer' = FormatQwen3Guard(messages)
  BY <1>2 DEF Format, Failed
<1>4. Len(messages) \in Nat
  BY TokenizerAssumption
<1>5. answer'.text = Jinja(messages)
  BY <1>3, <1>4, FormatIsJinja
<1> QED BY <1>1, <1>3, <1>5

(* Every prompt is the rendering of the embedded template, whatever the    *)
(* conversation (template.go:46-111).                                      *)
THEOREM PromptsRenderTemplate == Spec => []RendersTemplate
<1>1. Init => PromptInv
  BY DEF Init, PromptInv, Failed
<1>2. PromptInv /\ [Next]_vars => PromptInv'
  <2> SUFFICES ASSUME PromptInv, [Next]_vars PROVE PromptInv'
    OBVIOUS
  <2>1. CASE New
    BY <2>1 DEF New, PromptInv
  <2>2. CASE \E messages \in Conversations, maxTokens \in {0, 1} : Chat(messages, maxTokens)
    BY <2>2, ChatRenders
  <2>3. CASE UNCHANGED vars
    BY <2>3 DEF vars, PromptInv
  <2> QED BY <2>1, <2>2, <2>3 DEF Next
<1>3. PromptInv => RendersTemplate
  BY DEF PromptInv, RendersTemplate
<1> QED BY <1>1, <1>2, <1>3, PTL DEF Spec

-----------------------------------------------------------------------------
(* What a prompt keeps.                                                    *)

(* A set of numbers that has 0 and with a number the next has them all.    *)
LEMMA Induction ==
  ASSUME NEW S, 0 \in S, \A n \in Nat : n \in S => n + 1 \in S
  PROVE  Nat \subseteq S
<1> DEFINE T == Nat \ S
<1> SUFFICES ASSUME T # {} PROVE FALSE
  OBVIOUS
<1>1. PICK x \in T : \A y \in T : ~ (<<y, x>> \in OpToRel(<, Nat))
  <2>1. T \subseteq Nat
    OBVIOUS
  <2> HIDE DEF T
  <2> QED
    BY <2>1, NatLessThanWellFounded, WFMin
<1>2. x \in Nat /\ x \notin S /\ x - 1 \in Nat /\ x - 1 < x
  <2>1. x \in Nat /\ x \notin S /\ x # 0
    OBVIOUS
  <2> QED
    BY <2>1
<1>3. <<x - 1, x>> \in OpToRel(<, Nat)
  BY <1>2 DEF OpToRel
<1>4. x - 1 \in S
  BY <1>1, <1>2, <1>3
<1>5. (x - 1) + 1 \in S
  BY <1>2, <1>4
<1> QED
  BY <1>2, <1>5

(* The function that FlattenSeq defines, up to some n.                     *)
Flattens(flatten, ss, n) ==
  flatten = [i \in 1..n |-> IF i = 1 THEN ss[i] ELSE flatten[i - 1] \o ss[i]]

(* There is such a function for every n, by induction.                     *)
LEMMA FlattensExist ==
  ASSUME NEW ss
  PROVE  \A n \in Nat : \E flatten : Flattens(flatten, ss, n)
<1> DEFINE S == {n \in Nat : \E flatten : Flattens(flatten, ss, n)}
<1>1. 0 \in S
  <2>1. 1..0 = {}
    OBVIOUS
  <2>2. Flattens([i \in {} |-> 0], ss, 0)
    BY <2>1 DEF Flattens
  <2> QED
    BY <2>2
<1>2. ASSUME NEW n \in Nat, n \in S
      PROVE  n + 1 \in S
  <2>1. PICK g : Flattens(g, ss, n)
    BY <1>2
  <2> DEFINE h == [i \in 1..n+1 |-> IF i = 1 THEN ss[i] ELSE g[i - 1] \o ss[i]]
  <2>2. ASSUME NEW k \in 2..n+1 PROVE h[k - 1] = g[k - 1]
    <3>1. k - 1 \in 1..n /\ k - 1 \in 1..n+1
      OBVIOUS
    <3>2. g[k - 1] = IF k - 1 = 1 THEN ss[k - 1] ELSE g[(k - 1) - 1] \o ss[k - 1]
      BY <2>1, <3>1 DEF Flattens
    <3> QED
      BY <3>1, <3>2
  <2>3. h = [i \in 1..n+1 |-> IF i = 1 THEN ss[i] ELSE h[i - 1] \o ss[i]]
    <3>1. \A i \in 1..n+1 : (IF i = 1 THEN ss[i] ELSE g[i - 1] \o ss[i])
                             = (IF i = 1 THEN ss[i] ELSE h[i - 1] \o ss[i])
      <4>1. \A i \in 1..n+1 : i # 1 => i \in 2..n+1
        OBVIOUS
      <4> HIDE DEF h
      <4> QED
        BY <2>2, <4>1
    <3> QED
      BY <3>1
  <2>4. Flattens(h, ss, n + 1)
    <3> HIDE DEF h
    <3> QED
      BY <2>3 DEF Flattens
  <2> HIDE DEF h
  <2> QED
    BY <2>4
<1> HIDE DEF S
<1>3. Nat \subseteq S
  BY <1>1, <1>2, Induction
<1> QED
  BY <1>3 DEF S

(* FlattenSeq joins the sequences one by one.                              *)
LEMMA FlattenJoins ==
  ASSUME NEW ss, Len(ss) \in Nat \ {0}
  PROVE  \E flatten : Flattens(flatten, ss, Len(ss)) /\ FlattenSeq(ss) = flatten[Len(ss)]
<1> DEFINE f == CHOOSE flatten : Flattens(flatten, ss, Len(ss))
<1>1. Flattens(f, ss, Len(ss))
  BY FlattensExist
<1>2. FlattenSeq(ss) = f[Len(ss)]
  <2>1. Len(ss) # 0
    OBVIOUS
  <2> QED
    BY <2>1, Zenon DEF FlattenSeq, Flattens
<1> HIDE DEF f
<1> QED
  BY <1>1, <1>2

(* What a message of a known role adds: its content after a fixed text, or *)
(* nothing, if it is not kept.                                             *)
LEMMA ChunkKeeps ==
  ASSUME NEW ms, Len(ms) \in Nat, NEW i \in 1..Len(ms), ms[i].role \in Roles
  PROVE  \/ i \in Kept(ms) /\ \E fixed \in FixedTexts : chunk(ms, i) = <<fixed, ms[i].content>>
         \/ i \notin Kept(ms) /\ chunk(ms, i) = <<>>
<1> DEFINE m == ms[i]
           adds(fixed) == fixed \in FixedTexts /\ chunk(ms, i) = <<fixed, m.content>>
           Adds == \E fixed \in FixedTexts : chunk(ms, i) = <<fixed, m.content>>
<1>0. \A fixed : adds(fixed) => Adds
  BY Zenon
<1>1. /\ "USER: " \in FixedTexts /\ "\n\n" \in FixedTexts
      /\ "\n\nASSISTANT: " \in FixedTexts /\ "\n\nUSER: " \in FixedTexts
  BY Zenon DEF FixedTexts
<1> SUFFICES \/ i \in Kept(ms) /\ Adds
             \/ i \notin Kept(ms) /\ chunk(ms, i) = <<>>
  OBVIOUS
<1>2. i \in Kept(ms) <=> \/ m.role = "user"
                         \/ m.role = "assistant" /\ i > 1
                         \/ m.role = "system" /\ i = 1
  BY DEF Kept
<1>3. (i > 1 <=> i # 1) /\ m.role \in {"system", "user", "assistant"}
  BY DEF Roles
<1>4. CASE i = 1
  <2>1. CASE m.role \in {"system", "user"}
    <3>1. adds("USER: ")
      BY <1>1, <1>4, <2>1, Zenon DEF chunk
    <3>2. Adds
      BY <1>0, <3>1, Zenon
    <3>3. i \in Kept(ms)
      BY <1>2, <1>4, <2>1
    <3> QED
      BY <3>2, <3>3, Zenon
  <2>2. CASE m.role \notin {"system", "user"}
    <3>1. chunk(ms, i) = <<>>
      BY <1>4, <2>2, Zenon DEF chunk
    <3> QED
      BY <1>2, <1>3, <1>4, <2>2, <3>1
  <2> QED
    BY <2>1, <2>2
<1>5. CASE i # 1 /\ m.role = "user"
  <2>1. adds("\n\n") \/ adds("\n\nUSER: ")
    <3>1. m.role # "assistant"
      BY <1>5
    <3> QED
      BY <1>1, <1>5, <3>1, Zenon DEF chunk
  <2>2. Adds
    BY <1>0, <2>1, Zenon
  <2>3. i \in Kept(ms)
    BY <1>2, <1>5
  <2> QED
    BY <2>2, <2>3, Zenon
<1>6. CASE i # 1 /\ m.role = "assistant"
  <2>1. adds("\n\nASSISTANT: ")
    <3>1. m.role # "user"
      BY <1>6
    <3> QED
      BY <1>1, <1>6, <3>1, Zenon DEF chunk
  <2>2. Adds
    BY <1>0, <2>1, Zenon
  <2>3. i \in Kept(ms)
    BY <1>2, <1>3, <1>6
  <2> QED
    BY <2>2, <2>3, Zenon
<1>7. CASE i # 1 /\ m.role = "system"
  <2>1. chunk(ms, i) = <<>>
    <3>1. m.role # "assistant" /\ m.role # "user"
      BY <1>7
    <3> QED
      BY <1>7, <3>1, Zenon DEF chunk
  <2> QED
    BY <1>2, <1>3, <1>7, <2>1
<1> QED
  BY <1>3, <1>4, <1>5, <1>6, <1>7

(* A text that goes on with a message after those it holds holds it too.   *)
LEMMA HoldsNext ==
  ASSUME NEW E, NEW text \in Seq(E), NEW ms, NEW kept, NEW n \in Nat,
         \A i \in kept : i \in Nat /\ i < n,
         Holds(text, ms, kept), NEW fixed \in FixedTexts, fixed \in E, ms[n].content \in E
  PROVE  Holds(text \o <<fixed, ms[n].content>>, ms, kept \cup {n})
<1> DEFINE long == text \o <<fixed, ms[n].content>>
           len  == Len(text)
<1>1. PICK at \in [kept -> 1..Len(text)] :
        /\ \A i \in kept : text[at[i]] = ms[i].content
        /\ \A i, j \in kept : i < j => at[i] < at[j]
        /\ \A p \in 1..Len(text) : (\E i \in kept : p = at[i]) \/ text[p] \in FixedTexts
  BY DEF Holds
<1>2. /\ len \in Nat /\ Len(long) = len + 2
      /\ \A p \in 1..len : long[p] = text[p]
      /\ long[len + 1] = fixed /\ long[len + 2] = ms[n].content
  OBVIOUS
<1> DEFINE to == [i \in kept \cup {n} |-> IF i = n THEN len + 2 ELSE at[i]]
<1>3. n \notin kept
  OBVIOUS
<1> HIDE DEF long, len
<1>4. \A i \in kept : at[i] \in 1..len /\ to[i] = at[i]
  BY <1>1, <1>3 DEF len
<1>5. to[n] = len + 2
  OBVIOUS
<1>6. to \in [kept \cup {n} -> 1..Len(long)]
  BY <1>1, <1>2, <1>4
<1> HIDE DEF to
<1>7. \A i \in kept \cup {n} : long[to[i]] = ms[i].content
  BY <1>1, <1>2, <1>4, <1>5
<1>8. \A i, j \in kept \cup {n} : i < j => to[i] < to[j]
  BY <1>1, <1>2, <1>4, <1>5
<1>9. ASSUME NEW p \in 1..Len(long)
      PROVE  (\E i \in kept \cup {n} : p = to[i]) \/ long[p] \in FixedTexts
  <2>1. CASE p \in 1..len
    <3>1. long[p] = text[p]
      BY <1>2, <2>1
    <3>2. (\E i \in kept : p = at[i]) \/ text[p] \in FixedTexts
      BY <1>1, <2>1 DEF len
    <3> QED
      BY <1>4, <3>1, <3>2
  <2>2. CASE p = len + 1
    BY <1>2, <2>2
  <2>3. CASE p = len + 2
    BY <1>5, <2>3
  <2> QED
    BY <1>2, <2>1, <2>2, <2>3
<1>10. Holds(long, ms, kept \cup {n})
  BY <1>6, <1>7, <1>8, <1>9 DEF Holds
<1> QED
  BY <1>10 DEF long

(* So does a text between two fixed ones.                                  *)
LEMMA HoldsBetween ==
  ASSUME NEW E, NEW text \in Seq(E), NEW ms, NEW kept, Holds(text, ms, kept),
         NEW before \in FixedTexts, NEW after \in FixedTexts, before \in E, after \in E
  PROVE  Holds(<<before>> \o text \o <<after>>, ms, kept)
<1> DEFINE long == <<before>> \o text \o <<after>>
           len  == Len(text)
<1>1. PICK at \in [kept -> 1..Len(text)] :
        /\ \A i \in kept : text[at[i]] = ms[i].content
        /\ \A i, j \in kept : i < j => at[i] < at[j]
        /\ \A p \in 1..Len(text) : (\E i \in kept : p = at[i]) \/ text[p] \in FixedTexts
  BY DEF Holds
<1>2. /\ len \in Nat /\ Len(long) = len + 2
      /\ \A p \in 1..len : long[p + 1] = text[p]
      /\ long[1] = before /\ long[len + 2] = after
  <2> DEFINE most == <<before>> \o text
  <2>1. /\ len \in Nat /\ most \in Seq(E) /\ Len(most) = len + 1 /\ most[1] = before
        /\ \A p \in 1..len : most[p + 1] = text[p]
    OBVIOUS
  <2>2. long = most \o <<after>>
    OBVIOUS
  <2> HIDE DEF most, long
  <2>3. /\ Len(long) = Len(most) + 1 /\ long[Len(most) + 1] = after
        /\ \A p \in 1..Len(most) : long[p] = most[p]
    BY <2>1, <2>2
  <2> HIDE DEF len
  <2>4. 1 \in 1..Len(most) /\ \A p \in 1..len : p + 1 \in 1..Len(most)
    BY <2>1
  <2> QED
    BY <2>1, <2>3, <2>4
<1> DEFINE to == [i \in kept |-> at[i] + 1]
<1> HIDE DEF long, len
<1>3. \A i \in kept : at[i] \in 1..len /\ to[i] = at[i] + 1
  BY <1>1 DEF len
<1>4. to \in [kept -> 1..Len(long)]
  BY <1>1, <1>2, <1>3
<1> HIDE DEF to
<1>5. \A i \in kept : long[to[i]] = ms[i].content
  BY <1>1, <1>2, <1>3
<1>6. \A i, j \in kept : i < j => to[i] < to[j]
  BY <1>1, <1>2, <1>3
<1>7. ASSUME NEW p \in 1..Len(long)
      PROVE  (\E i \in kept : p = to[i]) \/ long[p] \in FixedTexts
  <2>1. CASE p = 1 \/ p = len + 2
    BY <1>2, <2>1
  <2>2. CASE p - 1 \in 1..len
    <3>1. long[p] = text[p - 1]
      <4>1. p = (p - 1) + 1
        BY <1>2
      <4> QED
        BY <1>2, <2>2, <4>1
    <3>2. (\E i \in kept : p - 1 = at[i]) \/ text[p - 1] \in FixedTexts
      BY <1>1, <2>2 DEF len
    <3>3. ASSUME NEW i \in kept, p - 1 = at[i]
          PROVE  p = to[i]
      BY <1>2, <1>3, <3>3
    <3> QED
      BY <3>1, <3>2, <3>3, Zenon
  <2> QED
    BY <1>2, <2>1, <2>2
<1>8. Holds(long, ms, kept)
  BY <1>4, <1>5, <1>6, <1>7 DEF Holds
<1> QED
  BY <1>8 DEF long

(* What a prompt is made of.                                               *)
Pieces(ms) == FixedTexts \cup {ms[i].content : i \in 1..Len(ms)}

(* What is rendered of the first n messages keeps those of them that are   *)
(* kept.                                                                   *)
LEMMA ConversationKeeps ==
  ASSUME NEW M, NEW ms \in Seq(M), ms # <<>>, \A i \in 1..Len(ms) : ms[i].role \in Roles,
         NEW E, E = Pieces(ms)
  PROVE  /\ renderConversation(ms) \in Seq(E)
         /\ Holds(renderConversation(ms), ms, Kept(ms))
<1> DEFINE len == Len(ms)
           ss  == [i \in 1..len |-> chunk(ms, i)]
           To(n) == {i \in Kept(ms) : i <= n}
<1>1. len \in Nat \ {0} /\ \A i \in 1..len : ms[i].content \in E
  BY DEF Pieces
<1>2. Len(ss) = len /\ \A i \in 1..len : ss[i] = chunk(ms, i)
  BY <1>1
<1>3. PICK g : Flattens(g, ss, len) /\ FlattenSeq(ss) = g[len]
  <2> HIDE DEF ss, len
  <2> QED
    BY <1>1, <1>2, FlattenJoins
<1>4. FixedTexts \subseteq E
  BY DEF Pieces
<1>5. Kept(ms) \subseteq 1..len
  BY DEF Kept
<1>6. \A i \in 1..len :
        \/ i \in Kept(ms) /\ \E fixed \in FixedTexts : ss[i] = <<fixed, ms[i].content>>
        \/ i \notin Kept(ms) /\ ss[i] = <<>>
  BY <1>1, <1>2, ChunkKeeps
<1> HIDE DEF ss, len
<1> DEFINE S == {n \in Nat : n + 1 \in 1..len =>
                   g[n + 1] \in Seq(E) /\ Holds(g[n + 1], ms, To(n + 1))}
<1>7. Holds(<<>>, ms, {})
  <2> DEFINE at == [i \in {} |-> 0]
  <2>1. 1..Len(<<>>) = {} /\ at \in [{} -> 1..Len(<<>>)]
    OBVIOUS
  <2> HIDE DEF at
  <2> QED
    BY <2>1 DEF Holds
(* One more message, after a text that keeps those before it.              *)
<1>8. ASSUME NEW n \in 1..len, NEW text \in Seq(E), Holds(text, ms, To(n - 1))
      PROVE  text \o ss[n] \in Seq(E) /\ Holds(text \o ss[n], ms, To(n))
  <2>1. CASE n \in Kept(ms) /\ \E fixed \in FixedTexts : ss[n] = <<fixed, ms[n].content>>
    <3>1. PICK fixed \in FixedTexts : ss[n] = <<fixed, ms[n].content>>
      BY <2>1
    <3>2. To(n) = To(n - 1) \cup {n} /\ \A i \in To(n - 1) : i \in Nat /\ i < n
      BY <1>1, <1>5, <2>1
    <3>3. fixed \in E /\ ms[n].content \in E /\ n \in Nat
      BY <1>1, <1>4
    <3> HIDE DEF To
    <3>4. Holds(text \o <<fixed, ms[n].content>>, ms, To(n - 1) \cup {n})
      BY <1>8, <3>2, <3>3, HoldsNext
    <3> QED
      BY <3>1, <3>2, <3>3, <3>4
  <2>2. CASE n \notin Kept(ms) /\ ss[n] = <<>>
    <3>1. To(n) = To(n - 1)
      BY <1>1, <1>5, <2>2
    <3>2. text \o ss[n] = text
      BY <2>2
    <3> HIDE DEF To
    <3> QED
      BY <1>8, <3>1, <3>2
  <2> QED
    BY <1>6, <2>1, <2>2
<1>9. 0 \in S
  <2>1. To(0) = {}
    BY <1>1, <1>5
  <2> HIDE DEF To
  <2>2. 1 \in 1..len /\ 1 - 1 = 0
    BY <1>1
  <2>3. g[1] = ss[1]
    BY <1>3, <2>2 DEF Flattens
  <2>4. ss[1] \in Seq(E) => <<>> \o ss[1] = ss[1]
    OBVIOUS
  <2>5. <<>> \o ss[1] \in Seq(E) /\ Holds(<<>> \o ss[1], ms, To(1))
    <3> HIDE DEF S
    <3>1. <<>> \in Seq(E)
      OBVIOUS
    <3>2. To(1 - 1) = {}
      BY <2>1, <2>2
    <3>3. Holds(<<>>, ms, To(1 - 1))
      BY <1>7, <3>2, Zenon
    <3> QED
      BY <1>8, <2>2, <3>1, <3>3
  <2>6. ss[1] = <<>> \/ \E a, b : ss[1] = <<a, b>>
    BY <1>6, <2>2
  <2>7. <<>> \o ss[1] = ss[1]
    BY <2>6
  <2> QED
    BY <2>3, <2>5, <2>7
<1>10. ASSUME NEW n \in Nat, n \in S
       PROVE  n + 1 \in S
  <2> SUFFICES ASSUME (n + 1) + 1 \in 1..len
               PROVE  /\ g[(n + 1) + 1] \in Seq(E)
                      /\ Holds(g[(n + 1) + 1], ms, To((n + 1) + 1))
    OBVIOUS
  <2>1. n + 1 \in 1..len /\ (n + 1) + 1 # 1 /\ ((n + 1) + 1) - 1 = n + 1
    BY <1>1
  <2>2. g[n + 1] \in Seq(E) /\ Holds(g[n + 1], ms, To(n + 1))
    BY <1>10, <2>1
  <2>3. g[(n + 1) + 1] = g[n + 1] \o ss[(n + 1) + 1]
    BY <1>3, <2>1 DEF Flattens
  <2> HIDE DEF To
  <2> QED
    BY <1>8, <2>1, <2>2, <2>3
<1> HIDE DEF S
<1>11. Nat \subseteq S
  BY <1>9, <1>10, Induction
<1>12. len - 1 \in Nat /\ (len - 1) + 1 = len /\ len \in 1..len
  BY <1>1
<1>13. len - 1 \in S
  BY <1>11, <1>12
<1>14. g[len] \in Seq(E) /\ Holds(g[len], ms, To(len))
  BY <1>12, <1>13 DEF S
<1>15. To(len) = Kept(ms)
  BY <1>1, <1>5
<1>16. renderConversation(ms) = g[len]
  BY <1>3 DEF renderConversation, ss, len
<1> HIDE DEF To
<1> QED
  BY <1>14, <1>15, <1>16

(* So does a prompt (template.go:56-80).                                   *)
LEMMA FormatKeeps ==
  ASSUME NEW M, NEW ms \in Seq(M), FormatQwen3Guard(ms).err = "nil"
  PROVE  Holds(FormatQwen3Guard(ms).text, ms, Kept(ms))
<1> DEFINE c == renderConversation(ms)
           last == ms[Len(ms)].role
           E == Pieces(ms)
<1>1. ms # <<>> /\ (\A i \in 1..Len(ms) : ms[i].role \in Roles)
      /\ last \in {"user", "assistant"}
  BY Zenon DEF FormatQwen3Guard, Failed
<1>2. c \in Seq(E) /\ Holds(c, ms, Kept(ms))
  <2> HIDE DEF E
  <2>1. E = Pieces(ms)
    BY DEF E
  <2> QED
    BY <1>1, <2>1, ConversationKeeps
<1>3. \/ FormatQwen3Guard(ms).text = <<"UserPrefix">> \o c \o <<"UserSuffix">>
      \/ FormatQwen3Guard(ms).text = <<"AssistantPrefix">> \o c \o <<"AssistantSuffix">>
  <2> HIDE DEF c
  <2>1. CASE last = "user"
    <3>1. FormatQwen3Guard(ms) = Rendered(UserText.prefix \o c \o UserText.suffix)
      BY <1>1, <2>1, Zenon DEF FormatQwen3Guard, c
    <3> QED
      BY <3>1 DEF Rendered, UserText
  <2>2. CASE last # "user"
    <3>1. last = "assistant"
      BY <1>1, <2>2
    <3>2. FormatQwen3Guard(ms) = Rendered(AssistantText.prefix \o c \o AssistantText.suffix)
      BY <1>1, <2>2, <3>1, Zenon DEF FormatQwen3Guard, c
    <3> QED
      BY <3>2 DEF Rendered, AssistantText
  <2> QED
    BY <2>1, <2>2
<1>4. /\ "UserPrefix" \in FixedTexts /\ "UserSuffix" \in FixedTexts
      /\ "AssistantPrefix" \in FixedTexts /\ "AssistantSuffix" \in FixedTexts
  BY Zenon DEF FixedTexts
<1>5. FixedTexts \subseteq E
  BY DEF Pieces
<1> HIDE DEF c, E
<1>6. \A a, b \in FixedTexts : Holds(<<a>> \o c \o <<b>>, ms, Kept(ms))
  BY <1>2, <1>5, HoldsBetween
<1> QED
  BY <1>3, <1>4, <1>6

(* Every message of a conversation that the template keeps is in the       *)
(* prompt, in its place, for conversations of any length                   *)
(* (template.go:46-111).                                                   *)
THEOREM PromptsKeepMessages == Spec => []KeepsMessages
<1>1. Init => KeepsMessages
  BY DEF Init, KeepsMessages, Failed
<1>2. KeepsMessages /\ [Next]_vars => KeepsMessages'
  <2> SUFFICES ASSUME KeepsMessages, [Next]_vars PROVE KeepsMessages'
    OBVIOUS
  <2>1. CASE New
    BY <2>1 DEF New, KeepsMessages
  <2>2. ASSUME NEW messages \in Conversations, NEW maxTokens \in {0, 1},
               Chat(messages, maxTokens), answer'.err = "nil"
        PROVE  Holds(answer'.text, asked', Kept(asked'))
    <3>1. asked' = messages
          /\ answer' = IF maxTokens <= 0 THEN Failed("ErrInvalidRequest") ELSE Format(messages)
      BY <2>2 DEF Chat
    <3>2. answer' = FormatQwen3Guard(messages)
      BY <2>2, <3>1, Zenon DEF Format, Failed
    <3>3. messages \in Seq([role : STRING, content : STRING])
      BY TokenizerAssumption
    <3> QED
      BY <2>2, <3>1, <3>2, <3>3, FormatKeeps
  <2>3. CASE UNCHANGED vars
    BY <2>3 DEF vars, KeepsMessages
  <2> QED
    BY <2>1, <2>2, <2>3 DEF Next, KeepsMessages
<1> QED
  BY <1>1, <1>2, PTL DEF Spec

-----------------------------------------------------------------------------
(* The special ids.                                                        *)

(* The range check of tokenID leaves the numbers of an int64 alone and     *)
(* makes everything else "none" (loader.go:249-281).                       *)
LEMMA TokenIDExact ==
  ASSUME NEW v \in Values, NEW n \in Nat, n <= MaxInt64
  PROVE  /\ tokenID(v) \in Int /\ tokenID(v) <= MaxInt64
         /\ tokenID(v) = n <=> v = Number(n)
<1> USE TokenizerAssumption
<1>1. CASE v \in {Absent, Other}
  <2>1. v.kind # "int"
    BY <1>1 DEF Absent, Other
  <2>2. v # Number(n)
    BY <2>1 DEF Number
  <2> QED BY <2>1, <2>2 DEF tokenID, numeric
<1>2. CASE \E m \in Numbers : v = Number(m)
  <2>1. PICK m \in Numbers : v = Number(m)
    BY <1>2
  <2>2. v.kind = "int" /\ v.n = m /\ m \in Int
    BY <2>1 DEF Number, MaxUint64
  <2>3. v = Number(n) <=> m = n
    BY <2>1 DEF Number
  <2> QED BY <2>2, <2>3 DEF tokenID, numeric
<1> QED BY <1>1, <1>2 DEF Values

(* An id that an int32 holds is the same after the conversion.             *)
LEMMA Int32Exact ==
  ASSUME NEW n \in 0..MaxInt32
  PROVE  int32(n) = n
<1> USE TokenizerAssumption
<1>1. \A x, y \in Nat : x < y => x % y = x
  OBVIOUS
<1>2. /\ n + MaxInt32 + 1 \in Nat /\ 2*(MaxInt32 + 1) \in Nat
      /\ n + MaxInt32 + 1 < 2*(MaxInt32 + 1)
  OBVIOUS
<1>3. (n + MaxInt32 + 1) % (2*(MaxInt32 + 1)) = n + MaxInt32 + 1
  BY <1>1, <1>2
<1> QED BY <1>3 DEF int32

(* The metadata is that of the file until New has read it.                 *)
KVInv == tok.err = "none" => kv \in Metadata

(* One Tokenizer, from any metadata: IsEOG and the synthesised types.      *)
LEMMA NewIsExact ==
  ASSUME kv \in Metadata, New, tok'.err = "nil"
  PROVE  /\ \A id \in (-MaxInt32-1)..MaxInt32 :
              IsEOG(id)' <=> id >= 0 /\ Names(eogKeys, id)
         /\ ~kv.types => \A id \in 0..kv.tokens-1 :
              tok'.types[id] = "control" <=> Names(idKeys, id)
<1> USE TokenizerAssumption
<1> DEFINE meta == extractTokenizer(kv)
<1>1. /\ kv.types \in BOOLEAN /\ kv.tokens \in 0..MaxInt64
      /\ \A k \in idKeys : kv.ids[k] \in Values
  BY DEF Metadata
<1>2. /\ meta.tokens = kv.tokens /\ meta.types = kv.types
      /\ \A k \in idKeys : meta.ids[k] = tokenID(kv.ids[k])
  BY DEF extractTokenizer
<1>3. tok' = NewTokenizer(meta)
  BY DEF New
<1>4. tok' = built(meta) /\ ~outOfRange(meta)
  BY <1>3 DEF NewTokenizer
<1>5. eogKeys \subseteq idKeys
  BY DEF idKeys
<1>6. \A k \in idKeys, n \in Nat : n <= MaxInt64 =>
        /\ meta.ids[k] \in Int
        /\ meta.ids[k] = n <=> kv.ids[k] = Number(n)
  BY <1>1, <1>2, TokenIDExact
<1>7. ASSUME NEW id \in (-MaxInt32-1)..MaxInt32
      PROVE  IsEOG(id)' <=> id >= 0 /\ Names(eogKeys, id)
  <2>1. tok'.eog = {int32(meta.ids[k]) : k \in {k \in eogKeys : meta.ids[k] >= 0}}
    BY <1>4 DEF built
  <2>2. ASSUME NEW k \in eogKeys, meta.ids[k] >= 0
        PROVE  int32(meta.ids[k]) = meta.ids[k] /\ meta.ids[k] \in 0..MaxInt32
    <3>1. meta.ids[k] \in 0..MaxInt32
      BY <1>4, <1>5, <1>6, <2>2 DEF outOfRange
    <3> QED BY <3>1, Int32Exact
  <2>3. IsEOG(id)' <=> \E k \in eogKeys : meta.ids[k] >= 0 /\ meta.ids[k] = id
    BY <2>1, <2>2 DEF IsEOG
  <2>4. CASE id >= 0
    <3>1. \A k \in eogKeys : meta.ids[k] = id <=> kv.ids[k] = Number(id)
      BY <1>5, <1>6, <2>4
    <3> QED BY <2>3, <2>4, <3>1 DEF Names
  <2>5. CASE id < 0
    BY <2>3, <2>5, <1>5, <1>6
  <2> QED BY <2>4, <2>5
<1>8. ASSUME ~kv.types, NEW id \in 0..kv.tokens-1
      PROVE  tok'.types[id] = "control" <=> Names(idKeys, id)
  <2>1. tok'.types = synthesizeTypes(meta)
    BY <1>2, <1>4, <1>8 DEF built
  <2>2. tok'.types[id] = IF \E k \in idKeys : meta.ids[k] = id THEN "control" ELSE "normal"
    BY <1>2, <2>1 DEF synthesizeTypes
  <2>3. \A k \in idKeys : meta.ids[k] = id <=> kv.ids[k] = Number(id)
    BY <1>1, <1>6
  <2> QED BY <2>2, <2>3 DEF Names
<1> QED BY <1>7, <1>8

(* For every file and every width, no conversion makes up or loses a       *)
(* special id (loader.go:249-281, tokenizer.go:51-108).                    *)
THEOREM SpecialTokens == Spec => SpecialTokensExact
<1> DEFINE Exact ==
      New /\ tok'.err = "nil" =>
        /\ \A id \in (-MaxInt32-1)..MaxInt32 :
             IsEOG(id)' <=> id >= 0 /\ Names(eogKeys, id)
        /\ ~kv.types => \A id \in 0..kv.tokens-1 :
             tok'.types[id] = "control" <=> Names(idKeys, id)
<1>1. Init => KVInv
  BY DEF Init, KVInv
<1>2. KVInv /\ [Next]_vars => KVInv'
  <2> SUFFICES ASSUME KVInv, [Next]_vars PROVE KVInv'
    OBVIOUS
  <2>1. CASE New
    <3>1. tok'.err # "none"
      BY <2>1 DEF New, NewTokenizer, built
    <3> QED BY <3>1 DEF KVInv
  <2>2. CASE \E messages \in Conversations, maxTokens \in {0, 1} : Chat(messages, maxTokens)
    BY <2>2 DEF Chat, KVInv
  <2>3. CASE UNCHANGED vars
    BY <2>3 DEF vars, KVInv
  <2> QED BY <2>1, <2>2, <2>3 DEF Next
<1>3. KVInv => Exact
  <2>1. New => tok.err = "none"
    BY DEF New
  <2> QED BY <2>1, NewIsExact DEF KVInv
<1>4. KVInv /\ [Next]_vars => [Exact]_vars
  BY <1>3
<1> QED BY <1>1, <1>2, <1>4, PTL DEF Spec, SpecialTokensExact
=============================================================================
