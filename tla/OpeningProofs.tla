--------------------------- MODULE OpeningProofs ---------------------------
(***************************************************************************)
(* Proofs about Opening, for any number and sizes of files, any times,     *)
(* options and number of changes, and any interleaving with the processes  *)
(* that make them.                                                         *)
(***************************************************************************)
EXTENDS Opening, TLAPS

-----------------------------------------------------------------------------
(* Bytes.                                                                  *)

(* Data are the sequences that are not too long.                           *)
LEMMA DataAre == \A d : d \in Data <=> d \in Seq(Bytes) /\ Len(d) <= MaxSize
<1> SUFFICES ASSUME NEW d PROVE d \in Data <=> d \in Seq(Bytes) /\ Len(d) <= MaxSize
  OBVIOUS
<1>1. MaxSize \in Nat
  BY OpeningAssumption
<1>2. ASSUME d \in Data PROVE d \in Seq(Bytes) /\ Len(d) <= MaxSize
  <2>1. PICK n \in 0..MaxSize : d \in [1..n -> Bytes]
    BY <1>2 DEF Data
  <2> QED
    BY <1>1, <2>1
<1>3. ASSUME d \in Seq(Bytes), Len(d) <= MaxSize PROVE d \in Data
  <2>1. Len(d) \in Nat /\ d \in [1..Len(d) -> Bytes]
    BY <1>3
  <2>2. Len(d) \in 0..MaxSize
    BY <1>1, <1>3, <2>1
  <2> QED
    BY <2>1, <2>2, Zenon DEF Data
<1> QED
  BY <1>2, <1>3, Zenon

(* The first bytes of some.                                                *)
LEMMA Prefix ==
  ASSUME NEW s \in Data, NEW n \in Nat, n <= Len(s)
  PROVE  SubSeq(s, 1, n) \in Data /\ Len(SubSeq(s, 1, n)) = n
<1>1. s \in Seq(Bytes) /\ Len(s) \in Nat /\ Len(s) <= MaxSize /\ MaxSize \in Nat
  BY DataAre, OpeningAssumption
<1>2. SubSeq(s, 1, n) \in Seq(Bytes) /\ Len(SubSeq(s, 1, n)) = n
  BY <1>1
<1>3. n <= MaxSize
  BY <1>1
<1> QED
  BY <1>2, <1>3, DataAre

(* A byte more.                                                            *)
LEMMA PrefixNext ==
  ASSUME NEW s \in Data, NEW n \in Nat, n < Len(s)
  PROVE  Append(SubSeq(s, 1, n), s[n + 1]) = SubSeq(s, 1, n + 1)
<1>1. s \in Seq(Bytes)
  BY DataAre
<1> QED
  BY <1>1

(* All of them.                                                            *)
LEMMA PrefixAll ==
  ASSUME NEW s \in Data
  PROVE  SubSeq(s, 1, Len(s)) = s
<1>1. s \in Seq(Bytes)
  BY DataAre
<1> QED
  BY <1>1

(* Another's next byte can be appended.                                    *)
LEMMA AppendData ==
  ASSUME NEW s \in Data, NEW t \in Data, Len(s) < Len(t)
  PROVE  /\ Append(s, t[Len(s) + 1]) \in Data
         /\ Len(Append(s, t[Len(s) + 1])) = Len(s) + 1
<1>1. /\ s \in Seq(Bytes) /\ t \in Seq(Bytes)
      /\ Len(s) \in Nat /\ Len(t) \in Nat /\ Len(t) <= MaxSize /\ MaxSize \in Nat
  BY DataAre, OpeningAssumption
<1>2. t[Len(s) + 1] \in Bytes
  BY <1>1
<1>3. /\ Append(s, t[Len(s) + 1]) \in Seq(Bytes)
      /\ Len(Append(s, t[Len(s) + 1])) = Len(s) + 1
  BY <1>1, <1>2
<1>4. Len(s) + 1 <= MaxSize
  BY <1>1
<1> QED
  BY <1>3, <1>4, DataAre

(* No bytes.                                                               *)
LEMMA EmptyData == <<>> \in Data /\ Len(<<>>) = 0
<1>1. <<>> \in Seq(Bytes) /\ Len(<<>>) = 0
  OBVIOUS
<1>2. 0 <= MaxSize
  BY OpeningAssumption
<1> QED
  BY <1>1, <1>2, DataAre
-----------------------------------------------------------------------------
(* The inductive invariant.                                                *)

Infos == [size : 0..MaxSize, modTime : Times \cup {0}]
Views == [mode : {"none", "map", "copy"}, inode : {NoInode} \cup Inodes,
          size : 0..MaxSize, data : Data]

(* What is mapped is there, and a copy is made of a file that was found,   *)
(* and is not complete yet.                                                *)
Typed ==
  /\ TypeOK
  /\ view.mode = "map" => view.inode \in Inodes /\ view.size <= Len(files[view.inode].data)
  /\ pc = "mapping" => view.inode \in Inodes /\ view.data = <<>>
  /\ pc = "reading" =>
       view.mode = "copy" /\ view.inode \in Inodes /\ Len(view.data) < info.size
  /\ pc \in {"map", "mapping", "read"} => info.size > 0

Settling == {"arch", "tokenizer", "model", "memory", "sessions"}

(* A call past the opening holds a view; a finished one is idle.           *)
Holds ==
  /\ pc \in {"check", "digest", "hash", "parse"} \cup Settling => view.mode # "none"
  /\ pc = "sessions" => op = "Open"
  /\ result = "ok" => pc = "idle"

(* If a second stat agreed now, it would be with the file that was opened, *)
(* and so far with all that was copied of it.                              *)
SameFile ==
  unchanged /\ ~restored =>
    /\ pc = "mapping" => view.inode = path
    /\ pc = "reading" =>
         view.inode = path /\ view.data = SubSeq(files[path].data, 1, Len(view.data))
    /\ pc = "check" =>
         shown = files[path].data /\ (view.mode = "map" => view.inode = path)

(* What has the digest that was asked for.                                 *)
Digested ==
  op = "Open" /\ opts.want # NoDigest /\ ~rewritten =>
    /\ pc = "hash" => Len(hashed) <= Len(shown) /\ hashed = SubSeq(shown, 1, Len(hashed))
    /\ pc = "parse" => DigestOf(shown) = opts.want
    /\ pc \in Settling => DigestOf(parsed) = opts.want /\ DigestOf(shown) = opts.want

OpeningInv ==
  /\ Typed
  /\ Holds
  /\ SameFile
  /\ Digested
  /\ NothingLeaks
  /\ VerifiedIsParsed

(* A file, and what a stat says of it.                                     *)
LEMMA FileIs ==
  ASSUME NEW file \in Files
  PROVE  /\ file.data \in Data /\ file.modTime \in Times
         /\ Len(file.data) \in 0..MaxSize
         /\ Stat(file) \in Infos
<1>1. file.data \in Data /\ file.modTime \in Times
  BY OpeningAssumption DEF Files
<1>2. Len(file.data) \in 0..MaxSize
  <2>1. Len(file.data) \in Nat /\ Len(file.data) <= MaxSize
    BY <1>1, DataAre
  <2> QED
    BY <2>1, OpeningAssumption
<1> QED
  BY <1>1, <1>2 DEF Stat, Infos

(* No view.                                                                *)
LEMMA NoViewIs == NoView \in Views /\ NoView.mode = "none" /\ NoInfo \in Infos
BY EmptyData, OpeningAssumption DEF NoView, NoInfo, NoInode, Views, Infos

(* The bytes of the backing, of which there are as many as were mapped.    *)
LEMMA ShownIs ==
  ASSUME Typed
  PROVE  shown \in Data /\ Len(shown) \in Nat
<1>1. shown \in Data
  <2>1. CASE view.mode = "map"
    <3>1. view.inode \in Inodes /\ files[view.inode] \in Files /\ view.size \in Nat
      BY <2>1, OpeningAssumption DEF Typed, TypeOK
    <3>2. files[view.inode].data \in Data /\ view.size <= Len(files[view.inode].data)
      BY <2>1, <3>1, FileIs DEF Typed
    <3> QED
      BY <2>1, <3>1, <3>2, Prefix DEF shown
  <2>2. CASE view.mode # "map"
    BY <2>2 DEF shown, Typed, TypeOK
  <2> QED
    BY <2>1, <2>2
<1> QED
  BY <1>1, DataAre

(* Nothing is open at first.                                               *)
LEMMA InitHolds == Init => OpeningInv
<1> SUFFICES ASSUME Init PROVE OpeningInv
  OBVIOUS
<1>1. /\ changes = 0 /\ op = "Open" /\ opts \in Requests /\ pc = "idle"
      /\ info = NoInfo /\ view = NoView /\ hashed = <<>> /\ parsed = <<>> /\ estimate = <<>>
      /\ sessions = 0 /\ result = "none" /\ restored = FALSE /\ rewritten = FALSE
      /\ files \in [Inodes -> Files] /\ path = 1
  BY DEF Init
<1>2. TypeOK
  <2>1. restored \in BOOLEAN /\ rewritten \in BOOLEAN
    BY <1>1, Zenon
  <2>2. view \in Views /\ info \in Infos
    BY <1>1, NoViewIs
  <2>3. {hashed, parsed, estimate} \subseteq Data
    BY <1>1, EmptyData
  <2>4. sessions \in 0..opts.maxConcurrent
    BY <1>1, OpeningAssumption DEF Options
  <2>5. path \in {NoInode} \cup Inodes /\ changes \in 0..MaxChanges
    BY <1>1, OpeningAssumption DEF Inodes
  <2>6. /\ op \in {"Open", "Estimate"}
        /\ pc \in Places
    BY <1>1 DEF Places
  <2> QED
    BY <1>1, <2>1, <2>2, <2>3, <2>4, <2>5, <2>6, Zenon DEF TypeOK, Views, Infos
<1>3. Typed
  BY <1>1, <1>2, NoViewIs DEF Typed
<1> QED
  BY <1>1, <1>3
    DEF OpeningInv, Holds, Settling, SameFile, Digested, NothingLeaks, VerifiedIsParsed
-----------------------------------------------------------------------------
(* Other processes.                                                        *)

(* The types survive any change.                                           *)
LEMMA OthersTyped ==
  ASSUME OpeningInv, others
  PROVE  /\ Typed'
         /\ UNCHANGED <<op, opts, pc, info, view, hashed, parsed, sessions, result, estimate>>
<1>1. UNCHANGED <<op, opts, pc, info, view, hashed, parsed, sessions, result, estimate>>
  BY DEF others, Remove, Replace, Rewrite, change, callVars, localVars
<1>2. Typed /\ TypeOK
  BY DEF OpeningInv, Typed
<1>3. changes' \in 0..MaxChanges
  <2>1. changes < MaxChanges /\ changes' = changes + 1
    BY DEF others, Remove, Replace, Rewrite, change
  <2> QED
    BY <1>2, <2>1, OpeningAssumption DEF TypeOK
<1>4. path' \in {NoInode} \cup Inodes
  BY <1>2 DEF others, Remove, Replace, Rewrite, TypeOK
<1>5. files' \in [Inodes -> Files]
  BY <1>2 DEF others, Remove, Replace, Rewrite, TypeOK
<1>6. restored' \in BOOLEAN /\ rewritten' \in BOOLEAN
  BY <1>2, Zenon DEF others, Remove, Replace, Rewrite, ghostVars, TypeOK
<1>7. TypeOK'
  BY <1>1, <1>2, <1>3, <1>4, <1>5, <1>6, Zenon DEF TypeOK
<1>8. view.mode = "map" => view.size <= Len(files'[view.inode].data)
  <2> SUFFICES ASSUME view.mode = "map" PROVE view.size <= Len(files'[view.inode].data)
    OBVIOUS
  <2>1. view.inode \in Inodes /\ view.size <= Len(files[view.inode].data)
    BY <1>2 DEF Typed
  <2>2. CASE files' = files
    BY <2>1, <2>2
  <2>3. CASE \E i \in Inodes, file \in Files : Rewrite(i, file)
    <3>1. PICK i \in Inodes, file \in Files : Rewrite(i, file)
      BY <2>3
    <3>2. files' = [files EXCEPT ![i] = file] /\ (view.inode = i => view.size <= Len(file.data))
      <4>1. view.inode = i => Len(file.data) >= view.size
        BY <3>1 DEF Rewrite, mapped
      <4>2. view.size \in Nat /\ Len(file.data) \in Nat
        BY <1>2, FileIs, OpeningAssumption DEF TypeOK
      <4> QED
        BY <3>1, <4>1, <4>2 DEF Rewrite
    <3> QED
      BY <1>2, <2>1, <3>2 DEF TypeOK
  <2> QED
    BY <2>2, <2>3 DEF others, Remove, Replace
<1> QED
  BY <1>1, <1>2, <1>7, <1>8 DEF Typed

(* The backing shows what it showed, unless its mapping is rewritten.      *)
LEMMA OthersShown ==
  ASSUME OpeningInv, others, ~rewritten'
  PROVE  ~rewritten /\ shown' = shown
<1>1. Typed /\ TypeOK
  BY DEF OpeningInv, Typed
<1>2. CASE UNCHANGED <<files, rewritten, view>>
  BY <1>2 DEF shown
<1>3. CASE \E i \in Inodes, file \in Files : Rewrite(i, file)
  <2>1. PICK i \in Inodes, file \in Files : Rewrite(i, file)
    BY <1>3
  <2>2. ~rewritten /\ ~mapped(i)
    BY <2>1, Zenon DEF Rewrite
  <2>3. files' = [files EXCEPT ![i] = file] /\ view' = view
    BY <2>1 DEF Rewrite, change, localVars
  <2>4. view.mode = "map" => files'[view.inode] = files[view.inode]
    BY <1>1, <2>2, <2>3 DEF mapped, Typed, TypeOK
  <2> QED
    BY <2>2, <2>3, <2>4 DEF shown
<1> QED
  BY <1>2, <1>3 DEF others, Remove, Replace, change, localVars, ghostVars

(* A second stat that would agree would have agreed before, with the same  *)
(* file, unless one of its size and time was brought to the path.          *)
LEMMA OthersSame ==
  ASSUME OpeningInv, others, unchanged', ~restored'
  PROVE  /\ unchanged /\ ~restored
         /\ path' = path /\ files'[path] = files[path]
         /\ view.mode # "map" \/ view.inode = path => shown' = shown
<1>1. Typed /\ TypeOK
  BY DEF OpeningInv, Typed
<1>2. info' = info /\ view' = view
  BY OthersTyped
<1>3. path' # NoInode /\ Stat(files'[path']) = info
  BY <1>2 DEF unchanged, Stat
<1>4. ~Remove
  BY <1>3 DEF Remove
<1>5. ASSUME NEW i \in Inodes, Replace(i) PROVE FALSE
  <2>1. Stat(files[i]) = info
    BY <1>3, <1>5 DEF Replace, Stat
  <2> QED
    BY <1>5, <2>1, Zenon DEF Replace
<1>6. PICK i \in Inodes, file \in Files : Rewrite(i, file)
  BY <1>4, <1>5 DEF others
<1>7. files' = [files EXCEPT ![i] = file] /\ path' = path /\ ~restored
  BY <1>6, Zenon DEF Rewrite
<1>8. i # path
  <2> SUFFICES ASSUME i = path PROVE FALSE
    OBVIOUS
  <2>1. Stat(file) = info
    BY <1>1, <1>3, <1>7 DEF TypeOK, Stat
  <2> QED
    BY <1>6, <2>1, Zenon DEF Rewrite
<1>9. files'[path] = files[path]
  BY <1>1, <1>7, <1>8 DEF TypeOK
<1>10. unchanged
  BY <1>3, <1>7, <1>9 DEF unchanged, Stat
<1>11. view.mode # "map" \/ view.inode = path => shown' = shown
  BY <1>2, <1>9 DEF shown
<1> QED
  BY <1>7, <1>9, <1>10, <1>11

(* The invariant survives any change.                                      *)
LEMMA OthersStep ==
  ASSUME OpeningInv, others
  PROVE  OpeningInv'
<1>1. /\ Typed' /\ Typed
      /\ UNCHANGED <<op, opts, pc, info, view, hashed, parsed, sessions, result, estimate>>
  BY OthersTyped DEF OpeningInv
<1>2. Holds' /\ NothingLeaks'
  BY <1>1 DEF OpeningInv, Holds, NothingLeaks
<1>3. SameFile'
  <2> SUFFICES ASSUME unchanged', ~restored'
               PROVE  /\ pc' = "mapping" => view'.inode = path'
                      /\ pc' = "reading" =>
                           view'.inode = path'
                           /\ view'.data = SubSeq(files'[path'].data, 1, Len(view'.data))
                      /\ pc' = "check" =>
                           /\ shown' = files'[path'].data
                           /\ view'.mode = "map" => view'.inode = path'
    BY DEF SameFile
  <2>1. /\ unchanged /\ ~restored /\ path' = path /\ files'[path] = files[path]
        /\ view.mode # "map" \/ view.inode = path => shown' = shown
    BY OthersSame
  <2>2. /\ pc = "mapping" => view.inode = path
        /\ pc = "reading" =>
             view.inode = path /\ view.data = SubSeq(files[path].data, 1, Len(view.data))
        /\ pc = "check" =>
             shown = files[path].data /\ (view.mode = "map" => view.inode = path)
    BY <2>1 DEF OpeningInv, SameFile
  <2> QED
    BY <1>1, <2>1, <2>2
<1>4. Digested' /\ VerifiedIsParsed'
  <2>1. CASE rewritten'
    BY <2>1 DEF Digested, VerifiedIsParsed
  <2>2. CASE ~rewritten'
    <3>1. ~rewritten /\ shown' = shown
      BY <2>2, OthersShown
    <3> QED
      BY <1>1, <3>1 DEF OpeningInv, Digested, VerifiedIsParsed
  <2> QED
    BY <2>1, <2>2
<1> QED
  BY <1>1, <1>2, <1>3, <1>4 DEF OpeningInv
-----------------------------------------------------------------------------
(* The call.                                                               *)

(* A call that fails closes what it opened.                                *)
LEMMA FailsStep ==
  ASSUME OpeningInv, NEW e, e # "ok", fails(e),
         UNCHANGED <<files, path, changes, op, opts, info, hashed, sessions, estimate,
                     restored, rewritten>>,
         parsed' \in Data
  PROVE  OpeningInv'
<1>1. pc' = "idle" /\ result' = e /\ view' = NoView
  BY DEF fails, cleanup
<1>2. view' \in Views /\ view'.mode = "none"
  BY <1>1, NoViewIs
<1>3. TypeOK'
  BY <1>1, <1>2, Zenon DEF OpeningInv, Typed, TypeOK, Places, Views
<1>4. Typed'
  BY <1>1, <1>2, <1>3 DEF Typed
<1> QED
  BY <1>1, <1>4 DEF OpeningInv, Holds, Settling, SameFile, Digested, NothingLeaks, VerifiedIsParsed

(* A request arrives.                                                      *)
LEMMA CallStep ==
  ASSUME OpeningInv, NEW o \in {"Open", "Estimate"}, Call(o)
  PROVE  OpeningInv'
<1>1. /\ op' = o /\ restored' = FALSE /\ rewritten' = FALSE /\ info' = NoInfo
      /\ hashed' = <<>> /\ parsed' = <<>> /\ sessions' = 0 /\ view' = NoView
      /\ UNCHANGED <<files, path, changes, opts, estimate>>
      /\ result' # "ok" /\ pc' \in {"idle", "stat"}
  BY DEF Call, fileVars
<1>2. view' \in Views /\ view'.mode = "none" /\ info' \in Infos /\ <<>> \in Data
  BY <1>1, NoViewIs, EmptyData
<1>3. TypeOK'
  <2>1. restored' \in BOOLEAN /\ rewritten' \in BOOLEAN
    BY <1>1, Zenon
  <2>2. /\ files' \in [Inodes -> Files] /\ path' \in {NoInode} \cup Inodes
        /\ changes' \in 0..MaxChanges
        /\ opts' \in Requests /\ {hashed', parsed', estimate'} \subseteq Data
    BY <1>1, <1>2 DEF OpeningInv, Typed, TypeOK
  <2>3. sessions' \in 0..opts'.maxConcurrent
    BY <1>1, <2>2, OpeningAssumption DEF Options
  <2>4. /\ op' \in {"Open", "Estimate"}
        /\ pc' \in Places
    BY <1>1 DEF Places
  <2> QED
    BY <1>2, <2>1, <2>2, <2>3, <2>4, Zenon DEF TypeOK, Views, Infos
<1>4. Typed'
  BY <1>1, <1>2, <1>3 DEF Typed
<1> QED
  BY <1>1, <1>4
    DEF OpeningInv, Holds, Settling, SameFile, Digested, NothingLeaks, VerifiedIsParsed

(* Only the place in the call, and what it has learnt of the file, changes.*)
LEMMA GoStep ==
  ASSUME OpeningInv,
         UNCHANGED <<files, path, changes, op, opts, view, hashed, sessions, result, estimate,
                     restored, rewritten>>,
         pc # "idle",
         pc' \in {"map", "read", "digest", "parse"} \cup Settling,
         pc' \notin {"map", "read"} => pc \in {"check", "digest", "hash", "parse"} \cup Settling,
         pc' \in {"map", "read"} => info'.size > 0,
         pc' = "sessions" => op = "Open",
         info' \in Infos, parsed' \in Data,
         op = "Open" /\ opts.want # NoDigest /\ ~rewritten =>
           /\ pc' = "parse" => DigestOf(shown) = opts.want
           /\ pc' \in Settling => \/ pc = "parse" /\ parsed' = shown
                                  \/ pc \in Settling /\ parsed' = parsed
  PROVE  OpeningInv'
<1>1. Typed /\ TypeOK
  BY DEF OpeningInv, Typed
<1>2. pc' \in {"map", "read", "digest", "parse", "arch", "tokenizer", "model", "memory",
               "sessions"}
  BY DEF Settling
<1>3. TypeOK'
  <2>1. pc' \in Places
    BY <1>2 DEF Places
  <2> QED
    BY <1>1, <2>1, Zenon DEF TypeOK, Infos
<1>4. Typed'
  BY <1>1, <1>2, <1>3 DEF Typed
<1>5. result # "ok" /\ pc' # "idle" /\ pc' \notin {"check", "mapping", "reading", "hash"}
  BY <1>2 DEF OpeningInv, Holds
<1>6. Holds' /\ SameFile' /\ NothingLeaks' /\ VerifiedIsParsed'
  BY <1>2, <1>5 DEF OpeningInv, Holds, SameFile, NothingLeaks, VerifiedIsParsed, Settling
<1>7. shown' = shown
  BY DEF shown
<1>8. Digested'
  BY <1>5, <1>7 DEF OpeningInv, Digested, Settling
<1> QED
  BY <1>4, <1>6, <1>8 DEF OpeningInv

(* The stat.                                                               *)
LEMMA StatStep ==
  ASSUME OpeningInv, stat
  PROVE  OpeningInv'
<1>1. /\ pc = "stat" /\ Typed /\ TypeOK
      /\ UNCHANGED <<files, path, changes, op, opts, hashed, parsed, sessions, estimate,
                     restored, rewritten>>
  BY DEF stat, fileVars, callVars, ghostVars, OpeningInv, Typed
<1>2. CASE path = NoInode \/ files[path].data = <<>>
  <2>1. fails("file") /\ info' = info
    BY <1>2 DEF stat
  <2> QED
    BY <1>1, <2>1, FailsStep DEF TypeOK
<1>3. CASE ~(path = NoInode \/ files[path].data = <<>>)
  <2>1. /\ pc' = "map" /\ info' = Stat(files[path])
        /\ UNCHANGED <<result, view>>
    BY <1>3 DEF stat, Goto
  <2>2. files[path] \in Files
    BY <1>1, <1>3 DEF TypeOK
  <2>3. info' \in Infos /\ info'.size > 0
    <3>1. files[path].data \in Seq(Bytes)
      BY <2>2, FileIs, DataAre
    <3>2. Len(files[path].data) > 0
      BY <1>3, <3>1
    <3> QED
      BY <2>1, <2>2, <3>2, FileIs DEF Stat
  <2> QED
    BY <1>1, <2>1, <2>3, GoStep DEF TypeOK, Settling
<1> QED
  BY <1>2, <1>3

(* The backing is made.                                                    *)
LEMMA OpenedStep ==
  ASSUME OpeningInv, pc \in {"mapping", "reading"}, pc' = afterOpen,
         UNCHANGED <<files, path, changes, op, opts, info, hashed, parsed, sessions, result,
                     estimate, restored, rewritten>>,
         view' \in Views, view'.mode # "none",
         view'.mode = "map" =>
           view'.inode \in Inodes /\ view'.size = Len(files[view'.inode].data),
         unchanged /\ ~restored =>
           shown' = files[path].data /\ (view'.mode = "map" => view'.inode = path)
  PROVE  OpeningInv'
<1>1. Typed /\ TypeOK
  BY DEF OpeningInv, Typed
<1>2. pc' \in {"check", "parse"} /\ (pc' = "parse" => op # "Open")
  BY DEF afterOpen
<1>3. TypeOK'
  <2>1. pc' \in Places
    BY <1>2 DEF Places
  <2> QED
    BY <1>1, <2>1, Zenon DEF TypeOK, Views
<1>4. Typed'
  <2>1. view'.mode = "map" => view'.size <= Len(files'[view'.inode].data)
    <3> SUFFICES ASSUME view'.mode = "map" PROVE view'.size <= Len(files'[view'.inode].data)
      OBVIOUS
    <3>1. view'.size \in Nat
      BY OpeningAssumption DEF Views
    <3> QED
      BY <3>1
  <2> QED
    BY <1>2, <1>3, <2>1 DEF Typed
<1>5. result # "ok"
  BY DEF OpeningInv, Holds
<1>6. Holds' /\ NothingLeaks' /\ VerifiedIsParsed'
  BY <1>2, <1>5 DEF Holds, NothingLeaks, VerifiedIsParsed, Settling
<1>7. SameFile'
  <2>1. unchanged' = unchanged
    BY DEF unchanged, Stat
  <2> QED
    BY <1>2, <2>1 DEF SameFile
<1>8. Digested'
  BY <1>2 DEF Digested, Settling
<1> QED
  BY <1>4, <1>6, <1>7, <1>8 DEF OpeningInv

(* The path is looked up, or mapping it has failed.                        *)
LEMMA LookedUpStep ==
  ASSUME OpeningInv, pc \in {"map", "mapping", "read"}, pc' \in {"mapping", "read", "reading"},
         UNCHANGED <<files, path, changes, op, opts, info, hashed, parsed, sessions, result,
                     estimate, rewritten>>,
         restored' \in BOOLEAN, view' \in Views, view'.mode # "map", view'.data = <<>>,
         pc' = "reading" => view'.mode = "copy",
         pc' # "read" => path \in Inodes /\ view'.inode = path
  PROVE  OpeningInv'
<1>1. Typed /\ TypeOK /\ info.size > 0 /\ result # "ok"
  BY DEF OpeningInv, Typed, Holds
<1>2. TypeOK'
  <2>1. pc' \in Places
    BY DEF Places
  <2> QED
    BY <1>1, <2>1, Zenon DEF TypeOK, Views
<1>3. Len(view'.data) = 0
  BY EmptyData
<1>4. Typed'
  BY <1>1, <1>2, <1>3 DEF Typed
<1>5. SameFile'
  <2> SUFFICES ASSUME pc' = "reading"
               PROVE  view'.data = SubSeq(files[path].data, 1, Len(view'.data))
    BY DEF SameFile
  <2>1. files[path] \in Files
    BY <1>1 DEF TypeOK
  <2>2. files[path].data \in Seq(Bytes)
    BY <2>1, FileIs, DataAre
  <2> QED
    BY <1>3, <2>2
<1> QED
  BY <1>1, <1>4, <1>5
    DEF OpeningInv, Holds, Settling, Digested, NothingLeaks, VerifiedIsParsed

(* The path is opened to be mapped.                                        *)
LEMMA MapStep ==
  ASSUME OpeningInv, mapFile
  PROVE  OpeningInv'
<1>1. /\ pc = "map" /\ Typed /\ TypeOK /\ info.size > 0
      /\ UNCHANGED <<files, path, changes, op, opts, info, hashed, parsed, sessions, result,
                     estimate, rewritten>>
  BY DEF mapFile, Goto, fileVars, callVars, ghostVars, OpeningInv, Typed
<1>2. CASE pc' = "read" /\ UNCHANGED <<view, restored>>
  BY <1>1, <1>2, GoStep DEF TypeOK, Infos, Settling
<1>3. CASE /\ pc' = "mapping" /\ path # NoInode /\ restored' = FALSE
           /\ view' = [NoView EXCEPT !.inode = path]
  <2>1. path \in Inodes
    BY <1>1, <1>3 DEF TypeOK
  <2>2. /\ view' \in Views /\ view'.mode = "none" /\ view'.data = <<>> /\ view'.inode = path
    <3>1. view' = [mode |-> "none", inode |-> path, size |-> 0, data |-> <<>>]
      BY <1>3 DEF NoView
    <3> QED
      BY <2>1, <3>1, EmptyData, OpeningAssumption DEF Views
  <2>3. restored' \in BOOLEAN
    BY <1>3, Zenon
  <2> QED
    BY <1>1, <1>3, <2>1, <2>2, <2>3, LookedUpStep
<1> QED
  BY <1>2, <1>3 DEF mapFile, Goto

(* The mapping.                                                            *)
LEMMA MmapStep ==
  ASSUME OpeningInv, mmap
  PROVE  OpeningInv'
<1> DEFINE bytes == files[view.inode].data
<1>1. /\ pc = "mapping" /\ Typed /\ TypeOK /\ view.inode \in Inodes /\ view.data = <<>>
      /\ UNCHANGED <<files, path, changes, op, opts, info, hashed, parsed, sessions, result,
                     estimate, restored, rewritten>>
  BY DEF mmap, Goto, fileVars, callVars, ghostVars, OpeningInv, Typed
<1>2. CASE pc' = "read" /\ view' = NoView
  <2>0. restored' \in BOOLEAN
    BY <1>1, Zenon DEF TypeOK
  <2>1. view' \in Views /\ view'.mode = "none" /\ view'.data = <<>>
    <3>1. NoView.data = <<>>
      BY DEF NoView
    <3> QED
      BY <1>2, <3>1, NoViewIs
  <2> QED
    BY <1>1, <1>2, <2>0, <2>1, LookedUpStep
<1>3. CASE pc' = afterOpen /\ view' = [view EXCEPT !.mode = "map", !.size = Len(bytes)]
  <2>1. files[view.inode] \in Files /\ view \in Views
    BY <1>1 DEF TypeOK, Views
  <2>2. bytes \in Data /\ Len(bytes) \in 0..MaxSize
    BY <2>1, FileIs
  <2>3. /\ view' \in Views /\ view'.mode = "map" /\ view'.inode = view.inode
        /\ view'.size = Len(bytes)
    BY <1>3, <2>1, <2>2 DEF Views
  <2>4. shown' = bytes
    <3>1. shown' = SubSeq(bytes, 1, Len(bytes))
      BY <1>1, <2>3 DEF shown
    <3> QED
      BY <2>2, <3>1, PrefixAll
  <2>5. unchanged /\ ~restored => view.inode = path
    BY <1>1 DEF OpeningInv, SameFile
  <2> QED
    BY <1>1, <1>3, <2>3, <2>4, <2>5, OpenedStep
<1> QED
  BY <1>2, <1>3 DEF mmap, Goto

(* The read that makes up for it is begun.                                 *)
LEMMA ReadStep ==
  ASSUME OpeningInv, readFile
  PROVE  OpeningInv'
<1>1. /\ pc = "read" /\ Typed /\ TypeOK
      /\ UNCHANGED <<files, path, changes, op, opts, info, hashed, parsed, sessions, estimate,
                     rewritten>>
  BY DEF readFile, fileVars, callVars, ghostVars, OpeningInv, Typed
<1>2. CASE path = NoInode
  <2>1. fails("file") /\ restored' = restored
    BY <1>2 DEF readFile
  <2> QED
    BY <1>1, <2>1, FailsStep DEF TypeOK
<1>3. CASE path # NoInode
  <2>1. /\ pc' = "reading" /\ result' = result /\ restored' = FALSE
        /\ view' = [mode |-> "copy", inode |-> path, size |-> 0, data |-> <<>>]
    BY <1>3 DEF readFile, Goto
  <2>2. path \in Inodes
    BY <1>1, <1>3 DEF TypeOK
  <2>3. /\ view' \in Views /\ view'.mode = "copy" /\ view'.inode = path /\ view'.data = <<>>
    BY <2>1, <2>2, EmptyData, OpeningAssumption DEF Views
  <2>4. restored' \in BOOLEAN
    BY <2>1, Zenon
  <2> QED
    BY <1>1, <2>1, <2>2, <2>3, <2>4, LookedUpStep
<1> QED
  BY <1>2, <1>3

(* A byte is read.                                                         *)
LEMMA FullStep ==
  ASSUME OpeningInv, readFull
  PROVE  OpeningInv'
<1> DEFINE bytes == files[view.inode].data
           n == Len(view.data) + 1
<1>1. /\ pc = "reading" /\ Typed /\ TypeOK /\ result # "ok"
      /\ view \in Views /\ view.mode = "copy" /\ view.inode \in Inodes
      /\ Len(view.data) < info.size
      /\ UNCHANGED <<files, path, changes, op, opts, info, hashed, parsed, sessions, estimate,
                     restored, rewritten>>
  BY DEF readFull, fileVars, callVars, ghostVars, OpeningInv, Typed, TypeOK, Views, Holds
<1>2. /\ view.data \in Data /\ bytes \in Data
      /\ Len(view.data) \in Nat /\ Len(bytes) \in Nat /\ info.size \in Nat
  <2>1. files[view.inode] \in Files /\ view.data \in Data /\ info.size \in Nat
    BY <1>1, OpeningAssumption DEF TypeOK, Views
  <2>2. bytes \in Data
    BY <2>1, FileIs
  <2> QED
    BY <2>1, <2>2, DataAre
<1>3. CASE n > Len(bytes)
  <2>1. fails("file")
    BY <1>3 DEF readFull
  <2> QED
    BY <1>1, <2>1, FailsStep DEF TypeOK
<1>4. CASE ~(n > Len(bytes))
  <2>1. /\ pc' = IF n < info.size THEN "reading" ELSE afterOpen
        /\ view' = [view EXCEPT !.data = Append(@, bytes[n]),
                                !.inode = IF n < info.size THEN @ ELSE NoInode]
        /\ result' = result
    BY <1>4 DEF readFull
  <2>2. Len(view.data) < Len(bytes)
    BY <1>2, <1>4
  <2>3. Append(view.data, bytes[n]) \in Data /\ Len(Append(view.data, bytes[n])) = n
    BY <1>2, <2>2, AppendData
  <2>4. /\ view' \in Views /\ view'.mode = "copy" /\ view'.data = Append(view.data, bytes[n])
        /\ view'.inode = IF n < info.size THEN view.inode ELSE NoInode
    BY <1>1, <2>1, <2>3 DEF Views
  <2>5. ASSUME unchanged, ~restored
        PROVE  /\ view.inode = path /\ bytes = files[path].data /\ info.size = Len(bytes)
               /\ view'.data = SubSeq(bytes, 1, n)
    <3>1. view.inode = path /\ view.data = SubSeq(files[path].data, 1, Len(view.data))
      BY <1>1, <2>5 DEF OpeningInv, SameFile
    <3>2. info.size = Len(bytes)
      BY <2>5, <3>1 DEF unchanged, Stat
    <3>3. Append(SubSeq(bytes, 1, Len(view.data)), bytes[n]) = SubSeq(bytes, 1, n)
      BY <1>2, <2>2, PrefixNext
    <3> QED
      BY <2>4, <3>1, <3>2, <3>3
  <2> HIDE DEF bytes, n
  <2>6. CASE n < info.size
    <3>1. pc' = "reading" /\ view'.inode = view.inode
      BY <2>1, <2>4, <2>6
    <3>2. Len(view'.data) = n
      BY <2>3, <2>4
    <3>3. TypeOK'
      BY <1>1, <2>1, <2>4, <3>1, Zenon DEF TypeOK, Views
    <3>4. Typed'
      BY <1>1, <2>4, <2>6, <3>1, <3>2, <3>3 DEF Typed
    <3>5. SameFile'
      <4>1. unchanged' = unchanged
        BY <1>1 DEF unchanged, Stat
      <4> QED
        BY <1>1, <2>5, <3>1, <3>2, <4>1 DEF SameFile
    <3> QED
      BY <1>1, <2>1, <3>1, <3>4, <3>5
        DEF OpeningInv, Holds, Settling, Digested, NothingLeaks, VerifiedIsParsed
  <2>7. CASE ~(n < info.size)
    <3>1. pc' = afterOpen
      BY <2>1, <2>7
    <3>2. unchanged /\ ~restored => shown' = files[path].data
      <4> SUFFICES ASSUME unchanged, ~restored PROVE shown' = files[path].data
        OBVIOUS
      <4>1. n = info.size
        BY <1>1, <1>2, <2>7 DEF n
      <4>2. view'.data = SubSeq(bytes, 1, Len(bytes)) /\ bytes = files[path].data
        BY <2>5, <4>1
      <4>3. view'.data = bytes
        BY <1>2, <4>2, PrefixAll
      <4>4. shown' = view'.data
        BY <2>4 DEF shown
      <4> QED
        BY <4>2, <4>3, <4>4
    <3> QED
      BY <1>1, <2>1, <2>4, <3>1, <3>2, OpenedStep
  <2> QED
    BY <2>6, <2>7
<1> QED
  BY <1>3, <1>4

(* The second stat.                                                        *)
LEMMA CheckStep ==
  ASSUME OpeningInv, checkUnchanged
  PROVE  /\ OpeningInv'
         /\ pc' = "digest" /\ ~restored => shown = files[path].data
<1>1. /\ pc = "check" /\ Typed /\ TypeOK
      /\ UNCHANGED <<files, path, changes, op, opts, info, hashed, parsed, sessions, estimate,
                     restored, rewritten>>
  BY DEF checkUnchanged, fileVars, callVars, ghostVars, OpeningInv, Typed
<1>2. CASE unchanged
  <2>1. pc' = "digest" /\ UNCHANGED <<result, view>>
    BY <1>2 DEF checkUnchanged, Goto
  <2>2. ~restored => shown = files[path].data
    BY <1>1, <1>2 DEF OpeningInv, SameFile
  <2>3. OpeningInv'
    BY <1>1, <2>1, GoStep DEF TypeOK, Infos, Settling
  <2> QED
    BY <2>2, <2>3
<1>3. CASE ~unchanged
  <2>1. fails("file")
    BY <1>3 DEF checkUnchanged
  <2>2. pc' # "digest"
    BY <2>1 DEF fails
  <2> QED
    BY <1>1, <2>1, <2>2, FailsStep DEF TypeOK
<1> QED
  BY <1>2, <1>3

(* The digest is begun, if one was asked for.                              *)
LEMMA DigestStep ==
  ASSUME OpeningInv, digest
  PROVE  OpeningInv'
<1>1. /\ pc = "digest" /\ Typed /\ TypeOK /\ view.mode # "none" /\ result # "ok"
      /\ UNCHANGED <<files, path, changes, op, opts, info, parsed, sessions, estimate, restored>>
  BY DEF digest, fileVars, callVars, OpeningInv, Typed, Holds
<1>2. CASE opts.want = NotHex
  <2>1. fails("ErrInvalidRequest") /\ UNCHANGED <<hashed, rewritten>>
    BY <1>2 DEF digest
  <2> QED
    BY <1>1, <2>1, FailsStep DEF TypeOK
<1>3. CASE opts.want # NotHex /\ opts.want = NoDigest
  <2>1. pc' = "parse" /\ UNCHANGED <<hashed, rewritten, result, view>>
    BY <1>3 DEF digest, Goto
  <2> QED
    BY <1>1, <1>3, <2>1, GoStep DEF TypeOK, Infos, Settling
<1>4. CASE opts.want # NotHex /\ opts.want # NoDigest
  <2>1. /\ pc' = "hash" /\ hashed' = <<>> /\ rewritten' = FALSE
        /\ UNCHANGED <<result, view>>
    BY <1>4 DEF digest, Goto
  <2>2. hashed' \in Data /\ Len(hashed') = 0
    BY <2>1, EmptyData
  <2>3. TypeOK'
    <3>1. {hashed', parsed', estimate'} \subseteq Data
      BY <1>1, <2>2 DEF TypeOK
    <3>2. rewritten' \in BOOLEAN
      BY <2>1, Zenon
    <3>3. pc' \in Places
      BY <2>1 DEF Places
    <3> QED
      BY <1>1, <2>1, <3>1, <3>2, <3>3, Zenon DEF TypeOK
  <2>4. Typed'
    BY <1>1, <2>1, <2>3 DEF Typed
  <2>5. Digested'
    <3>1. shown' = shown
      BY <1>1, <2>1 DEF shown
    <3>2. shown \in Seq(Bytes) /\ Len(shown) \in Nat
      BY <1>1, ShownIs, DataAre
    <3>3. hashed' = SubSeq(shown, 1, 0)
      BY <2>1, <3>2
    <3>4. Len(hashed') <= Len(shown') /\ hashed' = SubSeq(shown', 1, Len(hashed'))
      BY <2>2, <3>1, <3>2, <3>3
    <3> QED
      BY <2>1, <3>4 DEF Digested, Settling
  <2> QED
    BY <1>1, <2>1, <2>4, <2>5
      DEF OpeningInv, Holds, Settling, SameFile, NothingLeaks, VerifiedIsParsed
<1> QED
  BY <1>2, <1>3, <1>4

(* The digest goes through a byte, or is compared.                         *)
LEMMA HashStep ==
  ASSUME OpeningInv, hash
  PROVE  OpeningInv'
<1>1. /\ pc = "hash" /\ Typed /\ TypeOK /\ view.mode # "none" /\ result # "ok"
      /\ UNCHANGED <<files, path, changes, op, opts, info, parsed, sessions, estimate,
                     restored, rewritten>>
  BY DEF hash, fileVars, callVars, ghostVars, OpeningInv, Typed, Holds, Settling
<1>2. shown \in Data /\ hashed \in Data /\ Len(shown) \in Nat /\ Len(hashed) \in Nat
  <2>1. hashed \in Data
    BY <1>1 DEF TypeOK
  <2> QED
    BY <1>1, <2>1, ShownIs, DataAre
<1>3. CASE Len(hashed) < Len(shown)
  <2>1. /\ hashed' = Append(hashed, shown[Len(hashed) + 1])
        /\ UNCHANGED <<pc, result, view>>
    BY <1>3 DEF hash
  <2>2. hashed' \in Data /\ Len(hashed') = Len(hashed) + 1
    BY <1>2, <1>3, <2>1, AppendData
  <2>3. TypeOK'
    <3>1. {hashed', parsed', estimate'} \subseteq Data
      BY <1>1, <2>2 DEF TypeOK
    <3> QED
      BY <1>1, <2>1, <3>1, Zenon DEF TypeOK
  <2>4. Typed'
    BY <1>1, <2>1, <2>3 DEF Typed
  <2>5. shown' = shown
    BY <1>1, <2>1 DEF shown
  <2>6. Digested'
    <3> SUFFICES ASSUME op = "Open", opts.want # NoDigest, ~rewritten
                 PROVE  Len(hashed') <= Len(shown) /\ hashed' = SubSeq(shown, 1, Len(hashed'))
      BY <1>1, <2>1, <2>5 DEF Digested, Settling
    <3>1. hashed = SubSeq(shown, 1, Len(hashed))
      BY <1>1 DEF OpeningInv, Digested
    <3>2. Append(SubSeq(shown, 1, Len(hashed)), shown[Len(hashed) + 1])
            = SubSeq(shown, 1, Len(hashed) + 1)
      BY <1>2, <1>3, PrefixNext
    <3>3. hashed' = SubSeq(shown, 1, Len(hashed'))
      BY <2>1, <2>2, <3>1, <3>2
    <3>4. Len(hashed') <= Len(shown)
      BY <1>2, <1>3, <2>2
    <3> QED
      BY <3>3, <3>4
  <2> QED
    BY <1>1, <2>1, <2>4, <2>6
      DEF OpeningInv, Holds, Settling, SameFile, NothingLeaks, VerifiedIsParsed
<1>4. CASE ~(Len(hashed) < Len(shown)) /\ DigestOf(hashed) = opts.want
  <2>1. pc' = "parse" /\ UNCHANGED <<hashed, result, view>>
    BY <1>4 DEF hash, Goto
  <2>2. op = "Open" /\ opts.want # NoDigest /\ ~rewritten => DigestOf(shown) = opts.want
    <3> SUFFICES ASSUME op = "Open", opts.want # NoDigest, ~rewritten PROVE hashed = shown
      BY <1>4
    <3>1. Len(hashed) <= Len(shown) /\ hashed = SubSeq(shown, 1, Len(hashed))
      BY <1>1 DEF OpeningInv, Digested
    <3>2. Len(hashed) = Len(shown)
      BY <1>2, <1>4, <3>1
    <3> QED
      BY <1>2, <3>1, <3>2, PrefixAll
  <2> QED
    BY <1>1, <2>1, <2>2, GoStep DEF TypeOK, Infos, Settling
<1>5. CASE ~(Len(hashed) < Len(shown)) /\ DigestOf(hashed) # opts.want
  <2>1. fails("ErrChecksumMismatch") /\ hashed' = hashed
    BY <1>5 DEF hash
  <2> QED
    BY <1>1, <2>1, FailsStep DEF TypeOK
<1> QED
  BY <1>3, <1>4, <1>5

(* The stages of the validation.                                           *)
LEMMA StagesStep ==
  ASSUME OpeningInv, parse \/ architecture \/ newTokenizer \/ newModel
  PROVE  OpeningInv'
<1>1. /\ Typed /\ TypeOK
      /\ UNCHANGED <<files, path, changes, op, opts, info, hashed, sessions, estimate,
                     restored, rewritten>>
  BY DEF parse, architecture, newTokenizer, newModel, stage, fileVars, callVars, ghostVars,
         OpeningInv, Typed
<1>2. \/ pc = "parse" /\ parsed' = shown
      \/ pc \in Settling /\ parsed' = parsed
  BY DEF parse, architecture, newTokenizer, newModel, stage, Settling
<1>3. parsed' \in Data
  <2>1. parsed \in Data /\ shown \in Data
    BY <1>1, ShownIs DEF TypeOK
  <2> QED
    BY <1>2, <2>1
<1>4. CASE \E e \in {"ErrInvalidModel", "ErrUnsupportedModel", "ErrInvalidMetadata"} : fails(e)
  BY <1>1, <1>3, <1>4, FailsStep
<1>5. CASE ~(\E e \in {"ErrInvalidModel", "ErrUnsupportedModel", "ErrInvalidMetadata"} : fails(e))
  <2>1. pc' \in Settling \ {"sessions"} /\ UNCHANGED <<view, result>>
    BY <1>5 DEF parse, architecture, newTokenizer, newModel, stage, Goto, Settling
  <2>2. /\ pc # "idle"
        /\ pc' \in {"map", "read", "digest", "parse"} \cup Settling
        /\ pc \in {"check", "digest", "hash", "parse"} \cup Settling
        /\ pc' # "sessions" /\ pc' # "parse" /\ pc' \notin {"map", "read"}
    BY <1>2, <2>1 DEF Settling
  <2>3. info' \in Infos
    BY <1>1 DEF TypeOK, Infos
  <2>4. op = "Open" /\ opts.want # NoDigest /\ ~rewritten =>
          /\ pc' = "parse" => DigestOf(shown) = opts.want
          /\ pc' \in Settling => \/ pc = "parse" /\ parsed' = shown
                                 \/ pc \in Settling /\ parsed' = parsed
    BY <1>2, <2>2
  <2>5. UNCHANGED <<files, path, changes, op, opts, view, hashed, sessions, result, estimate,
                    restored, rewritten>>
    BY <1>1, <2>1
  <2> QED
    BY <1>3, <2>2, <2>3, <2>4, <2>5, GoStep, Zenon
<1> QED
  BY <1>4, <1>5

(* The admission.                                                          *)
LEMMA AdmitStep ==
  ASSUME OpeningInv, admit
  PROVE  OpeningInv'
<1>1. /\ pc = "memory" /\ Typed /\ TypeOK /\ result # "ok"
      /\ UNCHANGED <<files, path, changes, op, opts, info, hashed, parsed, sessions,
                     restored, rewritten>>
  BY DEF admit, fileVars, callVars, ghostVars, OpeningInv, Typed, Holds
<1>2. CASE op = "Estimate"
  <2>1. pc' = "idle" /\ result' = "ok" /\ view' = NoView /\ estimate' = parsed
    BY <1>2 DEF admit, cleanup
  <2>2. view' \in Views /\ view'.mode = "none"
    BY <2>1, NoViewIs
  <2>3. TypeOK'
    <3>1. {hashed', parsed', estimate'} \subseteq Data
      BY <1>1, <2>1 DEF TypeOK
    <3> QED
      BY <1>1, <2>1, <2>2, <3>1, Zenon DEF TypeOK, Places, Views
  <2>4. Typed'
    BY <1>1, <2>1, <2>2, <2>3 DEF Typed
  <2> QED
    BY <1>1, <1>2, <2>1, <2>2, <2>4
      DEF OpeningInv, Holds, Settling, SameFile, Digested, NothingLeaks, VerifiedIsParsed
<1>3. CASE op # "Estimate"
  <2>0. op = "Open"
    BY <1>1, <1>3 DEF TypeOK
  <2>1. \/ fails("ErrMemoryLimit") /\ estimate' = estimate
        \/ pc' = "sessions" /\ UNCHANGED <<result, view, estimate>>
    BY <1>1, <1>3 DEF admit, Goto
  <2>2. CASE fails("ErrMemoryLimit") /\ estimate' = estimate
    BY <1>1, <2>2, FailsStep DEF TypeOK
  <2>3. CASE pc' = "sessions" /\ UNCHANGED <<result, view, estimate>>
    BY <1>1, <2>0, <2>3, GoStep DEF TypeOK, Infos, Settling
  <2> QED
    BY <2>1, <2>2, <2>3
<1> QED
  BY <1>2, <1>3

(* The sessions, and the handover.                                         *)
LEMMA SessionsStep ==
  ASSUME OpeningInv, newSessions
  PROVE  OpeningInv'
<1>1. /\ pc = "sessions" /\ op = "Open" /\ Typed /\ TypeOK /\ view.mode # "none"
      /\ UNCHANGED <<files, path, changes, op, opts, info, hashed, parsed, estimate,
                     restored, rewritten>>
  BY DEF newSessions, fileVars, callVars, ghostVars, OpeningInv, Typed, Holds, Settling
<1>2. CASE fails("ErrContextLimit") /\ sessions' = sessions
  BY <1>1, <1>2, FailsStep DEF TypeOK
<1>3. CASE /\ sessions < opts.maxConcurrent /\ sessions' = sessions + 1
           /\ UNCHANGED <<pc, result, view>>
  <2>1. sessions' \in 0..opts'.maxConcurrent
    <3>1. opts.maxConcurrent \in Nat /\ sessions \in Nat
      BY <1>1, OpeningAssumption DEF TypeOK, Options
    <3> QED
      BY <1>1, <1>3, <3>1
  <2>2. TypeOK'
    BY <1>1, <1>3, <2>1, Zenon DEF TypeOK
  <2>3. Typed'
    BY <1>1, <1>3, <2>2 DEF Typed
  <2>4. shown' = shown
    BY <1>1, <1>3 DEF shown
  <2> QED
    BY <1>1, <1>3, <2>3, <2>4
      DEF OpeningInv, Holds, Settling, SameFile, Digested, NothingLeaks, VerifiedIsParsed
<1>4. CASE /\ sessions = opts.maxConcurrent /\ pc' = "idle" /\ result' = "ok"
           /\ UNCHANGED <<view, sessions>>
  <2>1. TypeOK'
    BY <1>1, <1>4, Zenon DEF TypeOK, Places
  <2>2. Typed'
    BY <1>1, <1>4, <2>1 DEF Typed
  <2>3. shown' = shown
    BY <1>1, <1>4 DEF shown
  <2>4. VerifiedIsParsed'
    BY <1>1, <1>4, <2>3 DEF OpeningInv, Digested, VerifiedIsParsed, Settling
  <2> QED
    BY <1>1, <1>4, <2>2, <2>4
      DEF OpeningInv, Holds, Settling, SameFile, Digested, NothingLeaks
<1> QED
  BY <1>2, <1>3, <1>4 DEF newSessions
-----------------------------------------------------------------------------
(* The theorems.                                                           *)

(* Every step keeps the invariant, and a check that passes saw the bytes.  *)
LEMMA OpeningStep ==
  OpeningInv /\ [Next]_vars =>
    /\ OpeningInv'
    /\ checkUnchanged /\ pc' = "digest" /\ ~restored => shown = files[path].data
<1> SUFFICES ASSUME OpeningInv, [Next]_vars PROVE OpeningInv'
  BY CheckStep
<1>1. CASE Call("Open") \/ Call("Estimate")
  BY <1>1, CallStep
<1>2. CASE stat
  BY <1>2, StatStep
<1>3. CASE mapFile \/ mmap
  BY <1>3, MapStep, MmapStep
<1>4. CASE readFile
  BY <1>4, ReadStep
<1>5. CASE readFull
  BY <1>5, FullStep
<1>6. CASE checkUnchanged
  BY <1>6, CheckStep
<1>7. CASE digest
  BY <1>7, DigestStep
<1>8. CASE hash
  BY <1>8, HashStep
<1>9. CASE parse \/ architecture \/ newTokenizer \/ newModel
  BY <1>9, StagesStep
<1>10. CASE admit
  BY <1>10, AdmitStep
<1>11. CASE newSessions
  BY <1>11, SessionsStep
<1>12. CASE others
  BY <1>12, OthersStep
<1>13. CASE UNCHANGED vars
  BY <1>13 DEF vars, fileVars, callVars, localVars, ghostVars, OpeningInv, Typed, TypeOK, Holds,
               SameFile, unchanged, Stat, shown, Digested, NothingLeaks, VerifiedIsParsed
<1> QED
  BY <1>1, <1>2, <1>3, <1>4, <1>5, <1>6, <1>7, <1>8, <1>9, <1>10, <1>11, <1>12, <1>13
    DEF Next, step

(* What a call knows of the file and of the bytes it has, at every step    *)
(* and whatever others do to the path, the bytes and the times             *)
(* (open.go:29-96, backing.go:27-103).                                     *)
THEOREM OpeningInvariant == Spec => []OpeningInv
<1>1. OpeningInv /\ [Next]_vars => OpeningInv'
  BY OpeningStep
<1> QED
  BY InitHolds, <1>1, PTL DEF Spec

(* The variables keep their types (open.go:29-96).                         *)
THEOREM OpeningTyped == Spec => []TypeOK
<1>1. OpeningInv => TypeOK
  BY DEF OpeningInv, Typed
<1> QED
  BY <1>1, OpeningInvariant, PTL

(* Every failure closes what was opened, and only a successful Open keeps  *)
(* a view and its sessions (open.go:29-34, 88-96; estimate.go:35).         *)
THEOREM OpeningLeaksNothing == Spec => []NothingLeaks
<1>1. OpeningInv => NothingLeaks
  BY DEF OpeningInv
<1> QED
  BY <1>1, OpeningInvariant, PTL

(* The bytes a model is built from, and those its weights are read from,   *)
(* have the digest that was asked for, unless the mapping is rewritten     *)
(* once the digest has begun (open.go:35-53).                              *)
THEOREM OpeningVerifiesWhatItParses == Spec => []VerifiedIsParsed
<1>1. OpeningInv => VerifiedIsParsed
  BY DEF OpeningInv
<1> QED
  BY <1>1, OpeningInvariant, PTL

(* Two stats that agree vouch for the bytes opened between them, unless    *)
(* the path was given a file of the same size and time after the opening   *)
(* (backing.go:27-103).                                                    *)
THEOREM OpeningChecksTheFile == Spec => CheckLeavesRestored
<1>1. OpeningInv /\ [Next]_vars =>
        [checkUnchanged /\ pc' = "digest" /\ ~restored => shown = files[path].data]_vars
  BY OpeningStep
<1> QED
  BY <1>1, OpeningInvariant, PTL DEF Spec, CheckLeavesRestored
=============================================================================
