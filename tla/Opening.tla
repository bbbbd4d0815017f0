------------------------------ MODULE Opening ------------------------------
(***************************************************************************)
(* Open and Estimate on a file that other processes may change (open.go,   *)
(* estimate.go, options.go, internal/backing): the stat, the mapping or    *)
(* the read, the second stat, the digest, the parse, the admission of the  *)
(* memory plan, the sessions, and the cleanup of every failed attempt.     *)
(*                                                                         *)
(* A file is an inode with bytes and a modification time.  Nothing ties    *)
(* the time to the bytes: a rename over the path brings the time of the    *)
(* file it moves there, an earlier one moved back included, and a rewrite  *)
(* in place may leave the time as it was, within the granularity of the    *)
(* clock.  A mapping shows what is written to its inode, whatever the path *)
(* names by then.  The copy and the digest go through the bytes one by     *)
(* one, and a rewrite may fall between any two.                            *)
(*                                                                         *)
(* An operator whose comment starts with "Mutant" is not part of the model:*)
(* it is a plausible bug in the definition that follows it.                *)
(***************************************************************************)
EXTENDS Integers, Sequences

CONSTANTS
  MaxInode,      \* bound: the number of files that may come to the path
  Bytes,         \* bound: the values of a byte
  MaxSize,       \* bound: the size of the largest file
  Contents,      \* bound: what the files may hold
  Times,         \* bound: the modification times
  MaxChanges,    \* bound: the changes by other processes
  Kind,          \* what the bytes of a file turn out to be
  Requests,      \* bound: the options of a call
  SessionBytes,  \* arch.SessionBytes() of a well-formed file
  WordSize       \* the number of values of a uint64

Inodes == 1..MaxInode
NoInode == 0

Data == UNION {[1..n -> Bytes] : n \in 0..MaxSize}

Files == [data : Contents, modTime : Times]

(* Rejected by loader.Parse, of another architecture, rejected by          *)
(* tokenizer.New, rejected by qwen3.NewModel.                              *)
Kinds == {"good", "malformed", "foreign", "badTokenizer", "badWeights"}

(* ExpectedSHA256: empty, not a digest, or that of some bytes.  Digests do *)
(* not collide.                                                            *)
NoDigest == [sha256 |-> "none", of |-> <<>>]
NotHex   == [sha256 |-> "not hex", of |-> <<>>]
DigestOf(bytes) == [sha256 |-> "digest", of |-> bytes]

Options == [negative : BOOLEAN,
            want : {NoDigest, NotHex} \cup {DigestOf(bytes) : bytes \in Data},
            maxConcurrent : Nat \ {0}, limit : 0..WordSize-1]

ASSUME OpeningAssumption ==
  /\ MaxInode \in Nat \ {0}
  /\ MaxSize \in Nat
  /\ Contents \subseteq Data
  /\ MaxChanges \in Nat
  /\ Kind \in [Data -> Kinds]
  /\ Requests \subseteq Options
  /\ SessionBytes \in Nat \ {0}
  /\ WordSize \in Nat \ {0} /\ MaxSize < WordSize

VARIABLES
  files,      \* by inode: the bytes of the file and its modification time
  path,       \* the inode the path names, NoInode if none
  changes,    \* how often other processes changed either, for the bound
  op,         \* "Open" or "Estimate"
  opts,       \* its options
  pc,         \* where it is
  info,       \* the first stat: size and modification time
  view,       \* the backing: a mapping of an inode, or a copy of bytes
  hashed,     \* the bytes the digest has gone through
  parsed,     \* the bytes that were parsed
  sessions,   \* sessions allocated so far
  result,     \* what the call returned
  estimate,   \* the bytes the last Estimate of these options accepted
  restored,   \* a ghost: a change since the file of the view was opened
              \* gave the path a file with the size and time of info
  rewritten   \* a ghost: the mapping was rewritten since its digest was begun

fileVars == <<files, path, changes>>
callVars == <<op, opts>>
localVars == <<pc, info, view, hashed, parsed, sessions, result>>
ghostVars == <<restored, rewritten>>

vars == <<fileVars, callVars, localVars, estimate, ghostVars>>

NoInfo == [size |-> 0, modTime |-> 0]
NoView == [mode |-> "none", inode |-> NoInode, size |-> 0, data |-> <<>>]

(* What os.Stat says of a file.                                            *)
Stat(file) == [size |-> Len(file.data), modTime |-> file.modTime]

(* Backing.Bytes().                                                        *)
shown ==
  IF view.mode = "map" THEN SubSeq(files[view.inode].data, 1, view.size) ELSE view.data

(* What comes next in the call.                                            *)
Places == {"idle", "stat", "map", "mapping", "read", "reading", "check", "digest", "hash",
           "parse", "arch", "tokenizer", "model", "memory", "sessions"}

TypeOK ==
  /\ files \in [Inodes -> Files]
  /\ path \in {NoInode} \cup Inodes
  /\ changes \in 0..MaxChanges
  /\ op \in {"Open", "Estimate"}
  /\ opts \in Requests
  /\ pc \in Places
  /\ info \in [size : 0..MaxSize, modTime : Times \cup {0}]
  /\ view \in [mode : {"none", "map", "copy"}, inode : {NoInode} \cup Inodes,
               size : 0..MaxSize, data : Data]
  /\ {hashed, parsed, estimate} \subseteq Data
  /\ sessions \in 0..opts.maxConcurrent
  /\ restored \in BOOLEAN /\ rewritten \in BOOLEAN

Init ==
  /\ files \in [Inodes -> Files]
  /\ path = 1
  /\ changes = 0
  /\ op = "Open"
  /\ opts \in Requests
  /\ pc = "idle"
  /\ info = NoInfo
  /\ view = NoView
  /\ hashed = <<>> /\ parsed = <<>> /\ estimate = <<>>
  /\ sessions = 0
  /\ result = "none"
  /\ restored = FALSE /\ rewritten = FALSE

-----------------------------------------------------------------------------
(* Other processes.                                                        *)

change ==
  /\ changes < MaxChanges
  /\ changes' = changes + 1
  /\ UNCHANGED <<callVars, localVars, estimate>>

(* The path is removed, or its file moved away.                            *)
Remove ==
  /\ path # NoInode
  /\ path' = NoInode
  /\ change
  /\ UNCHANGED <<files, ghostVars>>

(* A file, with its own time, is renamed over the path.                    *)
Replace(i) ==
  /\ i # path
  /\ path' = i
  /\ restored' = (restored \/ Stat(files[i]) = info)
  /\ change
  /\ UNCHANGED <<files, rewritten>>

mapped(i) == view.mode = "map" /\ view.inode = i

(* In place, at the path or away from it.  To cut a mapped file short is a *)
(* fault of the process that mapped it, which is not modelled.             *)
Rewrite(i, file) ==
  /\ file # files[i]
  /\ mapped(i) => Len(file.data) >= view.size
  /\ files' = [files EXCEPT ![i] = file]
  /\ restored' = (restored \/ (i = path /\ Stat(file) = info))
  /\ rewritten' = (rewritten \/ mapped(i))
  /\ change
  /\ UNCHANGED path

-----------------------------------------------------------------------------
(* The call.                                                               *)

Goto(from, to) == pc = from /\ pc' = to

(* Mutant: the cleanup is cancelled before the sessions are allocated.     *)
cleanup_early ==
  IF pc = "sessions" THEN UNCHANGED view ELSE view' = NoView

(* The deferred b.Close().                                                 *)
cleanup == view' = NoView

(* The call returns an error and whatever was opened is closed.            *)
fails(e) ==
  /\ result' = e
  /\ pc' = "idle"
  /\ cleanup

(***************************************************************************)
(* Open(path, opts) or Estimate(path, opts), once the caller has closed    *)
(* the model of an earlier Open.  The negative options are Open's check.   *)
(***************************************************************************)
Call(o) ==
  /\ pc = "idle"
  /\ op' = o
  /\ info' = NoInfo /\ hashed' = <<>> /\ parsed' = <<>> /\ sessions' = 0
  /\ view' = NoView
  /\ restored' = FALSE /\ rewritten' = FALSE
  /\ IF o = "Open" /\ opts.negative
     THEN result' = "ErrInvalidRequest" /\ UNCHANGED pc
     ELSE result' = "none" /\ pc' = "stat"
  /\ UNCHANGED <<fileVars, opts, estimate>>

(* os.Stat, and the checks on what it returns.                             *)
stat ==
  /\ pc = "stat"
  /\ IF path = NoInode \/ files[path].data = <<>>
     THEN fails("file") /\ UNCHANGED info
     ELSE /\ Goto("stat", "map")
          /\ info' = Stat(files[path])
          /\ UNCHANGED <<result, view>>
  /\ UNCHANGED <<fileVars, callVars, hashed, parsed, sessions, estimate, ghostVars>>

afterOpen == IF op = "Open" THEN "check" ELSE "parse"

(* mapFile opens the path.  Any failure of it leads to readFile.           *)
mapFile ==
  /\ \/ /\ Goto("map", "read")
        /\ UNCHANGED <<view, restored>>
     \/ /\ Goto("map", "mapping")
        /\ path # NoInode
        /\ view' = [NoView EXCEPT !.inode = path]
        /\ restored' = FALSE
  /\ UNCHANGED <<fileVars, callVars, info, hashed, parsed, sessions, result, estimate, rewritten>>

(* It looks at the size of what it has opened, and maps it.                *)
mmap ==
  /\ LET bytes == files[view.inode].data IN
     \/ /\ Goto("mapping", "read")
        /\ view' = NoView
     \/ /\ Goto("mapping", afterOpen)
        /\ bytes # <<>>
        /\ view' = [view EXCEPT !.mode = "map", !.size = Len(bytes)]
  /\ UNCHANGED <<fileVars, callVars, info, hashed, parsed, sessions, result, estimate, ghostVars>>

(* readFile opens the path.                                                *)
readFile ==
  /\ pc = "read"
  /\ IF path = NoInode
     THEN fails("file") /\ UNCHANGED restored
     ELSE /\ Goto("read", "reading")
          /\ view' = [mode |-> "copy", inode |-> path, size |-> 0, data |-> <<>>]
          /\ restored' = FALSE
          /\ UNCHANGED result
  /\ UNCHANGED <<fileVars, callVars, info, hashed, parsed, sessions, estimate, rewritten>>

(* io.ReadFull reads as many bytes as the first stat has seen, fails if    *)
(* the file ends before, and closes it.                                    *)
readFull ==
  /\ pc = "reading"
  /\ LET n == Len(view.data) + 1
         bytes == files[view.inode].data
     IN  IF n > Len(bytes)
         THEN fails("file")
         ELSE /\ pc' = IF n < info.size THEN "reading" ELSE afterOpen
              /\ view' = [view EXCEPT !.data = Append(@, bytes[n]),
                                      !.inode = IF n < info.size THEN @ ELSE NoInode]
              /\ UNCHANGED result
  /\ UNCHANGED <<fileVars, callVars, info, hashed, parsed, sessions, estimate, ghostVars>>

(* Mutant: the sizes are compared and not the times.                       *)
unchanged_size == path # NoInode /\ Len(files[path].data) = info.size

(* The second stat shows the size and the time of the first.               *)
unchanged == path # NoInode /\ Stat(files[path]) = info

checkUnchanged ==
  /\ pc = "check"
  /\ IF unchanged
     THEN Goto("check", "digest") /\ UNCHANGED <<result, view>>
     ELSE fails("file")
  /\ UNCHANGED <<fileVars, callVars, info, hashed, parsed, sessions, estimate, ghostVars>>

(* ExpectedSHA256 is looked at.                                            *)
digest ==
  /\ pc = "digest"
  /\ IF opts.want = NotHex
     THEN fails("ErrInvalidRequest") /\ UNCHANGED <<hashed, rewritten>>
     ELSE /\ UNCHANGED <<result, view>>
          /\ IF opts.want = NoDigest
             THEN Goto("digest", "parse") /\ UNCHANGED <<hashed, rewritten>>
             ELSE Goto("digest", "hash") /\ hashed' = <<>> /\ rewritten' = FALSE
  /\ UNCHANGED <<fileVars, callVars, info, parsed, sessions, estimate, restored>>

(* Mutant: the digest is that of the file the path names by then.          *)
hash_ofPath ==
  LET bytes == IF path = NoInode THEN <<>> ELSE files[path].data IN
  /\ pc = "hash"
  /\ IF DigestOf(bytes) = opts.want
     THEN Goto("hash", "parse") /\ UNCHANGED <<result, view>>
     ELSE fails("ErrChecksumMismatch")
  /\ UNCHANGED <<fileVars, callVars, info, hashed, parsed, sessions, estimate, ghostVars>>

(* sha256.Sum256 of the backing's bytes, and the comparison.               *)
hash ==
  /\ pc = "hash"
  /\ IF Len(hashed) < Len(shown)
     THEN hashed' = Append(hashed, shown[Len(hashed) + 1]) /\ UNCHANGED <<pc, result, view>>
     ELSE /\ IF DigestOf(hashed) = opts.want
             THEN Goto("hash", "parse") /\ UNCHANGED <<result, view>>
             ELSE fails("ErrChecksumMismatch")
          /\ UNCHANGED hashed
  /\ UNCHANGED <<fileVars, callVars, info, parsed, sessions, estimate, ghostVars>>

(* One stage of the validation, which rejects one kind.                    *)
stage(from, to, rejected, error) ==
  /\ pc = from
  /\ IF Kind[parsed'] = rejected
     THEN fails(error)
     ELSE Goto(from, to) /\ UNCHANGED <<result, view>>
  /\ UNCHANGED <<fileVars, callVars, info, hashed, sessions, estimate, ghostVars>>

(* loader.Parse copies the metadata: what the file is is settled here.     *)
parse ==
  /\ parsed' = shown
  /\ stage("parse", "arch", "malformed", "ErrInvalidModel")

architecture ==
  /\ UNCHANGED parsed
  /\ stage("arch", IF op = "Open" THEN "tokenizer" ELSE "model",
           "foreign", "ErrUnsupportedModel")

(* tokenizer.New, which Estimate does not call.                            *)
newTokenizer ==
  /\ UNCHANGED parsed
  /\ stage("tokenizer", "model", "badTokenizer", "ErrInvalidModel")

newModel ==
  /\ UNCHANGED parsed
  /\ stage("model", "memory", "badWeights", "ErrInvalidMetadata")

(* ModelBytes plus the sessions, as uint64.                                *)
total == (Len(shown) + SessionBytes * opts.maxConcurrent) % WordSize

admit ==
  /\ pc = "memory"
  /\ \/ /\ op = "Estimate"
        /\ pc' = "idle" /\ result' = "ok" /\ cleanup
        /\ estimate' = parsed
     \/ /\ op = "Open"
        /\ opts.limit # 0 /\ total > opts.limit
        /\ fails("ErrMemoryLimit")
        /\ UNCHANGED estimate
     \/ /\ op = "Open"
        /\ opts.limit # 0 => total <= opts.limit
        /\ Goto("memory", "sessions")
        /\ UNCHANGED <<result, view, estimate>>
  /\ UNCHANGED <<fileVars, callVars, info, hashed, parsed, sessions, ghostVars>>

(* Mutant: one session more than the channel has room for.                 *)
newSessions_extra ==
  /\ pc = "sessions"
  /\ \/ /\ sessions <= opts.maxConcurrent
        /\ sessions' = sessions + 1
        /\ UNCHANGED <<pc, result, view>>
     \/ /\ sessions > opts.maxConcurrent
        /\ pc' = "idle" /\ result' = "ok"
        /\ UNCHANGED <<view, sessions>>
  /\ UNCHANGED <<fileVars, callVars, info, hashed, parsed, estimate, ghostVars>>

(* The sessions, one by one; each may fail.  Then the cleanup is called    *)
(* off and the model is the caller's.                                      *)
newSessions ==
  /\ pc = "sessions"
  /\ \/ /\ sessions < opts.maxConcurrent
        /\ sessions' = sessions + 1
        /\ UNCHANGED <<pc, result, view>>
     \/ /\ sessions < opts.maxConcurrent
        /\ fails("ErrContextLimit")
        /\ UNCHANGED sessions
     \/ /\ sessions = opts.maxConcurrent
        /\ pc' = "idle" /\ result' = "ok"
        /\ UNCHANGED <<view, sessions>>
  /\ UNCHANGED <<fileVars, callVars, info, hashed, parsed, estimate, ghostVars>>

-----------------------------------------------------------------------------

step ==
  \/ stat \/ mapFile \/ mmap \/ readFile \/ readFull \/ checkUnchanged \/ digest \/ hash
  \/ parse \/ architecture \/ newTokenizer \/ newModel \/ admit \/ newSessions

others ==
  \/ Remove
  \/ \E i \in Inodes :
       Replace(i) \/ \E file \in Files : Rewrite(i, file)

Next == Call("Open") \/ Call("Estimate") \/ step \/ others

Spec == Init /\ [][Next]_vars

-----------------------------------------------------------------------------
(* Properties.                                                             *)

(***************************************************************************)
(* A call that failed, wherever it did, leaves no mapping behind, and a    *)
(* successful Open leaves one and all its sessions; Estimate never keeps   *)
(* any (open.go:29-34, 88-96; estimate.go:35).                             *)
(***************************************************************************)
NothingLeaks ==
  pc = "idle" =>
    IF op = "Open" /\ result = "ok"
    THEN view.mode # "none" /\ sessions = opts.maxConcurrent
    ELSE view = NoView

(***************************************************************************)
(* The check "reduces, but cannot eliminate" the risk of parsing bytes     *)
(* that no longer match the path (backing.go:61-63).  What it eliminates:  *)
(* when the second stat agrees with the first, and no change after the     *)
(* look-up by which the backing was opened gave the path a file of the     *)
(* same size and time, then the backing, which may be a copy made byte by  *)
(* byte, has the bytes of the file at the path, all of them                *)
(* (backing.go:27-103).                                                    *)
(***************************************************************************)
CheckLeavesRestored ==
  [][checkUnchanged /\ pc' = "digest" /\ ~restored => shown = files[path].data]_vars

(***************************************************************************)
(* The bytes a model was built from have the digest the caller asked for,  *)
(* and so do those that its weights are read from: whatever was renamed    *)
(* over the path or written to the file while it was opened, with whatever *)
(* time, and unless the mapping is rewritten once the digest has begun,    *)
(* which nothing in the code could notice (open.go:35-53).                 *)
(***************************************************************************)
VerifiedIsParsed ==
  op = "Open" /\ result = "ok" /\ opts.want # NoDigest /\ ~rewritten
    => DigestOf(parsed) = opts.want /\ DigestOf(shown) = opts.want

(***************************************************************************)
(* "MemoryLimit is a conservative total memory budget in bytes covering    *)
(* the model backing and all sessions ... overflow and platform checks     *)
(* always apply" (options.go:13-15): a plan is admitted, and the sessions  *)
(* are about to be allocated, only if it is within the budget.             *)
(***************************************************************************)
BudgetCoversEverything ==
  pc = "sessions" /\ opts.limit # 0
    => Len(shown) + SessionBytes * opts.maxConcurrent <= opts.limit

(***************************************************************************)
(* Estimate "performs the same structural validation as Open"              *)
(* (estimate.go:28): bytes it accepted are not found malformed by Open.    *)
(***************************************************************************)
EstimateValidatesLikeOpen ==
  op = "Open" /\ result \in {"ErrInvalidModel", "ErrUnsupportedModel", "ErrInvalidMetadata"}
    => estimate # parsed
=============================================================================
