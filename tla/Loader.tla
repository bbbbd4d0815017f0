------------------------------- MODULE Loader -------------------------------
(***************************************************************************)
(* loader.Parse: the header, the tensor descriptors, and the check that    *)
(* their data neither leaves the file nor overlaps (internal/loader/       *)
(* loader.go).  Everything after it slices the mapped file with what it    *)
(* accepted.                                                               *)
(*                                                                         *)
(* ggml.Decode is a library: it fails, or yields the start of the data     *)
(* section, the alignment and the descriptors, all of them uint64 read     *)
(* from the file.  WordSize is the number of values of a uint64.           *)
(*                                                                         *)
(* An operator whose comment starts with "Mutant" is not part of the model:*)
(* it is a plausible bug in the definition that follows it.                *)
(***************************************************************************)
EXTENDS Integers, Sequences, Functions

CONSTANTS
  Files,        \* bound: the files given to Parse
  Default,      \* the alignment when the file has none or 0, 32 in the code
  WordSize

(* A descriptor: its name, the offset of its data in the data section, its *)
(* encoded size (0 for an unknown encoding) and whether it has elements.   *)
Descriptors == [name : STRING, offset : 0..WordSize-1, size : 0..WordSize-1,
                empty : BOOLEAN]

ASSUME LoaderAssumption ==
  /\ WordSize \in Nat \ {0}
  /\ Default \in Nat \ {0}
  /\ \A f \in Files :
       /\ f.header \in {"ok", "short", "magic", "endian", "version"}
       /\ f.decodes \in BOOLEAN
       /\ f.base \in 0..WordSize-1
       /\ f.alignment \in 0..WordSize-1
       /\ f.size \in 0..WordSize-1
       /\ f.items \in Seq(Descriptors)

VARIABLES
  data,     \* the file
  pc,       \* where Parse is
  i,        \* the loop variable of the two loops of normalizeTensors
  tensors,  \* the normalized tensors so far
  ranges,   \* their byte ranges, sorted after the first loop
  result    \* what Parse returned

vars == <<data, pc, i, tensors, ranges, result>>

Init ==
  /\ data \in Files
  /\ pc = "header"
  /\ i = 1
  /\ tensors = <<>>
  /\ ranges = <<>>
  /\ result = "none"

returns(r) ==
  /\ pc' = "done"
  /\ result' = r

-----------------------------------------------------------------------------

headerError ==
  CASE data.header = "ok"      -> "nil"
    [] data.header = "endian"  -> "ErrUnsupportedEndian"
    [] data.header = "version" -> "ErrUnsupportedVersion"
    [] OTHER                   -> "ErrInvalidFormat"

(* validateHeader, then ggml.Decode, which may fail.                       *)
validateHeader ==
  /\ pc = "header"
  /\ \/ headerError # "nil" /\ returns(headerError)
     \/ headerError = "nil" /\ ~data.decodes /\ returns("ErrInvalidFormat")
     \/ headerError = "nil" /\ data.decodes /\ pc' = "base" /\ UNCHANGED result
  /\ UNCHANGED <<data, i, tensors, ranges>>

alignment == IF data.alignment = 0 THEN Default ELSE data.alignment

(* The head of normalizeTensors.                                           *)
dataSection ==
  /\ pc = "base"
  /\ IF data.base > data.size
     THEN returns("ErrTensorOutOfBounds")
     ELSE pc' = "tensors" /\ UNCHANGED result
  /\ UNCHANGED <<data, i, tensors, ranges>>

maxWord == WordSize - 1

(* Mutant: the sum, wrapped.                                               *)
checkedAdd3_unchecked(a, b, c) == [ok |-> TRUE, sum |-> (a + b + c) % WordSize]

(* The sum of three words, or not ok when it is not a word.                *)
checkedAdd3(a, b, c) ==
  LET ab == (a + b) % WordSize
  IN  IF a > maxWord - b \/ ab > maxWord - c
      THEN [ok |-> FALSE, sum |-> 0]
      ELSE [ok |-> TRUE, sum |-> (ab + c) % WordSize]

seen == {tensors[k].name : k \in DOMAIN tensors}

(* Mutant: the end of the file is not in the file.                         *)
outside_orEqual(t) ==
  LET end == checkedAdd3(data.base, t.offset, t.size)
  IN  ~end.ok \/ end.sum >= data.size

(* A tensor whose data does not end inside the file.                       *)
outside(t) ==
  LET end == checkedAdd3(data.base, t.offset, t.size)
  IN  ~end.ok \/ end.sum > data.size

(* What is wrong with a descriptor, in the order of the checks.            *)
fault(t) ==
  IF t.name \in seen THEN "ErrDuplicateTensor"
  ELSE IF t.size = 0 /\ ~t.empty THEN "ErrUnsupportedTensor"
  ELSE IF t.offset % alignment # 0 THEN "ErrMisalignedTensor"
  ELSE IF outside(t) THEN "ErrTensorOutOfBounds"
  ELSE "nil"

(* One turn of the first loop.                                             *)
normalize ==
  /\ pc = "tensors"
  /\ i <= Len(data.items)
  /\ LET t     == data.items[i]
         start == (data.base + t.offset) % WordSize
         end   == checkedAdd3(data.base, t.offset, t.size).sum
     IN  \/ /\ fault(t) # "nil"
            /\ returns(fault(t))
            /\ UNCHANGED <<i, tensors, ranges>>
         \/ /\ fault(t) = "nil"
            /\ tensors' = Append(tensors, [name |-> t.name, offset |-> start, size |-> t.size])
            /\ ranges' = Append(ranges, [start |-> start, end |-> end])
            /\ i' = i + 1
            /\ UNCHANGED <<pc, result>>
  /\ UNCHANGED data

SortedByStart(r) ==
  \A j, k \in DOMAIN r : j < k => r[j].start <= r[k].start

(* Mutant: the second loop starts at the first range.                      *)
sort_fromFirst ==
  /\ pc = "tensors"
  /\ i = Len(data.items) + 1
  /\ \E p \in Bijection(DOMAIN ranges, DOMAIN ranges) :
       /\ ranges' = [k \in DOMAIN ranges |-> ranges[p[k]]]
       /\ SortedByStart(ranges')
  /\ pc' = "overlap"
  /\ i' = 1
  /\ UNCHANGED <<data, tensors, result>>

(* slices.SortFunc, which leaves ranges of equal start in any order.       *)
sort ==
  /\ pc = "tensors"
  /\ i = Len(data.items) + 1
  /\ \E p \in Bijection(DOMAIN ranges, DOMAIN ranges) :
       /\ ranges' = [k \in DOMAIN ranges |-> ranges[p[k]]]
       /\ SortedByStart(ranges')
  /\ pc' = "overlap"
  /\ i' = 2
  /\ UNCHANGED <<data, tensors, result>>

(* Mutant: compares the starts of neighbours.                              *)
overlap_starts ==
  /\ pc = "overlap"
  /\ \/ /\ i > Len(ranges)
        /\ returns("ok")
        /\ UNCHANGED i
     \/ /\ i <= Len(ranges)
        /\ ranges[i].start <= ranges[i - 1].start
        /\ returns("ErrOverlappingTensor")
        /\ UNCHANGED i
     \/ /\ i <= Len(ranges)
        /\ ranges[i].start > ranges[i - 1].start
        /\ i' = i + 1
        /\ UNCHANGED <<pc, result>>
  /\ UNCHANGED <<data, tensors, ranges>>

(* One turn of the second loop: each range against the one before it.      *)
overlap ==
  /\ pc = "overlap"
  /\ \/ /\ i > Len(ranges)
        /\ returns("ok")
        /\ UNCHANGED i
     \/ /\ i <= Len(ranges)
        /\ ranges[i].start < ranges[i - 1].end
        /\ returns("ErrOverlappingTensor")
        /\ UNCHANGED i
     \/ /\ i <= Len(ranges)
        /\ ranges[i].start >= ranges[i - 1].end
        /\ i' = i + 1
        /\ UNCHANGED <<pc, result>>
  /\ UNCHANGED <<data, tensors, ranges>>

Next == validateHeader \/ dataSection \/ normalize \/ sort \/ overlap

Spec == Init /\ [][Next]_vars

-----------------------------------------------------------------------------
(* Properties.                                                             *)

Tensors == [name : STRING, offset : 0..WordSize-1, size : 0..WordSize-1]
Ranges  == [start : 0..WordSize-1, end : 0..WordSize-1]

TypeOK ==
  /\ data \in Files
  /\ pc \in {"header", "base", "tensors", "overlap", "done"}
  /\ i \in Nat \ {0}
  /\ pc = "overlap" => i > 1
  /\ tensors \in Seq(Tensors)
  /\ ranges \in Seq(Ranges)
  /\ result \in {"none", "ok", "ErrInvalidFormat", "ErrUnsupportedEndian",
                 "ErrUnsupportedVersion", "ErrTensorOutOfBounds", "ErrDuplicateTensor",
                 "ErrUnsupportedTensor", "ErrMisalignedTensor", "ErrOverlappingTensor"}

(***************************************************************************)
(* The data of every accepted tensor lies in the data section of the file, *)
(* in the numbers themselves and not modulo 2^64, whatever the file says   *)
(* (loader.go:193-197); BindWeights slices the mapping with it.            *)
(***************************************************************************)
AcceptedInFile ==
  result = "ok" => \A k \in DOMAIN tensors :
    /\ data.base <= tensors[k].offset
    /\ tensors[k].offset + tensors[k].size <= data.size

(***************************************************************************)
(* No two accepted tensors share a name or a byte, although each range is  *)
(* compared with its neighbour only (loader.go:180-183, 211-225).          *)
(***************************************************************************)
AcceptedDisjoint ==
  result = "ok" => \A j, k \in DOMAIN tensors : j # k =>
    /\ tensors[j].name # tensors[k].name
    /\ \/ tensors[j].offset + tensors[j].size <= tensors[k].offset
       \/ tensors[k].offset + tensors[k].size <= tensors[j].offset

(* A file with nothing wrong, said without the code's arithmetic.          *)
WellFormed(f) ==
  /\ f.header = "ok" /\ f.decodes
  /\ f.base <= f.size
  /\ \A k \in DOMAIN f.items :
       /\ f.items[k].size > 0
       /\ f.items[k].offset % alignment = 0
       /\ f.base + f.items[k].offset + f.items[k].size <= f.size
  /\ \A j, k \in DOMAIN f.items : j # k =>
       /\ f.items[j].name # f.items[k].name
       /\ \/ f.items[j].offset + f.items[j].size <= f.items[k].offset
          \/ f.items[k].offset + f.items[k].size <= f.items[j].offset

(***************************************************************************)
(* Nothing well-formed is rejected: not a tensor that ends with the file,  *)
(* not two that touch, not a file in whatever order its tensors are.  (A   *)
(* tensor without elements is left out: one that starts where another      *)
(* does may be found overlapping, depending on the order of the sort.)     *)
(***************************************************************************)
AcceptsWellFormed ==
  pc = "done" /\ WellFormed(data) => result = "ok"
=============================================================================
