------------------------------ MODULE MCLoader ------------------------------
(***************************************************************************)
(* Instances of Loader for TLC: every list of at most MaxItems descriptors *)
(* over a few names, offsets and sizes, in a small file.                   *)
(***************************************************************************)
EXTENDS Loader

CONSTANTS Names, Offsets, Lengths, Bases, Alignments, FileSizes, MaxItems

MCDescriptors ==
  {d \in [name : Names, offset : Offsets, size : Lengths, empty : BOOLEAN] :
     d.empty => d.size = 0}

MCItems == UNION {[1..n -> MCDescriptors] : n \in 0..MaxItems}

MCFiles ==
  [header : {"ok"}, decodes : {TRUE}, base : Bases, alignment : Alignments,
   size : FileSizes, items : MCItems]
  \cup
  [header : {"ok", "short", "magic", "endian", "version"}, decodes : BOOLEAN,
   base : Bases, alignment : {0}, size : FileSizes, items : {<<>>}]
=============================================================================
