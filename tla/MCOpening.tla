----------------------------- MODULE MCOpening -----------------------------
(***************************************************************************)
(* Instances of Opening for TLC.                                           *)
(***************************************************************************)
EXTENDS Opening

(* Of the bytes of up to two each kind has some, and two are good, of      *)
(* which one begins with the other.                                        *)
MCKind ==
  [bytes \in Data |->
     CASE bytes \in {<<1>>, <<1, 2>>} -> "good"
       [] bytes = <<2>>               -> "badTokenizer"
       [] bytes = <<1, 1>>            -> "foreign"
       [] bytes = <<2, 2>>            -> "badWeights"
       [] OTHER                       -> "malformed"]

(* No file is malformed, but a copy that mixes the bytes of two may be.    *)
MCContents == Data \ {<<2, 1>>}

Request(want, n, budget) ==
  [negative |-> FALSE, want |-> want, maxConcurrent |-> n, limit |-> budget]

(* The plan of two sessions exceeds the budget of 4.                       *)
MCRequests ==
  {[Request(NoDigest, 1, 0) EXCEPT !.negative = TRUE],
   Request(NoDigest, 2, 4), Request(NotHex, 1, 0),
   Request(DigestOf(<<1>>), 1, 4), Request(DigestOf(<<1, 2>>), 2, 0)}

BudgetRequests == {Request(NoDigest, 1, 0), Request(NoDigest, 2, 4)}

EstimateRequests == {Request(NoDigest, 1, 0)}
=============================================================================
