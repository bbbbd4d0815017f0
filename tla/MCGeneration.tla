---------------------------- MODULE MCGeneration ----------------------------
(***************************************************************************)
(* Instances of Generation for TLC.  Token a is an ordinary token and e an *)
(* end-of-generation token; a prompt may hold both.                        *)
(***************************************************************************)
EXTENDS Generation

CONSTANTS a, e

(* No token, one, two, more than the context holds, and one the embedding  *)
(* does not know.                                                          *)
MCPrompts == {<<>>, <<a>>, <<e, a>>, <<a, a, e, a>>, <<a, Nil>>}
=============================================================================
