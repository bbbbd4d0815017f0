---------------------------- MODULE MCTokenizer ----------------------------
(***************************************************************************)
(* Instances of Tokenizer for TLC.  An int32 has four bits and an int64    *)
(* six, so that 17 is 1 as an int32, and 33 is 1 under both.               *)
(***************************************************************************)
EXTENDS Tokenizer

MCNumbers == {-1, 1, 7, 8, 17, 33}

(* The pinned template, the same laid out anew, another one, and none.     *)
MCTemplates ==
  {qwen3GuardTemplate, <<"policy", "space", "loop", "newline">>,
   <<"other policy", "newline", "loop">>, <<>>}

(* Up to three messages of any role, with contents of their own.           *)
MCConversations ==
  {[i \in DOMAIN roles |-> [role |-> roles[i], content |-> <<"a", "b", "c">>[i]]] :
     roles \in SeqOf(Roles \cup {"tool"}, 3)}
=============================================================================
