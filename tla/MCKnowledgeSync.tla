-------------------------- MODULE MCKnowledgeSync --------------------------
(* Instances of KnowledgeSync small enough for TLC. *)
EXTENDS KnowledgeSync, TLC

CONSTANTS d1, f, root, b1, b2, w1, w2, r

StartInFolder == [d \in Docs |-> [place |-> f, body |-> b1, open |-> TRUE]]
=============================================================================
