-------------------------- MODULE MCKnowledgeDocuments --------------------------
(***************************************************************************)
(* Small instances of KnowledgeDocuments for TLC.                          *)
(***************************************************************************)
EXTENDS KnowledgeDocuments, TLC
================================================================================
