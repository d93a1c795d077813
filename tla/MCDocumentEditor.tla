-------------------------- MODULE MCDocumentEditor --------------------------
(* Instances of the document editor for TLC. *)
EXTENDS DocumentEditor, TLC
=============================================================================
