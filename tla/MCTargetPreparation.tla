-------------------------- MODULE MCTargetPreparation --------------------------
(* Sources of up to three lines over two names, with blank lines and
   comments between them, and a name that comes twice. *)
EXTENDS TargetPreparation, SequencesExt

MCContents == BoundedSeq(Names \cup {Blank, Comment}, 3)
=============================================================================
