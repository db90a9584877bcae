------------------------------ MODULE MCNvDirty ------------------------------
(***************************************************************************)
(* A table of three words.  The ranges start and end at, just before and   *)
(* just after the boundaries of the words, or are empty.                   *)
(***************************************************************************)
EXTENDS NvDirty

Edges == {0, 1, 31, 32, 64, 65, 96}

MCCalls == {<<a, b - a>> : <<a, b>> \in {e \in Edges \X Edges : e[1] <= e[2] /\ e[1] < 96}}
=============================================================================
