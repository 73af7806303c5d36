------------------------------- MODULE MCABD -------------------------------
(***************************************************************************)
(* Instances of ABD for TLC.                                                *)
(***************************************************************************)
EXTENDS ABD

OneEach  == [c \in Clients |-> 1]
FirstTwo == [c \in Clients |-> IF c = 1 THEN 2 ELSE 1]
=============================================================================
