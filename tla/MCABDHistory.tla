--------------------------- MODULE MCABDHistory ---------------------------
(***************************************************************************)
(* Instances of ABDHistory for TLC.                                         *)
(***************************************************************************)
EXTENDS ABDHistory

OneEach  == [c \in Clients |-> 1]
FirstTwo == [c \in Clients |-> IF c = 1 THEN 2 ELSE 1]
=============================================================================
