--------------------------- MODULE MCUserProgram ---------------------------
(***************************************************************************)
(* The instance of UserProgram for TLC.                                     *)
(***************************************************************************)
EXTENDS UserProgram

\* Three clients for one round, as in the programs; two for two rounds.
ThreeTwo == <<3, 2>>
=============================================================================
