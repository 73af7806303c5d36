---------------------------- MODULE MCMPHistory ----------------------------
(***************************************************************************)
(* Instances of MPHistory for TLC.                                          *)
(***************************************************************************)
EXTENDS MPHistory

OneEach == [c \in Clients |-> 1]

\* Client 0 reads, the others write.
Reader0 == [c \in Clients |-> IF c = 0 THEN {"READ"} ELSE {"WRITE"}]

\* Every client retries once.
Retries == [c \in Clients |-> 1]
=============================================================================
