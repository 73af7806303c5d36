---------------------------- MODULE MCCMClients ----------------------------
(***************************************************************************)
(* Instances of CMClients for TLC: client c talks to server c.              *)
(***************************************************************************)
EXTENDS CMClients

\* Server 0 and server 1 take one write each; client 2 only reads.
Writers == [n \in Node |-> IF n < 2 THEN 1 ELSE 0]
Readers == [c \in Clients |-> c]
=============================================================================
