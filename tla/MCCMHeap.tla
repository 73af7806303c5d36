------------------------------ MODULE MCCMHeap ------------------------------
(***************************************************************************)
(* Instances of CMHeap for TLC: servers 0 and 1 write, server 2 gets both.  *)
(***************************************************************************)
EXTENDS CMHeap

\* Six messages of two senders are the least for which one can be hidden.
FiveOne == [n \in Node |-> IF n = 0 THEN 5 ELSE IF n = 1 THEN 1 ELSE 0]

\* The servers other than 2 whose processing thread has something to do.
Awake == {n \in Node \ {2} : Busy(n) \/ (pq[n] # {} /\ Ready(n, top[n]))}

\* The behaviours of HFairSpec in which these threads are quick: what they can
\* do they do at once.  Only server 2 has messages of two senders in its queue.
QuickNext == IF Awake = {} THEN HNext ELSE \E n \in Awake : HProcessing(n)
QuickSpec == HInit /\ [][QuickNext]_hvars /\ HFairness
=============================================================================
