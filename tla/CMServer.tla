------------------------------ MODULE CMServer ------------------------------
(***************************************************************************)
(* The servers of the CM protocol (server.cpp 144-231 and 810-957,          *)
(* cm_server.cpp, cm_client.cpp).  Each server runs the handlers of client  *)
(* requests, the handlers of CMRequest messages, a sending thread and a     *)
(* processing thread.                                                       *)
(*                                                                         *)
(* cm_message_pq is a std::priority_queue over a comparison that is not a   *)
(* strict weak order.  Here it is a set with a root; CMHeap has the heap    *)
(* itself.  A write is identified by its server and its number there.       *)
(***************************************************************************)
EXTENDS Integers, Sequences

CONSTANTS N,           \* number of servers in server_info.txt
          Key,         \* keys clients write
          MaxWrites,   \* bound: MaxWrites[n] client writes at server n
          MaxLost      \* bound: CMRequest calls that fail

ASSUME NAssumption      == N \in Nat \ {0}
ASSUME BoundsAssumption == MaxWrites \in [0 .. N - 1 -> Nat] /\ MaxLost \in Nat

Node    == 0 .. N - 1
NoWrite == <<>>
Message == [nodenum : Node, key : Key, vec_clk : [Node -> Nat]]
NoMessage == [nodenum |-> -1]

Number(m)  == m.vec_clk[m.nodenum]
WriteOf(m) == <<m.nodenum, Number(m)>>

\* Deliberately wrong, for the mutation runs: the operands of the comparison swapped.
ComparatorReversed(m1, m2) == \A i \in Node : m1.vec_clk[i] <= m2.vec_clk[i]

\* vectclk_comparator: m1 is moved below m2 when no entry of m1 is smaller.
Comparator(m1, m2) == \A i \in Node : m1.vec_clk[i] >= m2.vec_clk[i]

VARIABLES
  t,          \* t[n]: the vector clock of server n
  cm_ks_map,  \* cm_ks_map[n][k]: the write whose value server n keeps for key k
  outqueue,   \* outqueue[n]: cm_message_outqueue
  sending,    \* sending[n]: the front of outqueue[n] is being sent
  unsent,     \* unsent[n]: servers whose CMRequest call for it has not ended
  pq,         \* pq[n]: the messages in cm_message_pq
  top,        \* top[n]: the message at its root
  step,       \* step[n]: what the processing thread does next
  req,        \* req[n]: the message the processing thread works on
  lost,       \* calls that have failed (bound MaxLost)
  issued      \* history: issued[n], the messages of n's writes, in order

processing == <<step, req>>
queues     == <<pq, top>>
sender     == <<outqueue, sending, unsent, lost>>
vars       == <<t, cm_ks_map, sender, queues, processing, issued>>

TypeOK ==
  /\ t \in [Node -> [Node -> Nat]]
  /\ cm_ks_map \in [Node -> [Key -> (Node \X Nat) \cup {NoWrite}]]
  /\ outqueue \in [Node -> Seq(Message)]
  /\ sending \in [Node -> BOOLEAN]
  /\ unsent \in [Node -> SUBSET Node]
  /\ pq \in [Node -> SUBSET Message]
  /\ top \in [Node -> Message \cup {NoMessage}]
  /\ step \in [Node -> {"top", "apply", "pop", "clock"}]
  /\ req \in [Node -> Message \cup {NoMessage}]
  /\ lost \in Nat
  /\ issued \in [Node -> Seq(Message)]

\* The clock main allocates.
BootClock == [i \in Node |-> 0]

Init ==
  /\ t = [n \in Node |-> BootClock]
  /\ cm_ks_map = [n \in Node |-> [k \in Key |-> NoWrite]]
  /\ outqueue = [n \in Node |-> <<>>]
  /\ sending = [n \in Node |-> FALSE]
  /\ unsent = [n \in Node |-> {}]
  /\ pq = [n \in Node |-> {}]
  /\ top = [n \in Node |-> NoMessage]
  /\ step = [n \in Node |-> "top"]
  /\ req = [n \in Node |-> NoMessage]
  /\ lost = 0
  /\ issued = [n \in Node |-> <<>>]

-----------------------------------------------------------------------------
(* Handlers.                                                                *)

\* The message enqueue_in_outgoing_queue makes: a copy of the clock.
NewMessage(n, k) ==
  [nodenum |-> n, key |-> k, vec_clk |-> [t[n] EXCEPT ![n] = @ + 1]]

\* WRITE of a client: store, count, enqueue, all under cm_ks_map_mutex.
ClientWrite(n, k) ==
  LET m == NewMessage(n, k)
  IN  /\ Len(issued[n]) < MaxWrites[n]
      /\ t' = [t EXCEPT ![n] = m.vec_clk]
      /\ cm_ks_map' = [cm_ks_map EXCEPT ![n][k] = WriteOf(m)]
      /\ outqueue' = [outqueue EXCEPT ![n] = Append(@, m)]
      /\ issued' = [issued EXCEPT ![n] = Append(@, m)]
      /\ UNCHANGED <<sending, unsent, lost, queues, processing>>

\* cm_message_pq.push: the new message becomes the root only if the old root
\* has no smaller entry; it may still be held up by another ancestor.
Push(n, m) ==
  /\ pq' = [pq EXCEPT ![n] = @ \cup {m}]
  /\ \E r \in {top[n], m} :
       /\ pq[n] = {} => r = m
       /\ pq[n] # {} /\ r = m => Comparator(top[n], m)
       /\ top' = [top EXCEPT ![n] = r]

-----------------------------------------------------------------------------
(* The sending thread.                                                      *)

StartSend(n) ==
  /\ ~ sending[n] /\ outqueue[n] # <<>>
  /\ sending' = [sending EXCEPT ![n] = TRUE]
  /\ unsent' = [unsent EXCEPT ![n] = Node \ {n}]
  /\ UNCHANGED <<t, cm_ks_map, outqueue, lost, queues, processing, issued>>

\* Deliberately wrong, for the mutation runs: a call that succeeded is repeated.
DeliverAgain(n, to) ==
  /\ to \in unsent[n]
  /\ Push(to, Head(outqueue[n]))
  /\ UNCHANGED <<t, cm_ks_map, sender, processing, issued>>

\* One of the parallel calls reaches its server, whose handler pushes the message.
Deliver(n, to) ==
  /\ to \in unsent[n]
  /\ unsent' = [unsent EXCEPT ![n] = @ \ {to}]
  /\ Push(to, Head(outqueue[n]))
  /\ UNCHANGED <<t, cm_ks_map, outqueue, sending, lost, processing, issued>>

\* One of the calls fails; nobody repeats it.
FailCall(n, to) ==
  /\ to \in unsent[n] /\ lost < MaxLost
  /\ unsent' = [unsent EXCEPT ![n] = @ \ {to}]
  /\ lost' = lost + 1
  /\ UNCHANGED <<t, cm_ks_map, outqueue, sending, queues, processing, issued>>

\* Deliberately wrong, for the mutation runs: the message is popped before the calls are joined.
FinishSendEarly(n) ==
  /\ sending[n]
  /\ sending' = [sending EXCEPT ![n] = FALSE]
  /\ outqueue' = [outqueue EXCEPT ![n] = Tail(@)]
  /\ UNCHANGED <<t, cm_ks_map, unsent, lost, queues, processing, issued>>

\* All calls have been joined: the message leaves the queue.
FinishSend(n) ==
  /\ sending[n] /\ unsent[n] = {}
  /\ sending' = [sending EXCEPT ![n] = FALSE]
  /\ outqueue' = [outqueue EXCEPT ![n] = Tail(@)]
  /\ UNCHANGED <<t, cm_ks_map, unsent, lost, queues, processing, issued>>

-----------------------------------------------------------------------------
(* The processing thread.  It takes cm_pq_mutex to look at the root and     *)
(* again to pop it, and no lock for the clock.                              *)

\* Deliberately wrong, for the mutation runs: the writes of other servers are not waited for.
ReadyInOrder(n, m) == Number(m) = t[n][m.nodenum] + 1

\* Deliberately wrong, for the mutation runs: a message need not be the next of its server.
ReadyAnyNumber(n, m) == \A i \in Node \ {m.nodenum} : m.vec_clk[i] <= t[n][i]

\* Deliberately wrong, for the mutation runs: the sender's own entry is not skipped.
ReadyWithoutSkip(n, m) ==
  /\ \A i \in Node : m.vec_clk[i] <= t[n][i]
  /\ Number(m) = t[n][m.nodenum] + 1

\* The message is the next of its server, and all it counts has been applied.
Ready(n, m) ==
  /\ \A i \in Node \ {m.nodenum} : m.vec_clk[i] <= t[n][i]
  /\ Number(m) = t[n][m.nodenum] + 1

TakeTop(n) ==
  /\ step[n] = "top" /\ pq[n] # {} /\ Ready(n, top[n])
  /\ req' = [req EXCEPT ![n] = top[n]]
  /\ step' = [step EXCEPT ![n] = "apply"]
  /\ UNCHANGED <<t, cm_ks_map, sender, queues, issued>>

Apply(n) ==
  /\ step[n] = "apply"
  /\ cm_ks_map' = [cm_ks_map EXCEPT ![n][req[n].key] = WriteOf(req[n])]
  /\ step' = [step EXCEPT ![n] = "pop"]
  /\ UNCHANGED <<t, sender, queues, req, issued>>

\* pop() removes whatever is at the root by now; which message becomes the
\* root is the heap's business.
Pop(n) ==
  /\ step[n] = "pop"
  /\ pq' = [pq EXCEPT ![n] = @ \ {top[n]}]
  /\ \E r \in (pq[n] \ {top[n]}) \cup {NoMessage} :
       /\ r = NoMessage <=> pq[n] \ {top[n]} = {}
       /\ top' = [top EXCEPT ![n] = r]
  /\ step' = [step EXCEPT ![n] = "clock"]
  /\ UNCHANGED <<t, cm_ks_map, sender, req, issued>>

Clock(n) ==
  /\ step[n] = "clock"
  /\ t' = [t EXCEPT ![n][req[n].nodenum] = Number(req[n])]
  /\ step' = [step EXCEPT ![n] = "top"]
  /\ req' = [req EXCEPT ![n] = NoMessage]
  /\ UNCHANGED <<cm_ks_map, sender, queues, issued>>

-----------------------------------------------------------------------------

SendingThread(n) ==
  \/ StartSend(n) \/ FinishSend(n)
  \/ \E to \in unsent[n] : Deliver(n, to) \/ FailCall(n, to)

ProcessingThread(n) == TakeTop(n) \/ Apply(n) \/ Pop(n) \/ Clock(n)

Next ==
  \E n \in Node :
    \/ \E k \in Key : ClientWrite(n, k)
    \/ SendingThread(n)
    \/ ProcessingThread(n)

Spec == Init /\ [][Next]_vars

-----------------------------------------------------------------------------
(* Properties.                                                              *)

\* pop() at 923 removes the message that top() returned at 874 although other
\* handlers push in between: a message that is ready cannot be overtaken.
\* (If it could, the message deleted at 931 would still be in the queue.)
TopStaysUntilPopped ==
  \A n \in Node : step[n] \in {"apply", "pop"} => pq[n] # {} /\ top[n] = req[n]

\* The writes server n has applied: its clock, and the message that is in the
\* store but not yet in the clock.
Applied(n) ==
  IF step[n] \in {"pop", "clock"}
  THEN [t[n] EXCEPT ![req[n].nodenum] = Number(req[n])]
  ELSE t[n]

Abstract == INSTANCE CausalDelivery WITH
  writes <- issued,
  seen   <- [n \in Node |-> Applied(n)],
  store  <- cm_ks_map

\* The servers implement CausalDelivery: whatever the interleaving of the
\* threads and whichever calls fail, writes of one server are applied in
\* order, none twice, none before those it counts.
DeliversInOrder == Abstract!Spec

\* The value a server keeps for a key was not overwritten by a write the server
\* has applied as well: none of these counts it (184-229, 886-920).
KeepsNewest == Abstract!KeepsNewest

\* A message waits in at most one place and never after it was applied: the
\* queue holds only writes the clock does not count yet.
QueuedAreUncounted ==
  \A n \in Node : \A m \in pq[n] :
    /\ m.nodenum # n
    /\ Number(m) > t[n][m.nodenum]
    /\ step[n] = "clock" => m # req[n]

-----------------------------------------------------------------------------
(* The inductive invariant behind TopStaysUntilPopped, QueuedAreUncounted   *)
(* and DeliversInOrder.                                                     *)

\* m is the message its server made for its write of that number.
Genuine(m) ==
  /\ m \in Message
  /\ Number(m) \in 1 .. Len(issued[m.nodenum])
  /\ issued[m.nodenum][Number(m)] = m

Busy(n) == step[n] # "top"

AllGenuine ==
  \A n \in Node :
    /\ \A m \in pq[n] : Genuine(m)
    /\ \A j \in DOMAIN outqueue[n] : Genuine(outqueue[n][j]) /\ outqueue[n][j].nodenum = n
    /\ Busy(n) => Genuine(req[n]) /\ req[n].nodenum # n

ClockInRange ==
  \A n \in Node :
    /\ t[n][n] = Len(issued[n])
    /\ \A i \in Node : t[n][i] <= Len(issued[i])

SendingInOrder ==
  \A n \in Node :
    /\ \A j, k \in DOMAIN outqueue[n] : j < k => Number(outqueue[n][j]) < Number(outqueue[n][k])
    /\ n \notin unsent[n]
    /\ unsent[n] # {} => sending[n]
    /\ sending[n] => outqueue[n] # <<>>

\* The j-th message in the queue of server i is still to be sent to server n.
Pending(i, n, j) == j > 1 \/ ~ sending[i] \/ n \in unsent[i]

\* What is still to be sent comes after everything that has arrived.
ArrivesInOrder ==
  \A i, n \in Node : i # n =>
    \A j \in DOMAIN outqueue[i] : Pending(i, n, j) =>
      /\ Number(outqueue[i][j]) > t[n][i]
      /\ \A m \in pq[n] : m.nodenum = i => Number(outqueue[i][j]) > Number(m)
      /\ Busy(n) /\ req[n].nodenum = i => Number(outqueue[i][j]) > Number(req[n])

WorksOnReady == \A n \in Node : Busy(n) => Ready(n, req[n])

TopIsQueued == \A n \in Node : pq[n] # {} => top[n] \in pq[n]

IInv ==
  /\ TypeOK
  /\ AllGenuine
  /\ ClockInRange
  /\ SendingInOrder
  /\ ArrivesInOrder
  /\ WorksOnReady
  /\ TopIsQueued
  /\ TopStaysUntilPopped
  /\ QueuedAreUncounted
=============================================================================
