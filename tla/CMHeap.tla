------------------------------- MODULE CMHeap -------------------------------
(***************************************************************************)
(* The CM servers with the binary heap inside std::priority_queue           *)
(* (push_heap and pop_heap of libstdc++) ordered by vectclk_comparator.     *)
(* pq[n] and top[n] of CMServer are the elements and the first element of   *)
(* heap[n].                                                                 *)
(***************************************************************************)
EXTENDS CMServer, Functions

VARIABLE heap    \* heap[n]: the vector under cm_message_pq of server n

hvars == <<vars, heap>>

HInit == Init /\ heap = [n \in Node |-> <<>>]

\* __push_heap: the value moves up while its parent compares below it.
RECURSIVE SiftUp(_, _, _)
SiftUp(h, hole, m) ==
  IF hole > 1 /\ Comparator(h[hole \div 2], m)
  THEN SiftUp([h EXCEPT ![hole] = h[hole \div 2]], hole \div 2, m)
  ELSE [h EXCEPT ![hole] = m]

\* Deliberately wrong, for the mutation runs: the message is appended and not sifted up.
PushBack(h, m) == Append(h, m)

PushHeap(h, m) == SiftUp(Append(h, m), Len(h) + 1, m)

\* __adjust_heap: the hole sinks to a leaf, each time towards the child that
\* does not compare below the other; then the last element is sifted up from it.
RECURSIVE Sink(_, _, _)
Sink(h, hole, m) ==
  LET left   == 2 * hole
      right  == left + 1
      child  == IF right <= Len(h) /\ ~ Comparator(h[right], h[left]) THEN right ELSE left
  IN  IF left > Len(h)
      THEN SiftUp(h, hole, m)
      ELSE Sink([h EXCEPT ![hole] = h[child]], child, m)

\* Deliberately wrong, for the mutation runs: the last element is dropped, not the first.
PopBack(h) == SubSeq(h, 1, Len(h) - 1)

PopHeap(h) ==
  LET rest == SubSeq(h, 1, Len(h) - 1)
  IN  IF rest = <<>> THEN <<>> ELSE Sink(rest, 1, h[Len(h)])

SetHeap(n, h) ==
  /\ heap' = [heap EXCEPT ![n] = h]
  /\ pq' = [pq EXCEPT ![n] = Range(h)]
  /\ top' = [top EXCEPT ![n] = IF h = <<>> THEN NoMessage ELSE h[1]]

HDeliver(n, to) ==
  /\ to \in unsent[n]
  /\ unsent' = [unsent EXCEPT ![n] = @ \ {to}]
  /\ SetHeap(to, PushHeap(heap[to], Head(outqueue[n])))
  /\ UNCHANGED <<t, cm_ks_map, outqueue, sending, lost, processing, issued>>

HPop(n) ==
  /\ step[n] = "pop"
  /\ SetHeap(n, PopHeap(heap[n]))
  /\ step' = [step EXCEPT ![n] = "clock"]
  /\ UNCHANGED <<t, cm_ks_map, sender, req, issued>>

HSending(n) ==
  \/ (StartSend(n) \/ FinishSend(n)) /\ UNCHANGED heap
  \/ \E to \in unsent[n] : HDeliver(n, to) \/ (FailCall(n, to) /\ UNCHANGED heap)

HProcessing(n) == ((TakeTop(n) \/ Apply(n) \/ Clock(n)) /\ UNCHANGED heap) \/ HPop(n)

HNext ==
  \E n \in Node :
    \/ \E k \in Key : ClientWrite(n, k) /\ UNCHANGED heap
    \/ HSending(n)
    \/ HProcessing(n)

HSpec == HInit /\ [][HNext]_hvars

\* The sending and the processing thread of a server always run on.
HFairness == \A n \in Node : WF_hvars(HSending(n)) /\ WF_hvars(HProcessing(n))
HFairSpec == HSpec /\ HFairness

-----------------------------------------------------------------------------

\* The heap stays within what CMServer allows of cm_message_pq: a push changes
\* the root only to a message with no greater entry, a pop takes the root out.
HeapIsQueue == Spec

\* "we have to store them in order of smaller time ahead" (cm_server.cpp:39):
\* no message in the queue has a smaller time than the one at its root.
TopIsMinimal == \A n \in Node : \A m \in pq[n] : m # top[n] => ~ Comparator(top[n], m)

\* The processing thread waits for a root that is not ready while a message
\* that is ready is further down, where it never looks (868-894).
HidesReady(n) ==
  /\ step[n] = "top"
  /\ \E m \in pq[n] : Ready(n, m)
  /\ ~ Ready(n, top[n])

\* With three servers (server_info.txt) and no failed call, concurrent messages
\* of two senders hide a ready one only in a queue of four or more: pushes and
\* pops compare the root of a shorter one with every other message.
OnlyLongQueuesHide ==
  lost = 0 => \A n \in Node : HidesReady(n) => Len(heap[n]) >= 4

\* A hidden message is the only reason for which the processing loop, which
\* looks at its queue through the root only, ever stops: all servers apply
\* all writes, or one of them waits for ever with a ready message below its root.
OnlyHiddenMessagesStall ==
  \/ []<>(\A n, i \in Node : t[n][i] = Len(issued[i]))
  \/ <>[](\E n \in Node : HidesReady(n))
=============================================================================
