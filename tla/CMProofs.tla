------------------------------ MODULE CMProofs ------------------------------
(***************************************************************************)
(* Theorems about CMServer and its clients, for every number of servers and *)
(* clients, set of keys and bound on writes and failed calls.               *)
(***************************************************************************)
EXTENDS CMClients, TLAPS

-----------------------------------------------------------------------------
(* Type correctness.                                                        *)

\* The message enqueue_in_outgoing_queue (46-67) makes for a write: the next
\* number of its server.
LEMMA NewMessageTyped ==
  ASSUME TypeOK, NEW n \in Node, NEW k \in Key
  PROVE  /\ NewMessage(n, k) \in Message
         /\ NewMessage(n, k).nodenum = n
         /\ NewMessage(n, k).key = k
         /\ NewMessage(n, k).vec_clk = [t[n] EXCEPT ![n] = t[n][n] + 1]
         /\ Number(NewMessage(n, k)) = t[n][n] + 1
<1>1. t[n] \in [Node -> Nat]
  BY DEF TypeOK
<1>2. [t[n] EXCEPT ![n] = t[n][n] + 1] \in [Node -> Nat]
  BY <1>1
<1> QED  BY <1>1, <1>2 DEF NewMessage, Message, Number

\* A message names a server, a key and a number.
LEMMA NumberIsNat == \A m \in Message : Number(m) \in Nat /\ m.nodenum \in Node /\ m.key \in Key
BY DEF Message, Number

\* Pushing a message keeps the types of the queue and its root.
LEMMA PushTyped ==
  ASSUME TypeOK, NEW n \in Node, NEW m \in Message, Push(n, m)
  PROVE  /\ pq' \in [Node -> SUBSET Message]
         /\ top' \in [Node -> Message \cup {NoMessage}]
BY DEF Push, TypeOK

\* The front of a queue that is not empty is its first message.
LEMMA FrontTyped ==
  ASSUME TypeOK, NEW n \in Node, outqueue[n] # <<>>
  PROVE  /\ Head(outqueue[n]) \in Message
         /\ Head(outqueue[n]) = outqueue[n][1]
         /\ 1 \in DOMAIN outqueue[n]
         /\ Tail(outqueue[n]) \in Seq(Message)
BY DEF TypeOK

\* The state main boots with (989-1022) has its type.
LEMMA TypeInit == Init => TypeOK
BY DEF Init, BootClock, TypeOK

\* The processing thread holds a message whenever it is at work.
HoldsMessage == \A n \in Node : Busy(n) => req[n] \in Message

\* The message at work is a genuine one, so it is a message.
LEMMA GenuineHolds == AllGenuine => HoldsMessage
BY DEF AllGenuine, HoldsMessage, Genuine

\* No handler and no thread breaks the types.
LEMMA TypeStep ==
  ASSUME TypeOK, HoldsMessage, SendingInOrder, TopIsQueued, [Next]_vars
  PROVE  TypeOK'
<1> USE DEF sender, queues, processing
<1>1. ASSUME NEW n \in Node, NEW k \in Key, ClientWrite(n, k) PROVE TypeOK'
  <2> DEFINE m == NewMessage(n, k)
  <2>1. /\ m \in Message /\ m.vec_clk \in [Node -> Nat]
        /\ WriteOf(m) \in (Node \X Nat) \cup {NoWrite}
    BY NewMessageTyped, NumberIsNat DEF WriteOf, Message
  <2>2. /\ t' = [t EXCEPT ![n] = m.vec_clk]
        /\ cm_ks_map' = [cm_ks_map EXCEPT ![n][k] = WriteOf(m)]
        /\ outqueue' = [outqueue EXCEPT ![n] = Append(outqueue[n], m)]
        /\ issued' = [issued EXCEPT ![n] = Append(issued[n], m)]
        /\ UNCHANGED <<sending, unsent, lost, queues, processing>>
    BY <1>1 DEF ClientWrite
  <2> HIDE DEF m
  <2>3. Append(outqueue[n], m) \in Seq(Message) /\ Append(issued[n], m) \in Seq(Message)
    BY <2>1 DEF TypeOK
  <2> QED  BY <2>1, <2>2, <2>3 DEF TypeOK
<1>2. ASSUME NEW n \in Node, StartSend(n) PROVE TypeOK'
  BY <1>2 DEF StartSend, TypeOK
<1>3. ASSUME NEW n \in Node, NEW to \in unsent[n], Deliver(n, to) PROVE TypeOK'
  <2>1. to \in Node /\ outqueue[n] # <<>>
    BY DEF TypeOK, SendingInOrder
  <2>2. Head(outqueue[n]) \in Message
    BY <2>1, FrontTyped
  <2> QED  BY <1>3, <2>1, <2>2, PushTyped DEF Deliver, TypeOK
<1>4. ASSUME NEW n \in Node, NEW to \in unsent[n], FailCall(n, to) PROVE TypeOK'
  BY <1>4 DEF FailCall, TypeOK
<1>5. ASSUME NEW n \in Node, FinishSend(n) PROVE TypeOK'
  <2>1. Tail(outqueue[n]) \in Seq(Message)
    BY <1>5, FrontTyped DEF FinishSend, SendingInOrder
  <2> QED  BY <1>5, <2>1 DEF FinishSend, TypeOK
<1>6. ASSUME NEW n \in Node, TakeTop(n) PROVE TypeOK'
  BY <1>6 DEF TakeTop, TypeOK
<1>7. ASSUME NEW n \in Node, Apply(n) PROVE TypeOK'
  <2>1. req[n].key \in Key /\ WriteOf(req[n]) \in (Node \X Nat) \cup {NoWrite}
    BY <1>7, NumberIsNat DEF Apply, HoldsMessage, Busy, WriteOf
  <2> QED  BY <1>7, <2>1 DEF Apply, TypeOK
<1>8. ASSUME NEW n \in Node, Pop(n) PROVE TypeOK'
  <2>1. \A r \in (pq[n] \ {top[n]}) \cup {NoMessage} : r \in Message \cup {NoMessage}
    BY DEF TypeOK
  <2> QED  BY <1>8, <2>1 DEF Pop, TypeOK
<1>9. ASSUME NEW n \in Node, Clock(n) PROVE TypeOK'
  <2>1. req[n].nodenum \in Node /\ Number(req[n]) \in Nat
    BY <1>9, NumberIsNat DEF Clock, HoldsMessage, Busy
  <2> QED  BY <1>9, <2>1 DEF Clock, TypeOK
<1>10. CASE UNCHANGED vars
  BY <1>10 DEF vars, TypeOK
<1> QED
  BY <1>1, <1>2, <1>3, <1>4, <1>5, <1>6, <1>7, <1>8, <1>9, <1>10
  DEF Next, SendingThread, ProcessingThread

-----------------------------------------------------------------------------
(* The inductive invariant, one lemma per kind of step.                     *)

\* The invariant holds at the start.
LEMMA IInvInit == Init => IInv
<1> SUFFICES ASSUME Init PROVE IInv
  OBVIOUS
<1>1. TypeOK
  BY TypeInit
<1> QED
  BY <1>1 DEF Init, BootClock, IInv, AllGenuine, ClockInRange, SendingInOrder, ArrivesInOrder, WorksOnReady,
              TopIsQueued, TopStaysUntilPopped, QueuedAreUncounted, Busy

\* Making a write changes nothing about the messages made before it.
LEMMA GenuineKept ==
  ASSUME TypeOK, NEW n \in Node, NEW k \in Key, ClientWrite(n, k), NEW m, Genuine(m)
  PROVE  Genuine(m)'
<1>1. NewMessage(n, k) \in Message
  BY NewMessageTyped
<1>2. issued' = [issued EXCEPT ![n] = Append(issued[n], NewMessage(n, k))]
  BY DEF ClientWrite
<1>3. m \in Message /\ m.nodenum \in Node /\ Number(m) \in Nat
  BY NumberIsNat DEF Genuine
<1>4. issued[n] \in Seq(Message) /\ issued[m.nodenum] \in Seq(Message)
  BY <1>3 DEF TypeOK
<1>5. CASE m.nodenum # n
  BY <1>2, <1>3, <1>5 DEF Genuine, TypeOK
<1>6. CASE m.nodenum = n
  <2>1. issued'[n] = Append(issued[n], NewMessage(n, k))
    BY <1>2 DEF TypeOK
  <2>2. /\ Len(issued'[n]) = Len(issued[n]) + 1
        /\ \A p \in 1 .. Len(issued[n]) : issued'[n][p] = issued[n][p]
    BY <1>1, <1>4, <2>1
  <2> QED  BY <1>3, <1>4, <1>6, <2>2 DEF Genuine
<1> QED  BY <1>5, <1>6

\* The message of a new write is genuine, and later than all of its server's.
LEMMA NewMessageGenuine ==
  ASSUME TypeOK, ClockInRange, NEW n \in Node, NEW k \in Key, ClientWrite(n, k),
         NEW m, m = NewMessage(n, k)
  PROVE  /\ Genuine(m)'
         /\ Number(m) = Len(issued[n]) + 1
         /\ Len(issued'[n]) = Len(issued[n]) + 1
<1>1. m \in Message /\ m.nodenum = n /\ Number(m) = Len(issued[n]) + 1
  <2>1. m \in Message /\ m.nodenum = n /\ Number(m) = t[n][n] + 1
    BY NewMessageTyped
  <2>2. t[n][n] = Len(issued[n])
    BY DEF ClockInRange
  <2> QED  BY <2>1, <2>2
<1>2. issued' = [issued EXCEPT ![n] = Append(issued[n], m)] /\ issued[n] \in Seq(Message)
  BY DEF ClientWrite, TypeOK
<1>3. issued'[n] = Append(issued[n], m)
  BY <1>2 DEF TypeOK
<1>4. Len(issued'[n]) = Len(issued[n]) + 1 /\ issued'[n][Len(issued[n]) + 1] = m
  BY <1>1, <1>2, <1>3
<1>5. Len(issued[n]) \in Nat
  BY <1>2
<1>6. Genuine(m)'
  BY <1>1, <1>4, <1>5 DEF Genuine, Number
<1> QED  BY <1>1, <1>4, <1>6

\* The WRITE handler (183-231) preserves the invariant: the new message comes
\* after every message of its server, wherever those are.
LEMMA ClientWriteStep ==
  ASSUME IInv, NEW n \in Node, NEW k \in Key, ClientWrite(n, k), TypeOK'
  PROVE  IInv'
<1> USE DEF sender, queues, processing
<1>1. /\ TypeOK /\ AllGenuine /\ ClockInRange /\ SendingInOrder /\ ArrivesInOrder
      /\ WorksOnReady /\ TopIsQueued /\ TopStaysUntilPopped /\ QueuedAreUncounted
  BY DEF IInv
<1>0. PICK m : m = NewMessage(n, k)
  OBVIOUS
<1>2. /\ m \in Message /\ m.nodenum = n
      /\ m.vec_clk = [t[n] EXCEPT ![n] = t[n][n] + 1]
      /\ Number(m) = Len(issued[n]) + 1
      /\ Len(issued'[n]) = Len(issued[n]) + 1
      /\ Genuine(m)'
  BY <1>0, <1>1, NewMessageTyped, NewMessageGenuine
<1>3. /\ t' = [t EXCEPT ![n] = m.vec_clk]
      /\ outqueue' = [outqueue EXCEPT ![n] = Append(outqueue[n], m)]
      /\ issued' = [issued EXCEPT ![n] = Append(issued[n], m)]
      /\ UNCHANGED <<sending, unsent, lost, queues, processing>>
  BY <1>0 DEF ClientWrite
<1>4. \A x : Genuine(x) => Genuine(x)'
  BY <1>1, GenuineKept
<1>5. /\ outqueue[n] \in Seq(Message) /\ Len(outqueue[n]) \in Nat
      /\ outqueue'[n] = Append(outqueue[n], m)
      /\ \A i \in Node : i # n => outqueue'[i] = outqueue[i]
  BY <1>1, <1>3 DEF TypeOK
<1>6. /\ DOMAIN outqueue'[n] = DOMAIN outqueue[n] \cup {Len(outqueue[n]) + 1}
      /\ \A j \in DOMAIN outqueue[n] : outqueue'[n][j] = outqueue[n][j] /\ j < Len(outqueue[n]) + 1
      /\ outqueue'[n][Len(outqueue[n]) + 1] = m
  BY <1>2, <1>5
<1>7. /\ \A i, j \in Node : ~ (i = n /\ j = n) => t'[i][j] = t[i][j]
      /\ t'[n][n] = t[n][n] + 1
      /\ \A i \in Node : i # n => Len(issued'[i]) = Len(issued[i])
      /\ \A i \in Node : Len(issued[i]) \in Nat
      /\ \A i, j \in Node : t[i][j] \in Nat /\ t'[i][j] \in Nat
  BY <1>1, <1>2, <1>3 DEF TypeOK
<1>8. AllGenuine'
  <2> SUFFICES ASSUME NEW x \in Node
               PROVE  /\ \A y \in pq'[x] : Genuine(y)'
                      /\ \A j \in DOMAIN outqueue'[x] : Genuine(outqueue[x][j])' /\ outqueue'[x][j].nodenum = x
                      /\ Busy(x)' => Genuine(req[x])' /\ req'[x].nodenum # x
    BY DEF AllGenuine
  <2>1. \A y \in pq'[x] : Genuine(y)'
    BY <1>1, <1>3, <1>4 DEF AllGenuine
  <2>2. ASSUME NEW j \in DOMAIN outqueue'[x]
        PROVE  Genuine(outqueue[x][j])' /\ outqueue'[x][j].nodenum = x
    <3>1. PICK y : y = outqueue'[x][j]
      OBVIOUS
    <3>2. Genuine(y)' /\ y.nodenum = x
      <4>1. CASE j \in DOMAIN outqueue[x]
        <5>1. y = outqueue[x][j]
          BY <1>5, <1>6, <3>1, <4>1
        <5>2. Genuine(y) /\ y.nodenum = x
          BY <1>1, <4>1, <5>1 DEF AllGenuine
        <5> QED  BY <1>4, <5>2
      <4>2. CASE j \notin DOMAIN outqueue[x]
        <5>1. x = n /\ y = m
          BY <1>5, <1>6, <2>2, <3>1, <4>2
        <5> QED  BY <1>2, <5>1
      <4> QED  BY <4>1, <4>2
    <3> QED  BY <3>1, <3>2 DEF Genuine, Number
  <2>3. ASSUME Busy(x)' PROVE Genuine(req[x])' /\ req'[x].nodenum # x
    <3>1. PICK y : y = req[x] /\ Genuine(y) /\ y.nodenum # x
      BY <1>1, <1>3, <2>3 DEF AllGenuine, Busy
    <3>2. Genuine(y)' /\ req'[x] = y
      BY <1>3, <1>4, <3>1
    <3> QED  BY <3>1, <3>2 DEF Genuine, Number
  <2> QED  BY <2>1, <2>2, <2>3
<1>9. ClockInRange'
  <2>1. \A i, j \in Node : t[i][j] \in Nat
    BY <1>1 DEF TypeOK
  <2> QED  BY <1>1, <1>2, <1>7, <2>1 DEF ClockInRange
<1>10. \A j \in DOMAIN outqueue[n] : Number(outqueue[n][j]) <= Len(issued[n])
  BY <1>1 DEF AllGenuine, Genuine
<1>11. SendingInOrder'
  <2>1. \A j \in DOMAIN outqueue[n] : Number(outqueue[n][j]) \in Nat
    BY <1>1, NumberIsNat DEF AllGenuine, Genuine
  <2>2. ASSUME NEW i, NEW j, i \in DOMAIN outqueue'[n], j \in DOMAIN outqueue'[n], i < j
        PROVE  Number(outqueue'[n][i]) < Number(outqueue'[n][j])
    <3>1. CASE j \in DOMAIN outqueue[n]
      <4>1. i \in DOMAIN outqueue[n]
        BY <1>5, <1>6, <2>2, <3>1
      <4> QED  BY <1>1, <1>6, <2>2, <3>1, <4>1 DEF SendingInOrder
    <3>2. CASE j = Len(outqueue[n]) + 1
      <4>1. i \in DOMAIN outqueue[n]
        BY <1>5, <1>6, <2>2, <3>2
      <4> QED  BY <1>2, <1>6, <1>7, <1>10, <2>1, <3>2, <4>1
    <3> QED  BY <1>6, <2>2, <3>1, <3>2
  <2>3. outqueue'[n] # <<>>
    BY <1>5, <1>6
  <2> QED  BY <1>1, <1>3, <1>5, <2>2, <2>3 DEF SendingInOrder, Number
<1>12. ArrivesInOrder'
  <2> SUFFICES ASSUME NEW i \in Node, NEW x \in Node, i # x,
                      NEW j \in DOMAIN outqueue'[i], Pending(i, x, j)'
               PROVE  /\ Number(outqueue'[i][j]) > t'[x][i]
                      /\ \A y \in pq'[x] : y.nodenum = i => Number(outqueue'[i][j]) > Number(y)
                      /\ Busy(x)' /\ req'[x].nodenum = i => Number(outqueue'[i][j]) > Number(req'[x])
    BY DEF ArrivesInOrder, Number
  <2>1. t'[x][i] = t[x][i] /\ pq' = pq /\ req' = req /\ (Busy(x)' <=> Busy(x))
    BY <1>3, <1>7 DEF Busy
  <2>2. CASE j \in DOMAIN outqueue[i]
    <3>1. outqueue'[i][j] = outqueue[i][j] /\ Pending(i, x, j)
      BY <1>3, <1>5, <1>6, <2>2 DEF Pending
    <3> QED  BY <1>1, <2>1, <2>2, <3>1 DEF ArrivesInOrder
  <2>3. CASE j \notin DOMAIN outqueue[i]
    <3>1. i = n /\ outqueue'[i][j] = m
      BY <1>5, <1>6, <2>3
    <3>2. t[x][n] <= Len(issued[n]) /\ t[x][n] \in Nat
      BY <1>1 DEF ClockInRange, TypeOK
    <3>3. \A y \in pq[x] : y.nodenum = n => Number(y) \in Nat /\ Number(y) <= Len(issued[n])
      BY <1>1, NumberIsNat DEF AllGenuine, Genuine
    <3>4. Busy(x) /\ req[x].nodenum = n => Number(req[x]) \in Nat /\ Number(req[x]) <= Len(issued[n])
      BY <1>1, NumberIsNat DEF AllGenuine, Genuine
    <3> QED  BY <1>2, <1>7, <2>1, <3>1, <3>2, <3>3, <3>4
  <2> QED  BY <2>2, <2>3
<1>13. WorksOnReady'
  <2> SUFFICES ASSUME NEW x \in Node, Busy(x) PROVE Ready(x, req[x])'
    BY <1>3 DEF WorksOnReady, Busy
  <2>1. Ready(x, req[x]) /\ req[x] \in Message /\ req[x].nodenum \in Node /\ req[x].nodenum # x
    BY <1>1, NumberIsNat DEF WorksOnReady, AllGenuine, Genuine
  <2>2. \A i \in Node : req[x].vec_clk[i] \in Nat /\ t[x][i] \in Nat /\ t[x][i] <= t'[x][i]
    <3>1. \A i \in Node : t[x][i] <= t'[x][i]
      BY <1>7
    <3> QED  BY <1>7, <2>1, <3>1 DEF Message
  <2>3. t'[x][req[x].nodenum] = t[x][req[x].nodenum] /\ req' = req
    BY <1>3, <1>7, <2>1
  <2>4. \A i \in Node \ {req[x].nodenum} : req[x].vec_clk[i] <= t'[x][i]
    <3>1. \A i \in Node : t'[x][i] \in Nat
      BY DEF TypeOK
    <3> QED  BY <2>1, <2>2, <3>1 DEF Ready
  <2> QED  BY <2>1, <2>3, <2>4 DEF Ready, Number
<1>14. TopIsQueued' /\ TopStaysUntilPopped'
  BY <1>1, <1>3 DEF TopIsQueued, TopStaysUntilPopped
<1>15. QueuedAreUncounted'
  BY <1>1, <1>3, <1>7, NumberIsNat DEF QueuedAreUncounted, Number, AllGenuine, Genuine
<1> QED  BY <1>8, <1>9, <1>11, <1>12, <1>13, <1>14, <1>15 DEF IInv

\* A step that makes no write keeps every message genuine.
LEMMA GenuineUnchanged ==
  ASSUME issued' = issued
  PROVE  \A m : Genuine(m) => Genuine(m)'
BY DEF Genuine

\* A step that touches neither the clocks nor the queues of messages that have
\* arrived, and leaves no more calls to be made, keeps the order of arrival.
LEMMA OrderKept ==
  ASSUME ArrivesInOrder, UNCHANGED <<t, outqueue, pq, step, req>>,
         \A i, x \in Node : \A j \in DOMAIN outqueue[i] : i # x /\ Pending(i, x, j)' => Pending(i, x, j)
  PROVE  ArrivesInOrder'
<1>1. /\ t' = t /\ outqueue' = outqueue /\ pq' = pq /\ step' = step /\ req' = req
  OBVIOUS
<1> QED  BY <1>1 DEF ArrivesInOrder, Busy, Number

\* Taking the front of the outgoing queue preserves the invariant.
LEMMA StartSendStep ==
  ASSUME IInv, NEW n \in Node, StartSend(n), TypeOK'
  PROVE  IInv'
<1> USE DEF queues, processing
<1>1. /\ sending' = [sending EXCEPT ![n] = TRUE]
      /\ unsent' = [unsent EXCEPT ![n] = Node \ {n}]
      /\ ~ sending[n] /\ outqueue[n] # <<>>
      /\ t' = t /\ outqueue' = outqueue /\ pq' = pq /\ top' = top /\ step' = step
      /\ req' = req /\ issued' = issued
  BY DEF StartSend
<1>2. AllGenuine'
  BY <1>1 DEF IInv, AllGenuine, Genuine, Busy
<1>3. ClockInRange' /\ WorksOnReady' /\ TopIsQueued' /\ TopStaysUntilPopped' /\ QueuedAreUncounted'
  BY <1>1 DEF IInv, ClockInRange, WorksOnReady, Ready, TopIsQueued, TopStaysUntilPopped,
              QueuedAreUncounted, Busy
<1>4. SendingInOrder'
  BY <1>1 DEF IInv, SendingInOrder, TypeOK
<1>5. \A i, x \in Node : \A j \in DOMAIN outqueue[i] : i # x /\ Pending(i, x, j)' => Pending(i, x, j)
  BY <1>1 DEF IInv, TypeOK, Pending
<1>6. ArrivesInOrder'
  BY <1>1, <1>5, OrderKept DEF IInv
<1> QED  BY <1>2, <1>3, <1>4, <1>6 DEF IInv

\* A failed call preserves the invariant: a lost message only leaves a gap.
LEMMA FailCallStep ==
  ASSUME IInv, NEW n \in Node, NEW to \in unsent[n], FailCall(n, to), TypeOK'
  PROVE  IInv'
<1> USE DEF queues, processing
<1>1. /\ unsent' = [unsent EXCEPT ![n] = unsent[n] \ {to}]
      /\ t' = t /\ outqueue' = outqueue /\ pq' = pq /\ top' = top /\ step' = step
      /\ req' = req /\ issued' = issued /\ sending' = sending
  BY DEF FailCall
<1>2. AllGenuine'
  BY <1>1 DEF IInv, AllGenuine, Genuine, Busy
<1>3. ClockInRange' /\ WorksOnReady' /\ TopIsQueued' /\ TopStaysUntilPopped' /\ QueuedAreUncounted'
  BY <1>1 DEF IInv, ClockInRange, WorksOnReady, Ready, TopIsQueued, TopStaysUntilPopped,
              QueuedAreUncounted, Busy
<1>4. SendingInOrder'
  BY <1>1 DEF IInv, SendingInOrder, TypeOK
<1>5. \A i, x \in Node : \A j \in DOMAIN outqueue[i] : i # x /\ Pending(i, x, j)' => Pending(i, x, j)
  BY <1>1 DEF IInv, TypeOK, Pending
<1>6. ArrivesInOrder'
  BY <1>1, <1>5, OrderKept DEF IInv
<1> QED  BY <1>2, <1>3, <1>4, <1>6 DEF IInv

\* Popping the outgoing queue after all calls have been joined preserves the
\* invariant: what moves to the front is still to be sent to everybody.
LEMMA FinishSendStep ==
  ASSUME IInv, NEW n \in Node, FinishSend(n), TypeOK'
  PROVE  IInv'
<1> USE DEF queues, processing
<1>1. /\ sending' = [sending EXCEPT ![n] = FALSE]
      /\ outqueue' = [outqueue EXCEPT ![n] = Tail(outqueue[n])]
      /\ sending[n] /\ unsent[n] = {} /\ unsent' = unsent
      /\ t' = t /\ pq' = pq /\ top' = top /\ step' = step
      /\ req' = req /\ issued' = issued
  BY DEF FinishSend
<1>2. outqueue[n] # <<>> /\ outqueue[n] \in Seq(Message)
  BY <1>1 DEF IInv, SendingInOrder, TypeOK
<1>3. /\ outqueue'[n] = Tail(outqueue[n])
      /\ \A i \in Node : i # n => outqueue'[i] = outqueue[i]
  BY <1>1 DEF IInv, TypeOK
<1>4. \A j \in DOMAIN outqueue'[n] :
        j \in Nat /\ j + 1 \in DOMAIN outqueue[n] /\ j + 1 > 1 /\ outqueue'[n][j] = outqueue[n][j + 1]
  BY <1>2, <1>3
<1>5. AllGenuine'
  <2> SUFFICES ASSUME NEW x \in Node
               PROVE  /\ \A y \in pq'[x] : Genuine(y)'
                      /\ \A j \in DOMAIN outqueue'[x] : Genuine(outqueue[x][j])' /\ outqueue'[x][j].nodenum = x
                      /\ Busy(x)' => Genuine(req[x])' /\ req'[x].nodenum # x
    BY DEF AllGenuine
  <2>1. ASSUME NEW j \in DOMAIN outqueue'[x]
        PROVE  Genuine(outqueue[x][j])' /\ outqueue'[x][j].nodenum = x
    <3>1. PICK y : y = outqueue'[x][j]
      OBVIOUS
    <3>2. Genuine(y) /\ y.nodenum = x
      <4>1. CASE x = n
        BY <1>4, <2>1, <3>1, <4>1 DEF IInv, AllGenuine
      <4>2. CASE x # n
        BY <1>3, <2>1, <3>1, <4>2 DEF IInv, AllGenuine
      <4> QED  BY <4>1, <4>2
    <3>3. Genuine(y)'
      BY <1>1, <3>2, GenuineUnchanged
    <3> QED  BY <3>1, <3>2, <3>3 DEF Genuine, Number
  <2>2. /\ \A y \in pq'[x] : Genuine(y)'
        /\ Busy(x)' => Genuine(req[x])' /\ req'[x].nodenum # x
    BY <1>1 DEF IInv, AllGenuine, Genuine, Busy
  <2> QED  BY <2>1, <2>2
<1>6. ClockInRange' /\ WorksOnReady' /\ TopIsQueued' /\ TopStaysUntilPopped' /\ QueuedAreUncounted'
  BY <1>1 DEF IInv, ClockInRange, WorksOnReady, Ready, TopIsQueued, TopStaysUntilPopped,
              QueuedAreUncounted, Busy
<1>7. SendingInOrder'
  <2>1. ASSUME NEW j \in DOMAIN outqueue'[n], NEW k \in DOMAIN outqueue'[n], j < k
        PROVE  Number(outqueue'[n][j]) < Number(outqueue'[n][k])
    <3>1. /\ outqueue'[n][j] = outqueue[n][j + 1] /\ outqueue'[n][k] = outqueue[n][k + 1]
          /\ j + 1 \in DOMAIN outqueue[n] /\ k + 1 \in DOMAIN outqueue[n] /\ j + 1 < k + 1
      BY <1>4, <2>1
    <3> QED  BY <3>1 DEF IInv, SendingInOrder
  <2> QED  BY <1>1, <1>3, <2>1 DEF IInv, SendingInOrder, TypeOK, Number
<1>8. ArrivesInOrder'
  <2> SUFFICES ASSUME NEW i \in Node, NEW x \in Node, i # x,
                      NEW j \in DOMAIN outqueue'[i], Pending(i, x, j)'
               PROVE  /\ Number(outqueue'[i][j]) > t[x][i]
                      /\ \A y \in pq[x] : y.nodenum = i => Number(outqueue'[i][j]) > Number(y)
                      /\ Busy(x) /\ req[x].nodenum = i => Number(outqueue'[i][j]) > Number(req[x])
    BY <1>1 DEF ArrivesInOrder, Number, Busy
  <2>1. CASE i = n
    <3>1. outqueue'[n][j] = outqueue[n][j + 1] /\ j + 1 \in DOMAIN outqueue[n] /\ Pending(n, x, j + 1)
      BY <1>4, <2>1 DEF Pending
    <3> QED  BY <2>1, <3>1 DEF IInv, ArrivesInOrder
  <2>2. CASE i # n
    <3>1. outqueue'[i] = outqueue[i] /\ Pending(i, x, j)
      BY <1>1, <1>3, <2>2 DEF IInv, TypeOK, Pending
    <3> QED  BY <3>1 DEF IInv, ArrivesInOrder
  <2> QED  BY <2>1, <2>2
<1> QED  BY <1>5, <1>6, <1>7, <1>8 DEF IInv

\* The heart of the argument: a message that is ready has a smaller entry than
\* any message that can still arrive, so the comparator never lets one pass it.
LEMMA ReadyIsNotOvertaken ==
  ASSUME IInv, NEW n \in Node, NEW to \in Node, n # to, outqueue[n] # <<>>,
         Pending(n, to, 1), Busy(to)
  PROVE  /\ ~ Comparator(req[to], Head(outqueue[n]))
         /\ Head(outqueue[n]) # req[to]
<1>1. PICK m : m = Head(outqueue[n])
  OBVIOUS
<1>2. PICK r : r = req[to]
  OBVIOUS
<1>3. m \in Message /\ m = outqueue[n][1] /\ 1 \in DOMAIN outqueue[n]
  BY <1>1, FrontTyped DEF IInv
<1>4. m.nodenum = n
  BY <1>3 DEF IInv, AllGenuine
<1>5. r \in Message /\ Ready(to, r) /\ r.nodenum # to
  BY <1>2 DEF IInv, AllGenuine, Genuine, WorksOnReady
<1>6. /\ Number(m) > t[to][n]
      /\ r.nodenum = n => Number(m) > Number(r)
  BY <1>2, <1>3 DEF IInv, ArrivesInOrder
<1>7. /\ Number(m) = m.vec_clk[n] /\ m.vec_clk[n] \in Nat /\ r.vec_clk[n] \in Nat
      /\ t[to][n] \in Nat
  BY <1>3, <1>4, <1>5 DEF Number, Message, IInv, TypeOK
<1>8. r.vec_clk[n] < m.vec_clk[n]
  <2>1. CASE r.nodenum = n
    BY <1>6, <1>7, <2>1 DEF Number
  <2>2. CASE r.nodenum # n
    <3>1. r.vec_clk[n] <= t[to][n]
      BY <1>5, <2>2 DEF Ready
    <3> QED  BY <1>6, <1>7, <3>1
  <2> QED  BY <2>1, <2>2
<1>9. ~ (r.vec_clk[n] >= m.vec_clk[n]) /\ m # r
  BY <1>7, <1>8
<1> QED  BY <1>1, <1>2, <1>9 DEF Comparator

\* The CMRequest handler preserves the invariant: the message is later than
\* all that have arrived from its server and cannot pass one that is ready.
LEMMA DeliverStep ==
  ASSUME IInv, NEW n \in Node, NEW to \in unsent[n], Deliver(n, to), TypeOK'
  PROVE  IInv'
<1> USE DEF queues, processing
<1>1. PICK m : m = Head(outqueue[n])
  OBVIOUS
<1>2. /\ to \in Node /\ n # to /\ sending[n] /\ outqueue[n] # <<>>
  BY DEF IInv, TypeOK, SendingInOrder
<1>3. /\ unsent' = [unsent EXCEPT ![n] = unsent[n] \ {to}]
      /\ pq' = [pq EXCEPT ![to] = pq[to] \cup {m}]
      /\ t' = t /\ outqueue' = outqueue /\ step' = step
      /\ req' = req /\ issued' = issued /\ sending' = sending
  BY <1>1 DEF Deliver, Push
<1>4. PICK r \in {top[to], m} :
                               /\ pq[to] = {} => r = m
                               /\ pq[to] # {} /\ r = m => Comparator(top[to], m)
                               /\ top' = [top EXCEPT ![to] = r]
  BY <1>1 DEF Deliver, Push
<1>5. /\ m = outqueue[n][1] /\ 1 \in DOMAIN outqueue[n] /\ m.nodenum = n /\ Genuine(m)
  BY <1>1, <1>2, FrontTyped DEF IInv, AllGenuine
<1>6. /\ pq'[to] = pq[to] \cup {m} /\ \A x \in Node : x # to => pq'[x] = pq[x] /\ top'[x] = top[x]
      /\ top'[to] = r
      /\ unsent'[n] = unsent[n] \ {to} /\ \A x \in Node : x # n => unsent'[x] = unsent[x]
  <2>1. /\ pq \in [Node -> SUBSET Message] /\ unsent \in [Node -> SUBSET Node]
        /\ top \in [Node -> Message \cup {NoMessage}] /\ n \in Node /\ to \in Node
    BY <1>2 DEF IInv, TypeOK
  <2>2. pq'[to] = pq[to] \cup {m} /\ \A x \in Node : x # to => pq'[x] = pq[x]
    BY <1>3, <2>1
  <2>3. unsent'[n] = unsent[n] \ {to} /\ \A x \in Node : x # n => unsent'[x] = unsent[x]
    BY <1>3, <2>1
  <2>4. top'[to] = r /\ \A x \in Node : x # to => top'[x] = top[x]
    BY <1>4, <2>1
  <2> QED  BY <2>2, <2>3, <2>4
<1>7. Pending(n, to, 1)
  BY DEF Pending
<1>8. Number(m) > t[to][n] /\ (Busy(to) /\ req[to].nodenum = n => Number(m) > Number(req[to]))
  BY <1>2, <1>5, <1>7 DEF IInv, ArrivesInOrder
<1>9. Busy(to) => ~ Comparator(req[to], m) /\ m # req[to]
  BY <1>1, <1>2, <1>7, ReadyIsNotOvertaken
<1>10. AllGenuine'
  <2> SUFFICES ASSUME NEW x \in Node
               PROVE  /\ \A y \in pq'[x] : Genuine(y)'
                      /\ \A j \in DOMAIN outqueue'[x] : Genuine(outqueue[x][j])' /\ outqueue'[x][j].nodenum = x
                      /\ Busy(x)' => Genuine(req[x])' /\ req'[x].nodenum # x
    BY DEF AllGenuine
  <2>1. ASSUME NEW y \in pq'[x] PROVE Genuine(y)'
    <3>1. PICK z : z = y
      OBVIOUS
    <3>2. z \in pq[x] \/ z = m
      BY <1>6, <2>1, <3>1
    <3>3. Genuine(z)
      BY <1>5, <3>2 DEF IInv, AllGenuine
    <3> QED  BY <1>3, <3>1, <3>3, GenuineUnchanged
  <2>2. /\ \A j \in DOMAIN outqueue'[x] : Genuine(outqueue[x][j])' /\ outqueue'[x][j].nodenum = x
        /\ Busy(x)' => Genuine(req[x])' /\ req'[x].nodenum # x
    BY <1>3 DEF IInv, AllGenuine, Genuine, Busy
  <2> QED  BY <2>1, <2>2
<1>11. ClockInRange' /\ WorksOnReady'
  BY <1>3 DEF IInv, ClockInRange, WorksOnReady, Ready, Busy
<1>12. SendingInOrder'
  BY <1>2, <1>3, <1>6 DEF IInv, SendingInOrder
<1>13. ArrivesInOrder'
  <2> SUFFICES ASSUME NEW i \in Node, NEW x \in Node, i # x,
                      NEW j \in DOMAIN outqueue[i], Pending(i, x, j)'
               PROVE  /\ Number(outqueue[i][j]) > t[x][i]
                      /\ \A y \in pq'[x] : y.nodenum = i => Number(outqueue[i][j]) > Number(y)
                      /\ Busy(x) /\ req[x].nodenum = i => Number(outqueue[i][j]) > Number(req[x])
    BY <1>3 DEF ArrivesInOrder, Number, Busy
  <2>1. Pending(i, x, j)
    BY <1>3, <1>6 DEF Pending
  <2>2. /\ Number(outqueue[i][j]) > t[x][i]
        /\ \A y \in pq[x] : y.nodenum = i => Number(outqueue[i][j]) > Number(y)
        /\ Busy(x) /\ req[x].nodenum = i => Number(outqueue[i][j]) > Number(req[x])
    BY <2>1 DEF IInv, ArrivesInOrder
  <2>3. ASSUME x = to, i = n PROVE Number(outqueue[i][j]) > Number(m)
    <3>1. j > 1
      BY <1>2, <1>3, <1>6, <2>3 DEF Pending
    <3>2. Number(outqueue[n][1]) < Number(outqueue[n][j])
      BY <1>5, <2>3, <3>1 DEF IInv, SendingInOrder
    <3>3. Number(m) \in Nat /\ Number(outqueue[n][j]) \in Nat
      BY <1>5, <2>3, NumberIsNat DEF Genuine, IInv, AllGenuine
    <3> QED  BY <1>5, <2>3, <3>2, <3>3
  <2>4. ASSUME NEW y \in pq'[x], y.nodenum = i PROVE Number(outqueue[i][j]) > Number(y)
    <3>1. y \in pq[x] \/ (x = to /\ y = m)
      BY <1>6, <2>4
    <3> QED  BY <1>5, <2>2, <2>3, <2>4, <3>1
  <2> QED  BY <2>2, <2>4
<1>14. TopIsQueued'
  <2>1. r \in pq'[to]
    <3>1. pq[to] # {} => top[to] \in pq[to]
      BY <1>2 DEF IInv, TopIsQueued
    <3>2. r = m \/ (r = top[to] /\ pq[to] # {})
      BY <1>4
    <3> QED  BY <1>6, <3>1, <3>2
  <2>2. \A x \in Node : x # to /\ pq'[x] # {} => top'[x] \in pq'[x]
    BY <1>6 DEF IInv, TopIsQueued
  <2> QED  BY <1>6, <2>1, <2>2 DEF TopIsQueued
<1>15. TopStaysUntilPopped'
  <2> SUFFICES ASSUME NEW x \in Node, step[x] \in {"apply", "pop"}
               PROVE  pq'[x] # {} /\ top'[x] = req[x]
    BY <1>3 DEF TopStaysUntilPopped
  <2>1. pq[x] # {} /\ top[x] = req[x] /\ Busy(x)
    BY DEF IInv, TopStaysUntilPopped, Busy
  <2>2. CASE x = to
    BY <1>4, <1>6, <1>9, <2>1, <2>2
  <2> QED  BY <1>6, <2>1, <2>2
<1>16. QueuedAreUncounted'
  <2> SUFFICES ASSUME NEW x \in Node, NEW y \in pq'[x]
               PROVE  /\ y.nodenum # x
                      /\ Number(y) > t[x][y.nodenum]
                      /\ step[x] = "clock" => y # req[x]
    BY <1>3 DEF QueuedAreUncounted, Number
  <2>1. y \in pq[x] \/ (x = to /\ y = m)
    BY <1>6
  <2>2. CASE y \in pq[x]
    BY <2>2 DEF IInv, QueuedAreUncounted
  <2>3. CASE x = to /\ y = m
    BY <1>2, <1>5, <1>8, <1>9, <2>3 DEF Busy
  <2> QED  BY <2>1, <2>2, <2>3
<1> QED  BY <1>10, <1>11, <1>12, <1>13, <1>14, <1>15, <1>16 DEF IInv

\* Taking a ready root to work on preserves the invariant.
LEMMA TakeTopStep ==
  ASSUME IInv, NEW n \in Node, TakeTop(n), TypeOK'
  PROVE  IInv'
<1> USE DEF queues, sender
<1>1. PICK m : m = top[n]
  OBVIOUS
<1>2. /\ step[n] = "top" /\ m \in pq[n] /\ Ready(n, m)
      /\ req' = [req EXCEPT ![n] = m] /\ step' = [step EXCEPT ![n] = "apply"]
      /\ t' = t /\ outqueue' = outqueue /\ pq' = pq /\ top' = top
      /\ issued' = issued /\ sending' = sending /\ unsent' = unsent
  BY <1>1 DEF TakeTop, IInv, TopIsQueued
<1>3. /\ req'[n] = m /\ step'[n] = "apply"
      /\ \A x \in Node : x # n => req'[x] = req[x] /\ step'[x] = step[x]
  BY <1>2 DEF IInv, TypeOK
<1>4. Genuine(m) /\ m.nodenum # n
  BY <1>2 DEF IInv, AllGenuine, QueuedAreUncounted
<1>5. AllGenuine'
  BY <1>2, <1>3, <1>4 DEF IInv, AllGenuine, Genuine, Busy, Number
<1>6. ClockInRange' /\ SendingInOrder' /\ TopIsQueued'
  BY <1>2 DEF IInv, ClockInRange, SendingInOrder, TopIsQueued, Number
<1>7. ArrivesInOrder'
  <2> SUFFICES ASSUME NEW i \in Node, NEW x \in Node, i # x,
                      NEW j \in DOMAIN outqueue[i], Pending(i, x, j)
               PROVE  /\ Number(outqueue[i][j]) > t[x][i]
                      /\ \A y \in pq[x] : y.nodenum = i => Number(outqueue[i][j]) > Number(y)
                      /\ Busy(x)' /\ req'[x].nodenum = i => Number(outqueue[i][j]) > Number(req'[x])
    BY <1>2 DEF ArrivesInOrder, Number, Pending
  <2>1. /\ Number(outqueue[i][j]) > t[x][i]
        /\ \A y \in pq[x] : y.nodenum = i => Number(outqueue[i][j]) > Number(y)
        /\ Busy(x) /\ req[x].nodenum = i => Number(outqueue[i][j]) > Number(req[x])
    BY DEF IInv, ArrivesInOrder
  <2>2. CASE x = n
    BY <1>2, <1>3, <2>1, <2>2
  <2>3. CASE x # n
    BY <1>3, <2>1, <2>3 DEF Busy
  <2> QED  BY <2>2, <2>3
<1>8. WorksOnReady'
  BY <1>2, <1>3 DEF IInv, WorksOnReady, Busy, Ready, Number
<1>9. TopStaysUntilPopped'
  BY <1>1, <1>2, <1>3 DEF IInv, TopStaysUntilPopped
<1>10. QueuedAreUncounted'
  BY <1>2, <1>3 DEF IInv, QueuedAreUncounted, Number
<1> QED  BY <1>5, <1>6, <1>7, <1>8, <1>9, <1>10 DEF IInv

\* Storing the value preserves the invariant.
LEMMA ApplyStep ==
  ASSUME IInv, NEW n \in Node, Apply(n), TypeOK'
  PROVE  IInv'
<1> USE DEF queues, sender
<1>1. /\ step[n] = "apply" /\ step' = [step EXCEPT ![n] = "pop"]
      /\ t' = t /\ outqueue' = outqueue /\ pq' = pq /\ top' = top /\ req' = req
      /\ issued' = issued /\ sending' = sending /\ unsent' = unsent
  BY DEF Apply
<1>2. /\ step'[n] = "pop" /\ \A x \in Node : x # n => step'[x] = step[x]
      /\ \A x \in Node : Busy(x)' <=> Busy(x)
  BY <1>1 DEF IInv, TypeOK, Busy
<1>3. AllGenuine'
  BY <1>1, <1>2 DEF IInv, AllGenuine, Genuine, Number
<1>4. ClockInRange' /\ SendingInOrder' /\ TopIsQueued' /\ WorksOnReady'
  BY <1>1, <1>2 DEF IInv, ClockInRange, SendingInOrder, TopIsQueued, Number, WorksOnReady, Ready
<1>5. ArrivesInOrder'
  BY <1>1, <1>2 DEF IInv, ArrivesInOrder, Pending, Number
<1>6. TopStaysUntilPopped'
  BY <1>1, <1>2 DEF IInv, TopStaysUntilPopped
<1>7. QueuedAreUncounted'
  BY <1>1, <1>2 DEF IInv, QueuedAreUncounted, Number
<1> QED  BY <1>3, <1>4, <1>5, <1>6, <1>7 DEF IInv

\* pop() preserves the invariant: it removes the message that was applied.
LEMMA PopStep ==
  ASSUME IInv, NEW n \in Node, Pop(n), TypeOK'
  PROVE  IInv'
<1> USE DEF queues, sender
<1>1. /\ step[n] = "pop" /\ step' = [step EXCEPT ![n] = "clock"]
      /\ pq' = [pq EXCEPT ![n] = pq[n] \ {top[n]}]
      /\ t' = t /\ outqueue' = outqueue /\ req' = req
      /\ issued' = issued /\ sending' = sending /\ unsent' = unsent
  BY DEF Pop
<1>2. PICK r \in (pq[n] \ {top[n]}) \cup {NoMessage} :
        /\ r = NoMessage <=> pq[n] \ {top[n]} = {}
        /\ top' = [top EXCEPT ![n] = r]
  BY DEF Pop
<1>3. /\ step'[n] = "clock" /\ \A x \in Node : x # n => step'[x] = step[x]
      /\ \A x \in Node : Busy(x)' <=> Busy(x)
  BY <1>1 DEF IInv, TypeOK, Busy
<1>4. pq'[n] = pq[n] \ {top[n]} /\ \A x \in Node : x # n => pq'[x] = pq[x]
  BY <1>1 DEF IInv, TypeOK
<1>5. top'[n] = r /\ \A x \in Node : x # n => top'[x] = top[x]
  BY <1>2 DEF IInv, TypeOK
<1>6. \A x \in Node : pq'[x] \subseteq pq[x]
  BY <1>4
<1>7. AllGenuine'
  BY <1>1, <1>3, <1>6 DEF IInv, AllGenuine, Genuine, Number
<1>8. ClockInRange' /\ SendingInOrder' /\ WorksOnReady'
  BY <1>1, <1>3 DEF IInv, ClockInRange, SendingInOrder, Number, WorksOnReady, Ready
<1>9. TopIsQueued'
  BY <1>2, <1>4, <1>5 DEF IInv, TopIsQueued
<1>10. ArrivesInOrder'
  BY <1>1, <1>3, <1>6 DEF IInv, ArrivesInOrder, Pending, Number
<1>11. TopStaysUntilPopped'
  BY <1>1, <1>3, <1>4, <1>5 DEF IInv, TopStaysUntilPopped
<1>12. QueuedAreUncounted'
  <2> SUFFICES ASSUME NEW x \in Node, NEW y \in pq'[x]
               PROVE  /\ y.nodenum # x
                      /\ Number(y) > t[x][y.nodenum]
                      /\ step'[x] = "clock" => y # req[x]
    BY <1>1 DEF QueuedAreUncounted, Number
  <2>1. y \in pq[x]
    BY <1>6
  <2>2. /\ y.nodenum # x /\ Number(y) > t[x][y.nodenum]
        /\ step[x] = "clock" => y # req[x]
    BY <2>1 DEF IInv, QueuedAreUncounted
  <2>3. CASE x = n
    <3>1. top[n] = req[n] /\ y # top[n]
      BY <1>1, <1>4, <2>3 DEF IInv, TopStaysUntilPopped
    <3> QED  BY <2>2, <2>3, <3>1
  <2> QED  BY <1>3, <2>2, <2>3
<1> QED  BY <1>7, <1>8, <1>9, <1>10, <1>11, <1>12 DEF IInv

\* Advancing the clock preserves the invariant: the other messages of the
\* same server have greater numbers.
LEMMA ClockStep ==
  ASSUME IInv, NEW n \in Node, Clock(n), TypeOK'
  PROVE  IInv'
<1> USE DEF queues, sender
<1>1. PICK m : m = req[n]
  OBVIOUS
<1>2. /\ step[n] = "clock" /\ step' = [step EXCEPT ![n] = "top"]
      /\ t' = [t EXCEPT ![n] = [t[n] EXCEPT ![m.nodenum] = Number(m)]]
      /\ req' = [req EXCEPT ![n] = NoMessage]
      /\ outqueue' = outqueue /\ pq' = pq /\ top' = top
      /\ issued' = issued /\ sending' = sending /\ unsent' = unsent
  BY <1>1 DEF Clock
<1>3. Busy(n)
  BY <1>2 DEF Busy
<1>4. Genuine(m) /\ m \in Message /\ m.nodenum # n /\ m.nodenum \in Node /\ Number(m) \in Nat
  BY <1>1, <1>3, NumberIsNat DEF IInv, AllGenuine, Genuine
<1>5. Number(m) = t[n][m.nodenum] + 1
  BY <1>1, <1>3 DEF IInv, WorksOnReady, Ready
<1>6. /\ step'[n] = "top"
      /\ \A x \in Node : x # n => step'[x] = step[x] /\ req'[x] = req[x] /\ t'[x] = t[x]
      /\ t'[n][m.nodenum] = Number(m)
      /\ \A i \in Node : i # m.nodenum => t'[n][i] = t[n][i]
  <2>1. /\ step \in [Node -> {"top", "apply", "pop", "clock"}] /\ t \in [Node -> [Node -> Nat]]
        /\ req \in [Node -> Message \cup {NoMessage}]
    BY DEF IInv, TypeOK
  <2>2. t'[n] = [t[n] EXCEPT ![m.nodenum] = Number(m)]
    BY <1>2, <2>1
  <2> QED  BY <1>2, <1>4, <2>1, <2>2
<1>7. \A x, i \in Node : t[x][i] \in Nat
  BY DEF IInv, TypeOK
<1>8. ~ Busy(n)' /\ \A x \in Node : x # n => (Busy(x)' <=> Busy(x))
  BY <1>6 DEF Busy
<1>9. AllGenuine'
  BY <1>2, <1>6, <1>8 DEF IInv, AllGenuine, Genuine, Number
<1>10. ClockInRange'
  <2>1. Number(m) <= Len(issued[m.nodenum])
    BY <1>4 DEF Genuine
  <2> QED  BY <1>2, <1>4, <1>6, <2>1 DEF IInv, ClockInRange
<1>11. SendingInOrder' /\ TopIsQueued'
  BY <1>2 DEF IInv, SendingInOrder, TopIsQueued, Number
<1>12. ArrivesInOrder'
  <2> SUFFICES ASSUME NEW i \in Node, NEW x \in Node, i # x,
                      NEW j \in DOMAIN outqueue[i], Pending(i, x, j)
               PROVE  /\ Number(outqueue[i][j]) > t'[x][i]
                      /\ \A y \in pq[x] : y.nodenum = i => Number(outqueue[i][j]) > Number(y)
                      /\ Busy(x)' /\ req'[x].nodenum = i => Number(outqueue[i][j]) > Number(req'[x])
    BY <1>2 DEF ArrivesInOrder, Number, Pending
  <2>1. /\ Number(outqueue[i][j]) > t[x][i]
        /\ \A y \in pq[x] : y.nodenum = i => Number(outqueue[i][j]) > Number(y)
        /\ Busy(x) /\ req[x].nodenum = i => Number(outqueue[i][j]) > Number(req[x])
    BY DEF IInv, ArrivesInOrder
  <2>2. CASE x = n /\ i = m.nodenum
    BY <1>1, <1>3, <1>6, <1>8, <2>1, <2>2
  <2>3. CASE x = n /\ i # m.nodenum
    BY <1>6, <1>8, <2>1, <2>3
  <2>4. CASE x # n
    BY <1>6, <1>8, <2>1, <2>4
  <2> QED  BY <2>2, <2>3, <2>4
<1>13. WorksOnReady'
  BY <1>6, <1>8 DEF IInv, WorksOnReady, Ready, Number
<1>14. TopStaysUntilPopped'
  BY <1>2, <1>6 DEF IInv, TopStaysUntilPopped
<1>15. QueuedAreUncounted'
  <2> SUFFICES ASSUME NEW x \in Node, NEW y \in pq[x]
               PROVE  /\ y.nodenum # x
                      /\ Number(y) > t'[x][y.nodenum]
                      /\ step'[x] = "clock" => y # req'[x]
    BY <1>2 DEF QueuedAreUncounted, Number
  <2>1. /\ y.nodenum # x /\ Number(y) > t[x][y.nodenum]
        /\ step[x] = "clock" => y # req[x]
    BY DEF IInv, QueuedAreUncounted
  <2>2. y \in Message /\ y.nodenum \in Node /\ Number(y) \in Nat /\ Genuine(y)
    BY NumberIsNat DEF IInv, AllGenuine, Genuine
  <2>3. CASE x = n /\ y.nodenum = m.nodenum
    <3>1. y # m
      BY <1>1, <1>2, <2>1, <2>3
    <3>2. Number(y) # Number(m)
      BY <1>4, <2>2, <2>3, <3>1 DEF Genuine
    <3> QED  BY <1>4, <1>5, <1>6, <1>7, <2>1, <2>2, <2>3, <3>2
  <2>4. CASE x = n /\ y.nodenum # m.nodenum
    BY <1>6, <2>1, <2>2, <2>4
  <2>5. CASE x # n
    BY <1>6, <2>1, <2>5
  <2> QED  BY <2>3, <2>4, <2>5
<1> QED  BY <1>9, <1>10, <1>11, <1>12, <1>13, <1>14, <1>15 DEF IInv

\* Every step preserves the invariant.
LEMMA IInvStep ==
  ASSUME IInv, [Next]_vars
  PROVE  IInv'
<1>1. TypeOK'
  <2>1. TypeOK /\ HoldsMessage /\ SendingInOrder /\ TopIsQueued
    BY GenuineHolds DEF IInv
  <2> QED  BY <2>1, TypeStep
<1>2. ASSUME NEW n \in Node, NEW k \in Key, ClientWrite(n, k) PROVE IInv'
  BY <1>1, <1>2, ClientWriteStep
<1>3. ASSUME NEW n \in Node, SendingThread(n) PROVE IInv'
  BY <1>1, <1>3, StartSendStep, FinishSendStep, DeliverStep, FailCallStep DEF SendingThread
<1>4. ASSUME NEW n \in Node, ProcessingThread(n) PROVE IInv'
  BY <1>1, <1>4, TakeTopStep, ApplyStep, PopStep, ClockStep DEF ProcessingThread
<1>5. CASE UNCHANGED vars
  BY <1>5 DEF vars, sender, queues, processing, IInv, TypeOK, AllGenuine, Genuine, ClockInRange,
     SendingInOrder, ArrivesInOrder, Pending, Busy, WorksOnReady, Ready, TopIsQueued,
     TopStaysUntilPopped, QueuedAreUncounted, Number
<1> QED  BY <1>2, <1>3, <1>4, <1>5 DEF Next

\* The invariant holds in every reachable state.
THEOREM IInvCorrect == Spec => []IInv
<1>1. Init => IInv
  BY IInvInit
<1>2. IInv /\ [Next]_vars => IInv'
  BY IInvStep
<1> QED  BY <1>1, <1>2, PTL DEF Spec

\* The state keeps its type, whatever the number of servers and of writes.
THEOREM TypeCorrect == Spec => []TypeOK
<1>1. IInv => TypeOK
  BY DEF IInv
<1> QED  BY <1>1, IInvCorrect, PTL

\* pop() at 923 removes the message that top() returned at 874, although other
\* handlers push in between (cm_server.cpp 100-128).
THEOREM TopStays == Spec => []TopStaysUntilPopped
<1>1. IInv => TopStaysUntilPopped
  BY DEF IInv
<1> QED  BY <1>1, IInvCorrect, PTL

\* No message is in the queue after it was applied, and the clock never
\* counts one that still is.
THEOREM QueueAndClockDisjoint == Spec => []QueuedAreUncounted
<1>1. IInv => QueuedAreUncounted
  BY DEF IInv
<1> QED  BY <1>1, IInvCorrect, PTL

-----------------------------------------------------------------------------
(* CMServer implements CausalDelivery.                                      *)

Seen == [n \in Node |-> Applied(n)]

\* What the servers have applied: their clock, but for the message being
\* applied, which is the next one of its server.
LEMMA AppliedCounts ==
  ASSUME IInv, NEW n \in Node
  PROVE  /\ Applied(n) \in [Node -> Nat]
         /\ Applied(n)[n] = t[n][n]
         /\ \A i \in Node : t[n][i] <= Applied(n)[i]
<1>1. t[n] \in [Node -> Nat]
  BY DEF IInv, TypeOK
<1>2. CASE step[n] \in {"pop", "clock"}
  <2>1. PICK m : m = req[n]
    OBVIOUS
  <2>2. /\ m.nodenum # n /\ m.nodenum \in Node /\ Number(m) \in Nat
        /\ Number(m) = t[n][m.nodenum] + 1
    BY <1>2, <2>1, NumberIsNat DEF IInv, AllGenuine, Genuine, WorksOnReady, Ready, Busy
  <2>3. Applied(n) = [t[n] EXCEPT ![m.nodenum] = Number(m)]
    BY <1>2, <2>1 DEF Applied
  <2> QED  BY <1>1, <2>2, <2>3
<1>3. CASE step[n] \notin {"pop", "clock"}
  BY <1>1, <1>3 DEF Applied
<1> QED  BY <1>2, <1>3

\* The WRITE handler makes a write whose vector counts no more than the server
\* has applied, the message at work included.
LEMMA WriteRefines ==
  ASSUME IInv, NEW n \in Node, NEW k \in Key, ClientWrite(n, k)
  PROVE  Abstract!Write(n, k)
<1> USE DEF queues, processing
<1>1. PICK m : m = NewMessage(n, k)
  OBVIOUS
<1>2. PICK a : a = Applied(n)
  OBVIOUS
<1>3. /\ a \in [Node -> Nat] /\ a[n] = t[n][n] /\ \A i \in Node : t[n][i] <= a[i]
      /\ t[n] \in [Node -> Nat]
  BY <1>2, AppliedCounts DEF IInv, TypeOK
<1>4. /\ m.nodenum = n /\ Number(m) = a[n] + 1
      /\ m.vec_clk = [t[n] EXCEPT ![n] = t[n][n] + 1]
      /\ m = [nodenum |-> n, key |-> k, vec_clk |-> m.vec_clk]
  BY <1>1, <1>3, NewMessageTyped DEF IInv, NewMessage
<1>5. /\ t' = [t EXCEPT ![n] = m.vec_clk]
      /\ cm_ks_map' = [cm_ks_map EXCEPT ![n][k] = WriteOf(m)]
      /\ issued' = [issued EXCEPT ![n] = Append(issued[n], m)]
      /\ step' = step /\ req' = req
  BY <1>1 DEF ClientWrite
<1>6. Applied(n)' = [a EXCEPT ![n] = a[n] + 1]
  <2>1. t'[n] = [t[n] EXCEPT ![n] = t[n][n] + 1]
    BY <1>4, <1>5 DEF IInv, TypeOK
  <2>2. CASE step[n] \in {"pop", "clock"}
    <3>1. req[n].nodenum # n /\ req[n].nodenum \in Node
      BY <2>2, NumberIsNat DEF IInv, AllGenuine, Genuine, Busy
    <3>2. a = [t[n] EXCEPT ![req[n].nodenum] = Number(req[n])]
      BY <1>2, <2>2 DEF Applied
    <3>3. Applied(n)' = [t'[n] EXCEPT ![req[n].nodenum] = Number(req[n])]
      BY <1>5, <2>2 DEF Applied, Number
    <3> QED  BY <1>3, <2>1, <3>1, <3>2, <3>3
  <2>3. CASE step[n] \notin {"pop", "clock"}
    BY <1>2, <1>3, <1>5, <2>1, <2>3 DEF Applied
  <2> QED  BY <2>2, <2>3
<1>7. \A x \in Node : x # n => Applied(x)' = Applied(x)
  BY <1>5 DEF IInv, TypeOK, Applied, Number
<1>8. Seen' = [Seen EXCEPT ![n][n] = a[n] + 1]
  BY <1>2, <1>6, <1>7 DEF Seen
<1>9. cm_ks_map' = [cm_ks_map EXCEPT ![n][k] = <<n, a[n] + 1>>]
  BY <1>4, <1>5 DEF WriteOf
<1>10. m.vec_clk \in Abstract!Counts(n)
  <2>1. m.vec_clk[n] = a[n] + 1 /\ \A i \in Node \ {n} : m.vec_clk[i] <= a[i]
    BY <1>3, <1>4
  <2>2. \A i \in Node : m.vec_clk[i] \in 0 .. a[i] + 1
    BY <1>3, <1>4
  <2>3. m.vec_clk \in [Node -> UNION {0 .. a[i] + 1 : i \in Node}]
    BY <1>3, <1>4, <2>2
  <2>4. Seen[n] = a
    BY <1>2 DEF Seen
  <2> QED  BY <2>1, <2>3, <2>4 DEF Abstract!Counts, Seen
<1> QED  BY <1>2, <1>4, <1>5, <1>8, <1>9, <1>10 DEF Abstract!Write, Seen

\* Storing the value of the message at work is the reception of the next write
\* of its server, after everything its vector counts.
LEMMA ApplyRefines ==
  ASSUME IInv, NEW n \in Node, Apply(n)
  PROVE  Abstract!Receive(n, req[n].nodenum)
<1> USE DEF queues, sender
<1>1. PICK m : m = req[n]
  OBVIOUS
<1>2. PICK i : i = m.nodenum
  OBVIOUS
<1>3. /\ step[n] = "apply" /\ step' = [step EXCEPT ![n] = "pop"]
      /\ cm_ks_map' = [cm_ks_map EXCEPT ![n][m.key] = WriteOf(m)]
      /\ t' = t /\ req' = req /\ issued' = issued
  BY <1>1 DEF Apply
<1>4. /\ Genuine(m) /\ i # n /\ i \in Node /\ Ready(n, m) /\ m \in Message
  BY <1>1, <1>2, <1>3, NumberIsNat DEF IInv, AllGenuine, WorksOnReady, Busy, Genuine
<1>5. Applied(n) = t[n] /\ Number(m) = t[n][i] + 1
  BY <1>2, <1>3, <1>4 DEF Applied, Ready
<1>6. issued[i][t[n][i] + 1] = m /\ t[n][i] + 1 <= Len(issued[i])
  BY <1>2, <1>4, <1>5 DEF Genuine
<1>7. Applied(n)' = [t[n] EXCEPT ![i] = t[n][i] + 1]
  <2>1. step'[n] = "pop"
    BY <1>3 DEF IInv, TypeOK
  <2> QED  BY <1>1, <1>2, <1>3, <1>5, <2>1 DEF Applied, Number
<1>8. \A x \in Node : x # n => Applied(x)' = Applied(x)
  BY <1>3 DEF IInv, TypeOK, Applied, Number
<1>9. Seen' = [Seen EXCEPT ![n][i] = t[n][i] + 1] /\ Seen[n] = t[n]
  BY <1>5, <1>7, <1>8 DEF Seen
<1>10. cm_ks_map' = [cm_ks_map EXCEPT ![n][m.key] = <<i, t[n][i] + 1>>]
  BY <1>2, <1>3, <1>5 DEF WriteOf
<1>11. \A j \in Node \ {i} : m.vec_clk[j] <= t[n][j]
  BY <1>2, <1>4 DEF Ready
<1> QED  BY <1>1, <1>2, <1>3, <1>4, <1>6, <1>9, <1>10, <1>11 DEF Abstract!Receive, Seen

\* Every other step leaves the store, the writes and what is applied alone.
LEMMA Stutters ==
  ASSUME IInv, NEW n \in Node,
         SendingThread(n) \/ TakeTop(n) \/ Pop(n) \/ Clock(n) \/ UNCHANGED vars
  PROVE  UNCHANGED <<issued, Seen, cm_ks_map>>
<1> USE DEF sender, queues, processing
<1>1. issued' = issued /\ cm_ks_map' = cm_ks_map
  BY DEF SendingThread, StartSend, FinishSend, Deliver, FailCall, TakeTop, Pop, Clock, vars
<1>2. \A x \in Node : Applied(x)' = Applied(x)
  <2>1. CASE SendingThread(n) \/ UNCHANGED vars
    <3>1. t' = t /\ step' = step /\ req' = req
      BY <2>1 DEF SendingThread, StartSend, FinishSend, Deliver, FailCall, vars
    <3> QED  BY <3>1 DEF Applied, Number
  <2>2. CASE TakeTop(n) \/ Pop(n)
    <3>1. /\ t' = t /\ \A x \in Node : x # n => step'[x] = step[x] /\ req'[x] = req[x]
      BY <2>2 DEF TakeTop, Pop, IInv, TypeOK
    <3>2. \/ step[n] = "top" /\ step'[n] = "apply"
          \/ step[n] = "pop" /\ step'[n] = "clock" /\ req'[n] = req[n]
      BY <2>2 DEF TakeTop, Pop, IInv, TypeOK
    <3> QED  BY <3>1, <3>2 DEF Applied, Number
  <2>3. CASE Clock(n)
    <3>1. /\ step[n] = "clock" /\ step'[n] = "top"
          /\ t'[n] = [t[n] EXCEPT ![req[n].nodenum] = Number(req[n])]
          /\ \A x \in Node : x # n => t'[x] = t[x] /\ step'[x] = step[x] /\ req'[x] = req[x]
      BY <2>3 DEF Clock, IInv, TypeOK
    <3> QED  BY <3>1 DEF Applied, Number
  <2> QED  BY <2>1, <2>2, <2>3
<1> QED  BY <1>1, <1>2 DEF Seen

\* The state main boots with is one of empty copies.
LEMMA RefinesInit == Init => Abstract!Init
BY DEF Init, BootClock, Abstract!Init, Applied, NoWrite, Abstract!NoWrite

\* Every step of the servers is one of the abstract servers, or none.
LEMMA RefinesStep ==
  ASSUME IInv, [Next]_vars
  PROVE  [Abstract!Next]_Abstract!vars
<1>1. ASSUME NEW n \in Node, NEW k \in Key, ClientWrite(n, k) PROVE Abstract!Next
  BY <1>1, WriteRefines DEF Abstract!Next
<1>2. ASSUME NEW n \in Node, Apply(n) PROVE Abstract!Next
  <2>1. req[n].nodenum \in Node
    BY <1>2, NumberIsNat DEF Apply, IInv, AllGenuine, Genuine, Busy
  <2> QED  BY <1>2, <2>1, ApplyRefines DEF Abstract!Next
<1>3. ASSUME NEW n \in Node,
             SendingThread(n) \/ TakeTop(n) \/ Pop(n) \/ Clock(n) \/ UNCHANGED vars
      PROVE  UNCHANGED Abstract!vars
  BY <1>3, Stutters DEF Abstract!vars, Seen
<1>4. CASE UNCHANGED vars
  BY <1>3, <1>4, NAssumption DEF Node
<1> QED  BY <1>1, <1>2, <1>3, <1>4 DEF Next, ProcessingThread

\* Whatever the interleaving of threads and whichever calls fail, the servers
\* apply writes only as CausalDelivery allows.
THEOREM ImplementsCausalDelivery == Spec => DeliversInOrder
<1>1. Init => Abstract!Init
  BY RefinesInit
<1>2. IInv /\ [Next]_vars => [Abstract!Next]_Abstract!vars
  BY RefinesStep
<1> QED  BY <1>1, <1>2, IInvCorrect, PTL DEF Spec, DeliversInOrder, Abstract!Spec

-----------------------------------------------------------------------------
(* What CausalDelivery guarantees, so do the servers.                       *)

Order == INSTANCE CausalDeliveryProofs WITH
  writes <- issued,
  seen   <- [n \in Node |-> Applied(n)],
  store  <- cm_ks_map

\* These are the same abstract servers.
LEMMA SameBehaviour ==
  /\ Order!Init <=> Abstract!Init
  /\ [Order!Next]_Order!vars <=> [Abstract!Next]_Abstract!vars
<1>1. Order!Init <=> Abstract!Init
  BY DEF Order!Init, Abstract!Init, Order!NoWrite, Abstract!NoWrite
<1>2. UNCHANGED Order!vars <=> UNCHANGED Abstract!vars
  BY DEF Order!vars, Abstract!vars
<1>3. Order!Next <=> Abstract!Next
  BY DEF Order!Next, Abstract!Next, Order!Write, Abstract!Write, Order!Receive, Abstract!Receive,
         Order!Counts, Abstract!Counts
<1> QED  BY <1>1, <1>2, <1>3

\* And the same invariant, in the state before a step and in the one after it.
LEMMA SameInvariant == Order!CausalInv <=> Abstract!CausalInv
BY DEF Order!CausalInv, Abstract!CausalInv, Order!TypeOK, Abstract!TypeOK, Order!SeenInRange, Abstract!SeenInRange,
       Order!CountsItself, Abstract!CountsItself, Order!SeenIsClosed, Abstract!SeenIsClosed,
       Order!KeepsNewest, Abstract!KeepsNewest, Order!SeenOfKey, Abstract!SeenOfKey,
       Order!SeenWrites, Abstract!SeenWrites, Order!Clock, Abstract!Clock, Order!KeyOf, Abstract!KeyOf,
       Order!WriteRecord, Abstract!WriteRecord, Order!NoWrite, Abstract!NoWrite

LEMMA SameInvariantNext == (Order!CausalInv <=> Abstract!CausalInv)'
BY SameInvariant, PTL

\* The empty copies have applied all that they count.
LEMMA CausalAtStart == Init => Abstract!CausalInv
BY RefinesInit, SameBehaviour, SameInvariant, Order!CausalInit

\* No step of a server loses that.
LEMMA CausalKept ==
  ASSUME IInv, Abstract!CausalInv, [Next]_vars
  PROVE  Abstract!CausalInv'
<1>1. [Order!Next]_Order!vars /\ Order!CausalInv
  BY RefinesStep, SameBehaviour, SameInvariant
<1>2. Order!CausalInv'
  BY <1>1, Order!CausalStep
<1> QED  BY <1>2, SameInvariantNext

\* The value cm_ks_map keeps for a key (184-229, 886-920) is no value that a
\* write the server has applied as well had overwritten.
THEOREM NewestIsKept == Spec => []KeepsNewest
<1>1. Init => IInv /\ Abstract!CausalInv
  BY IInvInit, CausalAtStart
<1>2. IInv /\ Abstract!CausalInv /\ [Next]_vars => (IInv /\ Abstract!CausalInv)'
  BY IInvStep, CausalKept
<1>3. IInv /\ Abstract!CausalInv => KeepsNewest
  BY DEF Abstract!CausalInv, KeepsNewest
<1> QED  BY <1>1, <1>2, <1>3, PTL DEF Spec

-----------------------------------------------------------------------------
(* The clients.  What the order of delivery is worth to them: while every   *)
(* vector counts what its client had read, reads are causal.                *)

\* All that is known of the servers.
ServersInv == IInv /\ Abstract!CausalInv

-----------------------------------------------------------------------------
(* The servers, as the clients' steps need them.                            *)

\* A client is bound to one of the servers.
LEMMA HomeIsNode == \A c \in Clients : Home(c) \in Node
BY ClientsAssumption, NAssumption DEF Home, Node

\* Whatever the clients do is a step of the servers or leaves them alone.
LEMMA ServersStep ==
  ASSUME [CNext]_cvars
  PROVE  [Next]_vars
<1>1. ASSUME NEW c \in Clients, NEW k \in Key, Put(c, k) \/ Get(c, k) \/ GetMiss(c, k) PROVE [Next]_vars
  BY <1>1, HomeIsNode DEF Put, Get, GetMiss, Read, Next
<1>2. CASE ThreadStep
  BY <1>2 DEF ThreadStep, Next
<1>3. CASE UNCHANGED cvars
  BY <1>3 DEF cvars
<1> QED  BY <1>1, <1>2, <1>3 DEF CNext

LEMMA ServersKept ==
  ASSUME ServersInv, [CNext]_cvars
  PROVE  ServersInv'
BY ServersStep, IInvStep, CausalKept DEF ServersInv

\* The names of Order are those of Abstract.
LEMMA SameNames ==
  /\ \A n \in Node : Order!SeenWrites(n) = Abstract!SeenWrites(n)
  /\ \A v : Order!Clock(v) = Abstract!Clock(v) /\ Order!KeyOf(v) = KeyOf(v) /\ Abstract!KeyOf(v) = KeyOf(v)
BY DEF Order!SeenWrites, Abstract!SeenWrites, Order!Clock, Abstract!Clock, Order!KeyOf, Abstract!KeyOf, KeyOf

LEMMA SameNamesNext ==
  (/\ \A n \in Node : Order!SeenWrites(n) = Abstract!SeenWrites(n)
   /\ \A v : Order!Clock(v) = Abstract!Clock(v) /\ Order!KeyOf(v) = KeyOf(v) /\ Abstract!KeyOf(v) = KeyOf(v))'
BY SameNames, PTL

\* A server forgets nothing it has applied.
LEMMA AppliedKept ==
  ASSUME ServersInv, [CNext]_cvars, NEW n \in Node
  PROVE  \A v \in Abstract!SeenWrites(n) : v \in Abstract!SeenWrites(n)'
<1>1. Order!CausalInv /\ [Order!Next]_Order!vars
  BY ServersStep, RefinesStep, SameBehaviour, SameInvariant DEF ServersInv
<1>2. \A v \in Order!SeenWrites(n) : v \in Order!SeenWrites(n)'
  BY <1>1, Order!SeenKept
<1> QED  BY <1>2, SameNames, SameNamesNext

\* A write keeps its number and its vector.
LEMMA IssuedKept ==
  ASSUME ServersInv, [CNext]_cvars, NEW v, v[1] \in Node, v[2] \in 1 .. Len(issued[v[1]])
  PROVE  v[2] \in 1 .. Len(issued'[v[1]]) /\ Abstract!Clock(v)' = Abstract!Clock(v)
<1>1. Order!TypeOK /\ [Order!Next]_Order!vars
  BY ServersStep, RefinesStep, SameBehaviour, SameInvariant DEF ServersInv, Order!CausalInv
<1>2. v[2] \in 1 .. Len(issued'[v[1]]) /\ issued'[v[1]][v[2]] = issued[v[1]][v[2]]
  BY <1>1, Order!WritesKept
<1> QED  BY <1>2 DEF Abstract!Clock

\* What a server has applied was made there, and is closed under what it counts.
LEMMA AppliedFacts ==
  ASSUME ServersInv, NEW n \in Node, NEW v \in Abstract!SeenWrites(n)
  PROVE  /\ v = <<v[1], v[2]>> /\ v[1] \in Node /\ v[2] \in Nat /\ v[2] >= 1
         /\ v[2] <= Len(issued[v[1]]) /\ Abstract!Clock(v) \in [Node -> Nat]
         /\ \A u \in Node \X Nat : u[2] \in 1 .. Abstract!Clock(v)[u[1]] => u \in Abstract!SeenWrites(n)
<1>1. Order!TypeOK /\ Order!SeenInRange /\ Order!CountsItself
  BY SameInvariant DEF ServersInv, Order!CausalInv
<1>2. v \in Order!SeenWrites(n)
  BY SameNames
<1>3. /\ v = <<v[1], v[2]>> /\ v[1] \in Node /\ v[2] \in Nat /\ v[2] >= 1
      /\ v[2] <= Len(issued[v[1]]) /\ Order!Clock(v) \in [Node -> Nat]
  BY <1>1, <1>2, Order!SeenWasMade
<1>4. ASSUME NEW u \in Node \X Nat, u[2] \in 1 .. Abstract!Clock(v)[u[1]]
      PROVE  u \in Abstract!SeenWrites(n)
  <2>1. u = <<u[1], u[2]>> /\ u[1] \in Node /\ u[2] \in Nat
    OBVIOUS
  <2>2. Abstract!Clock(v)[u[1]] <= Seen[n][u[1]]
    BY <2>1 DEF ServersInv, Abstract!CausalInv, Abstract!SeenIsClosed, Seen
  <2>3. Abstract!Clock(v)[u[1]] \in Nat
    BY <1>3, <2>1, SameNames
  <2>4. Seen[n][u[1]] \in Nat
    BY <2>1, AppliedCounts DEF ServersInv, Seen
  <2>5. u[2] \in 1 .. Seen[n][u[1]]
    BY <1>4, <2>2, <2>3, <2>4
  <2> QED  BY <2>1, <2>5 DEF Abstract!SeenWrites, Seen
<1> QED  BY <1>3, <1>4, SameNames

\* The value of a key a server has: one of its writes, and newer than its others.
LEMMA StoredIsNewest ==
  ASSUME ServersInv, NEW n \in Node, NEW k \in Key
  PROVE  /\ cm_ks_map[n][k] # NoWrite => cm_ks_map[n][k] \in Abstract!SeenWrites(n)
         /\ \A v \in Abstract!SeenWrites(n) :
              KeyOf(v) = k =>
                /\ cm_ks_map[n][k] # NoWrite
                /\ v # cm_ks_map[n][k] => Abstract!Clock(v)[cm_ks_map[n][k][1]] < cm_ks_map[n][k][2]
<1> DEFINE kept == cm_ks_map[n][k]
<1>1. IF Abstract!SeenOfKey(n, k) = {} THEN kept = NoWrite
      ELSE /\ kept \in Abstract!SeenOfKey(n, k)
           /\ \A v \in Abstract!SeenOfKey(n, k) \ {kept} : Abstract!Clock(v)[kept[1]] < kept[2]
  BY DEF ServersInv, Abstract!CausalInv, Abstract!KeepsNewest, NoWrite, Abstract!NoWrite
<1>2. \A v : v \in Abstract!SeenOfKey(n, k) <=> v \in Abstract!SeenWrites(n) /\ KeyOf(v) = k
  BY SameNames DEF Abstract!SeenOfKey
<1>3. \A v \in Abstract!SeenOfKey(n, k) : v # NoWrite
  <2>1. \A v \in Abstract!SeenWrites(n) : v = <<v[1], v[2]>>
    BY AppliedFacts
  <2> QED  BY <1>2, <2>1 DEF NoWrite
<1> QED  BY <1>1, <1>2, <1>3

-----------------------------------------------------------------------------
(* The clients.                                                             *)

LEMMA ClientsInit == CInit => ServersInv /\ ClientsInv
<1> SUFFICES ASSUME CInit PROVE ServersInv /\ ClientsInv
  OBVIOUS
<1>1. ServersInv
  BY IInvInit, CausalAtStart DEF CInit, ServersInv
<1>2. CTypeOK
  BY DEF CInit, CTypeOK
<1>3. PastIsApplied /\ BeforeIsCounted
  BY DEF CInit, PastIsApplied, BeforeIsCounted
<1> QED  BY <1>1, <1>2, <1>3 DEF CInit, ClientsInv, OnlyUncountedBreakCausality

\* Steps of the servers alone.
LEMMA ThreadsKeepClients ==
  ASSUME ServersInv, ClientsInv, [CNext]_cvars,
         UNCHANGED <<reads, value, past, before, stale, missed, uncounted>>
  PROVE  ClientsInv'
<1>1. CTypeOK' /\ OnlyUncountedBreakCausality'
  BY DEF ClientsInv, CTypeOK, OnlyUncountedBreakCausality
<1>2. ASSUME ~ uncounted PROVE PastIsApplied'
  <2>1. ASSUME NEW c \in Clients PROVE past[c] \subseteq Abstract!SeenWrites(Home(c))'
    BY <1>2, AppliedKept, HomeIsNode DEF ClientsInv, PastIsApplied
  <2> QED  BY <2>1 DEF PastIsApplied, Home
<1>3. ASSUME ~ uncounted PROVE BeforeIsCounted'
  <2>1. ASSUME NEW x \in before
        PROVE  /\ x[2][2] \in 1 .. Len(issued'[x[2][1]])
               /\ x[1] # x[2] /\ x[1][2] \in 1 .. Abstract!Clock(x[2])'[x[1][1]]
    <3>1. /\ x[2][2] \in 1 .. Len(issued[x[2][1]]) /\ x[2][1] \in Node
          /\ x[1] # x[2] /\ x[1][2] \in 1 .. Abstract!Clock(x[2])[x[1][1]]
      BY <1>3 DEF ClientsInv, BeforeIsCounted, CTypeOK
    <3> QED  BY <3>1, IssuedKept
  <2> QED  BY <2>1 DEF BeforeIsCounted
<1> QED  BY <1>1, <1>2, <1>3 DEF ClientsInv

\* A client writes after what it has read: the new write counts its past, or the
\* flag says that it does not.
LEMMA PutStep ==
  ASSUME ServersInv, ClientsInv, NEW c \in Clients, NEW k \in Key, Put(c, k)
  PROVE  ClientsInv'
<1> DEFINE n == Home(c)
<1>0. PICK m, w : m = NewMessage(n, k) /\ w = WriteOf(m)
  OBVIOUS
<1>1. n \in Node /\ TypeOK /\ [CNext]_cvars /\ ClientWrite(n, k) /\ CTypeOK
  BY HomeIsNode DEF ServersInv, IInv, CNext, Put, ClientsInv
<1>2. m \in Message /\ m.nodenum = n /\ Number(m) = t[n][n] + 1 /\ m.vec_clk = t'[n]
  BY <1>0, <1>1, NewMessageTyped DEF ClientWrite, TypeOK
<1>3. /\ w = <<n, Len(issued[n]) + 1>> /\ Len(issued[n]) \in Nat
      /\ issued'[n] = Append(issued[n], m) /\ Len(issued'[n]) = Len(issued[n]) + 1
      /\ issued'[n][Len(issued[n]) + 1] = m
  <2>1. t[n][n] = Len(issued[n])
    BY <1>1 DEF ServersInv, IInv, ClockInRange
  <2>2. issued[n] \in Seq(Message) /\ issued' = [issued EXCEPT ![n] = Append(issued[n], m)]
    BY <1>0, <1>1 DEF TypeOK, ClientWrite
  <2>3. issued'[n] = Append(issued[n], m)
    BY <1>1, <2>2 DEF TypeOK
  <2>4. w = <<n, Number(m)>>
    BY <1>0, <1>2 DEF WriteOf
  <2>5. /\ Len(issued[n]) \in Nat /\ Len(issued'[n]) = Len(issued[n]) + 1
        /\ issued'[n][Len(issued[n]) + 1] = m
    BY <1>2, <2>2, <2>3
  <2> QED  BY <1>2, <2>1, <2>3, <2>4, <2>5
<1>4. /\ before' = before \cup (past[c] \X {w})
      /\ past' = [past EXCEPT ![c] = past[c] \cup {w}]
      /\ uncounted' = (uncounted \/ \E u \in past[c] : u[2] > t'[n][u[1]])
      /\ UNCHANGED <<reads, value, stale, missed>>
  BY <1>0 DEF Put
<1> HIDE DEF n
<1>5. w \in Node \X Nat /\ w[1] = n /\ w[2] = Len(issued[n]) + 1
  BY <1>1, <1>3
<1>6. CTypeOK'
  <2>1. past[c] \subseteq Node \X Nat
    BY <1>1 DEF CTypeOK
  <2>2. before' \subseteq (Node \X Nat) \X (Node \X Nat)
    BY <1>1, <1>4, <1>5, <2>1 DEF CTypeOK
  <2>3. past' \in [Clients -> SUBSET (Node \X Nat)]
    BY <1>1, <1>4, <1>5, <2>1 DEF CTypeOK
  <2>4. uncounted' \in BOOLEAN
    BY <1>1, <1>4 DEF CTypeOK
  <2> QED  BY <1>1, <1>4, <2>2, <2>3, <2>4 DEF CTypeOK
<1>7. OnlyUncountedBreakCausality'
  BY <1>4 DEF ClientsInv, OnlyUncountedBreakCausality
<1>8. ASSUME ~ uncounted' PROVE PastIsApplied'
  <2>1. ~ uncounted
    BY <1>4, <1>8
  <2>2. w \in Abstract!SeenWrites(n)'
    <3>1. Abstract!Write(n, k)
      BY <1>1, WriteRefines DEF ServersInv
    <3>2. /\ Seen \in [Node -> [Node -> Nat]] /\ Seen[n][n] = Len(issued[n])
      <4>1. \A x \in Node : Applied(x) \in [Node -> Nat] /\ Applied(x)[x] = t[x][x]
        BY AppliedCounts DEF ServersInv
      <4>2. t[n][n] = Len(issued[n])
        BY <1>1 DEF ServersInv, IInv, ClockInRange
      <4> QED  BY <1>1, <4>1, <4>2 DEF Seen
    <3>3. Seen' = [Seen EXCEPT ![n] = [Seen[n] EXCEPT ![n] = Seen[n][n] + 1]]
      BY <3>1 DEF Abstract!Write, Seen
    <3>4. Seen'[n][n] = Len(issued[n]) + 1
      BY <1>1, <3>2, <3>3
    <3>5. w = <<n, Len(issued[n]) + 1>> /\ Len(issued[n]) + 1 \in 1 .. Seen'[n][n]
      BY <1>3, <3>4
    <3> QED  BY <1>1, <3>5 DEF Abstract!SeenWrites, Seen
  <2>3. ASSUME NEW d \in Clients PROVE past'[d] \subseteq Abstract!SeenWrites(Home(d))'
    <3>1. past[d] \subseteq Abstract!SeenWrites(Home(d))'
      BY <1>1, <2>1, AppliedKept, HomeIsNode DEF ClientsInv, PastIsApplied
    <3>2. past'[d] = IF d = c THEN past[d] \cup {w} ELSE past[d]
      BY <1>1, <1>4 DEF CTypeOK
    <3> QED  BY <2>2, <3>1, <3>2 DEF n
  <2> QED  BY <2>3 DEF PastIsApplied, Home
<1>9. ASSUME ~ uncounted' PROVE BeforeIsCounted'
  <2>1. ~ uncounted /\ \A u \in past[c] : ~ u[2] > t'[n][u[1]]
    BY <1>4, <1>9
  <2>2. ASSUME NEW x \in before'
        PROVE  /\ x[2][2] \in 1 .. Len(issued'[x[2][1]])
               /\ x[1] # x[2] /\ x[1][2] \in 1 .. Abstract!Clock(x[2])'[x[1][1]]
    <3>1. CASE x \in before
      <4>1. /\ x[2][2] \in 1 .. Len(issued[x[2][1]]) /\ x[2][1] \in Node
            /\ x[1] # x[2] /\ x[1][2] \in 1 .. Abstract!Clock(x[2])[x[1][1]]
        BY <1>1, <2>1, <3>1 DEF ClientsInv, BeforeIsCounted, CTypeOK
      <4> QED  BY <1>1, <4>1, IssuedKept
    <3>2. CASE x \in past[c] \X {w}
      <4>1. PICK u \in past[c] : x = <<u, w>>
        BY <3>2
      <4>2. u \in Abstract!SeenWrites(n)
        BY <2>1 DEF ClientsInv, PastIsApplied, n
      <4>3. u[1] \in Node /\ u[2] \in Nat /\ u[2] >= 1 /\ u[2] <= Len(issued[u[1]])
        BY <1>1, <4>2, AppliedFacts
      <4>4. t'[n][u[1]] \in Nat
        BY <1>2, <4>3 DEF Message
      <4>5. u[2] \in 1 .. t'[n][u[1]]
        BY <2>1, <4>3, <4>4
      <4>6. Abstract!Clock(w)' = t'[n]
        BY <1>2, <1>3, <1>5 DEF Abstract!Clock
      <4>7. u # w
        BY <1>3, <1>5, <4>3
      <4> QED  BY <1>3, <1>5, <4>1, <4>5, <4>6, <4>7
    <3> QED  BY <1>4, <3>1, <3>2
  <2> QED  BY <2>2 DEF BeforeIsCounted
<1> QED  BY <1>6, <1>7, <1>8, <1>9 DEF ClientsInv

\* Reading leaves the servers and the order of the writes as they are; the past
\* grows by writes the server has applied.
LEMMA ReadStep ==
  ASSUME ServersInv, ClientsInv, NEW c \in Clients, NEW k \in Key,
         NEW w \in (Node \X Nat) \cup {NoWrite}, Read(c, k, w),
         w # NoWrite => w \in Abstract!SeenWrites(Home(c)),
         missed' \in [Clients -> BOOLEAN],
         \A d \in Clients \ {c} : missed'[d] = missed[d],
         ~ uncounted /\ ~ missed'[c] => w \notin stale'[c]
  PROVE  ClientsInv'
<1>1. CTypeOK /\ Home(c) \in Node
  BY HomeIsNode DEF ClientsInv
<1> DEFINE known == {u \in past[c] : KeyOf(u) = k}
           gained == ({w} \ {NoWrite}) \cup {uv[1] : uv \in {x \in before : x[2] = w}}
           old == IF known = {} THEN {} ELSE {NoWrite} \cup {uv[1] : uv \in {x \in before : x[2] \in known}}
<1>2. /\ reads' = [reads EXCEPT ![c] = reads[c] + 1]
      /\ value' = [value EXCEPT ![c] = w]
      /\ stale' = [stale EXCEPT ![c] = old]
      /\ past' = [past EXCEPT ![c] = past[c] \cup gained]
      /\ UNCHANGED <<vars, before, uncounted>>
  BY DEF Read
<1>3. gained \subseteq Node \X Nat /\ old \subseteq (Node \X Nat) \cup {NoWrite}
  BY <1>1 DEF CTypeOK
<1>4. ~ uncounted => gained \subseteq Abstract!SeenWrites(Home(c))
  <2> SUFFICES ASSUME ~ uncounted, NEW u \in gained PROVE u \in Abstract!SeenWrites(Home(c))
    OBVIOUS
  <2>1. CASE u = w /\ w # NoWrite
    BY <2>1
  <2>2. CASE \E x \in before : x[2] = w /\ u = x[1]
    <3>1. PICK x \in before : x[2] = w /\ u = x[1]
      BY <2>2
    <3>2. w \in Node \X Nat /\ u \in Node \X Nat
      BY <1>1, <3>1 DEF CTypeOK
    <3>3. w # NoWrite
      <4>1. w = <<w[1], w[2]>>
        BY <3>2
      <4> QED  BY <4>1 DEF NoWrite
    <3>4. u[2] \in 1 .. Abstract!Clock(w)[u[1]]
      BY <3>1 DEF ClientsInv, BeforeIsCounted
    <3> QED  BY <1>1, <3>2, <3>3, <3>4, AppliedFacts
  <2> QED  BY <2>1, <2>2
<1> HIDE DEF known, gained, old
<1>5. /\ issued' = issued /\ t' = t /\ step' = step /\ req' = req
      /\ \A d \in Clients : Abstract!SeenWrites(Home(d))' = Abstract!SeenWrites(Home(d))
      /\ \A v : Abstract!Clock(v)' = Abstract!Clock(v)
  <2>1. issued' = issued /\ t' = t /\ step' = step /\ req' = req
    BY <1>2 DEF vars, processing
  <2> QED  BY <2>1 DEF Abstract!SeenWrites, Abstract!Clock, Applied, Number, Home
<1>6. CTypeOK'
  BY <1>1, <1>2, <1>3 DEF CTypeOK
<1>7. ~ uncounted => PastIsApplied' /\ BeforeIsCounted'
  <2> SUFFICES ASSUME ~ uncounted PROVE PastIsApplied' /\ BeforeIsCounted'
    OBVIOUS
  <2>1. PastIsApplied /\ BeforeIsCounted
    BY DEF ClientsInv
  <2>2. ASSUME NEW d \in Clients PROVE past'[d] \subseteq Abstract!SeenWrites(Home(d))'
    <3>1. past'[d] = IF d = c THEN past[d] \cup gained ELSE past[d]
      BY <1>1, <1>2 DEF CTypeOK
    <3> QED  BY <1>4, <1>5, <2>1, <3>1 DEF PastIsApplied
  <2>3. BeforeIsCounted'
    BY <1>2, <1>5, <2>1 DEF BeforeIsCounted
  <2> QED  BY <2>2, <2>3 DEF PastIsApplied, Home
<1>8. OnlyUncountedBreakCausality'
  <2>1. ASSUME NEW d \in Clients, ~ uncounted', ~ missed'[d] PROVE value'[d] \notin stale'[d]
    <3>1. CASE d = c
      <4>1. value'[c] = w
        BY <1>1, <1>2 DEF CTypeOK
      <4> QED  BY <1>2, <2>1, <3>1, <4>1
    <3>2. CASE d # c
      <4>1. value'[d] = value[d] /\ stale'[d] = stale[d]
        BY <1>1, <1>2, <3>2 DEF CTypeOK
      <4> QED  BY <1>2, <2>1, <3>2, <4>1 DEF ClientsInv, OnlyUncountedBreakCausality
    <3> QED  BY <3>1, <3>2
  <2> QED  BY <2>1 DEF OnlyUncountedBreakCausality
<1> QED  BY <1>2, <1>6, <1>7, <1>8 DEF ClientsInv

\* What a get finds is newer than all its client knows to be overwritten.
LEMMA GetStep ==
  ASSUME ServersInv, ClientsInv, NEW c \in Clients, NEW k \in Key, Get(c, k)
  PROVE  ClientsInv'
<1> DEFINE n == Home(c)
           w == cm_ks_map[n][k]
           known == {u \in past[c] : KeyOf(u) = k}
<1>1. n \in Node /\ CTypeOK /\ Read(c, k, w) /\ missed' = [missed EXCEPT ![c] = FALSE]
  BY HomeIsNode DEF ClientsInv, Get
<1>2. w \in (Node \X Nat) \cup {NoWrite}
  BY <1>1 DEF ServersInv, IInv, TypeOK
<1>3. w # NoWrite => w \in Abstract!SeenWrites(n)
  BY <1>1, StoredIsNewest
<1>4. missed' \in [Clients -> BOOLEAN] /\ missed'[c] = FALSE /\ \A d \in Clients \ {c} : missed'[d] = missed[d]
  BY <1>1 DEF CTypeOK
<1>5. ~ uncounted => w \notin stale'[c]
  <2> SUFFICES ASSUME ~ uncounted, w \in stale'[c] PROVE FALSE
    OBVIOUS
  <2>1. stale'[c] = IF known = {} THEN {}
                    ELSE {NoWrite} \cup {uv[1] : uv \in {x \in before : x[2] \in known}}
    BY <1>1 DEF Read, CTypeOK
  <2>2. \A u \in known : u \in Abstract!SeenWrites(n) /\ KeyOf(u) = k
    BY DEF ClientsInv, PastIsApplied
  <2>3. w # NoWrite
    BY <1>1, <2>1, <2>2, StoredIsNewest
  <2>4. PICK x \in before : x[2] \in known /\ x[1] = w
    BY <2>1, <2>3
  <2>5. x[1] # x[2] /\ x[1][2] \in 1 .. Abstract!Clock(x[2])[x[1][1]]
    BY <2>4 DEF ClientsInv, BeforeIsCounted
  <2>6. Abstract!Clock(x[2])[w[1]] < w[2]
    BY <1>1, <2>2, <2>4, <2>5, StoredIsNewest
  <2>7. w[1] \in Node /\ w[2] \in Nat /\ Abstract!Clock(x[2])[w[1]] \in Nat
    <3>1. w[1] \in Node /\ w[2] \in Nat
      BY <1>1, <1>3, <2>3, AppliedFacts
    <3>2. Abstract!Clock(x[2]) \in [Node -> Nat]
      BY <1>1, <2>2, <2>4, AppliedFacts
    <3> QED  BY <3>1, <3>2
  <2> QED  BY <2>4, <2>5, <2>6, <2>7
<1> HIDE DEF w, n
<1> QED  BY <1>1, <1>2, <1>3, <1>4, <1>5, ReadStep DEF n

\* A find that misses its key misleads nobody but its client.
LEMMA GetMissStep ==
  ASSUME ServersInv, ClientsInv, NEW c \in Clients, NEW k \in Key, GetMiss(c, k)
  PROVE  ClientsInv'
<1>1. Read(c, k, NoWrite) /\ missed' = [missed EXCEPT ![c] = TRUE] /\ missed \in [Clients -> BOOLEAN]
  BY DEF GetMiss, ClientsInv, CTypeOK
<1>2. missed' \in [Clients -> BOOLEAN] /\ missed'[c] = TRUE /\ \A d \in Clients \ {c} : missed'[d] = missed[d]
  BY <1>1
<1>3. PICK w \in (Node \X Nat) \cup {NoWrite} : w = NoWrite
  OBVIOUS
<1> QED  BY <1>1, <1>2, <1>3, ReadStep

\* Every step preserves the invariant.
LEMMA ClientsStep ==
  ASSUME ServersInv, ClientsInv, [CNext]_cvars
  PROVE  ClientsInv'
<1>1. ASSUME NEW c \in Clients, NEW k \in Key, Put(c, k) \/ Get(c, k) \/ GetMiss(c, k) PROVE ClientsInv'
  BY <1>1, PutStep, GetStep, GetMissStep
<1>2. CASE ThreadStep \/ UNCHANGED cvars
  BY <1>2, ThreadsKeepClients DEF ThreadStep, cvars
<1> QED  BY <1>1, <1>2 DEF CNext

\* The invariant of clients and servers holds in every reachable state.
THEOREM ClientsCorrect == CSpec => [](ServersInv /\ ClientsInv)
<1>1. CInit => ServersInv /\ ClientsInv
  BY ClientsInit
<1>2. ServersInv /\ ClientsInv /\ [CNext]_cvars => (ServersInv /\ ClientsInv)'
  BY ServersKept, ClientsStep
<1> QED  BY <1>1, <1>2, PTL DEF CSpec

\* No read is behind its causal order (README.md:2) while every vector counts what
\* its client had read and the find of 159 misses no key.
THEOREM ReadsAreCausal == CSpec => []OnlyUncountedBreakCausality
<1>1. ClientsInv => OnlyUncountedBreakCausality
  BY DEF ClientsInv
<1> QED  BY <1>1, ClientsCorrect, PTL
=============================================================================
