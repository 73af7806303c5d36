-------------------------- MODULE MultiPaxosProofs --------------------------
(***************************************************************************)
(* Theorems about MultiPaxos, for every number of servers, slots and        *)
(* clients and every bound on requests, numbers and messages in flight.     *)
(***************************************************************************)
EXTENDS MultiPaxos, FiniteSetTheorems, WellFoundedInduction, TLAPS

-----------------------------------------------------------------------------
(* Greatest and least elements.                                             *)

\* A set of naturals that is not empty has a least element.
LEMMA MinOfNaturals ==
  ASSUME NEW S \in SUBSET Nat, S # {}
  PROVE  Min(S) \in S /\ \A x \in S : Min(S) <= x
<1>1. PICK m \in S : \A x \in S : ~ (<<x, m>> \in OpToRel(<, Nat))
  BY NatLessThanWellFounded, WFMin
<1>2. \A x \in S : m <= x
  <2> SUFFICES ASSUME NEW x \in S PROVE m <= x
    OBVIOUS
  <2>1. x \in Nat /\ m \in Nat /\ ~ (x < m)
    BY <1>1 DEF OpToRel
  <2> QED  BY <2>1
<1> QED  BY <1>2 DEF Min

\* A set of integers that is bounded and not empty has a greatest element.
LEMMA MaxOfBounded ==
  ASSUME NEW S \in SUBSET Int, S # {}, NEW b \in Int, \A x \in S : x <= b
  PROVE  Max(S) \in S /\ \A x \in S : x <= Max(S)
<1> DEFINE D == {b - x : x \in S}
<1>1. D \in SUBSET Nat /\ D # {}
  <2>1. \A x \in S : x \in Int /\ x <= b
    OBVIOUS
  <2>2. \A x \in Int : x <= b => b - x \in Nat
    OBVIOUS
  <2> QED  BY <2>1, <2>2
<1>2. Min(D) \in D /\ \A d \in D : Min(D) <= d
  <2> HIDE DEF D
  <2> QED  BY <1>1, MinOfNaturals
<1>3. PICK m \in S : Min(D) = b - m
  BY <1>2
<1>4. \A x \in S : m >= x
  <2> SUFFICES ASSUME NEW x \in S PROVE m >= x
    OBVIOUS
  <2>1. b - m <= b - x
    BY <1>2, <1>3
  <2> QED  BY <2>1
<1>5. Max(S) \in S /\ \A x \in S : Max(S) >= x
  BY <1>4 DEF Max
<1> QED  BY <1>5

\* Finitely many integers have a bound; by minimal counterexample over their number.
LEMMA BoundExists ==
  ASSUME NEW k \in Nat, NEW f \in [1 .. k -> Int]
  PROVE  \E b \in Int : \A i \in 1 .. k : f[i] <= b
<1> DEFINE Bounded(n) == \E b \in Int : \A i \in 1 .. n : f[i] <= b
           T == {n \in 0 .. k : ~ Bounded(n)}
<1>1. T = {}
  <2> SUFFICES ASSUME T # {} PROVE FALSE
    OBVIOUS
  <2>1. T \in SUBSET Nat
    OBVIOUS
  <2>2. Min(T) \in T /\ \A n \in T : Min(T) <= n
    <3> HIDE DEF T
    <3> QED  BY <2>1, MinOfNaturals
  <2>3. PICK n \in T : \A m \in T : n <= m
    BY <2>2
  <2>4. n \in 0 .. k /\ ~ Bounded(n)
    OBVIOUS
  <2> HIDE DEF T
  <2>5. n # 0
    <3>1. \A i \in 1 .. 0 : f[i] <= 0
      OBVIOUS
    <3>2. Bounded(0)
      BY <3>1
    <3> QED  BY <2>4, <3>2
  <2>6. n - 1 \in 0 .. k /\ n - 1 < n /\ n \in 1 .. k /\ n \in Nat
    BY <2>4, <2>5
  <2>7. n - 1 \notin T
    BY <2>3, <2>6
  <2>8. PICK b \in Int : \A i \in 1 .. n - 1 : f[i] <= b
    BY <2>6, <2>7 DEF T
  <2>9. PICK c \in Int : b <= c /\ f[n] <= c
    <3>1. f[n] \in Int
      BY <2>6
    <3>2. f[n] <= b \/ b <= f[n]
      BY <3>1
    <3>3. b <= b /\ f[n] <= f[n]
      BY <3>1
    <3> QED  BY <3>1, <3>2, <3>3
  <2>10. ASSUME NEW i \in 1 .. n PROVE f[i] <= c
    <3>1. i \in Int /\ 1 <= i /\ i <= n /\ n <= k
      BY <2>6
    <3>2. i \in 1 .. k /\ (i \in 1 .. n - 1 \/ i = n)
      BY <2>6, <3>1
    <3>3. f[i] \in Int
      BY <3>2
    <3>4. f[i] <= b \/ i = n
      BY <2>8, <3>2
    <3> HIDE DEF Bounded
    <3> QED  BY <2>9, <3>3, <3>4
  <2> QED  BY <2>4, <2>10
<1>2. k \in 0 .. k
  OBVIOUS
<1> QED  BY <1>1, <1>2

-----------------------------------------------------------------------------
(* The order of proposals.                                                  *)

\* Both parts of a proposal are integers.
LEMMA ProposalParts ==
  \A p \in Proposal : p.num \in Int /\ p.num >= -1 /\ p.client \in Int
<1>1. \A x \in -1 .. Address + 2 : x \in Int /\ x >= -1
  BY AddressAssumption
<1>2. Clients \cup {-2, -1} \subseteq Int
  BY ClientsAssumption
<1> QED  BY <1>1, <1>2 DEF Proposal

\* Proposals are ordered totally.
LEMMA LessTotal ==
  ASSUME NEW p \in Proposal, NEW q \in Proposal
  PROVE  /\ ~ Less(p, p)
         /\ Less(p, q) => ~ Less(q, p)
         /\ p = q \/ Less(p, q) \/ Less(q, p)
<1>1. p.num \in Int /\ p.client \in Int /\ q.num \in Int /\ q.client \in Int
  BY ProposalParts
<1>2. p.num = q.num /\ p.client = q.client => p = q
  BY DEF Proposal
<1> QED  BY <1>1, <1>2 DEF Less

\* Proposals are ordered transitively, also when one of the steps is no decrease.
LEMMA LessTransitive ==
  ASSUME NEW p \in Proposal, NEW q \in Proposal, NEW r \in Proposal
  PROVE  /\ Less(p, q) /\ Less(q, r) => Less(p, r)
         /\ Less(p, q) /\ ~ Less(r, q) => Less(p, r)
         /\ ~ Less(q, p) /\ Less(q, r) => Less(p, r)
         /\ ~ Less(q, p) /\ ~ Less(r, q) => ~ Less(r, p)
<1>1. /\ p.num \in Int /\ p.client \in Int /\ q.num \in Int /\ q.client \in Int
      /\ r.num \in Int /\ r.client \in Int
  BY ProposalParts
<1> QED  BY <1>1 DEF Less

\* What is tried is a proposal.
LEMMA TriedIsProposal == Tried \subseteq Proposal
BY AddressAssumption DEF Tried, Proposal

-----------------------------------------------------------------------------
(* The replies a phase ends with.                                           *)

\* There is another server, and no majority is empty.
LEMMA MajorityPositive == N \in Nat /\ Majority \in Nat /\ Majority >= 1
BY NAssumption DEF Majority

\* The polling loop returns different replies, at least one.
LEMMA CollectedAreReplies ==
  ASSUME NEW n \in Server, NEW resp \in Collected(n)
  PROVE  \E k \in Nat :
           /\ k >= Majority /\ k >= 1
           /\ resp \in [1 .. k -> replied[n]]
           /\ DOMAIN resp = 1 .. k
           /\ \A i, j \in 1 .. k : i # j => resp[i] # resp[j]
<1>1. PICK k \in Majority .. N - 1 : resp \in [1 .. k -> replied[n]]
  BY DEF Collected
<1>2. DOMAIN resp = 1 .. k
  BY <1>1
<1>3. \A i, j \in 1 .. k : i < j => resp[i] # resp[j]
  BY <1>2 DEF Collected
<1>4. k \in Nat /\ k >= Majority /\ k >= 1
  BY <1>1, MajorityPositive
<1>5. ASSUME NEW i \in 1 .. k, NEW j \in 1 .. k, i # j PROVE resp[i] # resp[j]
  <2>1. i < j \/ j < i
    BY <1>4, <1>5
  <2> QED  BY <1>3, <2>1
<1> QED  BY <1>1, <1>2, <1>4, <1>5

\* Without a refusal all are acknowledgements.
LEMMA NoNacks ==
  ASSUME NEW resp, Nacks(resp) = {}
  PROVE  \A i \in DOMAIN resp : ~ IsNack(resp[i])
BY DEF Nacks

\* The number after a refusal is one more than that of some refusal.
LEMMA NextNumFollows ==
  ASSUME TypeOK, NEW n \in Server, NEW resp \in Collected(n), Nacks(resp) # {}
  PROVE  \E r \in replied[n] :
           IsNack(r) /\ r.prop.num \in -1 .. Address + 1 /\ NextNum(resp) = r.prop.num + 1
<1>1. PICK k \in Nat : resp \in [1 .. k -> replied[n]] /\ DOMAIN resp = 1 .. k
  BY CollectedAreReplies
<1>2. \A r \in replied[n] : IsNack(r) => r.prop.num \in -1 .. Address + 1
  BY DEF TypeOK, Response, Tried, IsNack
<1>3. \A x \in Nacks(resp) : \E r \in replied[n] : IsNack(r) /\ x = r.prop.num
  BY <1>1 DEF Nacks
<1>4. Nacks(resp) \in SUBSET (-1 .. Address + 1)
  BY <1>2, <1>3
<1>5. Nacks(resp) \in SUBSET Int /\ \A x \in Nacks(resp) : x <= Address + 1
  BY <1>4, AddressAssumption
<1>6. Max(Nacks(resp)) \in Nacks(resp)
  BY <1>5, MaxOfBounded, AddressAssumption
<1>7. PICK r \in replied[n] : IsNack(r) /\ Max(Nacks(resp)) = r.prop.num
  BY <1>3, <1>6
<1>8. r.prop.num \in -1 .. Address + 1
  BY <1>2, <1>7
<1> QED  BY <1>7, <1>8 DEF NextNum

\* get_highest_accepted_proposal (server.cpp 464-532) returns one of the replies,
\* and when it has discarded no greater number none of them has a greater
\* proposal.
LEMMA HighestIsGreatest ==
  ASSUME TypeOK, NEW n \in Server, NEW resp \in Collected(n)
  PROVE  \E h \in DOMAIN resp :
           /\ Highest(resp) = resp[h]
           /\ ~ DiscardsGreater(resp) =>
                \A i \in DOMAIN resp : ~ Less(resp[h].prop, resp[i].prop)
<1>1. PICK k \in Nat : k >= 1 /\ resp \in [1 .. k -> replied[n]] /\ DOMAIN resp = 1 .. k
  BY CollectedAreReplies
<1> DEFINE Client(i) == resp[i].prop.client
           Num(i) == resp[i].prop.num
           C == {Client(i) : i \in SameNum(resp)}
           B == {i \in SameNum(resp) : \A j \in SameNum(resp) : Client(j) <= Client(i)}
<1>2. \A i \in 1 .. k : resp[i].prop \in Proposal
  <2>1. \A r \in replied[n] : r.prop \in Proposal
    BY TriedIsProposal DEF TypeOK, Response
  <2> QED  BY <1>1, <2>1
<1>3. \A i \in 1 .. k : Client(i) \in Int /\ Num(i) \in Int
  BY <1>2, ProposalParts
<1>4. SameNum(resp) \subseteq 1 .. k /\ 1 \in SameNum(resp)
  BY <1>1 DEF SameNum
<1>5. B # {}
  <2>1. C \in SUBSET Int /\ C # {}
    BY <1>3, <1>4
  <2>2. PICK b \in Int : \A i \in 1 .. k : Client(i) <= b
    <3> DEFINE f == [i \in 1 .. k |-> Client(i)]
    <3>1. f \in [1 .. k -> Int]
      BY <1>3
    <3>2. PICK b \in Int : \A i \in 1 .. k : f[i] <= b
      <4> HIDE DEF f
      <4> QED  BY <3>1, BoundExists
    <3> QED  BY <3>2
  <2>3. \A x \in C : x <= b
    BY <1>4, <2>2
  <2>4. Max(C) \in C /\ \A x \in C : x <= Max(C)
    <3> HIDE DEF C
    <3> QED  BY <2>1, <2>3, MaxOfBounded
  <2>5. PICK i \in SameNum(resp) : Max(C) = Client(i)
    BY <2>4
  <2>6. i \in B
    BY <2>4, <2>5
  <2> QED  BY <2>6
<1>6. B \in SUBSET (1 .. k) /\ \A i \in B : i <= k
  BY <1>1, <1>4
<1>7. Max(B) \in B
  <2>1. B \in SUBSET Int /\ k \in Int
    BY <1>6
  <2> HIDE DEF B
  <2> QED  BY <1>5, <1>6, <2>1, MaxOfBounded
<1> DEFINE h == Max(B)
<1>8. h \in 1 .. k /\ h \in SameNum(resp) /\ \A j \in SameNum(resp) : Client(j) <= Client(h)
  BY <1>4, <1>7
<1>9. Highest(resp) = resp[h]
  BY DEF Highest
<1>10. ASSUME ~ DiscardsGreater(resp), NEW i \in 1 .. k
       PROVE  ~ Less(resp[h].prop, resp[i].prop)
  <2> HIDE DEF h
  <2>1. Num(h) = Num(1) /\ ~ (Num(i) > Num(1))
    BY <1>1, <1>8, <1>10 DEF SameNum, DiscardsGreater
  <2>2. Num(i) \in Int /\ Num(h) \in Int /\ Client(i) \in Int /\ Client(h) \in Int
    BY <1>3, <1>8
  <2>3. Num(i) = Num(h) => Client(i) <= Client(h)
    BY <1>1, <1>8, <2>1 DEF SameNum
  <2> QED  BY <2>1, <2>2, <2>3 DEF Less
<1> HIDE DEF h
<1> QED  BY <1>1, <1>8, <1>9, <1>10

-----------------------------------------------------------------------------
(* Type correctness.                                                        *)

\* A number that is tried next fits an int of the code's range in the model.
LEMMA TriedNumbers ==
  /\ -1 .. Address + 1 \subseteq -1 .. Address + 2
  /\ 0 \in -1 .. Address + 1 /\ -1 \in -1 .. Address + 1 /\ Address \in -1 .. Address + 1
  /\ \A c \in Clients : \A num \in Nat :
       num <= MaxNum[c] \/ num = Address + 1 => num \in -1 .. Address + 1
<1>1. Address \in Nat
  BY AddressAssumption
<1>2. ASSUME NEW c \in Clients, NEW num \in Nat, num <= MaxNum[c] \/ num = Address + 1
      PROVE  num \in -1 .. Address + 1
  <2>1. MaxNum[c] \in Nat /\ MaxNum[c] < Address
    BY AddressAssumption, BoundsAssumption
  <2> QED  BY <1>1, <1>2, <2>1
<1> QED  BY <1>1, <1>2

\* What TypeOK says of the parts of the state that are looked at most.
LEMMA TypedParts ==
  ASSUME TypeOK, NEW n \in Server
  PROVE  /\ orig[n].cmd \in Command /\ orig[n].index \in Slot /\ orig[n].prop \in Tried
         /\ sent[n] \in Command
         /\ \A i \in Slot : log[n][i] \in Entry
         /\ \A r \in replied[n] : r \in Response
BY DEF TypeOK

\* The request of a phase and the answer to a request have their types.
LEMMA RequestTyped ==
  ASSUME TypeOK, NEW n \in Server, NEW s \in Server
  PROVE  Request(n, s) \in Message
BY TypedParts DEF Request, Message

LEMMA AnswerTyped ==
  ASSUME TypeOK, NEW m \in Message
  PROVE  Answer(m) \in Response
<1>1. /\ m.to \in Server /\ m.index \in Slot /\ m.prop \in Tried /\ m.prop \in Proposal
      /\ m.cmd \in Command /\ m.kind \in {"PREPARE", "ACCEPT"}
  BY TriedIsProposal DEF Message
<1>2. log[m.to][m.index] \in Entry
  BY <1>1 DEF TypeOK
<1>3. NoCommand \in Command
  BY DEF NoCommand, Command
<1>4. [log[m.to][m.index].cmd EXCEPT !.type = m.cmd.type] \in Command
  BY <1>1, <1>2 DEF Entry, Command
<1> QED  BY <1>1, <1>2, <1>3, <1>4 DEF Answer, Response, Entry

\* apply_last_write leaves a value.
LEMMA LastWriteTyped ==
  ASSUME NEW entries \in [Slot -> Entry], NEW index \in Slot, NEW value \in Id \cup {NoId}
  PROVE  LastWrite(entries, index, value) \in Id \cup {NoId}
<1> DEFINE writes == {i \in 0 .. index : entries[i].cmd.type = "WRITE"}
<1>1. index \in Nat /\ 0 .. index \subseteq Slot
  BY BoundsAssumption DEF Slot
<1>2. CASE writes # {}
  <2>1. writes \in SUBSET Int /\ \A i \in writes : i <= index
    BY <1>1
  <2>2. Max(writes) \in writes
    <3> HIDE DEF writes
    <3> QED  BY <1>1, <1>2, <2>1, MaxOfBounded
  <2>3. entries[Max(writes)] \in Entry
    BY <1>1, <2>2
  <2>4. LastWrite(entries, index, value) = entries[Max(writes)].cmd.value
    BY <1>2 DEF LastWrite
  <2> QED  BY <2>3, <2>4 DEF Entry, Command
<1> QED  BY <1>2 DEF LastWrite

\* The log with another entry, or another promise, in a slot.
LEMMA LogTyped ==
  ASSUME TypeOK, NEW s \in Server, NEW i \in Slot
  PROVE  /\ \A e \in Entry : [log EXCEPT ![s][i] = e] \in [Server -> [Slot -> Entry]]
         /\ \A p \in Tried : [log EXCEPT ![s][i].min = p] \in [Server -> [Slot -> Entry]]
<1>1. log \in [Server -> [Slot -> Entry]]
  BY DEF TypeOK
<1>2. \A e \in Entry : [log EXCEPT ![s][i] = e] \in [Server -> [Slot -> Entry]]
  BY <1>1
<1>3. ASSUME NEW p \in Tried
      PROVE  [log EXCEPT ![s][i].min = p] \in [Server -> [Slot -> Entry]]
  <2>1. log[s][i] \in Entry
    BY <1>1
  <2>2. [log[s][i] EXCEPT !.min = p] \in Entry
    BY <2>1 DEF Entry
  <2>3. [log EXCEPT ![s][i].min = p] = [log EXCEPT ![s][i] = [log[s][i] EXCEPT !.min = p]]
    BY <1>1
  <2> QED  BY <1>2, <2>2, <2>3
<1> QED  BY <1>2, <1>3

\* The acceptor keeps the types of what it changes.
LEMMA HandlerTyped ==
  ASSUME TypeOK, NEW m \in Message, PaxosRequestHandler(m)
  PROVE  /\ log' \in [Server -> [Slot -> Entry]]
         /\ free' \in [Server -> SUBSET Slot]
         /\ mp_ks_map' \in [Server -> Id \cup {NoId}]
         /\ accepts' \subseteq Message
         /\ deviations' \subseteq {"overwritten", "tie", "discarded", "replaced", "unset"}
<1>1. /\ m.to \in Server /\ m.index \in Slot /\ m.prop \in Tried /\ m.prop \in Proposal
      /\ m.cmd \in Command
  BY TriedIsProposal DEF Message
<1>2. /\ log \in [Server -> [Slot -> Entry]] /\ free \in [Server -> SUBSET Slot]
      /\ mp_ks_map \in [Server -> Id \cup {NoId}] /\ accepts \subseteq Message
      /\ deviations \subseteq {"overwritten", "tie", "discarded", "replaced", "unset"}
  BY DEF TypeOK
<1>3. CASE Promise(m)
  <2>1. log' \in [Server -> [Slot -> Entry]]
    BY <1>1, <1>3, LogTyped DEF Promise
  <2> QED  BY <1>2, <1>3, <2>1 DEF Promise
<1>4. CASE Accept(m)
  <2>1. [min |-> m.prop, acc |-> m.prop, cmd |-> m.cmd] \in Entry
    BY <1>1 DEF Entry
  <2>2. log' \in [Server -> [Slot -> Entry]]
    BY <1>1, <1>4, <2>1, LogTyped DEF Accept
  <2>3. free' \in [Server -> SUBSET Slot] /\ accepts' \subseteq Message
    BY <1>1, <1>2, <1>4 DEF Accept
  <2>4. LastWrite(log'[m.to], m.index, mp_ks_map[m.to]) \in Id \cup {NoId}
    BY <1>1, <1>2, <2>2, LastWriteTyped
  <2>5. mp_ks_map' \in [Server -> Id \cup {NoId}]
    BY <1>2, <1>4, <2>4 DEF Accept
  <2>6. deviations' \subseteq {"overwritten", "tie", "discarded", "replaced", "unset"}
    BY <1>2, <1>4 DEF Accept, Deviate, When
  <2> QED  BY <2>2, <2>3, <2>5, <2>6
<1>5. CASE Nack(m)
  BY <1>2, <1>5 DEF Nack, acceptor
<1> QED  BY <1>3, <1>4, <1>5 DEF PaxosRequestHandler

\* The change of phase keeps the types of what it changes.
LEMMA NewPhaseTyped ==
  ASSUME TypeOK, NEW n \in Server, NEW servers \in SUBSET Server, NewPhase(n, servers)
  PROVE  /\ asked' \in [Server -> SUBSET Server]
         /\ replied' \in [Server -> SUBSET Response]
         /\ late' \subseteq Message
<1>1. \A s \in asked[n] : Request(n, s) \in Message
  BY RequestTyped DEF TypeOK
<1> QED  BY <1>1 DEF NewPhase, TypeOK

\* No command stands for "no command yet" in the types.
LEMMA EmptyTyped == NoCommand \in Command /\ NoProposal \in Tried /\ Garbage \in Tried
BY TriedNumbers DEF NoCommand, Command, NoProposal, Garbage, Tried

\* The next round of a proposer keeps the types.
LEMMA RestartTyped ==
  ASSUME TypeOK, NEW n \in Server, orig[n].prop.client \in Clients, NEW num \in Nat,
         Restart(n, num), UNCHANGED <<acceptor, ops, history>>
  PROVE  TypeOK'
<1>1. /\ pc' = [pc EXCEPT ![n] = "update"] /\ orig' = [orig EXCEPT ![n].prop.num = num]
      /\ NewPhase(n, {}) /\ sent' = [sent EXCEPT ![n] = NoCommand]
  BY DEF Restart, EndPhase
<1>2. num \in -1 .. Address + 1
  BY TriedNumbers DEF Restart
<1>3. orig' \in [Server -> [cmd : Command, index : Slot, prop : Tried]]
  <2>1. orig[n] \in [cmd : Command, index : Slot, prop : Tried]
    BY DEF TypeOK
  <2>2. [orig[n] EXCEPT !.prop.num = num] \in [cmd : Command, index : Slot, prop : Tried]
    BY <1>2, <2>1 DEF Tried
  <2>3. orig' = [orig EXCEPT ![n] = [orig[n] EXCEPT !.prop.num = num]]
    BY <1>1 DEF TypeOK
  <2> QED  BY <2>2, <2>3 DEF TypeOK
<1>4. sent' \in [Server -> Command]
  BY <1>1, EmptyTyped DEF TypeOK
<1> QED  BY <1>1, <1>3, <1>4, NewPhaseTyped DEF TypeOK, acceptor, history

\* Going on to the next slot keeps the types.
LEMMA NextSlotTyped ==
  ASSUME TypeOK, NEW n \in Server, NEW entry \in Entry, NextSlot(n, entry),
         accepts' \subseteq Message
  PROVE  TypeOK'
<1>1. /\ log' = [log EXCEPT ![n][orig[n].index] = entry]
      /\ free' = [free EXCEPT ![n] = @ \ {orig[n].index}]
      /\ mp_ks_map' = mp_ks_map /\ ops' = ops /\ done' = done
      /\ free'[n] # {}
      /\ orig' = [orig EXCEPT ![n] = [@ EXCEPT !.index = Min(free'[n]), !.prop.num = 0]]
      /\ pc' = [pc EXCEPT ![n] = "update"]
      /\ NewPhase(n, {}) /\ sent' = [sent EXCEPT ![n] = NoCommand]
      /\ Deviate(When(~ StillPromised(n), "replaced") \cup When(entry.min = Garbage, "unset"))
  BY DEF NextSlot, FillSlot, EndPhase
<1>2. log' \in [Server -> [Slot -> Entry]]
  BY <1>1, TypedParts, LogTyped
<1>3. free' \in [Server -> SUBSET Slot]
  BY <1>1 DEF TypeOK
<1>4. Min(free'[n]) \in Slot
  <2>1. free'[n] \in SUBSET Nat /\ free'[n] \subseteq Slot
    BY <1>3 DEF Slot
  <2> QED  BY <1>1, <2>1, MinOfNaturals
<1>5. orig' \in [Server -> [cmd : Command, index : Slot, prop : Tried]]
  <2> DEFINE new == [orig[n] EXCEPT !.index = Min(free'[n]), !.prop.num = 0]
  <2>1. orig[n] \in [cmd : Command, index : Slot, prop : Tried]
    BY DEF TypeOK
  <2>2. new \in [cmd : Command, index : Slot, prop : Tried]
    BY <1>4, <2>1, TriedNumbers DEF Tried
  <2>3. orig' = [orig EXCEPT ![n] = new]
    BY <1>1 DEF TypeOK
  <2> HIDE DEF new
  <2> QED  BY <2>2, <2>3 DEF TypeOK
<1>6. sent' \in [Server -> Command]
  BY <1>1, EmptyTyped DEF TypeOK
<1>7. deviations' \subseteq {"overwritten", "tie", "discarded", "replaced", "unset"}
  BY <1>1 DEF TypeOK, Deviate, When
<1> QED  BY <1>1, <1>2, <1>3, <1>5, <1>6, <1>7, NewPhaseTyped DEF TypeOK

\* The state main boots with has its type.
LEMMA TypeInit == Init => TypeOK
<1> SUFFICES ASSUME Init PROVE TypeOK
  OBVIOUS
<1>1. EmptyEntry \in Entry
  BY EmptyTyped, TriedIsProposal DEF EmptyEntry, Entry
<1>2. 0 \in Slot
  BY BoundsAssumption DEF Slot
<1> QED  BY <1>1, <1>2, EmptyTyped DEF Init, TypeOK, Id

\* No step of an acceptor or a proposer breaks the types.
LEMMA TypeStep ==
  ASSUME TypeOK, ServesOwnClients, [Next]_vars
  PROVE  TypeOK'
<1> USE DEF acceptor, phase, history
<1>1. ASSUME NEW n \in Server, NEW s \in Server, Handle(n, s) PROVE TypeOK'
  <2>1. Request(n, s) \in Message
    BY RequestTyped
  <2>2. asked' \in [Server -> SUBSET Server] /\ replied' \in [Server -> SUBSET Response]
    BY <1>1, <2>1, AnswerTyped DEF Handle, TypeOK
  <2>3. PaxosRequestHandler(Request(n, s)) /\ UNCHANGED <<pc, orig, sent, late, ops, done>>
    BY <1>1 DEF Handle
  <2> QED  BY <2>1, <2>2, <2>3, HandlerTyped DEF TypeOK
<1>2. ASSUME NEW m \in late, HandleLate(m) PROVE TypeOK'
  <2>1. m \in Message
    BY DEF TypeOK
  <2>2. /\ PaxosRequestHandler(m) /\ UNCHANGED <<pc, orig, sent, asked, replied, ops, done>>
        /\ late' = late \ {m}
    BY <1>2 DEF HandleLate
  <2> QED  BY <2>1, <2>2, HandlerTyped DEF TypeOK
<1>3. ASSUME NEW n \in Server, NEW c \in Clients, NEW type \in Types[c], StartRequest(n, c, type)
      PROVE  TypeOK'
  <2> DEFINE id == <<c, ops[c] + 1>>
             cmd == [id |-> id, type |-> type, value |-> IF type = "WRITE" THEN id ELSE NoId]
             new == [cmd |-> cmd, index |-> Min(free[n]), prop |-> [num |-> 0, client |-> c]]
  <2>1. id \in Id /\ type \in {"READ", "WRITE"}
    <3>1. ops[c] + 1 \in Nat
      BY DEF TypeOK
    <3>2. Types[c] \subseteq {"READ", "WRITE"}
      BY BoundsAssumption
    <3> QED  BY <3>1, <3>2 DEF Id
  <2>2. cmd \in Command
    BY <2>1 DEF Command
  <2>3. Min(free[n]) \in Slot
    <3>1. free[n] \in SUBSET Nat /\ free[n] # {} /\ free[n] \subseteq Slot
      BY <1>3 DEF StartRequest, TypeOK, Slot
    <3> QED  BY <3>1, MinOfNaturals
  <2>4. [num |-> 0, client |-> c] \in Tried
    BY TriedNumbers DEF Tried
  <2>5. new \in [cmd : Command, index : Slot, prop : Tried]
    BY <2>2, <2>3, <2>4
  <2>6. /\ ops' = [ops EXCEPT ![c] = @ + 1] /\ orig' = [orig EXCEPT ![n] = new]
        /\ pc' = [pc EXCEPT ![n] = "update"]
        /\ UNCHANGED <<acceptor, sent, phase, history>>
    BY <1>3 DEF StartRequest
  <2>7. orig' \in [Server -> [cmd : Command, index : Slot, prop : Tried]]
    <3> HIDE DEF new
    <3> QED  BY <2>5, <2>6 DEF TypeOK
  <2>8. ops' \in [Clients -> Nat]
    BY <2>6 DEF TypeOK
  <2> QED  BY <2>6, <2>7, <2>8 DEF TypeOK
<1>4. ASSUME NEW n \in Server, UpdateLocalValues(n) PROVE TypeOK'
  <2>1. /\ log' = [log EXCEPT ![n][orig[n].index].min = orig[n].prop]
        /\ pc' = [pc EXCEPT ![n] = "prepare"] /\ NewPhase(n, Peers(n))
        /\ Deviate(When(Overwrites(n), "overwritten"))
        /\ UNCHANGED <<free, mp_ks_map, orig, sent, ops, done, accepts>>
    BY <1>4 DEF UpdateLocalValues, Broadcast
  <2>2. log' \in [Server -> [Slot -> Entry]]
    BY <2>1, TypedParts, LogTyped
  <2>3. deviations' \subseteq {"overwritten", "tie", "discarded", "replaced", "unset"}
    BY <2>1 DEF TypeOK, Deviate, When
  <2> QED  BY <2>1, <2>2, <2>3, NewPhaseTyped DEF TypeOK, Peers
<1>5. ASSUME NEW n \in Server, ReadReturn(n) PROVE TypeOK'
  <2>1. LastWrite(log[n], orig[n].index, mp_ks_map[n]) \in Id \cup {NoId}
    BY TypedParts, LastWriteTyped DEF TypeOK
  <2> QED  BY <1>5, <2>1 DEF ReadReturn, TypeOK
<1>6. ASSUME NEW n \in Server, NEW resp \in Collected(n), PreparePromised(n, resp) PROVE TypeOK'
  <2>1. PICK h \in DOMAIN resp : Highest(resp) = resp[h]
    BY HighestIsGreatest
  <2>2. Highest(resp) \in Response
    BY <2>1, CollectedAreReplies, TypedParts
  <2>3. Highest(resp).cmd \in Command
    BY <2>2 DEF Response
  <2>4. sent' \in [Server -> Command]
    BY <1>6, <2>3, TypedParts DEF PreparePromised, TypeOK
  <2>5. deviations' \subseteq {"overwritten", "tie", "discarded", "replaced", "unset"}
    BY <1>6 DEF PreparePromised, TypeOK, Deviate, When
  <2>6. /\ pc' = [pc EXCEPT ![n] = "accept"] /\ NewPhase(n, Peers(n))
        /\ UNCHANGED <<acceptor, orig, ops, done, accepts>>
    BY <1>6 DEF PreparePromised, Broadcast
  <2> QED  BY <2>4, <2>5, <2>6, NewPhaseTyped DEF TypeOK, Peers
<1>7. ASSUME NEW n \in Server, NEW num, Restart(n, num), UNCHANGED <<acceptor, ops, history>>,
             pc[n] # "idle", num \in Nat
      PROVE  TypeOK'
  BY <1>7, RestartTyped DEF ServesOwnClients
<1>8. \A n \in Server : log[n][orig[n].index].min.num + 1 \in Nat
  <2> TAKE n \in Server
  <2>1. log[n][orig[n].index].min \in Proposal
    BY TypedParts, TriedIsProposal DEF Entry
  <2>2. log[n][orig[n].index].min.num \in Int /\ log[n][orig[n].index].min.num >= -1
    BY <2>1, ProposalParts
  <2> QED  BY <2>2
<1>9. \A n \in Server : \A resp \in Collected(n) : Nacks(resp) # {} => NextNum(resp) \in Nat
  <2> SUFFICES ASSUME NEW n \in Server, NEW resp \in Collected(n), Nacks(resp) # {}
               PROVE  NextNum(resp) \in Nat
    OBVIOUS
  <2>1. PICK num \in -1 .. Address + 1 : NextNum(resp) = num + 1
    BY NextNumFollows
  <2>2. num \in Int /\ num >= -1
    BY <2>1, AddressAssumption
  <2> QED  BY <2>1, <2>2
<1>10. ASSUME NEW n \in Server, NEW resp \in Collected(n),
              PrepareRefused(n, resp) \/ AcceptRefused(n, resp)
       PROVE  TypeOK'
  BY <1>7, <1>9, <1>10 DEF PrepareRefused, AcceptRefused
<1>11. ASSUME NEW n \in Server, NEW resp \in Collected(n), Overtaken(n, resp) PROVE TypeOK'
  BY <1>7, <1>8, <1>11 DEF Overtaken, AllAccepted
<1>12. ASSUME NEW n \in Server, NEW resp \in Collected(n), Defeated(n, resp) PROVE TypeOK'
  <2>1. [min |-> orig[n].prop, acc |-> orig[n].prop, cmd |-> sent[n]] \in Entry
    BY TypedParts, TriedIsProposal DEF Entry
  <2>2. Request(n, n) \in Message
    BY RequestTyped
  <2>3. accepts' \subseteq Message
    BY <1>12, <2>2 DEF Defeated, TypeOK
  <2> QED  BY <1>12, <2>1, <2>3, NextSlotTyped DEF Defeated
<1>13. ASSUME NEW n \in Server, NEW resp \in Collected(n), AcceptMixed(n, resp) PROVE TypeOK'
  <2>1. CASE sent[n].id = orig[n].cmd.id
    BY <1>7, <1>8, <1>13, <2>1 DEF AcceptMixed
  <2>2. CASE sent[n].id # orig[n].cmd.id
    <3> DEFINE acc == [Garbage EXCEPT !.num = NextNum(resp)]
               cmd == [sent[n] EXCEPT !.type = "NONE", !.value = NoId]
    <3>1. NextNum(resp) \in -1 .. Address + 2
      <4>1. PICK num \in -1 .. Address + 1 : NextNum(resp) = num + 1
        BY <1>13, NextNumFollows DEF AcceptMixed
      <4>2. num \in Int /\ num >= -1 /\ num <= Address + 1
        BY <4>1, AddressAssumption
      <4> QED  BY <4>1, <4>2, AddressAssumption
    <3>2. acc \in Proposal
      BY <3>1 DEF Garbage, Proposal
    <3>3. cmd \in Command
      BY TypedParts DEF Command
    <3>4. [min |-> Garbage, acc |-> acc, cmd |-> cmd] \in Entry
      BY <3>2, <3>3, EmptyTyped DEF Entry
    <3>5. NextSlot(n, [min |-> Garbage, acc |-> acc, cmd |-> cmd]) /\ accepts' = accepts
      BY <1>13, <2>2 DEF AcceptMixed
    <3>6. accepts' \subseteq Message
      BY <3>5 DEF TypeOK
    <3> HIDE DEF acc, cmd
    <3> QED  BY <3>4, <3>5, <3>6, NextSlotTyped
  <2> QED  BY <2>1, <2>2
<1>14. ASSUME NEW n \in Server, NEW resp \in Collected(n), Inserted(n, resp) PROVE TypeOK'
  <2> DEFINE new == [server |-> n, index |-> orig[n].index, prop |-> orig[n].prop,
                     cmd |-> orig[n].cmd]
             entry == [min |-> orig[n].prop, acc |-> orig[n].prop, cmd |-> orig[n].cmd]
  <2>1. entry \in Entry /\ new \in [server : Server, index : Slot, prop : Tried, cmd : Command]
    BY TypedParts, TriedIsProposal DEF Entry
  <2>2. /\ log' = [log EXCEPT ![n][orig[n].index] = entry]
        /\ free' = [free EXCEPT ![n] = @ \ {orig[n].index}] /\ mp_ks_map' = mp_ks_map
        /\ done' = done \cup {new}
        /\ pc' = [pc EXCEPT ![n] = IF orig[n].cmd.type = "READ" THEN "apply" ELSE "idle"]
        /\ NewPhase(n, {}) /\ sent' = [sent EXCEPT ![n] = NoCommand]
        /\ UNCHANGED <<orig, ops, accepts, deviations>>
    BY <1>14 DEF Inserted, FillSlot, EndPhase
  <2> HIDE DEF new, entry
  <2>3. log' \in [Server -> [Slot -> Entry]] /\ free' \in [Server -> SUBSET Slot]
    BY <2>1, <2>2, TypedParts, LogTyped DEF TypeOK
  <2>4. pc' \in [Server -> {"idle", "update", "prepare", "accept", "apply"}]
    BY <2>2 DEF TypeOK
  <2>5. done' \subseteq [server : Server, index : Slot, prop : Tried, cmd : Command]
    BY <2>1, <2>2 DEF TypeOK
  <2>6. sent' \in [Server -> Command]
    BY <2>2, EmptyTyped DEF TypeOK
  <2> QED  BY <2>2, <2>3, <2>4, <2>5, <2>6, NewPhaseTyped DEF TypeOK
<1>15. CASE UNCHANGED vars
  BY <1>15 DEF vars, TypeOK
<1> QED
  BY <1>1, <1>2, <1>3, <1>4, <1>5, <1>6, <1>10, <1>11, <1>12, <1>13, <1>14, <1>15
  DEF Next, Propose

-----------------------------------------------------------------------------
(* What a step does to the request a server is serving.                     *)

\* No promise of server n gets a smaller number, no slot is free again.
Raises(n) ==
  /\ \A i \in Slot : log'[n][i].min.num >= log[n][i].min.num
  /\ free'[n] \subseteq free[n]

Keeps(n) ==
  /\ pc'[n] = pc[n] /\ orig'[n] = orig[n] /\ sent'[n] = sent[n]
  /\ asked'[n] = asked[n] /\ replied'[n] = replied[n] /\ Raises(n)

Answered(n) ==
  /\ Asking(n) /\ pc'[n] = pc[n] /\ orig'[n] = orig[n] /\ sent'[n] = sent[n]
  /\ \E s \in asked[n] : /\ PaxosRequestHandler(Request(n, s))
                         /\ asked'[n] = asked[n] \ {s}
                         /\ replied'[n] = replied[n] \cup {Answer(Request(n, s))}
  /\ Raises(n)

Silent(n) == asked'[n] = {} /\ replied'[n] = {}
Asks(n)   == asked'[n] = Peers(n) /\ replied'[n] = {}

Begins(n) ==
  /\ pc[n] = "idle" /\ pc'[n] = "update" /\ Silent(n)
  /\ orig'[n].prop.client \in Clients /\ Home(orig'[n].prop.client) = n
  /\ orig'[n].prop.num = 0 /\ orig'[n].index \in free[n]
  /\ free'[n] = free[n]

Prepares(n) ==
  /\ UpdateLocalValues(n)
  /\ pc[n] = "update" /\ pc'[n] = "prepare" /\ Asks(n)
  /\ orig'[n] = orig[n] /\ log'[n][orig[n].index].min = orig[n].prop
  /\ free'[n] = free[n]

Promoted(n) ==
  /\ \E resp \in Collected(n) : PreparePromised(n, resp)
  /\ pc[n] = "prepare" /\ pc'[n] = "accept" /\ Asks(n)
  /\ orig'[n] = orig[n] /\ log'[n] = log[n] /\ free'[n] = free[n]
  /\ \/ sent'[n] = orig[n].cmd
     \/ \E r \in replied[n] : ~ IsNack(r) /\ sent'[n] = r.cmd

Retries(n) ==
  /\ Asking(n) /\ pc'[n] = "update" /\ Silent(n)
  /\ orig'[n].cmd = orig[n].cmd /\ orig'[n].index = orig[n].index
  /\ orig'[n].prop.client = orig[n].prop.client
  /\ orig'[n].prop.num > orig[n].prop.num
  /\ free'[n] = free[n]

Leaves(n) ==
  /\ pc[n] = "accept" /\ pc'[n] \in {"idle", "apply"} /\ Silent(n)
  /\ orig'[n] = orig[n] /\ free'[n] = free[n] \ {orig[n].index}

Advances(n) ==
  /\ pc[n] = "accept" /\ pc'[n] = "update" /\ Silent(n)
  /\ orig'[n].cmd = orig[n].cmd /\ orig'[n].prop.client = orig[n].prop.client
  /\ orig'[n].prop.num = 0
  /\ free'[n] = free[n] \ {orig[n].index} /\ orig'[n].index \in free'[n]

Returns(n) ==
  /\ pc[n] = "apply" /\ pc'[n] = "idle" /\ orig'[n] = orig[n]
  /\ asked'[n] = asked[n] /\ replied'[n] = replied[n] /\ free'[n] = free[n]

\* The first free slot is free.
LEMMA MinIsFree ==
  ASSUME NEW S \in SUBSET Slot, S # {}
  PROVE  Min(S) \in S
BY MinOfNaturals DEF Slot

\* Promises of an acceptor are raised by requests, and their slots used up.
LEMMA HandlerRaises ==
  ASSUME TypeOK, NEW m \in Message, PaxosRequestHandler(m), NEW n \in Server
  PROVE  Raises(n)
<1>1. /\ log \in [Server -> [Slot -> Entry]] /\ free \in [Server -> SUBSET Slot]
      /\ m.to \in Server /\ m.index \in Slot /\ m.prop \in Proposal
  BY TriedIsProposal DEF TypeOK, Message
<1>2. \A i \in Slot : log[n][i].min \in Proposal
  BY <1>1, TriedIsProposal DEF Entry
<1>3. \A i \in Slot : log[n][i].min.num \in Int
  BY <1>2, ProposalParts
<1>4. m.prop.num \in Int /\ m.prop.client \in Int
  BY <1>1, ProposalParts
<1>5. CASE Promise(m)
  <2>1. m.prop.num >= log[m.to][m.index].min.num
    <3>1. Less(log[m.to][m.index].min, m.prop)
      BY <1>5 DEF Promise, Promiseable
    <3>2. log[m.to][m.index].min.num \in Int
      <4>1. log[m.to][m.index].min \in Proposal
        BY <1>1, TriedIsProposal DEF Entry
      <4> QED  BY <4>1, ProposalParts
    <3> QED  BY <1>4, <3>1, <3>2 DEF Less
  <2>2. /\ log' = [log EXCEPT ![m.to][m.index].min = m.prop] /\ free' = free
    BY <1>5 DEF Promise
  <2>3. ASSUME NEW i \in Slot PROVE log'[n][i].min.num >= log[n][i].min.num
    <3>1. CASE n = m.to /\ i = m.index
      <4>1. log'[n][i].min = m.prop
        BY <1>1, <2>2, <3>1 DEF Entry
      <4> QED  BY <2>1, <3>1, <4>1
    <3>2. CASE ~ (n = m.to /\ i = m.index)
      <4>1. log'[n][i] = log[n][i]
        BY <1>1, <2>2, <3>2
      <4> QED  BY <1>3, <4>1
    <3> QED  BY <3>1, <3>2
  <2> QED  BY <2>2, <2>3 DEF Raises
<1>6. CASE Accept(m)
  <2> DEFINE e == [min |-> m.prop, acc |-> m.prop, cmd |-> m.cmd]
  <2>1. m.prop.num >= log[m.to][m.index].min.num
    BY <1>6 DEF Accept, Acceptable
  <2>2. log' = [log EXCEPT ![m.to][m.index] = e] /\ free' = [free EXCEPT ![m.to] = @ \ {m.index}]
    BY <1>6 DEF Accept
  <2>3. ASSUME NEW i \in Slot PROVE log'[n][i].min.num >= log[n][i].min.num
    <3>1. CASE n = m.to /\ i = m.index
      <4>1. log'[n][i] = e
        BY <1>1, <2>2, <3>1
      <4> QED  BY <2>1, <3>1, <4>1
    <3>2. CASE ~ (n = m.to /\ i = m.index)
      <4>1. log'[n][i] = log[n][i]
        BY <1>1, <2>2, <3>2
      <4> QED  BY <1>3, <4>1
    <3> QED  BY <3>1, <3>2
  <2>4. free'[n] \subseteq free[n]
    BY <1>1, <2>2
  <2> QED  BY <2>3, <2>4 DEF Raises
<1>7. CASE Nack(m)
  BY <1>3, <1>7 DEF Nack, acceptor, Raises
<1> QED  BY <1>5, <1>6, <1>7 DEF PaxosRequestHandler

\* A number is raised by the one of a refusal, or by that of the own acceptor.
LEMMA RaisedNumbers ==
  ASSUME TypeOK, RefusalsAreHigher, NEW n \in Server
  PROVE  /\ \A resp \in Collected(n) : Nacks(resp) # {} => NextNum(resp) > orig[n].prop.num
         /\ Asking(n) => log[n][orig[n].index].min.num + 1 > orig[n].prop.num
<1>1. orig[n].prop \in Proposal /\ log[n][orig[n].index].min \in Proposal
  BY TypedParts, TriedIsProposal DEF Entry
<1>2. orig[n].prop.num \in Int /\ log[n][orig[n].index].min.num \in Int
  BY <1>1, ProposalParts
<1>3. ASSUME NEW resp \in Collected(n), Nacks(resp) # {}
      PROVE  NextNum(resp) > orig[n].prop.num
  <2>1. PICK r \in replied[n] : IsNack(r) /\ r.prop.num \in -1 .. Address + 1
                                /\ NextNum(resp) = r.prop.num + 1
    BY <1>3, NextNumFollows
  <2>2. r.prop.num >= orig[n].prop.num
    BY <2>1 DEF RefusalsAreHigher
  <2>3. r.prop.num \in Int
    BY <2>1, AddressAssumption
  <2> QED  BY <1>2, <2>1, <2>2, <2>3
<1> QED  BY <1>2, <1>3 DEF RefusalsAreHigher

\* A server whose proposer takes no part in a step keeps its request.
LEMMA BystanderKeeps ==
  ASSUME TypeOK, NEW n \in Server,
         pc'[n] = pc[n], orig'[n] = orig[n], sent'[n] = sent[n],
         asked'[n] = asked[n], replied'[n] = replied[n], log'[n] = log[n], free'[n] = free[n]
  PROVE  Keeps(n)
<1>1. \A i \in Slot : log[n][i].min \in Proposal
  BY TypedParts, TriedIsProposal DEF Entry
<1>2. \A i \in Slot : log[n][i].min.num \in Int
  BY <1>1, ProposalParts
<1> QED  BY <1>2 DEF Keeps, Raises

\* A round that is tried again keeps the slot and the client, with a greater number.
LEMMA RestartRetries ==
  ASSUME TypeOK, NEW d \in Server, Asking(d), NEW num, num > orig[d].prop.num, Restart(d, num),
         UNCHANGED <<acceptor, ops, history>>, NEW n \in Server
  PROVE  Keeps(n) \/ Retries(n)
<1>1. /\ pc' = [pc EXCEPT ![d] = "update"] /\ orig' = [orig EXCEPT ![d].prop.num = num]
      /\ asked' = [asked EXCEPT ![d] = {}] /\ replied' = [replied EXCEPT ![d] = {}]
      /\ sent' = [sent EXCEPT ![d] = NoCommand] /\ log' = log /\ free' = free
  BY DEF Restart, EndPhase, NewPhase, acceptor
<1>2. CASE n = d
  <2>1. orig[d] \in [cmd : Command, index : Slot, prop : Tried]
    BY DEF TypeOK
  <2>2. orig'[d] = [orig[d] EXCEPT !.prop.num = num]
    BY <1>1 DEF TypeOK
  <2>3. /\ orig'[d].cmd = orig[d].cmd /\ orig'[d].index = orig[d].index
        /\ orig'[d].prop.client = orig[d].prop.client /\ orig'[d].prop.num = num
    BY <2>1, <2>2 DEF Tried
  <2> QED  BY <1>1, <1>2, <2>3 DEF TypeOK, Retries, Silent
<1>3. CASE n # d
  BY <1>1, <1>3, BystanderKeeps DEF TypeOK
<1> QED  BY <1>2, <1>3

\* Another slot is tried for the same command.
LEMMA NextSlotAdvances ==
  ASSUME TypeOK, NEW d \in Server, pc[d] = "accept", NEW entry, NextSlot(d, entry), NEW n \in Server
  PROVE  Keeps(n) \/ Advances(n)
<1>1. /\ log' = [log EXCEPT ![d][orig[d].index] = entry]
      /\ free' = [free EXCEPT ![d] = @ \ {orig[d].index}] /\ free'[d] # {}
      /\ orig' = [orig EXCEPT ![d] = [@ EXCEPT !.index = Min(free'[d]), !.prop.num = 0]]
      /\ pc' = [pc EXCEPT ![d] = "update"] /\ sent' = [sent EXCEPT ![d] = NoCommand]
      /\ asked' = [asked EXCEPT ![d] = {}] /\ replied' = [replied EXCEPT ![d] = {}]
  BY DEF NextSlot, FillSlot, EndPhase, NewPhase
<1>2. CASE n = d
  <2>1. orig[d] \in [cmd : Command, index : Slot, prop : Tried]
    BY DEF TypeOK
  <2>2. orig'[d] = [orig[d] EXCEPT !.index = Min(free'[d]), !.prop.num = 0]
    BY <1>1 DEF TypeOK
  <2>3. /\ orig'[d].cmd = orig[d].cmd /\ orig'[d].index = Min(free'[d])
        /\ orig'[d].prop.client = orig[d].prop.client /\ orig'[d].prop.num = 0
    BY <2>1, <2>2 DEF Tried
  <2>4. free'[d] = free[d] \ {orig[d].index} /\ free'[d] \in SUBSET Slot
    BY <1>1 DEF TypeOK
  <2>5. Min(free'[d]) \in free'[d]
    BY <1>1, <2>4, MinIsFree
  <2> QED  BY <1>1, <1>2, <2>3, <2>4, <2>5 DEF TypeOK, Advances, Silent
<1>3. CASE n # d
  BY <1>1, <1>3, BystanderKeeps DEF TypeOK
<1> QED  BY <1>2, <1>3

\* Every step leaves the request a server is serving alone, answers its phase,
\* or is one of the steps of its proposer.
LEMMA PhaseStep ==
  ASSUME TypeOK, OneReplyPerServer, RefusalsAreHigher, [Next]_vars, NEW n \in Server
  PROVE  \/ Keeps(n) \/ Answered(n) \/ Begins(n) \/ Prepares(n) \/ Promoted(n)
         \/ Retries(n) \/ Leaves(n) \/ Advances(n) \/ Returns(n)
<1> USE DEF acceptor, phase, history
<1>1. ASSUME NEW d \in Server, NEW s \in Server, Handle(d, s) PROVE Keeps(n) \/ Answered(n)
  <2>1. /\ s \in asked[d] /\ PaxosRequestHandler(Request(d, s))
        /\ asked' = [asked EXCEPT ![d] = @ \ {s}]
        /\ replied' = [replied EXCEPT ![d] = @ \cup {Answer(Request(d, s))}]
        /\ UNCHANGED <<pc, orig, sent, late, ops, done>>
    BY <1>1 DEF Handle
  <2>2. Raises(n)
    BY <2>1, RequestTyped, HandlerRaises
  <2>3. CASE n = d
    <3>1. Asking(n)
      BY <2>1, <2>3 DEF OneReplyPerServer
    <3> QED  BY <2>1, <2>2, <2>3, <3>1 DEF Answered, TypeOK
  <2>4. CASE n # d
    BY <2>1, <2>2, <2>4 DEF Keeps, TypeOK
  <2> QED  BY <2>3, <2>4
<1>2. ASSUME NEW m \in late, HandleLate(m) PROVE Keeps(n)
  <2>1. m \in Message
    BY DEF TypeOK
  <2>2. Raises(n)
    BY <1>2, <2>1, HandlerRaises DEF HandleLate
  <2> QED  BY <1>2, <2>2 DEF HandleLate, Keeps
<1>3. ASSUME NEW d \in Server, NEW c \in Clients, NEW type \in Types[c], StartRequest(d, c, type)
      PROVE  Keeps(n) \/ Begins(n)
  <2> DEFINE cmd == [id |-> <<c, ops[c] + 1>>, type |-> type,
                     value |-> IF type = "WRITE" THEN <<c, ops[c] + 1>> ELSE NoId]
             new == [cmd |-> cmd, index |-> Min(free[d]), prop |-> [num |-> 0, client |-> c]]
  <2>1. /\ pc[d] = "idle" /\ c % N = d /\ free[d] # {}
        /\ orig' = [orig EXCEPT ![d] = new] /\ pc' = [pc EXCEPT ![d] = "update"]
        /\ UNCHANGED <<acceptor, sent, phase, history>>
    BY <1>3 DEF StartRequest
  <2>2. /\ new.index = Min(free[d]) /\ new.prop.num = 0 /\ new.prop.client = c
    OBVIOUS
  <2> HIDE DEF new
  <2>3. CASE n = d
    <3>1. Min(free[d]) \in free[d]
      BY <2>1, MinIsFree DEF TypeOK
    <3>2. Silent(n)
      BY <2>1, <2>3 DEF OneReplyPerServer, Asking, Silent
    <3>3. orig'[n] = new
      BY <2>1, <2>3 DEF TypeOK
    <3>4. pc'[n] = "update"
      BY <2>1, <2>3 DEF TypeOK
    <3> QED  BY <2>1, <2>2, <2>3, <3>1, <3>2, <3>3, <3>4 DEF Begins, Home
  <2>4. CASE n # d
    BY <2>1, <2>4, BystanderKeeps DEF TypeOK
  <2> QED  BY <2>3, <2>4
<1>4. ASSUME NEW d \in Server, UpdateLocalValues(d) PROVE Keeps(n) \/ Prepares(n)
  <2>1. /\ pc[d] = "update" /\ log' = [log EXCEPT ![d][orig[d].index].min = orig[d].prop]
        /\ pc' = [pc EXCEPT ![d] = "prepare"] /\ free' = free /\ orig' = orig /\ sent' = sent
        /\ asked' = [asked EXCEPT ![d] = Peers(d)] /\ replied' = [replied EXCEPT ![d] = {}]
    BY <1>4 DEF UpdateLocalValues, Broadcast, NewPhase
  <2>2. CASE n = d
    <3>1. log'[d][orig[d].index].min = orig[d].prop
      <4>1. log[d] \in [Slot -> Entry] /\ orig[d].index \in Slot
        BY TypedParts DEF TypeOK
      <4>2. log'[d] = [log[d] EXCEPT ![orig[d].index].min = orig[d].prop]
        BY <2>1 DEF TypeOK
      <4>3. log'[d][orig[d].index] = [log[d][orig[d].index] EXCEPT !.min = orig[d].prop]
        BY <4>1, <4>2
      <4>4. log[d][orig[d].index] \in Entry
        BY <4>1
      <4> QED  BY <4>3, <4>4 DEF Entry
    <3> QED  BY <1>4, <2>1, <2>2, <3>1 DEF Prepares, Asks, TypeOK
  <2>3. CASE n # d
    BY <2>1, <2>3, BystanderKeeps DEF TypeOK
  <2> QED  BY <2>2, <2>3
<1>5. ASSUME NEW d \in Server, ReadReturn(d) PROVE Keeps(n) \/ Returns(n)
  <2>1. CASE n = d
    BY <1>5, <2>1 DEF ReadReturn, Returns, TypeOK
  <2>2. CASE n # d
    BY <1>5, <2>2, BystanderKeeps DEF ReadReturn, TypeOK
  <2> QED  BY <2>1, <2>2
<1>6. ASSUME NEW d \in Server, NEW resp \in Collected(d), PreparePromised(d, resp)
      PROVE  Keeps(n) \/ Promoted(n)
  <2> DEFINE cmd == IF Highest(resp).prop.num = -1 THEN orig[d].cmd ELSE Highest(resp).cmd
  <2>1. /\ pc[d] = "prepare" /\ Nacks(resp) = {} /\ pc' = [pc EXCEPT ![d] = "accept"]
        /\ sent' = [sent EXCEPT ![d] = cmd] /\ orig' = orig /\ log' = log /\ free' = free
        /\ asked' = [asked EXCEPT ![d] = Peers(d)] /\ replied' = [replied EXCEPT ![d] = {}]
    BY <1>6 DEF PreparePromised, Broadcast, NewPhase
  <2>2. PICK h \in DOMAIN resp : Highest(resp) = resp[h]
    BY HighestIsGreatest
  <2>3. resp[h] \in replied[d] /\ ~ IsNack(resp[h])
    BY <2>1, CollectedAreReplies, NoNacks
  <2>4. cmd = orig[d].cmd \/ cmd = resp[h].cmd
    BY <2>2
  <2> HIDE DEF cmd
  <2>5. CASE n = d
    BY <1>6, <2>1, <2>3, <2>4, <2>5 DEF Promoted, Asks, TypeOK
  <2>6. CASE n # d
    BY <2>1, <2>6, BystanderKeeps DEF TypeOK
  <2> QED  BY <2>5, <2>6
<1>7. ASSUME NEW d \in Server, NEW resp \in Collected(d),
             \/ PrepareRefused(d, resp) \/ AcceptRefused(d, resp) \/ Overtaken(d, resp)
      PROVE  Keeps(n) \/ Retries(n)
  <2>1. CASE PrepareRefused(d, resp) \/ AcceptRefused(d, resp)
    <3>1. Asking(d) /\ NextNum(resp) > orig[d].prop.num
      BY <2>1, RaisedNumbers DEF PrepareRefused, AcceptRefused, Asking
    <3> QED  BY <2>1, <3>1, RestartRetries DEF PrepareRefused, AcceptRefused
  <2>2. CASE Overtaken(d, resp)
    <3>1. Asking(d) /\ log[d][orig[d].index].min.num + 1 > orig[d].prop.num
      BY <2>2, RaisedNumbers DEF Overtaken, AllAccepted, Asking
    <3> QED  BY <2>2, <3>1, RestartRetries DEF Overtaken
  <2> QED  BY <1>7, <2>1, <2>2
<1>8. ASSUME NEW d \in Server, NEW resp \in Collected(d), Defeated(d, resp)
      PROVE  Keeps(n) \/ Advances(n)
  BY <1>8, NextSlotAdvances DEF Defeated, AllAccepted
<1>9. ASSUME NEW d \in Server, NEW resp \in Collected(d), AcceptMixed(d, resp)
      PROVE  Keeps(n) \/ Retries(n) \/ Advances(n)
  <2>1. CASE sent[d].id = orig[d].cmd.id
    <3>1. Asking(d) /\ log[d][orig[d].index].min.num + 1 > orig[d].prop.num
      BY <1>9, RaisedNumbers DEF AcceptMixed, Asking
    <3> QED  BY <1>9, <2>1, <3>1, RestartRetries DEF AcceptMixed
  <2>2. CASE sent[d].id # orig[d].cmd.id
    BY <1>9, <2>2, NextSlotAdvances DEF AcceptMixed
  <2> QED  BY <2>1, <2>2
<1>10. ASSUME NEW d \in Server, NEW resp \in Collected(d), Inserted(d, resp)
       PROVE  Keeps(n) \/ Leaves(n)
  <2>1. /\ pc[d] = "accept"
        /\ pc' = [pc EXCEPT ![d] = IF orig[d].cmd.type = "READ" THEN "apply" ELSE "idle"]
        /\ free' = [free EXCEPT ![d] = @ \ {orig[d].index}]
        /\ \A e \in Server \ {d} : log'[e] = log[e]
        /\ orig' = orig /\ sent' = [sent EXCEPT ![d] = NoCommand]
        /\ asked' = [asked EXCEPT ![d] = {}] /\ replied' = [replied EXCEPT ![d] = {}]
    BY <1>10 DEF Inserted, AllAccepted, FillSlot, EndPhase, NewPhase, TypeOK
  <2>2. CASE n = d
    BY <2>1, <2>2 DEF Leaves, Silent, TypeOK
  <2>3. CASE n # d
    BY <2>1, <2>3, BystanderKeeps DEF TypeOK
  <2> QED  BY <2>2, <2>3
<1>11. CASE UNCHANGED vars
  BY <1>11, BystanderKeeps DEF vars
<1> QED
  BY <1>1, <1>2, <1>3, <1>4, <1>5, <1>6, <1>7, <1>8, <1>9, <1>10, <1>11 DEF Next, Propose

-----------------------------------------------------------------------------
(* The rounds of a proposer: one command for each proposal.                 *)

\* A client has a home.
LEMMA HomeIsServer == \A c \in Clients : Home(c) \in Server
BY NAssumption, ClientsAssumption DEF Home, Server

\* No step serves a client anywhere but at its home.
LEMMA ServesStep ==
  ASSUME TypeOK, ServesOwnClients, OneReplyPerServer, RefusalsAreHigher, [Next]_vars
  PROVE  ServesOwnClients'
<1> SUFFICES ASSUME NEW n \in Server, pc'[n] # "idle"
             PROVE  /\ orig'[n].prop.client \in Clients /\ Home(orig'[n].prop.client) = n
                    /\ orig'[n].prop.num >= 0
  BY DEF ServesOwnClients, Home
<1>1. pc[n] # "idle" => /\ orig[n].prop.client \in Clients /\ Home(orig[n].prop.client) = n
                        /\ orig[n].prop.num >= 0
  BY DEF ServesOwnClients
<1>2. CASE Keeps(n) \/ Answered(n)
  BY <1>1, <1>2 DEF Keeps, Answered
<1>3. CASE Begins(n)
  BY <1>3 DEF Begins
<1>4. CASE Prepares(n) \/ Promoted(n)
  BY <1>1, <1>4 DEF Prepares, Promoted
<1>5. CASE Retries(n)
  <2>1. orig[n].prop.num \in Int /\ orig'[n].prop.num \in Int
    <3>1. orig[n].prop \in Proposal
      BY TypedParts, TriedIsProposal
    <3>2. orig'[n].prop \in Proposal
      BY TypeStep, TriedIsProposal DEF TypeOK
    <3> QED  BY <3>1, <3>2, ProposalParts
  <2> QED  BY <1>1, <1>5, <2>1 DEF Retries, Asking
<1>6. CASE Leaves(n)
  BY <1>1, <1>6 DEF Leaves
<1>7. CASE Advances(n)
  BY <1>1, <1>7 DEF Advances
<1>8. CASE Returns(n)
  BY <1>8 DEF Returns
<1> QED  BY <1>2, <1>3, <1>4, <1>5, <1>6, <1>7, <1>8, PhaseStep

\* No step asks a server twice in a phase or takes a second reply from it.
LEMMA OneReplyStep ==
  ASSUME TypeOK, OneReplyPerServer, RefusalsAreHigher, [Next]_vars
  PROVE  OneReplyPerServer'
<1> DEFINE One(n) ==
      /\ ~ Asking(n) => asked[n] = {} /\ replied[n] = {}
      /\ n \notin asked[n]
      /\ \A r \in replied[n] : r.server # n /\ r.server \notin asked[n]
      /\ \A r1, r2 \in replied[n] : r1.server = r2.server => r1 = r2
<1> SUFFICES ASSUME NEW n \in Server PROVE One(n)'
  BY DEF OneReplyPerServer
<1>1. One(n)
  BY DEF OneReplyPerServer
<1>2. CASE Keeps(n)
  BY <1>1, <1>2 DEF Keeps, Asking
<1>3. CASE Answered(n)
  <2>1. PICK s \in asked[n] : /\ asked'[n] = asked[n] \ {s}
                              /\ replied'[n] = replied[n] \cup {Answer(Request(n, s))}
    BY <1>3 DEF Answered
  <2>2. Answer(Request(n, s)).server = s
    BY DEF Answer, Request
  <2>3. Asking(n)'
    BY <1>3 DEF Answered, Asking
  <2> QED  BY <1>1, <2>1, <2>2, <2>3
<1>4. CASE Begins(n) \/ Retries(n) \/ Leaves(n) \/ Advances(n)
  BY <1>4 DEF Begins, Retries, Leaves, Advances, Silent
<1>5. CASE Prepares(n) \/ Promoted(n)
  BY <1>5 DEF Prepares, Promoted, Asks, Asking, Peers
<1>6. CASE Returns(n)
  BY <1>1, <1>6 DEF Returns, Asking
<1> QED  BY <1>2, <1>3, <1>4, <1>5, <1>6, PhaseStep

\* No step lets the own acceptor, or a refusal, fall behind the number of a round.
LEMMA RefusalsStep ==
  ASSUME TypeOK, ServesOwnClients, OneReplyPerServer, RefusalsAreHigher, [Next]_vars
  PROVE  RefusalsAreHigher'
<1> SUFFICES ASSUME NEW n \in Server
             PROVE  /\ \A r \in replied'[n] : IsNack(r) => r.prop.num >= orig'[n].prop.num
                    /\ Asking(n)' => log'[n][orig'[n].index].min.num >= orig'[n].prop.num
  BY DEF RefusalsAreHigher, IsNack
<1>1. /\ \A r \in replied[n] : IsNack(r) => r.prop.num >= orig[n].prop.num
      /\ Asking(n) => log[n][orig[n].index].min.num >= orig[n].prop.num
  BY DEF RefusalsAreHigher
<1>2. TypeOK'
  BY TypeStep
<1>3. orig[n].index \in Slot /\ orig[n].prop.num \in Int
  BY TypedParts, TriedIsProposal, ProposalParts
<1>4. \A i \in Slot : log[n][i].min.num \in Int /\ log'[n][i].min.num \in Int
  <2>1. \A i \in Slot : log[n][i].min \in Proposal /\ log'[n][i].min \in Proposal
    BY <1>2, TriedIsProposal DEF TypeOK, Entry
  <2> QED  BY <2>1, ProposalParts
<1>5. ASSUME Raises(n), orig'[n] = orig[n], Asking(n)
      PROVE  log'[n][orig'[n].index].min.num >= orig'[n].prop.num
  <2>1. log'[n][orig[n].index].min.num >= log[n][orig[n].index].min.num
    BY <1>3, <1>5 DEF Raises
  <2> QED  BY <1>1, <1>3, <1>4, <1>5, <2>1
<1>6. CASE Keeps(n)
  BY <1>1, <1>5, <1>6 DEF Keeps, Asking
<1>7. CASE Answered(n)
  <2>1. PICK s \in asked[n] : replied'[n] = replied[n] \cup {Answer(Request(n, s))}
    BY <1>7 DEF Answered
  <2>2. s \in Server
    BY DEF TypeOK
  <2>3. orig'[n] = orig[n]
    BY <1>7 DEF Answered
  <2>4. ASSUME IsNack(Answer(Request(n, s)))
        PROVE  Answer(Request(n, s)).prop.num >= orig[n].prop.num
    <3> DEFINE m == Request(n, s)
               min == log[s][orig[n].index].min
    <3>1. m.to = s /\ m.index = orig[n].index /\ m.prop = orig[n].prop
          /\ (m.kind = "PREPARE" \/ m.kind = "ACCEPT")
      BY DEF Request
    <3>2. min.num \in Int /\ min.client \in Int /\ orig[n].prop.client \in Int
      <4>1. min \in Proposal /\ orig[n].prop \in Proposal
        BY <2>2, TypedParts, TriedIsProposal DEF Entry
      <4> QED  BY <4>1, ProposalParts
    <3>3. /\ Answer(m).prop = log[m.to][m.index].min
          /\ (m.kind = "PREPARE" /\ ~ Promiseable(m)) \/ (m.kind = "ACCEPT" /\ ~ Acceptable(m))
      <4> HIDE DEF m
      <4>1. ~ (m.kind = "PREPARE" /\ Promiseable(m)) /\ ~ (m.kind = "ACCEPT" /\ Acceptable(m))
        BY <2>4 DEF Answer, IsNack, m
      <4>2. Answer(m).prop = log[m.to][m.index].min
        BY <4>1 DEF Answer
      <4> QED  BY <3>1, <4>1, <4>2
    <3>4. Answer(m).prop = min
      BY <3>1, <3>3
    <3>5. ~ Less(min, orig[n].prop) \/ ~ (orig[n].prop.num >= min.num)
      <4> HIDE DEF m, min
      <4> QED  BY <3>1, <3>3 DEF Promiseable, Acceptable, min
    <3>6. min.num >= orig[n].prop.num
      <4> HIDE DEF min
      <4> QED  BY <1>3, <3>2, <3>5 DEF Less
    <3> QED  BY <3>4, <3>6
  <2>5. \A r \in replied'[n] : IsNack(r) => r.prop.num >= orig'[n].prop.num
    BY <1>1, <2>1, <2>3, <2>4
  <2> QED  BY <1>5, <1>7, <2>3, <2>5 DEF Answered
<1>8. CASE Begins(n) \/ Retries(n) \/ Leaves(n) \/ Advances(n)
  BY <1>8 DEF Begins, Retries, Leaves, Advances, Silent, Asking
<1>9. CASE Prepares(n)
  BY <1>3, <1>9 DEF Prepares, Asks
<1>10. CASE Promoted(n)
  BY <1>1, <1>10 DEF Promoted, Asks, Asking
<1>11. CASE Returns(n)
  <2>1. replied'[n] = {} /\ ~ Asking(n)'
    BY <1>11 DEF Returns, OneReplyPerServer, Asking
  <2> QED  BY <2>1
<1> QED  BY <1>6, <1>7, <1>8, <1>9, <1>10, <1>11, PhaseStep

\* An ACCEPT in flight, or taken, was so before the step or is one that a
\* proposer is sending.
LEMMA AcceptingStep ==
  ASSUME TypeOK, OneReplyPerServer, [Next]_vars, NEW m \in Accepting'
  PROVE  \/ m \in Accepting
         \/ \E n \in Server : \E s \in Server : pc[n] = "accept" /\ m = Request(n, s)
<1> USE DEF acceptor, phase, history
<1>1. ASSUME NEW n \in Server, NEW s \in asked[n], Request(n, s).kind = "ACCEPT"
      PROVE  pc[n] = "accept"
  BY <1>1 DEF OneReplyPerServer, Asking, Request
<1> DEFINE Sending == \E n \in Server : \E s \in Server : pc[n] = "accept" /\ m = Request(n, s)
<1> HIDE DEF Sending
<1>2. ASSUME NEW n \in Server, NEW servers, NewPhase(n, servers), accepts' = accepts
      PROVE  m \in Accepting \/ Sending
  <2>1. late' = late \cup {Request(n, s) : s \in asked[n]}
    BY <1>2 DEF NewPhase
  <2>2. m \in accepts \/ (m \in late' /\ m.kind = "ACCEPT")
    BY <1>2 DEF Accepting
  <2>3. m \in Accepting \/ \E s \in asked[n] : m = Request(n, s) /\ m.kind = "ACCEPT"
    BY <2>1, <2>2 DEF Accepting
  <2>4. asked[n] \subseteq Server
    BY DEF TypeOK
  <2> QED  BY <1>1, <2>3, <2>4 DEF Sending
<1>3. ASSUME accepts' = accepts, late' = late PROVE m \in Accepting
  BY <1>3 DEF Accepting
<1>4. ASSUME NEW q, PaxosRequestHandler(q)
      PROVE  accepts' = accepts \/ (accepts' = accepts \cup {q} /\ q.kind = "ACCEPT")
  BY <1>4 DEF PaxosRequestHandler, Promise, Accept, Nack
<1>5. ASSUME NEW n \in Server, NEW s \in Server, Handle(n, s) PROVE m \in Accepting \/ Sending
  <2>1. PaxosRequestHandler(Request(n, s)) /\ late' = late /\ s \in asked[n]
    BY <1>5 DEF Handle
  <2>2. m \in Accepting \/ (m = Request(n, s) /\ m.kind = "ACCEPT")
    BY <1>4, <2>1 DEF Accepting
  <2> QED  BY <1>1, <2>1, <2>2 DEF Sending
<1>6. ASSUME NEW q \in late, HandleLate(q) PROVE m \in Accepting
  <2>1. PaxosRequestHandler(q) /\ late' = late \ {q}
    BY <1>6 DEF HandleLate
  <2> QED  BY <1>4, <2>1 DEF Accepting
<1>7. ASSUME NEW n \in Server, NEW c \in Clients, NEW type \in Types[c], StartRequest(n, c, type)
      PROVE  m \in Accepting
  BY <1>3, <1>7 DEF StartRequest
<1>8. ASSUME NEW n \in Server, UpdateLocalValues(n) PROVE m \in Accepting \/ Sending
  BY <1>2, <1>8 DEF UpdateLocalValues, Broadcast
<1>9. ASSUME NEW n \in Server, ReadReturn(n) PROVE m \in Accepting
  BY <1>3, <1>9 DEF ReadReturn
<1>10. ASSUME NEW n \in Server, NEW resp \in Collected(n),
              \/ PrepareRefused(n, resp) \/ PreparePromised(n, resp) \/ Inserted(n, resp)
              \/ Overtaken(n, resp) \/ AcceptRefused(n, resp) \/ AcceptMixed(n, resp)
       PROVE  m \in Accepting \/ Sending
  <2>1. accepts' = accepts /\ \E servers : NewPhase(n, servers)
    BY <1>10 DEF PrepareRefused, PreparePromised, Inserted, Overtaken, AcceptRefused,
         AcceptMixed, Restart, NextSlot, EndPhase, Broadcast
  <2> QED  BY <1>2, <2>1
<1>11. ASSUME UNCHANGED vars PROVE m \in Accepting
  BY <1>3, <1>11 DEF vars
<1>12. ASSUME NEW n \in Server, NEW resp \in Collected(n), Defeated(n, resp)
       PROVE  m \in Accepting \/ Sending
  <2>1. /\ accepts' = accepts \cup {Request(n, n)} /\ pc[n] = "accept"
        /\ late' = late \cup {Request(n, s) : s \in asked[n]}
    BY <1>12 DEF Defeated, AllAccepted, NextSlot, EndPhase, NewPhase
  <2>2. asked[n] \subseteq Server
    BY DEF TypeOK
  <2>3. m \in Accepting \/ \E s \in Server : m = Request(n, s)
    BY <2>1, <2>2 DEF Accepting
  <2> QED  BY <2>1, <2>3 DEF Sending
<1>13. ASSUME NEW n \in Server, Propose(n) PROVE m \in Accepting \/ Sending
  BY <1>8, <1>9, <1>10, <1>12, <1>13 DEF Propose
<1>14. m \in Accepting \/ Sending
  BY <1>5, <1>6, <1>7, <1>11, <1>13 DEF Next
<1> QED  BY <1>14 DEF Sending

\* An ACCEPT that is being sent is fresh too.
LEMMA SentIsFresh ==
  ASSUME ServesOwnClients, NEW n \in Server, pc[n] = "accept", NEW s
  PROVE  Fresh(Request(n, s)) /\ Home(Request(n, s).prop.client) = n
<1> DEFINE m == Request(n, s)
<1>1. m.index = orig[n].index /\ m.prop = orig[n].prop /\ m.cmd = sent[n]
  BY DEF Request
<1>2. m.prop.client \in Clients /\ Home(m.prop.client) = n /\ m.prop.num >= 0
  BY <1>1 DEF ServesOwnClients
<1> HIDE DEF m
<1>3. Fresh(m)
  BY <1>1, <1>2 DEF Fresh, Behind, Proposing
<1> QED  BY <1>2, <1>3 DEF m

\* No step makes a proposer go back behind what it has sent.
LEMMA FreshStep ==
  ASSUME TypeOK, ServesOwnClients, OneReplyPerServer, RefusalsAreHigher, [Next]_vars,
         NEW m, m.prop \in Tried, NEW n \in Server, m.prop.num >= 0, Behind(n, m)
  PROVE  Behind(n, m)'
<1>1. m.prop.num \in Int /\ orig[n].prop.num \in Int /\ orig'[n].prop.num \in Int
  <2>1. m.prop \in Proposal /\ orig[n].prop \in Proposal
    BY TypedParts, TriedIsProposal
  <2>2. orig'[n].prop \in Proposal
    BY TypeStep, TriedIsProposal DEF TypeOK
  <2> QED  BY <2>1, <2>2, ProposalParts
<1>2. CASE Keeps(n) \/ Answered(n)
  <2>1. /\ pc'[n] = pc[n] /\ orig'[n] = orig[n] /\ sent'[n] = sent[n]
        /\ free'[n] \subseteq free[n]
    BY <1>2 DEF Keeps, Answered, Raises
  <2> QED  BY <2>1 DEF Proposing, Behind
<1>3. CASE Begins(n)
  BY <1>3 DEF Begins, Proposing, Behind
<1>4. CASE Prepares(n) \/ Promoted(n)
  BY <1>4 DEF Prepares, Promoted, Proposing, Behind
<1>5. CASE Retries(n)
  BY <1>1, <1>5 DEF Retries, Asking, Proposing, Behind
<1>6. CASE Leaves(n)
  BY <1>6 DEF Leaves, Proposing, Behind
<1>7. CASE Advances(n)
  BY <1>7 DEF Advances, Proposing, Behind
<1>8. CASE Returns(n)
  BY <1>8 DEF Returns, Proposing, Behind
<1> QED  BY <1>2, <1>3, <1>4, <1>5, <1>6, <1>7, <1>8, PhaseStep

\* The ACCEPTs after a step were fresh before it.
LEMMA AcceptingWasFresh ==
  ASSUME TypeOK, ServesOwnClients, OneReplyPerServer, RefusalsAreHigher, ProposalsAreFresh,
         [Next]_vars, NEW m \in Accepting'
  PROVE  Fresh(m)
<1>1. CASE m \in Accepting
  BY <1>1 DEF ProposalsAreFresh
<1>2. CASE m \notin Accepting
  BY <1>2, AcceptingStep, SentIsFresh
<1> QED  BY <1>1, <1>2

\* ACCEPTs are messages.
LEMMA AcceptingTyped == TypeOK => \A m \in Accepting : m \in Message /\ m.prop \in Tried
BY DEF TypeOK, Accepting, Message

\* No step uses a proposal twice.
LEMMA ProposalsStep ==
  ASSUME TypeOK, ServesOwnClients, OneReplyPerServer, RefusalsAreHigher, ProposalsAreFresh,
         OneCommandInFlight, [Next]_vars
  PROVE  ProposalsAreFresh' /\ OneCommandInFlight'
<1>1. \A m \in Accepting' : Fresh(m) /\ m.prop \in Tried
  <2>1. TypeOK'
    BY TypeStep
  <2>2. \A m \in Accepting' : m \in Message /\ m.prop \in Tried
    BY <2>1 DEF TypeOK, Accepting, Message
  <2> QED  BY <2>2, AcceptingWasFresh
<1>2. ProposalsAreFresh'
  <2>1. ASSUME NEW m \in Accepting' PROVE Fresh(m)'
    <3>1. /\ m.prop.client \in Clients /\ m.prop.num >= 0 /\ Behind(Home(m.prop.client), m)
          /\ m.prop \in Tried
      BY <1>1 DEF Fresh
    <3>2. Behind(Home(m.prop.client), m)'
      BY <3>1, HomeIsServer, FreshStep
    <3> QED  BY <3>1, <3>2 DEF Fresh, Home
  <2> QED  BY <2>1 DEF ProposalsAreFresh
<1>3. OneCommandInFlight'
  <2> SUFFICES ASSUME NEW a \in Accepting', NEW b \in Accepting', a.index = b.index, a.prop = b.prop
               PROVE  a.cmd = b.cmd
    BY DEF OneCommandInFlight
  <2>1. CASE a \in Accepting /\ b \in Accepting
    BY <2>1 DEF OneCommandInFlight
  <2>2. ASSUME NEW x \in Accepting', NEW y \in Accepting', x.index = y.index, x.prop = y.prop,
               x \notin Accepting
        PROVE  x.cmd = y.cmd
    <3>1. PICK n \in Server : pc[n] = "accept" /\ \E s \in Server : x = Request(n, s)
      BY <2>2, AcceptingStep
    <3>2. x.index = orig[n].index /\ x.prop = orig[n].prop /\ x.cmd = sent[n]
      BY <3>1 DEF Request
    <3>3. Home(y.prop.client) = n
      BY <2>2, <3>1, SentIsFresh
    <3>4. Fresh(y) /\ y.prop.num \in Int
      <4>1. y.prop \in Proposal
        BY <1>1, TriedIsProposal
      <4> QED  BY <1>1, <4>1, ProposalParts
    <3> QED  BY <2>2, <3>1, <3>2, <3>3, <3>4 DEF Fresh, Behind, Proposing
  <2> QED  BY <2>1, <2>2
<1> QED  BY <1>2, <1>3
-----------------------------------------------------------------------------
(* Insertion by a majority.                                                 *)

\* Nothing is taken back from the histories.
LEMMA HistoryGrows ==
  ASSUME TypeOK, [Next]_vars
  PROVE  accepts \subseteq accepts' /\ done \subseteq done' /\ deviations \subseteq deviations'
<1> DEFINE Grows == accepts \subseteq accepts' /\ done \subseteq done' /\ deviations \subseteq deviations'
<1> USE DEF history
<1>1. ASSUME NEW m, PaxosRequestHandler(m), done' = done PROVE Grows
  BY <1>1 DEF PaxosRequestHandler, Promise, Accept, Nack, Deviate
<1>2. ASSUME NEW n \in Server, NEW s \in Server, Handle(n, s) PROVE Grows
  BY <1>1, <1>2 DEF Handle
<1>3. ASSUME NEW m \in late, HandleLate(m) PROVE Grows
  BY <1>1, <1>3 DEF HandleLate
<1>4. ASSUME NEW n \in Server, NEW c \in Clients, NEW type \in Types[c], StartRequest(n, c, type)
      PROVE  Grows
  BY <1>4 DEF StartRequest
<1>5. ASSUME NEW n \in Server, UpdateLocalValues(n) \/ ReadReturn(n) PROVE Grows
  BY <1>5 DEF UpdateLocalValues, ReadReturn, Deviate
<1>6. ASSUME NEW n \in Server, NEW resp \in Collected(n),
             \/ PrepareRefused(n, resp) \/ PreparePromised(n, resp) \/ Inserted(n, resp)
             \/ Overtaken(n, resp) \/ Defeated(n, resp) \/ AcceptRefused(n, resp)
             \/ AcceptMixed(n, resp)
      PROVE  Grows
  BY <1>6 DEF PrepareRefused, PreparePromised, Inserted, Overtaken, Defeated, AcceptRefused,
     AcceptMixed, NextSlot, Deviate
<1>7. ASSUME UNCHANGED vars PROVE Grows
  BY <1>7 DEF vars
<1> HIDE DEF Grows
<1>8. ASSUME NEW n \in Server, Propose(n) PROVE Grows
  BY <1>5, <1>6, <1>8 DEF Propose
<1>9. Grows
  BY <1>2, <1>3, <1>4, <1>7, <1>8 DEF Next
<1> QED  BY <1>9 DEF Grows

\* An acknowledgement of an ACCEPT comes from an acceptor that took it.
LEMMA AckOfAccept ==
  ASSUME NEW m, m.kind = "ACCEPT", PaxosRequestHandler(m), ~ IsNack(Answer(m))
  PROVE  m \in accepts'
<1>1. "PREPARE" # "ACCEPT" /\ "ACK" # "NACK"
  OBVIOUS
<1> QED  BY <1>1 DEF PaxosRequestHandler, Promise, Accept, Nack, IsNack

\* An acknowledgement of a PREPARE has the type of the request.
LEMMA AckOfPrepare ==
  ASSUME TypeOK, NEW m \in Message, m.kind = "PREPARE", ~ IsNack(Answer(m))
  PROVE  /\ Promiseable(m)
         /\ Answer(m) = [server |-> m.to, code |-> "ACK", prop |-> log[m.to][m.index].acc,
                         cmd |-> [log[m.to][m.index].cmd EXCEPT !.type = m.cmd.type]]
         /\ Answer(m).cmd.type = m.cmd.type
         /\ Answer(m).cmd.id = log[m.to][m.index].cmd.id
<1>1. "PREPARE" # "ACCEPT" /\ "ACK" # "NACK"
  OBVIOUS
<1>2. log[m.to][m.index].cmd \in Command
  BY DEF TypeOK, Message, Entry
<1>3. Promiseable(m)
  BY <1>1 DEF Answer, IsNack
<1>4. Answer(m) = [server |-> m.to, code |-> "ACK", prop |-> log[m.to][m.index].acc,
                   cmd |-> [log[m.to][m.index].cmd EXCEPT !.type = m.cmd.type]]
  BY <1>3 DEF Answer
<1> QED  BY <1>2, <1>3, <1>4 DEF Command

\* A proposer takes for acceptances only what it has sent.
LEMMA AcceptedAsSentStep ==
  ASSUME TypeOK, OneReplyPerServer, RefusalsAreHigher, AcceptedAsSent, [Next]_vars
  PROVE  AcceptedAsSent'
<1> DEFINE Counted(n) ==
      /\ pc[n] = "prepare" => \A r \in replied[n] : IsNack(r) \/ r.cmd.type = orig[n].cmd.type
      /\ pc[n] = "accept" => /\ sent[n].type = orig[n].cmd.type
                             /\ \A r \in replied[n] : IsNack(r) \/ Request(n, r.server) \in accepts
<1> SUFFICES ASSUME NEW n \in Server PROVE Counted(n)'
  BY DEF AcceptedAsSent
<1>1. Counted(n)
  BY DEF AcceptedAsSent
<1>2. accepts \subseteq accepts'
  BY HistoryGrows
<1>3. pc'[n] = pc[n] /\ orig'[n] = orig[n] /\ sent'[n] = sent[n]
      => \A s : Request(n, s)' = Request(n, s)
  BY DEF Request
<1>4. CASE Keeps(n)
  BY <1>1, <1>2, <1>3, <1>4 DEF Keeps, IsNack
<1>5. CASE Answered(n)
  <2>1. PICK s \in asked[n] : /\ PaxosRequestHandler(Request(n, s))
                              /\ replied'[n] = replied[n] \cup {Answer(Request(n, s))}
    BY <1>5 DEF Answered
  <2>2. pc'[n] = pc[n] /\ orig'[n] = orig[n] /\ sent'[n] = sent[n]
    BY <1>5 DEF Answered
  <2>3. Request(n, s) \in Message
    BY RequestTyped DEF TypeOK
  <2>4. Answer(Request(n, s)).server = s
    BY DEF Answer, Request
  <2>5. CASE pc[n] = "prepare"
    <3>1. Request(n, s).kind = "PREPARE" /\ Request(n, s).cmd = orig[n].cmd
      BY <2>5 DEF Request
    <3>2. IsNack(Answer(Request(n, s))) \/ Answer(Request(n, s)).cmd.type = orig[n].cmd.type
      BY <2>3, <3>1, AckOfPrepare
    <3> QED  BY <1>1, <2>1, <2>2, <2>5, <3>2 DEF IsNack
  <2>6. CASE pc[n] = "accept"
    <3>1. Request(n, s).kind = "ACCEPT"
      BY <2>6 DEF Request
    <3>2. IsNack(Answer(Request(n, s))) \/ Request(n, s) \in accepts'
      BY <2>1, <3>1, AckOfAccept
    <3> QED  BY <1>1, <1>2, <1>3, <2>1, <2>2, <2>4, <2>6, <3>2 DEF IsNack
  <2> QED  BY <2>2, <2>5, <2>6
<1>6. CASE Begins(n) \/ Retries(n) \/ Leaves(n) \/ Advances(n) \/ Returns(n)
  BY <1>6 DEF Begins, Retries, Leaves, Advances, Returns
<1>7. CASE Prepares(n)
  BY <1>7 DEF Prepares, Asks
<1>8. CASE Promoted(n)
  <2>1. sent'[n].type = orig'[n].cmd.type
    BY <1>1, <1>8 DEF Promoted, IsNack
  <2> QED  BY <1>8, <2>1 DEF Promoted, Asks
<1> QED  BY <1>4, <1>5, <1>6, <1>7, <1>8, PhaseStep

\* A command with the id and the value of one that was there before, or with none.
Known(x) ==
  \/ x.id = NoId /\ x.value = NoId
  \/ \E y \in Commands : x.id = y.id /\ x.value = y.value

\* Where commands are held.
LEMMA CommandsHeld ==
  /\ \A n \in Server, i \in Slot : log[n][i].cmd \in Commands
  /\ \A n \in Server : orig[n].cmd \in Commands /\ sent[n] \in Commands
  /\ \A n \in Server : \A r \in replied[n] : r.cmd \in Commands
  /\ \A m \in late \cup accepts : m.cmd \in Commands
<1>1. ASSUME NEW n \in Server, NEW r \in replied[n] PROVE r.cmd \in Commands
  <2>1. r.cmd \in {q.cmd : q \in replied[n]}
    OBVIOUS
  <2>2. r.cmd \in UNION {{q.cmd : q \in replied[d]} : d \in Server}
    BY <2>1
  <2> QED  BY <2>2 DEF Commands
<1>2. \A n \in Server, i \in Slot : log[n][i].cmd \in Commands
  BY DEF Commands
<1>3. \A n \in Server : orig[n].cmd \in Commands /\ sent[n] \in Commands
  BY DEF Commands
<1>4. \A m \in late \cup accepts : m.cmd \in Commands
  BY DEF Commands
<1> QED  BY <1>1, <1>2, <1>3, <1>4

\* The handling of a request spreads the commands of the slot and of the request.
LEMMA HandlerSpreads ==
  ASSUME TypeOK, NEW m \in Message, Known(m.cmd), PaxosRequestHandler(m)
  PROVE  /\ \A n \in Server, i \in Slot : Known(log'[n][i].cmd)
         /\ \A q \in accepts' : Known(q.cmd)
         /\ Known(Answer(m).cmd)
<1>1. /\ log \in [Server -> [Slot -> Entry]] /\ m.to \in Server /\ m.index \in Slot
      /\ m.cmd \in Command
  BY DEF TypeOK, Message
<1>2. \A n \in Server, i \in Slot : Known(log[n][i].cmd)
  BY CommandsHeld DEF Known
<1>3. \A q \in accepts : Known(q.cmd)
  BY CommandsHeld DEF Known
<1>4. Known(Answer(m).cmd)
  <2> DEFINE e == log[m.to][m.index]
             renamed == [e.cmd EXCEPT !.type = m.cmd.type]
  <2>1. renamed.id = e.cmd.id /\ renamed.value = e.cmd.value
    BY <1>1 DEF Entry, Command
  <2>2. Known(renamed)
    <3>1. Known(e.cmd)
      BY <1>1, <1>2
    <3> HIDE DEF renamed, e
    <3> QED  BY <2>1, <3>1 DEF Known
  <2>3. Answer(m).cmd = renamed \/ Answer(m).cmd = m.cmd \/ Answer(m).cmd = NoCommand
    BY DEF Answer
  <2>4. Known(NoCommand)
    BY DEF Known, NoCommand
  <2> HIDE DEF renamed
  <2> QED  BY <2>2, <2>3, <2>4
<1>5. CASE Promise(m)
  <2>1. log' = [log EXCEPT ![m.to][m.index].min = m.prop] /\ accepts' = accepts
    BY <1>5 DEF Promise
  <2>2. \A n \in Server, i \in Slot : log'[n][i].cmd = log[n][i].cmd
    BY <1>1, <2>1 DEF Entry
  <2> QED  BY <1>2, <1>3, <1>4, <2>1, <2>2
<1>6. CASE Accept(m)
  <2> DEFINE e == [min |-> m.prop, acc |-> m.prop, cmd |-> m.cmd]
  <2>1. log' = [log EXCEPT ![m.to][m.index] = e] /\ accepts' = accepts \cup {m}
    BY <1>6 DEF Accept
  <2>2. e.cmd = m.cmd
    OBVIOUS
  <2> HIDE DEF e
  <2>3. \A n \in Server, i \in Slot : log'[n][i] = log[n][i] \/ log'[n][i] = e
    BY <1>1, <2>1
  <2> QED  BY <1>2, <1>3, <1>4, <2>1, <2>2, <2>3
<1>7. CASE Nack(m)
  BY <1>2, <1>3, <1>4, <1>7 DEF Nack, acceptor
<1> QED  BY <1>5, <1>6, <1>7 DEF PaxosRequestHandler

\* As long as no entry was left unset, the only command_id and value a step makes
\* is that of a new request.
LEMMA CommandsStep ==
  ASSUME TypeOK, [Next]_vars, "unset" \notin deviations'
  PROVE  \E new :
           /\ \A x \in Commands' : Known(x) \/ x = new
           /\ \/ ops' = ops /\ Known(new)
              \/ \E c \in Clients : /\ ops' = [ops EXCEPT ![c] = @ + 1]
                                    /\ new.id = <<c, ops[c] + 1>> /\ new.value \in {NoId, new.id}
<1> USE DEF acceptor, phase, history
<1> DEFINE InLog      == \A n \in Server, i \in Slot : Known(log'[n][i].cmd)
           InOrig     == \A n \in Server : Known(orig'[n].cmd)
           InSent     == \A n \in Server : Known(sent'[n])
           InReplied  == \A n \in Server : \A r \in replied'[n] : Known(r.cmd)
           InLate     == \A m \in late' : Known(m.cmd)
           InAccepts  == \A m \in accepts' : Known(m.cmd)
           AllKnown   == InLog /\ InOrig /\ InSent /\ InReplied /\ InLate /\ InAccepts
           Held       == InLog /\ InSent /\ InReplied /\ InLate /\ InAccepts
<1>1. \A x \in Commands : Known(x)
  BY DEF Known
<1>2. /\ log' = log => InLog
      /\ orig' = orig => InOrig
      /\ sent' = sent => InSent
      /\ replied' = replied => InReplied
      /\ late' = late => InLate
      /\ accepts' = accepts => InAccepts
  BY <1>1, CommandsHeld
<1>3. \A n \in Server : \A s : Known(Request(n, s).cmd)
  BY <1>1, CommandsHeld DEF Request
<1>4. Known(NoCommand)
  BY DEF Known, NoCommand
<1>5. ASSUME NEW n \in Server, NEW servers, NewPhase(n, servers) PROVE InReplied /\ InLate
  <2>1. replied' = [replied EXCEPT ![n] = {}] /\ late' = late \cup {Request(n, s) : s \in asked[n]}
    BY <1>5 DEF NewPhase
  <2>2. \A d \in Server : replied'[d] \subseteq replied[d]
    BY <2>1 DEF TypeOK
  <2>3. InReplied
    BY <1>1, <2>2, CommandsHeld
  <2>4. InLate
    BY <1>1, <1>3, <2>1, CommandsHeld
  <2> QED  BY <2>3, <2>4
<1>6. ASSUME NEW n \in Server, NEW x, sent' = [sent EXCEPT ![n] = x], Known(x) PROVE InSent
  BY <1>1, <1>6, CommandsHeld DEF TypeOK
<1>7. ASSUME NEW n \in Server, EndPhase(n) PROVE InSent /\ InReplied /\ InLate
  BY <1>4, <1>5, <1>6, <1>7 DEF EndPhase
<1>8. ASSUME NEW n \in Server, NEW num, Restart(n, num), UNCHANGED <<acceptor, ops, history>>
      PROVE  AllKnown
  <2>1. orig' = [orig EXCEPT ![n].prop.num = num]
    BY <1>8 DEF Restart
  <2>2. \A d \in Server : orig'[d].cmd = orig[d].cmd
    BY <2>1 DEF TypeOK
  <2>3. InOrig
    BY <1>1, <2>2, CommandsHeld
  <2>4. InLog /\ InAccepts
    BY <1>2, <1>8
  <2> HIDE DEF InLog, InOrig, InSent, InReplied, InLate, InAccepts
  <2> QED  BY <1>7, <1>8, <2>3, <2>4 DEF Restart
<1>9. ASSUME NEW n \in Server, NEW entry, FillSlot(n, entry), Known(entry.cmd) PROVE InLog
  <2>1. log' = [log EXCEPT ![n][orig[n].index] = entry]
    BY <1>9 DEF FillSlot
  <2>2. \A d \in Server, i \in Slot : log'[d][i] = log[d][i] \/ log'[d][i] = entry
    BY <2>1 DEF TypeOK
  <2> QED  BY <1>1, <1>9, <2>2, CommandsHeld
<1>10. ASSUME NEW n \in Server, NEW entry, NextSlot(n, entry), Known(entry.cmd),
              accepts' = accepts \cup {Request(n, n)}
       PROVE  AllKnown
  <2>1. orig' = [orig EXCEPT ![n] = [@ EXCEPT !.index = Min(free'[n]), !.prop.num = 0]]
    BY <1>10 DEF NextSlot
  <2>2. \A d \in Server : orig'[d].cmd = orig[d].cmd
    BY <2>1 DEF TypeOK
  <2>3. InOrig
    BY <1>1, <2>2, CommandsHeld
  <2>4. InLog
    BY <1>9, <1>10 DEF NextSlot
  <2>5. InAccepts
    BY <1>1, <1>3, <1>10, CommandsHeld
  <2> HIDE DEF InLog, InOrig, InSent, InReplied, InLate, InAccepts
  <2> QED  BY <1>7, <1>10, <2>3, <2>4, <2>5 DEF NextSlot
<1>11. ASSUME NEW n \in Server, NEW s \in Server, Handle(n, s) PROVE AllKnown
  <2> DEFINE m == Request(n, s)
  <2>1. /\ PaxosRequestHandler(m) /\ UNCHANGED <<pc, orig, sent, late, ops, done>>
        /\ replied' = [replied EXCEPT ![n] = @ \cup {Answer(m)}]
    BY <1>11 DEF Handle
  <2>2. m \in Message /\ Known(m.cmd)
    BY <1>3, RequestTyped
  <2> HIDE DEF m
  <2>3. InLog /\ InAccepts /\ Known(Answer(m).cmd)
    BY <2>1, <2>2, HandlerSpreads
  <2>4. \A d \in Server : replied'[d] \subseteq replied[d] \cup {Answer(m)}
    BY <2>1 DEF TypeOK
  <2>5. InReplied
    BY <1>1, <2>3, <2>4, CommandsHeld
  <2> QED  BY <1>2, <2>1, <2>3, <2>5
<1>12. ASSUME NEW m \in late, HandleLate(m) PROVE AllKnown
  <2>1. PaxosRequestHandler(m) /\ UNCHANGED <<pc, orig, sent, asked, replied, ops, done>>
        /\ late' = late \ {m}
    BY <1>12 DEF HandleLate
  <2>2. m \in Message /\ Known(m.cmd)
    BY <1>1, CommandsHeld DEF TypeOK
  <2>3. InLog /\ InAccepts
    BY <2>1, <2>2, HandlerSpreads
  <2>4. InLate
    BY <1>1, <2>1, CommandsHeld
  <2> QED  BY <1>2, <2>1, <2>3, <2>4
<1>13. ASSUME NEW n \in Server, UpdateLocalValues(n) PROVE AllKnown
  <2>1. log' = [log EXCEPT ![n][orig[n].index].min = orig[n].prop]
        /\ NewPhase(n, Peers(n)) /\ UNCHANGED <<orig, sent, accepts>>
    BY <1>13 DEF UpdateLocalValues, Broadcast
  <2>2. \A d \in Server, i \in Slot : log'[d][i].cmd = log[d][i].cmd
    BY <2>1 DEF TypeOK, Entry
  <2>3. InLog
    BY <1>1, <2>2, CommandsHeld
  <2> QED  BY <1>2, <1>5, <2>1, <2>3
<1>14. ASSUME NEW n \in Server, ReadReturn(n) PROVE AllKnown
  BY <1>2, <1>14 DEF ReadReturn
<1>15. ASSUME NEW n \in Server, NEW resp \in Collected(n), PreparePromised(n, resp) PROVE AllKnown
  <2> DEFINE cmd == IF Highest(resp).prop.num = -1 THEN orig[n].cmd ELSE Highest(resp).cmd
  <2>1. /\ sent' = [sent EXCEPT ![n] = cmd] /\ NewPhase(n, Peers(n))
        /\ UNCHANGED <<acceptor, orig, accepts>>
    BY <1>15 DEF PreparePromised, Broadcast
  <2>2. PICK h \in DOMAIN resp : Highest(resp) = resp[h]
    BY HighestIsGreatest
  <2>3. resp[h] \in replied[n]
    BY CollectedAreReplies
  <2>4. Known(cmd)
    BY <1>1, <2>2, <2>3, CommandsHeld
  <2> HIDE DEF cmd
  <2> QED  BY <1>2, <1>5, <1>6, <2>1, <2>4
<1>16. ASSUME NEW n \in Server, NEW resp \in Collected(n),
              \/ PrepareRefused(n, resp) \/ Overtaken(n, resp) \/ AcceptRefused(n, resp)
       PROVE  AllKnown
  BY <1>8, <1>16 DEF PrepareRefused, Overtaken, AcceptRefused
<1>17. ASSUME NEW n \in Server, NEW resp \in Collected(n), Defeated(n, resp) PROVE AllKnown
  <2> DEFINE entry == [min |-> orig[n].prop, acc |-> orig[n].prop, cmd |-> sent[n]]
  <2>1. NextSlot(n, entry) /\ entry.cmd = sent[n] /\ accepts' = accepts \cup {Request(n, n)}
    BY <1>17 DEF Defeated
  <2> HIDE DEF entry, AllKnown
  <2> QED  BY <1>1, <1>10, <2>1, CommandsHeld
<1>18. ASSUME NEW n \in Server, NEW resp \in Collected(n), AcceptMixed(n, resp) PROVE AllKnown
  <2>1. CASE sent[n].id = orig[n].cmd.id
    BY <1>8, <1>18, <2>1 DEF AcceptMixed
  <2>2. CASE sent[n].id # orig[n].cmd.id
    <3> DEFINE entry == [min |-> Garbage, acc |-> [Garbage EXCEPT !.num = NextNum(resp)],
                         cmd |-> [sent[n] EXCEPT !.type = "NONE", !.value = NoId]]
    <3>1. NextSlot(n, entry) /\ entry.min = Garbage
      BY <1>18, <2>2 DEF AcceptMixed
    <3> HIDE DEF entry
    <3>2. "unset" \in deviations'
      BY <3>1 DEF NextSlot, Deviate, When
    <3> QED  BY <3>2
  <2> QED  BY <2>1, <2>2
<1>19. ASSUME NEW n \in Server, NEW resp \in Collected(n), Inserted(n, resp) PROVE AllKnown
  <2> DEFINE entry == [min |-> orig[n].prop, acc |-> orig[n].prop, cmd |-> orig[n].cmd]
  <2>1. /\ FillSlot(n, entry) /\ EndPhase(n) /\ entry.cmd = orig[n].cmd
        /\ UNCHANGED <<orig, ops, accepts, deviations>>
    BY <1>19 DEF Inserted
  <2> HIDE DEF entry
  <2>2. InLog
    BY <1>1, <1>9, <2>1, CommandsHeld
  <2> QED  BY <1>2, <1>7, <2>1, <2>2
<1>20. ASSUME UNCHANGED vars PROVE AllKnown
  BY <1>2, <1>20 DEF vars
<1>21. ASSUME Held, NEW x \in Commands' PROVE Known(x) \/ \E n \in Server : x = orig'[n].cmd
  <2>1. \/ x \in {log'[n][i].cmd : n \in Server, i \in Slot}
        \/ x \in {orig'[n].cmd : n \in Server} \/ x \in {sent'[n] : n \in Server}
        \/ x \in UNION {{r.cmd : r \in replied'[n]} : n \in Server}
        \/ x \in {m.cmd : m \in late' \cup accepts'}
    BY DEF Commands
  <2>2. CASE x \in {log'[n][i].cmd : n \in Server, i \in Slot}
    BY <1>21, <2>2
  <2>3. CASE x \in {orig'[n].cmd : n \in Server} \/ x \in {sent'[n] : n \in Server}
    BY <1>21, <2>3
  <2>4. CASE x \in UNION {{r.cmd : r \in replied'[n]} : n \in Server}
    <3>1. PICK n \in Server : x \in {r.cmd : r \in replied'[n]}
      BY <2>4
    <3> QED  BY <1>21, <3>1
  <2>5. CASE x \in {m.cmd : m \in late' \cup accepts'}
    BY <1>21, <2>5
  <2> HIDE DEF Held
  <2> QED  BY <2>1, <2>2, <2>3, <2>4, <2>5
<1>22. ASSUME AllKnown, ops' = ops
       PROVE  \E new : /\ \A x \in Commands' : Known(x) \/ x = new
                       /\ ops' = ops /\ Known(new)
  <2>1. Held /\ InOrig
    BY <1>22
  <2> HIDE DEF AllKnown, Held
  <2>2. \A x \in Commands' : Known(x)
    BY <1>21, <2>1
  <2> QED  BY <1>4, <1>22, <2>2
<1>23. ASSUME NEW n \in Server, NEW c \in Clients, NEW type \in Types[c], StartRequest(n, c, type)
       PROVE  \E new : /\ \A x \in Commands' : Known(x) \/ x = new
                       /\ ops' = [ops EXCEPT ![c] = @ + 1] /\ new.id = <<c, ops[c] + 1>>
                       /\ new.value \in {NoId, new.id}
  <2> DEFINE new == [id |-> <<c, ops[c] + 1>>, type |-> type,
                     value |-> IF type = "WRITE" THEN <<c, ops[c] + 1>> ELSE NoId]
             request == [cmd |-> new, index |-> Min(free[n]), prop |-> [num |-> 0, client |-> c]]
  <2>1. /\ ops' = [ops EXCEPT ![c] = @ + 1] /\ orig' = [orig EXCEPT ![n] = request]
        /\ UNCHANGED <<acceptor, sent, phase, history>>
    BY <1>23 DEF StartRequest
  <2>2. /\ request.cmd = new /\ new.id = <<c, ops[c] + 1>>
        /\ new.value \in {NoId, new.id}
    OBVIOUS
  <2> HIDE DEF request, new
  <2>3. \A d \in Server : orig'[d] = orig[d] \/ orig'[d] = request
    BY <2>1 DEF TypeOK
  <2>4. \A d \in Server : Known(orig'[d].cmd) \/ orig'[d].cmd = new
    BY <1>1, <2>2, <2>3, CommandsHeld
  <2>5. Held
    BY <1>2, <2>1
  <2>6. \A x \in Commands' : Known(x) \/ x = new
    <3> HIDE DEF Held
    <3> QED  BY <1>21, <2>4, <2>5
  <2> QED  BY <2>1, <2>2, <2>6
<1>24. ASSUME NEW n \in Server, Propose(n) PROVE AllKnown /\ ops' = ops
  <2> HIDE DEF AllKnown
  <2>1. AllKnown
    BY <1>13, <1>14, <1>15, <1>16, <1>17, <1>18, <1>19, <1>24 DEF Propose
  <2>2. ops' = ops
    BY <1>24 DEF Propose, UpdateLocalValues, ReadReturn, PrepareRefused, PreparePromised, Inserted,
       Overtaken, Defeated, AcceptRefused, AcceptMixed, NextSlot
  <2> QED  BY <2>1, <2>2
<1>25. ASSUME \/ \E n \in Server : Propose(n) \/ \E s \in Server : Handle(n, s)
              \/ \E m \in late : HandleLate(m)
              \/ UNCHANGED vars
       PROVE  AllKnown /\ ops' = ops
  <2> HIDE DEF AllKnown
  <2>1. AllKnown
    BY <1>11, <1>12, <1>20, <1>24, <1>25
  <2>2. ops' = ops
    BY <1>24, <1>25 DEF Handle, HandleLate, vars
  <2> QED  BY <2>1, <2>2
<1> DEFINE Goal ==
      \E new : /\ \A x \in Commands' : Known(x) \/ x = new
               /\ \/ ops' = ops /\ Known(new)
                  \/ \E c \in Clients : /\ ops' = [ops EXCEPT ![c] = @ + 1]
                                        /\ new.id = <<c, ops[c] + 1>>
                                        /\ new.value \in {NoId, new.id}
<1> HIDE DEF AllKnown
<1>26. AllKnown /\ ops' = ops => Goal
  BY <1>22
<1>27. ASSUME NEW n \in Server, NEW c \in Clients, NEW type \in Types[c], StartRequest(n, c, type)
       PROVE  Goal
  BY <1>23, <1>27
<1> HIDE DEF Goal
<1>28. Goal
  BY <1>25, <1>26, <1>27 DEF Next
<1> QED  BY <1>28 DEF Goal

\* No step gives a command_id a second value.
LEMMA OneValuePerIdStep ==
  ASSUME TypeOK, OneValuePerId, [Next]_vars
  PROVE  OneValuePerId'
<1> SUFFICES ASSUME "unset" \notin deviations'
             PROVE  /\ \A x \in Commands' : IF x.id \in Id THEN x.id[2] <= ops'[x.id[1]]
                                            ELSE x.value = NoId
                    /\ \A x, y \in Commands' : x.id = y.id => x.value = y.value
  BY DEF OneValuePerId, Id
<1>1. /\ \A x \in Commands : IF x.id \in Id THEN x.id[2] <= ops[x.id[1]] ELSE x.value = NoId
      /\ \A x, y \in Commands : x.id = y.id => x.value = y.value
  BY HistoryGrows DEF OneValuePerId
<1>2. NoId \notin Id
  BY DEF NoId, Id
<1>3. \A id \in Id : id[1] \in Clients /\ id[2] \in Nat /\ id = <<id[1], id[2]>>
  BY DEF Id
<1>4. ops \in [Clients -> Nat]
  BY DEF TypeOK
<1>5. ASSUME NEW x, Known(x) PROVE IF x.id \in Id THEN x.id[2] <= ops[x.id[1]] ELSE x.value = NoId
  <2>1. CASE x.id = NoId /\ x.value = NoId
    BY <1>2, <2>1
  <2>2. CASE \E y \in Commands : x.id = y.id /\ x.value = y.value
    <3>1. PICK y \in Commands : x.id = y.id /\ x.value = y.value
      BY <2>2
    <3> QED  BY <1>1, <3>1
  <2> QED  BY <1>5, <2>1, <2>2 DEF Known
<1>6. ASSUME NEW x, NEW y, Known(x), Known(y), x.id = y.id PROVE x.value = y.value
  <2>1. CASE x.id = NoId
    BY <1>2, <1>5, <1>6, <2>1
  <2>2. CASE x.id # NoId
    <3>1. PICK v \in Commands : x.id = v.id /\ x.value = v.value
      BY <1>6, <2>2 DEF Known
    <3>2. PICK w \in Commands : y.id = w.id /\ y.value = w.value
      BY <1>6, <2>2 DEF Known
    <3> QED  BY <1>1, <1>6, <3>1, <3>2
  <2> QED  BY <2>1, <2>2
<1>7. PICK new :
        /\ \A x \in Commands' : Known(x) \/ x = new
        /\ \/ ops' = ops /\ Known(new)
           \/ \E c \in Clients : ops' = [ops EXCEPT ![c] = @ + 1] /\ new.id = <<c, ops[c] + 1>>
  BY CommandsStep
<1>8. CASE ops' = ops /\ Known(new)
  <2>1. \A x \in Commands' : Known(x)
    BY <1>7, <1>8
  <2> QED  BY <1>5, <1>6, <1>8, <2>1
<1>9. ASSUME NEW c \in Clients, ops' = [ops EXCEPT ![c] = @ + 1], new.id = <<c, ops[c] + 1>>
      PROVE  /\ \A x \in Commands' : IF x.id \in Id THEN x.id[2] <= ops'[x.id[1]]
                                     ELSE x.value = NoId
             /\ \A x, y \in Commands' : x.id = y.id => x.value = y.value
  <2>1. \A d \in Clients : ops'[d] = IF d = c THEN ops[c] + 1 ELSE ops[d]
    BY <1>4, <1>9
  <2>2. new.id \in Id /\ new.id[1] = c /\ new.id[2] = ops[c] + 1
    BY <1>4, <1>9 DEF Id
  <2>3. ASSUME NEW x, Known(x), x.id \in Id
        PROVE  x.id[2] <= ops'[x.id[1]] /\ x.id # new.id
    <3>1. x.id[2] <= ops[x.id[1]] /\ x.id[1] \in Clients /\ x.id[2] \in Nat
      BY <1>3, <1>5, <2>3
    <3>2. ops[x.id[1]] \in Nat /\ ops[c] \in Nat
      BY <1>4, <3>1
    <3> QED  BY <2>1, <2>2, <3>1, <3>2
  <2>4. new.id[2] <= ops'[new.id[1]]
    BY <1>4, <2>1, <2>2
  <2>5. ASSUME NEW x, Known(x) PROVE x.id # new.id
    BY <1>2, <2>2, <2>3, <2>5
  <2>6. \A x \in Commands' : IF x.id \in Id THEN x.id[2] <= ops'[x.id[1]] ELSE x.value = NoId
    BY <1>5, <1>7, <2>2, <2>3, <2>4
  <2>7. \A x, y \in Commands' : x.id = y.id => x.value = y.value
    BY <1>6, <1>7, <2>5
  <2> QED  BY <2>6, <2>7
<1> QED  BY <1>7, <1>8, <1>9

\* The servers are finitely many, and a majority of the others with the own one
\* is more than half of them.
LEMMA ServersFinite == IsFiniteSet(Server) /\ Cardinality(Server) = N
<1>1. IsFiniteSet(0 .. N - 1) /\ Cardinality(0 .. N - 1) = IF 0 > N - 1 THEN 0 ELSE (N - 1) - 0 + 1
  BY NAssumption, FS_Interval
<1> QED  BY <1>1, NAssumption DEF Server

\* The replies a phase ends with come from a majority of the other servers.
LEMMA RepliersAreMany ==
  ASSUME TypeOK, OneReplyPerServer, NEW n \in Server, NEW resp \in Collected(n)
  PROVE  LET Q == {resp[i].server : i \in DOMAIN resp}
         IN  Q \in SUBSET Peers(n) /\ IsFiniteSet(Q) /\ Cardinality(Q) >= Majority
<1> DEFINE Q == {resp[i].server : i \in DOMAIN resp}
<1>1. PICK k \in Nat : /\ k >= Majority /\ resp \in [1 .. k -> replied[n]] /\ DOMAIN resp = 1 .. k
                       /\ \A i, j \in 1 .. k : i # j => resp[i] # resp[j]
  BY CollectedAreReplies
<1>2. \A i \in 1 .. k : resp[i].server \in Peers(n)
  <2>1. \A r \in replied[n] : r.server \in Server /\ r.server # n
    BY DEF OneReplyPerServer, TypeOK, Response
  <2> QED  BY <1>1, <2>1 DEF Peers
<1>3. Q \in SUBSET Peers(n)
  BY <1>1, <1>2
<1>4. IsFiniteSet(Q)
  BY <1>3, ServersFinite, FS_Subset DEF Peers
<1> DEFINE f == [i \in 1 .. k |-> resp[i].server]
<1>5. f \in Injection(1 .. k, Q)
  <2>1. f \in [1 .. k -> Q]
    BY <1>1
  <2>2. ASSUME NEW i \in 1 .. k, NEW j \in 1 .. k, f[i] = f[j] PROVE i = j
    <3>1. resp[i] \in replied[n] /\ resp[j] \in replied[n] /\ resp[i].server = resp[j].server
      BY <1>1, <2>2
    <3>2. resp[i] = resp[j]
      BY <3>1 DEF OneReplyPerServer
    <3> QED  BY <1>1, <3>2
  <2>3. IsInjective(f)
    BY <2>2 DEF IsInjective
  <2> QED  BY <2>1, <2>3 DEF Injection
<1>6. Cardinality(1 .. k) = k
  BY FS_Interval
<1>7. Cardinality(1 .. k) <= Cardinality(Q)
  <2> HIDE DEF f, Q
  <2> QED  BY <1>4, <1>5, FS_Injection
<1>8. Cardinality(Q) \in Nat
  <2> HIDE DEF Q
  <2> QED  BY <1>4, FS_CardinalityType
<1>9. Cardinality(Q) >= Majority
  <2> HIDE DEF Q
  <2> QED  BY <1>1, <1>6, <1>7, <1>8, MajorityPositive
<1> QED  BY <1>3, <1>4, <1>9

\* When every ACCEPT of a phase was acknowledged, a majority of the other servers
\* took it.
LEMMA AcceptedByQuorum ==
  ASSUME TypeOK, OneReplyPerServer, AcceptedAsSent, NEW n \in Server, NEW resp \in Collected(n),
         AllAccepted(n, resp)
  PROVE  \E a \in accepts, Q \in SUBSET Peers(n) :
           /\ a.index = orig[n].index /\ a.prop = orig[n].prop /\ a.cmd = sent[n]
           /\ Cardinality(Q) >= Majority /\ \A s \in Q : [a EXCEPT !.to = s] \in accepts
<1> DEFINE Q == {resp[i].server : i \in DOMAIN resp}
<1>1. Q \in SUBSET Peers(n) /\ Cardinality(Q) >= Majority
  BY RepliersAreMany
<1>2. pc[n] = "accept" /\ Nacks(resp) = {}
  BY DEF AllAccepted
<1>3. PICK k \in Nat : k >= 1 /\ resp \in [1 .. k -> replied[n]] /\ DOMAIN resp = 1 .. k
  BY CollectedAreReplies
<1>4. ASSUME NEW i \in 1 .. k PROVE Request(n, resp[i].server) \in accepts
  <2>1. ~ IsNack(resp[i]) /\ resp[i] \in replied[n]
    BY <1>2, <1>3, NoNacks
  <2> QED  BY <1>2, <2>1 DEF AcceptedAsSent
<1>5. \A s \in Q : Request(n, s) \in accepts
  BY <1>3, <1>4
<1> DEFINE a == Request(n, resp[1].server)
<1>6. a \in accepts
  BY <1>3, <1>4
<1>7. a.index = orig[n].index /\ a.prop = orig[n].prop /\ a.cmd = sent[n]
  BY <1>2 DEF Request
<1>8. \A s \in Q : [a EXCEPT !.to = s] = Request(n, s)
  BY DEF Request
<1> HIDE DEF a, Q
<1> QED  BY <1>1, <1>5, <1>6, <1>7, <1>8

\* No step inserts a command that a majority of the other servers has not taken.
LEMMA InsertedByQuorumStep ==
  ASSUME TypeOK, OneReplyPerServer, OneValuePerId, AcceptedAsSent, InsertedByQuorum, [Next]_vars
  PROVE  InsertedByQuorum'
<1> DEFINE By(d) == \E a \in accepts, Q \in SUBSET Peers(d.server) :
      /\ a.index = d.index /\ a.prop = d.prop /\ a.cmd.id = d.cmd.id
      /\ a.cmd = d.cmd \/ "unset" \in deviations
      /\ Cardinality(Q) >= Majority /\ \A s \in Q : [a EXCEPT !.to = s] \in accepts
<1> SUFFICES ASSUME NEW d \in done' PROVE By(d)'
  BY DEF InsertedByQuorum
<1>1. accepts \subseteq accepts' /\ deviations \subseteq deviations'
  BY HistoryGrows
<1>2. ASSUME By(d) PROVE By(d)'
  <2>1. PICK a \in accepts, Q \in SUBSET Peers(d.server) :
          /\ a.index = d.index /\ a.prop = d.prop /\ a.cmd.id = d.cmd.id
          /\ a.cmd = d.cmd \/ "unset" \in deviations
          /\ Cardinality(Q) >= Majority /\ \A s \in Q : [a EXCEPT !.to = s] \in accepts
    BY <1>2
  <2> QED  BY <1>1, <2>1 DEF Peers, Server, Majority
<1>3. CASE d \in done
  <2>1. By(d)
    BY <1>3 DEF InsertedByQuorum
  <2> QED  BY <1>2, <2>1
<1>4. ASSUME NEW n \in Server, NEW resp \in Collected(n), Inserted(n, resp),
             d = [server |-> n, index |-> orig[n].index, prop |-> orig[n].prop, cmd |-> orig[n].cmd]
      PROVE  By(d)
  <2>1. PICK a \in accepts, Q \in SUBSET Peers(n) :
          /\ a.index = orig[n].index /\ a.prop = orig[n].prop /\ a.cmd = sent[n]
          /\ Cardinality(Q) >= Majority /\ \A s \in Q : [a EXCEPT !.to = s] \in accepts
    BY <1>4, AcceptedByQuorum DEF Inserted
  <2>2. /\ d.server = n /\ d.index = orig[n].index /\ d.prop = orig[n].prop
        /\ d.cmd = orig[n].cmd
    BY <1>4
  <2>3. sent[n].id = orig[n].cmd.id /\ sent[n].type = orig[n].cmd.type
    BY <1>4 DEF Inserted, AllAccepted, AcceptedAsSent
  <2>4. sent[n].value = orig[n].cmd.value \/ "unset" \in deviations
    BY <2>3, CommandsHeld DEF OneValuePerId
  <2>5. sent[n].value = orig[n].cmd.value => sent[n] = orig[n].cmd
    BY <2>3, TypedParts DEF Command
  <2> QED  BY <2>1, <2>2, <2>3, <2>4, <2>5
<1>5. ASSUME d \notin done
      PROVE  \E n \in Server : \E resp \in Collected(n) :
               /\ Inserted(n, resp)
               /\ d = [server |-> n, index |-> orig[n].index, prop |-> orig[n].prop,
                       cmd |-> orig[n].cmd]
  <2>1. done' # done
    BY <1>5
  <2>2. ASSUME NEW n \in Server, Propose(n) PROVE \E resp \in Collected(n) : Inserted(n, resp)
    BY <2>1, <2>2 DEF history, Propose, UpdateLocalValues, ReadReturn, PrepareRefused,
       PreparePromised, Overtaken, Defeated, AcceptRefused, AcceptMixed, NextSlot
  <2>3. \E n \in Server : Propose(n)
    BY <2>1 DEF Next, vars, history, StartRequest, Handle, HandleLate
  <2>4. PICK n \in Server : \E resp \in Collected(n) : Inserted(n, resp)
    BY <2>2, <2>3
  <2>5. PICK resp \in Collected(n) : Inserted(n, resp)
    BY <2>4
  <2> QED  BY <1>5, <2>5 DEF Inserted
<1> QED  BY <1>2, <1>3, <1>4, <1>5

\* Only the servers that took it, and the kind of message, tell apart the ACCEPTs
\* for a proposal: they are finitely many.
LEMMA AcceptsForProposalFinite ==
  ASSUME TypeOK, OneCommandInFlight, NEW i, NEW p,
         NEW S, S \subseteq {a \in accepts : a.index = i /\ a.prop = p}
  PROVE  IsFiniteSet(S)
<1> DEFINE T == Server \X {"PREPARE", "ACCEPT"}
           f == [a \in S |-> <<a.to, a.kind>>]
<1>1. IsFiniteSet(T)
  <2>1. IsFiniteSet({"PREPARE"}) /\ IsFiniteSet({"ACCEPT"})
    BY FS_Singleton
  <2>2. IsFiniteSet({"PREPARE"} \cup {"ACCEPT"})
    BY <2>1, FS_Union
  <2>3. IsFiniteSet({"PREPARE", "ACCEPT"})
    <3>1. {"PREPARE", "ACCEPT"} = {"PREPARE"} \cup {"ACCEPT"}
      OBVIOUS
    <3> QED  BY <2>2, <3>1
  <2> QED  BY <2>3, ServersFinite, FS_Product
<1>2. S \subseteq accepts /\ accepts \subseteq Message
  BY DEF TypeOK
<1>3. f \in [S -> T]
  BY <1>2 DEF Message
<1>4. ASSUME NEW a \in S, NEW b \in S, f[a] = f[b] PROVE a = b
  <2>1. a.to = b.to /\ a.kind = b.kind
    BY <1>4
  <2>2. a.index = b.index /\ a.prop = b.prop
    OBVIOUS
  <2>3. a.cmd = b.cmd
    BY <2>2 DEF OneCommandInFlight, Accepting
  <2> QED  BY <1>2, <2>1, <2>2, <2>3 DEF Message
<1>5. f \in Injection(S, T)
  <2>1. IsInjective(f)
    BY <1>4 DEF IsInjective
  <2> QED  BY <1>3, <2>1 DEF Injection
<1> HIDE DEF f, T
<1> QED  BY <1>1, <1>5, FS_Injection

\* The quorum behind an inserted command accounts for a majority of acceptances.
LEMMA QuorumIsMajority ==
  ASSUME TypeOK, OneCommandInFlight, InsertedByQuorum
  PROVE  InsertedByMajority
<1> SUFFICES ASSUME NEW d \in done
             PROVE  Cardinality({a \in accepts : /\ a.index = d.index /\ a.prop = d.prop
                                                 /\ a.cmd.id = d.cmd.id
                                                 /\ a.cmd = d.cmd \/ "unset" \in deviations})
                      >= Majority
  BY DEF InsertedByMajority
<1> DEFINE S == {a \in accepts : /\ a.index = d.index /\ a.prop = d.prop /\ a.cmd.id = d.cmd.id
                                 /\ a.cmd = d.cmd \/ "unset" \in deviations}
<1>1. PICK a \in accepts, Q \in SUBSET Peers(d.server) :
        /\ a.index = d.index /\ a.prop = d.prop /\ a.cmd.id = d.cmd.id
        /\ a.cmd = d.cmd \/ "unset" \in deviations
        /\ Cardinality(Q) >= Majority /\ \A s \in Q : [a EXCEPT !.to = s] \in accepts
  BY DEF InsertedByQuorum
<1>2. IsFiniteSet(S)
  <2>1. S \subseteq {b \in accepts : b.index = d.index /\ b.prop = d.prop}
    OBVIOUS
  <2> HIDE DEF S
  <2> QED  BY <2>1, AcceptsForProposalFinite
<1>3. IsFiniteSet(Q)
  BY ServersFinite, FS_Subset DEF Peers
<1> DEFINE f == [s \in Q |-> [a EXCEPT !.to = s]]
<1>4. a \in Message
  BY DEF TypeOK
<1>5. \A s \in Q : f[s] \in S /\ f[s].to = s
  BY <1>1, <1>4 DEF Message
<1>6. f \in Injection(Q, S)
  <2>1. IsInjective(f)
    BY <1>5 DEF IsInjective
  <2>2. f \in [Q -> S]
    BY <1>5
  <2> QED  BY <2>1, <2>2 DEF Injection
<1>7. Cardinality(Q) <= Cardinality(S)
  <2> HIDE DEF f, S
  <2> QED  BY <1>2, <1>6, FS_Injection
<1>8. Cardinality(Q) \in Nat /\ Cardinality(S) \in Nat
  <2> HIDE DEF S
  <2> QED  BY <1>2, <1>3, FS_CardinalityType
<1>9. Cardinality(S) >= Majority
  <2> HIDE DEF S
  <2> QED  BY <1>1, <1>7, <1>8, MajorityPositive
<1> QED  BY <1>9

-----------------------------------------------------------------------------
(* Agreement where Paxos was not departed from.                             *)

\* Every vote was accepted by some server, and under a proposal of a client.
LEMMA VotesWereAccepted ==
  ASSUME TypeOK, ProposalsAreFresh, InsertedByQuorum,
         NEW s, NEW i, NEW p, NEW id \in Votes(s, i, p)
  PROVE  Accepted(i, p, id) /\ p \in Tried /\ p.num >= 0
<1>1. CASE \E a \in accepts : a.index = i /\ a.prop = p /\ a.cmd.id = id
  <2>1. PICK a \in accepts : a.index = i /\ a.prop = p /\ a.cmd.id = id
    BY <1>1
  <2>2. a \in Accepting /\ a \in Message
    BY DEF Accepting, TypeOK
  <2> QED  BY <1>1, <2>1, <2>2 DEF Accepted, ProposalsAreFresh, Fresh, Message
<1>2. CASE \E d \in done : d.index = i /\ d.prop = p /\ d.cmd.id = id
  BY <1>1, <1>2 DEF InsertedByQuorum
<1> QED  BY <1>1, <1>2 DEF Votes

\* Under a proposal only one command is accepted, and voted for.
LEMMA VotesAgree ==
  ASSUME TypeOK, ProposalsAreFresh, OneCommandInFlight, InsertedByQuorum, NEW i, NEW p
  PROVE  /\ \A x, y : Accepted(i, p, x) /\ Accepted(i, p, y) => x = y
         /\ \A s, t : \A x \in Votes(s, i, p), y \in Votes(t, i, p) : x = y
<1>1. ASSUME NEW x, NEW y, Accepted(i, p, x), Accepted(i, p, y) PROVE x = y
  <2>1. PICK a \in accepts : a.index = i /\ a.prop = p /\ a.cmd.id = x
    BY <1>1 DEF Accepted
  <2>2. PICK b \in accepts : b.index = i /\ b.prop = p /\ b.cmd.id = y
    BY <1>1 DEF Accepted
  <2> QED  BY <2>1, <2>2 DEF OneCommandInFlight, Accepting
<1> QED  BY <1>1, VotesWereAccepted

\* How an entry of a log changes when Paxos is not departed from: its promise does
\* not fall, and what is accepted, or voted for, is accepted at the promise.
EntryMoves(s, i) ==
  /\ ~ Less(log'[s][i].min, log[s][i].min)
  /\ \/ /\ log'[s][i].acc = log[s][i].acc /\ log'[s][i].cmd.id = log[s][i].cmd.id
        /\ \A p : Votes(s, i, p)' = Votes(s, i, p)
     \/ /\ log'[s][i].acc = log'[s][i].min
        /\ \E a \in accepts' : /\ a.index = i /\ a.prop = log'[s][i].acc
                               /\ a.cmd.id = log'[s][i].cmd.id
        /\ \A p : p # log'[s][i].acc => Votes(s, i, p)' = Votes(s, i, p)

\* A step that leaves the log and the votes alone moves no entry.
LEMMA EntryStays ==
  ASSUME TypeOK, NEW s \in Server, NEW i \in Slot, log'[s][i] = log[s][i],
         \A p : Votes(s, i, p)' = Votes(s, i, p)
  PROVE  EntryMoves(s, i)
<1>1. log[s][i].min \in Proposal
  BY TypedParts, TriedIsProposal DEF Entry
<1> QED  BY <1>1, LessTotal DEF EntryMoves

\* The acceptor moves entries in this way unless it takes an ACCEPT below its promise.
LEMMA HandlerMoves ==
  ASSUME TypeOK, NEW m \in Message, PaxosRequestHandler(m), done' = done, deviations' = {},
         NEW s \in Server, NEW i \in Slot
  PROVE  EntryMoves(s, i)
<1>1. /\ log \in [Server -> [Slot -> Entry]] /\ m.to \in Server /\ m.index \in Slot
      /\ m.prop \in Proposal
  BY TriedIsProposal DEF TypeOK, Message
<1>2. log[s][i].min \in Proposal
  BY <1>1, TriedIsProposal DEF Entry
<1>3. CASE Promise(m)
  <2>1. log' = [log EXCEPT ![m.to][m.index].min = m.prop] /\ accepts' = accepts
    BY <1>3 DEF Promise
  <2>2. \A p : Votes(s, i, p)' = Votes(s, i, p)
    BY <2>1 DEF Votes
  <2>3. CASE s = m.to /\ i = m.index
    <3>1. /\ log'[s][i].min = m.prop /\ log'[s][i].acc = log[s][i].acc
          /\ log'[s][i].cmd = log[s][i].cmd
      BY <1>1, <2>1, <2>3 DEF Entry
    <3>2. ~ Less(m.prop, log[s][i].min)
      BY <1>1, <1>2, <1>3, <2>3, LessTotal DEF Promise, Promiseable
    <3> QED  BY <2>2, <3>1, <3>2 DEF EntryMoves
  <2>4. CASE ~ (s = m.to /\ i = m.index)
    <3>1. log'[s][i] = log[s][i]
      BY <1>1, <2>1, <2>4
    <3> QED  BY <2>2, <3>1, EntryStays
  <2> QED  BY <2>3, <2>4
<1>4. CASE Accept(m)
  <2> DEFINE e == [min |-> m.prop, acc |-> m.prop, cmd |-> m.cmd]
  <2>1. /\ log' = [log EXCEPT ![m.to][m.index] = e] /\ accepts' = accepts \cup {m}
        /\ Deviate(When(Less(m.prop, log[m.to][m.index].min), "tie"))
    BY <1>4 DEF Accept
  <2>2. \A p : ~ (s = m.to /\ i = m.index /\ p = m.prop) => Votes(s, i, p)' = Votes(s, i, p)
    BY <2>1 DEF Votes
  <2>3. CASE s = m.to /\ i = m.index
    <3>1. log'[s][i] = e
      BY <1>1, <2>1, <2>3
    <3>2. log'[s][i].min = m.prop /\ log'[s][i].acc = m.prop /\ log'[s][i].cmd = m.cmd
      BY <3>1
    <3>3. ~ Less(m.prop, log[s][i].min)
      BY <2>1, <2>3 DEF Deviate, When
    <3>4. m \in accepts' /\ m.index = i
      BY <2>1, <2>3
    <3> HIDE DEF e
    <3> QED  BY <2>2, <3>2, <3>3, <3>4 DEF EntryMoves
  <2>4. CASE ~ (s = m.to /\ i = m.index)
    <3>1. log'[s][i] = log[s][i]
      BY <1>1, <2>1, <2>4
    <3> QED  BY <2>2, <2>4, <3>1, EntryStays
  <2> QED  BY <2>3, <2>4
<1>5. CASE Nack(m)
  BY <1>5, EntryStays DEF Nack, acceptor, Votes
<1> QED  BY <1>3, <1>4, <1>5 DEF PaxosRequestHandler

\* A proposer moves the entry it fills in this way when it still has its promise.
LEMMA FillMoves ==
  ASSUME TypeOK, OneReplyPerServer, AcceptedAsSent, [Next]_vars,
         NEW n \in Server, NEW resp \in Collected(n), AllAccepted(n, resp), StillPromised(n),
         NEW cmd, cmd.id = sent[n].id,
         FillSlot(n, [min |-> orig[n].prop, acc |-> orig[n].prop, cmd |-> cmd]),
         \A a \in accepts' : a \in accepts \/ (a.to = n /\ a.index = orig[n].index /\ a.prop = orig[n].prop),
         \A d \in done' : d \in done \/ (d.server = n /\ d.index = orig[n].index /\ d.prop = orig[n].prop),
         NEW s \in Server, NEW i \in Slot
  PROVE  EntryMoves(s, i)
<1> DEFINE e == [min |-> orig[n].prop, acc |-> orig[n].prop, cmd |-> cmd]
<1>1. log' = [log EXCEPT ![n][orig[n].index] = e]
  BY DEF FillSlot
<1>2. log \in [Server -> [Slot -> Entry]] /\ orig[n].index \in Slot /\ orig[n].prop \in Proposal
  BY TypedParts, TriedIsProposal DEF TypeOK
<1>3. done \subseteq done' /\ accepts \subseteq accepts'
  BY HistoryGrows
<1>4. ASSUME NEW p, ~ (s = n /\ i = orig[n].index /\ p = orig[n].prop)
      PROVE  Votes(s, i, p)' = Votes(s, i, p)
  <2>1. {d \in done' : d.server = s /\ d.index = i /\ d.prop = p}
          = {d \in done : d.server = s /\ d.index = i /\ d.prop = p}
    BY <1>3, <1>4
  <2>2. {a \in accepts' : a.to = s /\ a.index = i /\ a.prop = p}
          = {a \in accepts : a.to = s /\ a.index = i /\ a.prop = p}
    BY <1>3, <1>4
  <2> QED  BY <2>1, <2>2 DEF Votes
<1>5. CASE s = n /\ i = orig[n].index
  <2>1. log'[s][i] = e
    BY <1>1, <1>2, <1>5
  <2>2. log'[s][i].min = orig[n].prop /\ log'[s][i].acc = orig[n].prop /\ log'[s][i].cmd = cmd
    BY <2>1
  <2>3. ~ Less(orig[n].prop, log[s][i].min)
    BY <1>2, <1>5, LessTotal DEF StillPromised
  <2>4. PICK a \in accepts' : a.index = i /\ a.prop = orig[n].prop /\ a.cmd = sent[n]
    BY <1>3, <1>5, AcceptedByQuorum
  <2> HIDE DEF e
  <2> QED  BY <1>4, <2>2, <2>3, <2>4 DEF EntryMoves
<1>6. CASE ~ (s = n /\ i = orig[n].index)
  <2>1. log'[s][i] = log[s][i]
    BY <1>1, <1>2, <1>6
  <2> QED  BY <1>4, <1>6, <2>1, EntryStays
<1> QED  BY <1>5, <1>6

\* Where Paxos was not departed from, every step moves entries in this way.
LEMMA EntryStep ==
  ASSUME TypeOK, OneReplyPerServer, AcceptedAsSent, [Next]_vars, deviations' = {},
         NEW s \in Server, NEW i \in Slot
  PROVE  EntryMoves(s, i)
<1> USE DEF acceptor, phase, history
<1>1. ASSUME log' = log, accepts' = accepts, done' = done PROVE EntryMoves(s, i)
  BY <1>1, EntryStays DEF Votes
<1>2. ASSUME NEW n \in Server, NEW t \in Server, Handle(n, t) PROVE EntryMoves(s, i)
  <2>1. Request(n, t) \in Message
    BY RequestTyped
  <2> QED  BY <1>2, <2>1, HandlerMoves DEF Handle
<1>3. ASSUME NEW m \in late, HandleLate(m) PROVE EntryMoves(s, i)
  <2>1. m \in Message
    BY DEF TypeOK
  <2> QED  BY <1>3, <2>1, HandlerMoves DEF HandleLate
<1>4. ASSUME NEW n \in Server, NEW c \in Clients, NEW type \in Types[c], StartRequest(n, c, type)
      PROVE  EntryMoves(s, i)
  BY <1>1, <1>4 DEF StartRequest
<1>5. ASSUME NEW n \in Server, UpdateLocalValues(n) PROVE EntryMoves(s, i)
  <2>1. /\ log' = [log EXCEPT ![n][orig[n].index].min = orig[n].prop]
        /\ Deviate(When(Overwrites(n), "overwritten"))
        /\ accepts' = accepts /\ done' = done
    BY <1>5 DEF UpdateLocalValues
  <2>2. \A p : Votes(s, i, p)' = Votes(s, i, p)
    BY <2>1 DEF Votes
  <2>3. log \in [Server -> [Slot -> Entry]] /\ orig[n].index \in Slot
    BY TypedParts DEF TypeOK
  <2>4. CASE s = n /\ i = orig[n].index
    <3>1. /\ log'[s][i].min = orig[n].prop /\ log'[s][i].acc = log[s][i].acc
          /\ log'[s][i].cmd = log[s][i].cmd
      BY <2>1, <2>3, <2>4 DEF Entry
    <3>2. ~ Overwrites(n)
      BY <2>1 DEF Deviate, When
    <3>3. ~ Less(orig[n].prop, log[s][i].min)
      BY <2>4, <3>2 DEF Overwrites
    <3> QED  BY <2>2, <3>1, <3>3 DEF EntryMoves
  <2>5. CASE ~ (s = n /\ i = orig[n].index)
    <3>1. log'[s][i] = log[s][i]
      BY <2>1, <2>3, <2>5
    <3> QED  BY <2>2, <3>1, EntryStays
  <2> QED  BY <2>4, <2>5
<1>6. ASSUME NEW n \in Server, ReadReturn(n) PROVE EntryMoves(s, i)
  BY <1>1, <1>6 DEF ReadReturn
<1>7. ASSUME NEW n \in Server, NEW resp \in Collected(n),
             \/ PrepareRefused(n, resp) \/ PreparePromised(n, resp) \/ Overtaken(n, resp)
             \/ AcceptRefused(n, resp)
      PROVE  EntryMoves(s, i)
  BY <1>1, <1>7 DEF PrepareRefused, PreparePromised, Overtaken, AcceptRefused
<1>8. ASSUME NEW n \in Server, NEW resp \in Collected(n), Inserted(n, resp)
      PROVE  EntryMoves(s, i)
  <2>1. /\ AllAccepted(n, resp) /\ StillPromised(n) /\ orig[n].cmd.id = sent[n].id
        /\ FillSlot(n, [min |-> orig[n].prop, acc |-> orig[n].prop, cmd |-> orig[n].cmd])
        /\ accepts' = accepts
        /\ done' = done \cup {[server |-> n, index |-> orig[n].index, prop |-> orig[n].prop,
                               cmd |-> orig[n].cmd]}
    BY <1>8 DEF Inserted
  <2>2. \A d \in done' : d \in done \/ (d.server = n /\ d.index = orig[n].index /\ d.prop = orig[n].prop)
    BY <2>1
  <2> QED  BY <2>1, <2>2, FillMoves
<1>9. ASSUME NEW n \in Server, NEW resp \in Collected(n), Defeated(n, resp)
      PROVE  EntryMoves(s, i)
  <2> DEFINE e == [min |-> orig[n].prop, acc |-> orig[n].prop, cmd |-> sent[n]]
  <2>1. AllAccepted(n, resp) /\ NextSlot(n, e)
    BY <1>9 DEF Defeated
  <2>2. FillSlot(n, e) /\ accepts' = accepts \cup {Request(n, n)} /\ done' = done
    BY <1>9, <2>1 DEF NextSlot, Defeated
  <2>3. StillPromised(n)
    <3>1. Deviate(When(~ StillPromised(n), "replaced") \cup When(e.min = Garbage, "unset"))
      BY <2>1 DEF NextSlot
    <3> HIDE DEF e
    <3>2. "replaced" \in When(~ StillPromised(n), "replaced") => "replaced" \in deviations'
      BY <3>1 DEF Deviate
    <3> QED  BY <3>2 DEF When
  <2>4. /\ \A a \in accepts' :
             a \in accepts \/ (a.to = n /\ a.index = orig[n].index /\ a.prop = orig[n].prop)
        /\ \A d \in done' :
             d \in done \/ (d.server = n /\ d.index = orig[n].index /\ d.prop = orig[n].prop)
    BY <2>2 DEF Request
  <2> HIDE DEF e
  <2>5. e = [min |-> orig[n].prop, acc |-> orig[n].prop, cmd |-> sent[n]]
    BY DEF e
  <2> QED  BY <2>1, <2>2, <2>3, <2>4, <2>5, FillMoves
<1>10. ASSUME NEW n \in Server, NEW resp \in Collected(n), AcceptMixed(n, resp)
       PROVE  EntryMoves(s, i)
  <2>1. CASE sent[n].id = orig[n].cmd.id
    BY <1>1, <1>10, <2>1 DEF AcceptMixed
  <2>2. CASE sent[n].id # orig[n].cmd.id
    <3> DEFINE e == [min |-> Garbage, acc |-> [Garbage EXCEPT !.num = NextNum(resp)],
                     cmd |-> [sent[n] EXCEPT !.type = "NONE", !.value = NoId]]
    <3>1. NextSlot(n, e) /\ e.min = Garbage
      BY <1>10, <2>2 DEF AcceptMixed
    <3> HIDE DEF e
    <3>2. "unset" \in deviations'
      BY <3>1 DEF NextSlot, Deviate, When
    <3> QED  BY <3>2
  <2> QED  BY <2>1, <2>2
<1>11. ASSUME UNCHANGED vars PROVE EntryMoves(s, i)
  BY <1>1, <1>11 DEF vars
<1>12. ASSUME NEW n \in Server, Propose(n) PROVE EntryMoves(s, i)
  BY <1>5, <1>6, <1>7, <1>8, <1>9, <1>10, <1>12 DEF Propose
<1> QED  BY <1>2, <1>3, <1>4, <1>11, <1>12 DEF Next

\* The promise and the accepted proposal of an entry are proposals.
LEMMA EntryTyped ==
  ASSUME TypeOK, NEW s \in Server, NEW i \in Slot
  PROVE  log[s][i].min \in Proposal /\ log[s][i].acc \in Proposal
BY TypedParts, TriedIsProposal DEF Entry

LEMMA EntryTypedNext ==
  ASSUME TypeOK', NEW s \in Server, NEW i \in Slot
  PROVE  log'[s][i].min \in Proposal /\ log'[s][i].acc \in Proposal
BY TriedIsProposal DEF TypeOK, Entry

\* No vote is forgotten by the entry it is for.
LEMMA VotesAreRecordedStep ==
  ASSUME TypeOK, TypeOK', OneReplyPerServer, AcceptedAsSent, VotesAreRecorded, [Next]_vars,
         deviations' = {}
  PROVE  VotesAreRecorded'
<1> SUFFICES ASSUME NEW s \in Server, NEW i \in Slot
             PROVE  /\ ~ Less(log'[s][i].min, log'[s][i].acc)
                    /\ log'[s][i].acc # NoProposal
                         => \E a \in accepts' : /\ a.index = i /\ a.prop = log'[s][i].acc
                                                /\ a.cmd.id = log'[s][i].cmd.id
                    /\ \A p \in Tried : Votes(s, i, p)' # {} => ~ Less(log'[s][i].acc, p)
  BY DEF VotesAreRecorded, Accepted, Less, NoProposal, Tried
<1> DEFINE old == log[s][i]
           new == log'[s][i]
<1>1. /\ ~ Less(old.min, old.acc)
      /\ old.acc # NoProposal => \E a \in accepts : /\ a.index = i /\ a.prop = old.acc
                                                    /\ a.cmd.id = old.cmd.id
      /\ \A p \in Tried : Votes(s, i, p) # {} => ~ Less(old.acc, p)
  BY DEF VotesAreRecorded, Accepted
<1>2. EntryMoves(s, i)
  BY EntryStep
<1>3. /\ old.min \in Proposal /\ old.acc \in Proposal /\ new.min \in Proposal
      /\ new.acc \in Proposal
  BY EntryTyped, EntryTypedNext
<1>4. ~ Less(new.min, old.min)
  BY <1>2 DEF EntryMoves
<1>5. accepts \subseteq accepts'
  BY HistoryGrows
<1>6. CASE /\ new.acc = old.acc /\ new.cmd.id = old.cmd.id
           /\ \A p : Votes(s, i, p)' = Votes(s, i, p)
  <2>1. ~ Less(new.min, new.acc)
    <3> HIDE DEF old, new
    <3> QED  BY <1>1, <1>3, <1>4, <1>6, LessTransitive
  <2> QED  BY <1>1, <1>5, <1>6, <2>1
<1>7. CASE /\ new.acc = new.min
           /\ \E a \in accepts' : a.index = i /\ a.prop = new.acc /\ a.cmd.id = new.cmd.id
           /\ \A p : p # new.acc => Votes(s, i, p)' = Votes(s, i, p)
  <2>1. ~ Less(new.min, new.acc)
    <3> HIDE DEF new
    <3> QED  BY <1>3, <1>7, LessTotal
  <2>2. ASSUME NEW p \in Tried, Votes(s, i, p)' # {} PROVE ~ Less(new.acc, p)
    <3>1. p \in Proposal
      BY TriedIsProposal
    <3>2. CASE p = new.acc
      <4> HIDE DEF new
      <4> QED  BY <1>3, <3>2, LessTotal
    <3>3. CASE p # new.acc
      <4>1. ~ Less(old.acc, p)
        BY <1>1, <1>7, <2>2, <3>3
      <4> HIDE DEF new, old
      <4>2. ~ Less(old.min, p)
        BY <1>1, <1>3, <3>1, <4>1, LessTransitive
      <4>3. ~ Less(new.min, p)
        BY <1>3, <1>4, <3>1, <4>2, LessTransitive
      <4> QED  BY <1>7, <4>3
    <3> QED  BY <3>2, <3>3
  <2> QED  BY <1>7, <2>1, <2>2
<1> QED  BY <1>2, <1>6, <1>7 DEF EntryMoves

\* A promise once given is not broken by a later step.
LEMMA PromisedStays ==
  ASSUME TypeOK, TypeOK', OneReplyPerServer, AcceptedAsSent, [Next]_vars, deviations' = {},
         NEW s \in Server, NEW i \in Slot, NEW p \in Tried, NEW acc, Promised(s, i, p, acc)
  PROVE  Promised(s, i, p, acc)'
<1> DEFINE old == log[s][i]
           new == log'[s][i]
<1>1. /\ old.min \in Proposal /\ new.min \in Proposal /\ new.acc \in Proposal /\ p \in Proposal
  BY EntryTyped, EntryTypedNext, TriedIsProposal
<1>2. EntryMoves(s, i)
  BY EntryStep
<1>3. ~ Less(old.min, p) /\ ~ Less(new.min, old.min)
  BY <1>2 DEF EntryMoves, Promised
<1>4. ~ Less(new.min, p)
  <2> HIDE DEF old, new
  <2> QED  BY <1>1, <1>3, LessTransitive
<1>5. ASSUME NEW q \in Tried, Less(acc, q), Less(q, p) PROVE Votes(s, i, q)' = {}
  <2>1. Votes(s, i, q) = {}
    BY <1>5 DEF Promised
  <2>2. q # new.min
    BY <1>4, <1>5
  <2> QED  BY <1>2, <2>1, <2>2 DEF EntryMoves
<1> QED  BY <1>4, <1>5 DEF Promised, Less, Tried

\* Nor is what a server has voted, or will never vote.
LEMMA VotedOrWontStays ==
  ASSUME TypeOK, TypeOK', OneReplyPerServer, AcceptedAsSent, [Next]_vars, deviations' = {},
         NEW s \in Server, NEW i \in Slot, NEW q \in Tried, NEW id, VotedOrWont(s, i, q, id)
  PROVE  VotedOrWont(s, i, q, id)'
<1>1. CASE id \in Votes(s, i, q)
  <2>1. accepts \subseteq accepts' /\ done \subseteq done'
    BY HistoryGrows
  <2>2. id \in Votes(s, i, q)'
    BY <1>1, <2>1 DEF Votes
  <2> QED  BY <2>2 DEF VotedOrWont
<1>2. CASE Votes(s, i, q) = {} /\ Less(q, log[s][i].min)
  <2>1. EntryMoves(s, i)
    BY EntryStep
  <2>2. log[s][i].min \in Proposal /\ log'[s][i].min \in Proposal /\ q \in Proposal
    BY EntryTyped, EntryTypedNext, TriedIsProposal
  <2>3. ~ Less(log'[s][i].min, log[s][i].min)
    BY <2>1 DEF EntryMoves
  <2>4. Less(q, log'[s][i].min)
    BY <1>2, <2>2, <2>3, LessTransitive
  <2>5. q # log'[s][i].min
    BY <2>2, <2>4, LessTotal
  <2>6. Votes(s, i, q)' = {}
    BY <1>2, <2>1, <2>5 DEF EntryMoves
  <2> QED  BY <2>4, <2>6 DEF VotedOrWont, Less
<1> QED  BY <1>1, <1>2 DEF VotedOrWont

\* What is safe stays safe.
LEMMA SafeAtStays ==
  ASSUME TypeOK, TypeOK', OneReplyPerServer, AcceptedAsSent, [Next]_vars, deviations' = {},
         NEW i \in Slot, NEW p, NEW id, SafeAt(i, p, id)
  PROVE  SafeAt(i, p, id)'
<1> SUFFICES ASSUME NEW q \in Tried, Less(q, p)
             PROVE  \E Q \in SUBSET Server : /\ Cardinality(Q) > Majority
                                             /\ \A s \in Q : VotedOrWont(s, i, q, id)'
  BY DEF SafeAt, Less, Tried, Server, Majority
<1>1. PICK Q \in SUBSET Server : /\ Cardinality(Q) > Majority
                                 /\ \A s \in Q : VotedOrWont(s, i, q, id)
  BY DEF SafeAt
<1>2. \A s \in Q : VotedOrWont(s, i, q, id)'
  BY <1>1, VotedOrWontStays
<1> QED  BY <1>1, <1>2

\* Acknowledgements of a PREPARE go on being promises.
LEMMA PromisesAreKeptStep ==
  ASSUME TypeOK, TypeOK', OneReplyPerServer, RefusalsAreHigher, AcceptedAsSent,
         VotesAreRecorded, VotesAreRecorded', PromisesAreKept, [Next]_vars, deviations' = {}
  PROVE  PromisesAreKept'
<1> SUFFICES ASSUME NEW n \in Server, pc'[n] = "prepare"
             PROVE  /\ Promised(n, orig[n].index, orig[n].prop, NoProposal)'
                    /\ \A r \in replied'[n] : ~ IsNack(r) =>
                         /\ Promised(r.server, orig[n].index, orig[n].prop, r.prop)'
                         /\ r.prop # NoProposal => Accepted(orig[n].index, r.prop, r.cmd.id)'
  BY DEF PromisesAreKept, IsNack
<1> DEFINE i == orig[n].index
           p == orig[n].prop
           Kept(r) == /\ Promised(r.server, i, p, r.prop)
                      /\ r.prop # NoProposal => Accepted(i, r.prop, r.cmd.id)
<1>1. i \in Slot /\ p \in Tried /\ p \in Proposal
  BY TypedParts, TriedIsProposal
<1>2. ASSUME NEW s \in Server, NEW acc, Promised(s, i, p, acc), orig'[n] = orig[n]
      PROVE  Promised(s, i, p, acc)'
  <2>1. \A j \in Slot, q \in Tried : Promised(s, j, q, acc) => Promised(s, j, q, acc)'
    BY PromisedStays
  <2> HIDE DEF i, p
  <2>2. i' = i /\ p' = p
    BY <1>2 DEF i, p
  <2> QED  BY <1>1, <1>2, <2>1, <2>2 DEF Promised
<1>3. accepts \subseteq accepts'
  BY HistoryGrows
<1>4. \A r \in replied[n] : r.server \in Server
  BY DEF TypeOK, Response
<1>5. ASSUME pc[n] = "prepare", orig'[n] = orig[n]
      PROVE  /\ Promised(n, i, p, NoProposal)'
             /\ \A r \in replied[n] : ~ IsNack(r) => Kept(r)'
  <2>1. /\ Promised(n, i, p, NoProposal)
        /\ \A r \in replied[n] : ~ IsNack(r) => Kept(r)
    BY <1>5 DEF PromisesAreKept
  <2>2. ASSUME NEW r \in replied[n], ~ IsNack(r) PROVE Kept(r)'
    <3>1. Promised(r.server, i, p, r.prop)'
      BY <1>2, <1>4, <1>5, <2>1, <2>2
    <3>2. r.prop # NoProposal => Accepted(i, r.prop, r.cmd.id)'
      BY <1>3, <1>5, <2>1, <2>2 DEF Accepted
    <3> QED  BY <3>1, <3>2
  <2> QED  BY <1>2, <1>5, <2>1, <2>2
<1>6. CASE Keeps(n)
  BY <1>5, <1>6 DEF Keeps
<1>7. CASE Answered(n)
  <2>1. PICK s \in asked[n] : /\ PaxosRequestHandler(Request(n, s))
                              /\ replied'[n] = replied[n] \cup {Answer(Request(n, s))}
    BY <1>7 DEF Answered
  <2>2. pc[n] = "prepare" /\ orig'[n] = orig[n] /\ s \in Server
    BY <1>7 DEF Answered, TypeOK
  <2> DEFINE m == Request(n, s)
  <2>3. PICK r : r = Answer(m)
    OBVIOUS
  <2>4. /\ m \in Message /\ m.kind = "PREPARE" /\ m.to = s /\ m.index = i /\ m.prop = p
    BY <2>2, RequestTyped DEF Request
  <2>5. ASSUME ~ IsNack(r) PROVE Kept(r)'
    <3> DEFINE old == log[s][i]
               new == log'[s][i]
    <3>1. r.server = s /\ r.prop = old.acc /\ r.cmd.id = old.cmd.id
      <4> HIDE DEF m
      <4> QED  BY <2>4, <2>5, <2>3, AckOfPrepare
    <3>2. Promise(m)
      <4> HIDE DEF m
      <4>1. "PREPARE" # "ACCEPT" /\ "ACK" # "NACK"
        OBVIOUS
      <4> QED  BY <2>1, <2>4, <2>5, <2>3, <4>1 DEF PaxosRequestHandler, Accept, Nack, IsNack, m
    <3>3. new.min = p /\ new.acc = old.acc
      <4>1. log' = [log EXCEPT ![s][i].min = p]
        <5> HIDE DEF m
        <5> QED  BY <2>4, <3>2 DEF Promise
      <4>2. log[s] \in [Slot -> Entry] /\ log \in [Server -> [Slot -> Entry]]
        BY <2>2 DEF TypeOK
      <4>3. log'[s] = [log[s] EXCEPT ![i].min = p]
        BY <2>2, <4>1, <4>2
      <4>4. log[s][i] \in Entry
        BY <1>1, <4>2
      <4>5. log'[s][i] = [log[s][i] EXCEPT !.min = p]
        BY <1>1, <4>2, <4>3
      <4> QED  BY <4>4, <4>5 DEF Entry
    <3>4. old.acc # NoProposal => Accepted(i, old.acc, old.cmd.id)
      BY <1>1, <2>2 DEF VotesAreRecorded
    <3>5. \A q \in Tried : Votes(s, i, q)' # {} => ~ Less(new.acc, q)
      <4>1. \A j \in Slot : \A q \in Tried : Votes(s, j, q)' # {} => ~ Less(log'[s][j].acc, q)
        BY <2>2 DEF VotesAreRecorded, Less, Tried
      <4> HIDE DEF i
      <4>2. i' = i
        BY <2>2 DEF i
      <4> QED  BY <1>1, <4>1, <4>2 DEF Votes
    <3>6. ~ Less(new.min, p)
      <4> HIDE DEF new, p
      <4> QED  BY <1>1, <3>3, LessTotal
    <3>7. \A q \in Tried : Less(r.prop, q) => Votes(s, i, q)' = {}
      BY <3>1, <3>3, <3>5
    <3>8. i' = i /\ p' = p
      BY <2>2
    <3>9. Promised(s, i, p, r.prop)'
      BY <3>6, <3>7, <3>8 DEF Promised, Less, Tried
    <3> QED  BY <1>3, <3>1, <3>4, <3>8, <3>9 DEF Accepted
  <2> HIDE DEF m, Kept
  <2>6. \A x \in replied'[n] : ~ IsNack(x) => Kept(x)'
    BY <1>5, <2>1, <2>2, <2>3, <2>5 DEF m
  <2> QED  BY <1>5, <2>2, <2>6 DEF Kept
<1>8. CASE Prepares(n)
  <2>1. /\ UpdateLocalValues(n) /\ orig'[n] = orig[n] /\ replied'[n] = {}
        /\ log'[n][i].min = p
    BY <1>8 DEF Prepares, Asks
  <2>2. ~ Overwrites(n)
    BY <2>1 DEF UpdateLocalValues, Deviate, When
  <2>3. log[n][i].acc = NoProposal
    BY <2>2 DEF Overwrites
  <2>4. log'[n][i].acc = NoProposal
    <3>1. log' = [log EXCEPT ![n][i].min = p]
      BY <2>1 DEF UpdateLocalValues
    <3>2. log[n] \in [Slot -> Entry] /\ log \in [Server -> [Slot -> Entry]]
      BY DEF TypeOK
    <3>3. log'[n] = [log[n] EXCEPT ![i].min = p]
      BY <3>1, <3>2
    <3>4. log[n][i] \in Entry
      BY <1>1, <3>2
    <3>5. log'[n][i] = [log[n][i] EXCEPT !.min = p]
      BY <1>1, <3>2, <3>3
    <3> QED  BY <2>3, <3>4, <3>5 DEF Entry
  <2>5. \A q \in Tried : Votes(n, i, q)' # {} => ~ Less(NoProposal, q)
    <3>1. \A j \in Slot : \A q \in Tried : Votes(n, j, q)' # {} => ~ Less(log'[n][j].acc, q)
      BY DEF VotesAreRecorded, Less, Tried
    <3> HIDE DEF i
    <3>2. i' = i
      BY <2>1 DEF i
    <3> QED  BY <1>1, <2>4, <3>1, <3>2 DEF Votes
  <2>6. ~ Less(log'[n][i].min, p)
    <3> HIDE DEF p
    <3> QED  BY <1>1, <2>1, LessTotal
  <2>7. i' = i /\ p' = p
    BY <2>1
  <2>8. Promised(n, i, p, NoProposal)'
    BY <2>5, <2>6, <2>7 DEF Promised, Less, Tried, NoProposal
  <2> QED  BY <2>1, <2>8
<1>9. CASE \/ Begins(n) \/ Promoted(n) \/ Retries(n) \/ Leaves(n) \/ Advances(n) \/ Returns(n)
  BY <1>9 DEF Begins, Promoted, Retries, Leaves, Advances, Returns
<1> QED  BY <1>6, <1>7, <1>8, <1>9, PhaseStep

\* The replies a PREPARE ends with, and the own acceptor, are more than half of
\* the servers.
LEMMA PromisersAreMany ==
  ASSUME TypeOK, OneReplyPerServer, NEW n \in Server, NEW resp \in Collected(n)
  PROVE  LET R == {resp[i].server : i \in DOMAIN resp} \cup {n}
         IN  R \in SUBSET Server /\ Cardinality(R) > Majority
<1> DEFINE Q == {resp[i].server : i \in DOMAIN resp}
<1>1. Q \in SUBSET Peers(n) /\ IsFiniteSet(Q) /\ Cardinality(Q) >= Majority
  BY RepliersAreMany
<1> HIDE DEF Q
<1>2. n \notin Q /\ Q \cup {n} \in SUBSET Server
  BY <1>1 DEF Peers
<1>3. Cardinality(Q \cup {n}) = Cardinality(Q) + 1 /\ Cardinality(Q) \in Nat
  BY <1>1, <1>2, FS_AddElement, FS_CardinalityType
<1>4. Cardinality(Q \cup {n}) > Majority
  BY <1>1, <1>3, MajorityPositive
<1> QED  BY <1>2, <1>4 DEF Q

\* Two sets with more than half of the servers have a server in common.
LEMMA MajoritiesMeet ==
  ASSUME NEW Q \in SUBSET Server, NEW R \in SUBSET Server,
         Cardinality(Q) > Majority, Cardinality(R) > Majority
  PROVE  \E s \in Q : s \in R
<1>1. IsFiniteSet(Q) /\ IsFiniteSet(R)
  BY ServersFinite, FS_Subset
<1>2. Cardinality(Q) \in Nat /\ Cardinality(R) \in Nat
  BY <1>1, FS_CardinalityType
<1>3. Cardinality(Q) + Cardinality(R) > N
  BY <1>2, NAssumption DEF Majority
<1>4. Q \cap R # {}
  BY <1>3, ServersFinite, FS_MajoritiesIntersect
<1> QED  BY <1>4

\* The command a proposer goes on with, when all have promised and no greater
\* proposal was discarded, is safe at its proposal.
LEMMA PromotedIsSafe ==
  ASSUME TypeOK, OneReplyPerServer, ProposalsAreFresh, OneCommandInFlight, InsertedByQuorum,
         PromisesAreKept, SentIsSafe,
         NEW n \in Server, NEW resp \in Collected(n), PreparePromised(n, resp), deviations' = {}
  PROVE  SafeAt(orig[n].index, orig[n].prop, sent'[n].id)
<1> DEFINE i == orig[n].index
           p == orig[n].prop
           R == {resp[j].server : j \in DOMAIN resp} \cup {n}
<1>1. pc[n] = "prepare" /\ Nacks(resp) = {}
  BY DEF PreparePromised
<1>2. R \in SUBSET Server /\ Cardinality(R) > Majority
  BY PromisersAreMany
<1>3. i \in Slot /\ p \in Tried /\ p \in Proposal
  BY TypedParts, TriedIsProposal
<1>4. ~ DiscardsGreater(resp)
  BY DEF PreparePromised, Deviate, When
<1>5. PICK h \in DOMAIN resp : /\ Highest(resp) = resp[h]
                               /\ \A j \in DOMAIN resp : ~ Less(resp[h].prop, resp[j].prop)
  BY <1>4, HighestIsGreatest
<1> DEFINE hp == resp[h].prop
           id == sent'[n].id
<1>6. \A j \in DOMAIN resp : resp[j] \in replied[n] /\ ~ IsNack(resp[j])
  BY <1>1, CollectedAreReplies, NoNacks
<1>7. \A j \in DOMAIN resp : resp[j].prop \in Proposal
  BY <1>6, TypedParts, TriedIsProposal DEF Response
<1>8. /\ Promised(n, i, p, NoProposal)
      /\ \A j \in DOMAIN resp :
           /\ Promised(resp[j].server, i, p, resp[j].prop)
           /\ resp[j].prop # NoProposal => Accepted(i, resp[j].prop, resp[j].cmd.id)
  BY <1>1, <1>6 DEF PromisesAreKept
<1>9. ASSUME NEW q, NEW x, Accepted(i, q, x)
      PROVE  q \in Tried /\ q.num >= 0 /\ SafeAt(i, q, x)
  <2>1. PICK a \in accepts : a.index = i /\ a.prop = q /\ a.cmd.id = x
    BY <1>9 DEF Accepted
  <2>2. a \in Accepting /\ a \in Message
    BY DEF Accepting, TypeOK
  <2> QED  BY <2>1, <2>2 DEF ProposalsAreFresh, Fresh, Message, SentIsSafe
<1>10. sent'[n] = IF hp.num = -1 THEN orig[n].cmd ELSE resp[h].cmd
  BY <1>5 DEF PreparePromised, TypeOK
<1>11. hp \in Proposal /\ hp.num \in Int
  BY <1>7, ProposalParts
<1>12. NoProposal \in Proposal /\ NoProposal.num = -1
  BY EmptyTyped, TriedIsProposal DEF NoProposal
\* No server that promised has voted between the greatest proposal found and p.
<1>13. ASSUME NEW q \in Tried, Less(hp, q), Less(NoProposal, q), Less(q, p), NEW s \in R
       PROVE  Votes(s, i, q) = {}
  <2>1. CASE s = n
    BY <1>8, <1>13, <2>1 DEF Promised
  <2>2. ASSUME NEW j \in DOMAIN resp, s = resp[j].server PROVE Votes(s, i, q) = {}
    <3>1. Less(resp[j].prop, q)
      <4>1. ~ Less(hp, resp[j].prop) /\ resp[j].prop \in Proposal /\ q \in Proposal
        BY <1>5, <1>7, TriedIsProposal
      <4> HIDE DEF hp
      <4> QED  BY <1>11, <1>13, <4>1, LessTransitive
    <3> QED  BY <1>8, <1>13, <2>2, <3>1 DEF Promised
  <2> QED  BY <1>13, <2>1, <2>2
<1>14. ASSUME NEW s \in R PROVE ~ Less(log[s][i].min, p) /\ s \in Server
  <2>1. ~ Less(log[s][i].min, p)
    BY <1>8 DEF Promised
  <2> QED  BY <1>2, <2>1
<1>15. ASSUME NEW q \in Tried, Less(q, p), NEW s \in R, Votes(s, i, q) = {}
       PROVE  VotedOrWont(s, i, q, id)
  <2>1. Less(q, log[s][i].min)
    <3>1. ~ Less(log[s][i].min, p) /\ s \in Server
      BY <1>14
    <3>2. log[s][i].min \in Proposal /\ q \in Proposal
      BY <1>3, <3>1, EntryTyped, TriedIsProposal
    <3> HIDE DEF p, i
    <3> QED  BY <1>3, <1>15, <3>1, <3>2, LessTransitive
  <2> QED  BY <1>15, <2>1 DEF VotedOrWont
<1> HIDE DEF R
<1> SUFFICES ASSUME NEW q \in Tried, Less(q, p)
             PROVE  \E Q \in SUBSET Server : /\ Cardinality(Q) > Majority
                                             /\ \A s \in Q : VotedOrWont(s, i, q, id)
  BY DEF SafeAt
<1>16. CASE hp = NoProposal
  \* Nothing was accepted at all.
  <2>1. ASSUME NEW s \in R PROVE Votes(s, i, q) = {}
    <3>1. SUFFICES ASSUME Votes(s, i, q) # {} PROVE FALSE
      OBVIOUS
    <3>2. q.num >= 0
      BY <3>1, VotesWereAccepted
    <3>3. Less(NoProposal, q) /\ Less(hp, q)
      <4>1. q.num \in Int
        BY TriedIsProposal, ProposalParts
      <4>2. Less(NoProposal, q)
        BY <1>12, <3>2, <4>1 DEF Less
      <4> HIDE DEF hp
      <4> QED  BY <1>16, <4>2
    <3> HIDE DEF hp, p, i
    <3> QED  BY <1>13, <3>1, <3>3
  <2> HIDE DEF p, i, id
  <2> QED  BY <1>2, <1>15, <2>1
<1>17. CASE hp # NoProposal
  <2>1. Accepted(i, hp, resp[h].cmd.id)
    BY <1>8, <1>17
  <2>2. hp \in Tried /\ hp.num >= 0 /\ SafeAt(i, hp, resp[h].cmd.id)
    <3> HIDE DEF hp
    <3> QED  BY <1>9, <2>1
  <2>3. id = resp[h].cmd.id
    BY <1>10, <2>2
  <2> HIDE DEF p, i, id, hp
  <2>4. CASE Less(q, hp)
    BY <2>2, <2>3, <2>4 DEF SafeAt
  <2>5. CASE q = hp
    <3>1. ASSUME NEW s \in R, Votes(s, i, hp) # {} PROVE id \in Votes(s, i, hp)
      <4>1. PICK x \in Votes(s, i, hp) : TRUE
        BY <3>1
      <4>2. Accepted(i, hp, x)
        BY VotesWereAccepted
      <4>3. x = id
        BY <2>1, <2>3, <4>2, VotesAgree
      <4> QED  BY <4>1, <4>3
    <3>2. \A s \in R : VotedOrWont(s, i, q, id)
      BY <1>15, <2>5, <3>1 DEF VotedOrWont
    <3> QED  BY <1>2, <3>2
  <2>6. CASE Less(hp, q)
    <3>1. Less(NoProposal, q)
      <4>1. hp.num \in Int /\ q.num \in Int /\ q \in Proposal
        BY <1>11, TriedIsProposal, ProposalParts
      <4> QED  BY <1>12, <2>2, <2>6, <4>1 DEF Less
    <3>2. \A s \in R : Votes(s, i, q) = {}
      BY <1>13, <2>6, <3>1
    <3> QED  BY <1>2, <1>15, <3>2
  <2>7. q \in Proposal
    BY TriedIsProposal
  <2> QED  BY <1>11, <2>4, <2>5, <2>6, <2>7, LessTotal
<1> QED  BY <1>16, <1>17

\* Every ACCEPT is for a safe command.
LEMMA SentIsSafeStep ==
  ASSUME TypeOK, TypeOK', OneReplyPerServer, RefusalsAreHigher, ProposalsAreFresh,
         OneCommandInFlight, AcceptedAsSent, InsertedByQuorum, PromisesAreKept, SentIsSafe,
         [Next]_vars, deviations' = {}
  PROVE  SentIsSafe'
<1>1. \A i \in Slot : \A p, id : SafeAt(i, p, id) => SafeAt(i, p, id)'
  BY SafeAtStays
<1>2. ASSUME NEW n \in Server, pc[n] = "accept"
      PROVE  SafeAt(orig[n].index, orig[n].prop, sent[n].id)
  BY <1>2 DEF SentIsSafe
<1>3. ASSUME NEW m \in Accepting' PROVE SafeAt(m.index, m.prop, m.cmd.id)'
  <2>1. SafeAt(m.index, m.prop, m.cmd.id)
    <3>1. CASE m \in Accepting
      BY <3>1 DEF SentIsSafe
    <3>2. ASSUME NEW n \in Server, NEW s \in Server, pc[n] = "accept", m = Request(n, s)
          PROVE  SafeAt(m.index, m.prop, m.cmd.id)
      <4>1. m.index = orig[n].index /\ m.prop = orig[n].prop /\ m.cmd = sent[n]
        BY <3>2 DEF Request
      <4> QED  BY <1>2, <3>2, <4>1
    <3> QED  BY <3>1, <3>2, AcceptingStep
  <2>2. m.index \in Slot
    BY DEF TypeOK, Accepting, Message
  <2> QED  BY <1>1, <2>1, <2>2
<1>4. ASSUME NEW n \in Server, pc'[n] = "accept"
      PROVE  \E i, p, id : /\ i \in Slot /\ i = orig'[n].index /\ p = orig'[n].prop /\ id = sent'[n].id
                           /\ SafeAt(i, p, id)
  <2>1. CASE Keeps(n) \/ Answered(n)
    <3>1. pc[n] = "accept" /\ orig'[n] = orig[n] /\ sent'[n] = sent[n]
      BY <1>4, <2>1 DEF Keeps, Answered
    <3> QED  BY <1>2, <3>1, TypedParts
  <2>2. CASE Promoted(n)
    <3>1. PICK resp \in Collected(n) : PreparePromised(n, resp)
      BY <2>2 DEF Promoted
    <3>2. SafeAt(orig[n].index, orig[n].prop, sent'[n].id)
      BY <3>1, PromotedIsSafe
    <3>3. orig'[n] = orig[n]
      BY <2>2 DEF Promoted
    <3> QED  BY <3>2, <3>3, TypedParts
  <2>3. CASE \/ Begins(n) \/ Prepares(n) \/ Retries(n) \/ Leaves(n) \/ Advances(n) \/ Returns(n)
    BY <1>4, <2>3 DEF Begins, Prepares, Retries, Leaves, Advances, Returns
  <2> QED  BY <2>1, <2>2, <2>3, PhaseStep
<1>5. ASSUME NEW n \in Server, pc'[n] = "accept"
      PROVE  SafeAt(orig[n].index, orig[n].prop, sent[n].id)'
  <2>1. PICK i, p, id : /\ i \in Slot /\ i = orig'[n].index /\ p = orig'[n].prop /\ id = sent'[n].id
                        /\ SafeAt(i, p, id)
    BY <1>4, <1>5
  <2>2. SafeAt(i, p, id)'
    BY <1>1, <2>1
  <2> QED  BY <2>1, <2>2
<1> QED  BY <1>3, <1>5 DEF SentIsSafe

\* A command that was inserted at one proposal leaves no room for another at a
\* greater one.
LEMMA SafeMeansAgreement ==
  ASSUME TypeOK, ProposalsAreFresh, OneCommandInFlight, InsertedByQuorum, SentIsSafe
  PROVE  Agreement
<1>1. ASSUME NEW d \in done, NEW e \in done, d.index = e.index,
             d.prop = e.prop \/ Less(d.prop, e.prop)
      PROVE  d.cmd.id = e.cmd.id
  <2> DEFINE i == d.index
  <2>1. /\ d.server \in Server /\ i \in Slot /\ d.prop \in Tried
    BY DEF TypeOK
  <2>2. PICK a \in accepts, Q \in SUBSET Peers(d.server) :
          /\ a.index = i /\ a.prop = d.prop /\ a.cmd.id = d.cmd.id
          /\ Cardinality(Q) >= Majority /\ \A s \in Q : [a EXCEPT !.to = s] \in accepts
    BY DEF InsertedByQuorum
  <2>3. PICK b \in accepts : b.index = i /\ b.prop = e.prop /\ b.cmd.id = e.cmd.id
    BY <1>1 DEF InsertedByQuorum
  <2>4. CASE d.prop = e.prop
    BY <2>2, <2>3, <2>4 DEF OneCommandInFlight, Accepting
  <2>5. CASE Less(d.prop, e.prop)
    <3> DEFINE D == Q \cup {d.server}
    <3>1. D \in SUBSET Server /\ Cardinality(D) > Majority
      <4>1. d.server \notin Q /\ Q \in SUBSET Server
        BY DEF Peers
      <4>2. IsFiniteSet(Q)
        BY <4>1, ServersFinite, FS_Subset
      <4>3. Cardinality(D) = Cardinality(Q) + 1 /\ Cardinality(Q) \in Nat
        BY <4>1, <4>2, FS_AddElement, FS_CardinalityType
      <4>4. Cardinality(D) > Majority
        <5> HIDE DEF D
        <5> QED  BY <2>2, <4>3, MajorityPositive
      <4> QED  BY <2>1, <4>1, <4>4
    <3>2. \A s \in D : d.cmd.id \in Votes(s, i, d.prop)
      <4>1. d.cmd.id \in Votes(d.server, i, d.prop)
        BY DEF Votes
      <4>2. ASSUME NEW s \in Q PROVE d.cmd.id \in Votes(s, i, d.prop)
        <5> DEFINE c == [a EXCEPT !.to = s]
        <5>1. c \in accepts
          BY <2>2
        <5>2. c.to = s /\ c.index = i /\ c.prop = d.prop /\ c.cmd.id = d.cmd.id
          BY <2>2 DEF TypeOK, Message
        <5> HIDE DEF c
        <5> QED  BY <5>1, <5>2 DEF Votes
      <4> QED  BY <4>1, <4>2
    <3>3. SafeAt(i, e.prop, e.cmd.id)
      <4>1. b \in Accepting
        BY DEF Accepting
      <4> QED  BY <2>3, <4>1 DEF SentIsSafe
    <3>4. PICK E \in SUBSET Server : /\ Cardinality(E) > Majority
                                     /\ \A s \in E : VotedOrWont(s, i, d.prop, e.cmd.id)
      BY <2>1, <2>5, <3>3 DEF SafeAt
    <3> HIDE DEF D
    <3>5. PICK s \in D : s \in E
      BY <3>1, <3>4, MajoritiesMeet
    <3>6. e.cmd.id \in Votes(s, i, d.prop) /\ d.cmd.id \in Votes(s, i, d.prop)
      BY <3>2, <3>4, <3>5 DEF VotedOrWont
    <3> QED  BY <3>6, VotesAgree
  <2> QED  BY <1>1, <2>4, <2>5
<1>2. ASSUME NEW d \in done, NEW e \in done, d.index = e.index PROVE d.cmd.id = e.cmd.id
  <2>1. d.prop \in Proposal /\ e.prop \in Proposal
    BY TriedIsProposal DEF TypeOK
  <2>2. d.prop = e.prop \/ Less(d.prop, e.prop) \/ Less(e.prop, d.prop)
    BY <2>1, LessTotal
  <2> QED  BY <1>1, <1>2, <2>2
<1> QED  BY <1>2 DEF Agreement

-----------------------------------------------------------------------------
(* The theorems.                                                            *)

\* The invariant holds in the beginning, when nothing was asked, sent or accepted.
LEMMA InitInvariant == Init => IInv
<1> SUFFICES ASSUME Init PROVE IInv
  OBVIOUS
<1>1. TypeOK
  BY TypeInit
<1>2. /\ \A n \in Server : pc[n] = "idle" /\ asked[n] = {} /\ replied[n] = {}
      /\ late = {} /\ accepts = {} /\ done = {} /\ Accepting = {}
  BY DEF Init, Accepting
<1>3. ServesOwnClients /\ OneReplyPerServer /\ RefusalsAreHigher
  BY <1>2 DEF ServesOwnClients, OneReplyPerServer, RefusalsAreHigher, Asking
<1>4. ProposalsAreFresh /\ OneCommandInFlight /\ InsertedByQuorum /\ AcceptedAsSent
  BY <1>2 DEF ProposalsAreFresh, OneCommandInFlight, InsertedByQuorum, AcceptedAsSent
<1>5. OneValuePerId
  <2>1. \A x \in Commands : x = NoCommand
    <3>1. \A n \in Server, i \in Slot : log[n][i].cmd = NoCommand
      BY DEF Init, EmptyEntry
    <3>2. \A n \in Server : orig[n].cmd = NoCommand /\ sent[n] = NoCommand
      BY DEF Init
    <3> TAKE x \in Commands
    <3>3. CASE x \in UNION {{r.cmd : r \in replied[n]} : n \in Server}
      <4>1. PICK n \in Server : x \in {r.cmd : r \in replied[n]}
        BY <3>3
      <4> QED  BY <1>2, <4>1
    <3>4. CASE x \in {m.cmd : m \in late \cup accepts}
      BY <1>2, <3>4
    <3>5. \/ x \in {log[n][i].cmd : n \in Server, i \in Slot}
          \/ x \in {orig[n].cmd : n \in Server} \/ x \in {sent[n] : n \in Server}
          \/ x \in {m.cmd : m \in late \cup accepts}
          \/ x \in UNION {{r.cmd : r \in replied[n]} : n \in Server}
      BY DEF Commands
    <3> QED  BY <3>1, <3>2, <3>3, <3>4, <3>5
  <2>2. NoCommand.id \notin Id /\ NoCommand.value = NoId
    BY DEF NoCommand, NoId, Id
  <2> QED  BY <2>1, <2>2 DEF OneValuePerId
<1>6. VotesAreRecorded
  <2>1. \A s \in Server, i \in Slot : log[s][i].min = NoProposal /\ log[s][i].acc = NoProposal
    BY DEF Init, EmptyEntry
  <2>2. \A s, i, p : Votes(s, i, p) = {}
    BY <1>2 DEF Votes
  <2>3. ~ Less(NoProposal, NoProposal)
    BY DEF Less, NoProposal
  <2> QED  BY <2>1, <2>2, <2>3 DEF VotesAreRecorded
<1>7. PromisesAreKept /\ SentIsSafe
  BY <1>2 DEF PromisesAreKept, SentIsSafe
<1> QED  BY <1>1, <1>3, <1>4, <1>5, <1>6, <1>7 DEF IInv

\* Every step keeps it.
LEMMA StepInvariant == IInv /\ [Next]_vars => IInv'
<1> SUFFICES ASSUME IInv, [Next]_vars PROVE IInv'
  OBVIOUS
<1>1. /\ TypeOK /\ ServesOwnClients /\ OneReplyPerServer /\ RefusalsAreHigher
      /\ ProposalsAreFresh /\ OneCommandInFlight
      /\ OneValuePerId /\ AcceptedAsSent /\ InsertedByQuorum
      /\ deviations = {} => VotesAreRecorded /\ PromisesAreKept /\ SentIsSafe
  BY DEF IInv
<1>2. TypeOK' /\ ServesOwnClients' /\ OneReplyPerServer' /\ RefusalsAreHigher'
  BY <1>1, TypeStep, ServesStep, OneReplyStep, RefusalsStep
<1>3. ProposalsAreFresh' /\ OneCommandInFlight'
  BY <1>1, ProposalsStep
<1>4. OneValuePerId' /\ AcceptedAsSent' /\ InsertedByQuorum'
  BY <1>1, OneValuePerIdStep, AcceptedAsSentStep, InsertedByQuorumStep
<1>5. ASSUME deviations' = {} PROVE VotesAreRecorded' /\ PromisesAreKept' /\ SentIsSafe'
  <2>1. deviations = {}
    BY <1>1, <1>5, HistoryGrows
  <2>2. VotesAreRecorded'
    BY <1>1, <1>2, <1>5, <2>1, VotesAreRecordedStep
  <2>3. PromisesAreKept'
    BY <1>1, <1>2, <1>5, <2>1, <2>2, PromisesAreKeptStep
  <2>4. SentIsSafe'
    BY <1>1, <1>2, <1>5, <2>1, SentIsSafeStep
  <2> QED  BY <2>2, <2>3, <2>4
<1> QED  BY <1>2, <1>3, <1>4, <1>5 DEF IInv

\* The invariant of MultiPaxos: what servers are serving and asking, what was sent
\* and accepted, and, as long as Paxos was not departed from, what was promised.
THEOREM Invariance == Spec => []IInv
BY InitInvariant, StepInvariant, PTL DEF Spec

\* Log entries, requests, numbers and messages have their types, with the numbers
\* an unset proposal brings in (server.cpp 539-547).
THEOREM TypeCorrectness == Spec => []TypeOK
<1>1. IInv => TypeOK
  BY DEF IInv
<1> QED  BY <1>1, Invariance, PTL

\* No proposal is used for two commands: restarts raise the number, and a slot
\* that was given up is not tried again (server.cpp 597-680 and 734-786).
THEOREM ProposalsAreUsedOnce == Spec => []OneCommandPerProposal
<1>1. IInv => OneCommandPerProposal
  BY DEF IInv, OneCommandInFlight, Accepting, OneCommandPerProposal
<1> QED  BY <1>1, Invariance, PTL

\* insert_command ends only with the command accepted by a majority, whatever
\* late replies and refusals its rounds met.
THEOREM MajorityAccepted == Spec => []InsertedByMajority
<1>1. IInv => InsertedByMajority
  BY QuorumIsMajority DEF IInv
<1> QED  BY <1>1, Invariance, PTL

\* Where none of the departures from Paxos has happened, no slot is given to two
\* commands.
THEOREM AgreementWithoutDeviation == Spec => []OnlyDeviationsBreakAgreement
<1>1. IInv => OnlyDeviationsBreakAgreement
  BY SafeMeansAgreement DEF IInv, OnlyDeviationsBreakAgreement
<1> QED  BY <1>1, Invariance, PTL

=============================================================================
