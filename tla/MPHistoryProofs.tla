-------------------------- MODULE MPHistoryProofs --------------------------
(***************************************************************************)
(* Theorems about MPHistory: as long as Paxos was not departed from, no     *)
(* command was given another type and no request has ended without the      *)
(* slots before its own, no get returns a value that was overwritten.       *)
(***************************************************************************)
EXTENDS MPHistory, MultiPaxosProofs

-----------------------------------------------------------------------------
(* What is chosen.                                                          *)

\* The acceptors of a command under a proposal are the servers that voted for it.
LEMMA AcceptorsVoted ==
  ASSUME NEW i, NEW id, NEW p, NEW s
  PROVE  s \in Acceptors(i, id, p) <=> id \in Votes(s, i, p)
<1>1. s \in Acceptors(i, id, p) <=>
        \/ \E a \in accepts : a.to = s /\ a.index = i /\ a.cmd.id = id /\ a.prop = p
        \/ \E d \in done : d.server = s /\ d.index = i /\ d.cmd.id = id /\ d.prop = p
  BY DEF Acceptors
<1>2. id \in Votes(s, i, p) <=>
        \/ \E a \in accepts : a.to = s /\ a.index = i /\ a.cmd.id = id /\ a.prop = p
        \/ \E d \in done : d.server = s /\ d.index = i /\ d.cmd.id = id /\ d.prop = p
  BY DEF Votes
<1> QED  BY <1>1, <1>2

\* They are servers, so finitely many.
LEMMA AcceptorsTyped ==
  TypeOK => \A i, id, p : /\ Acceptors(i, id, p) \in SUBSET Server
                          /\ IsFiniteSet(Acceptors(i, id, p))
                          /\ Cardinality(Acceptors(i, id, p)) \in Nat
<1> SUFFICES ASSUME TypeOK, NEW i, NEW id, NEW p
             PROVE  /\ Acceptors(i, id, p) \in SUBSET Server
                    /\ IsFiniteSet(Acceptors(i, id, p))
                    /\ Cardinality(Acceptors(i, id, p)) \in Nat
  OBVIOUS
<1>1. (\A a \in accepts : a.to \in Server) /\ (\A d \in done : d.server \in Server)
  BY DEF TypeOK, Message
<1>2. Acceptors(i, id, p) \in SUBSET Server
  BY <1>1 DEF Acceptors
<1> QED  BY <1>2, ServersFinite, FS_Subset, FS_CardinalityType

LEMMA AcceptorsTypedNext ==
  (TypeOK => \A i, id, p : /\ Acceptors(i, id, p) \in SUBSET Server
                           /\ IsFiniteSet(Acceptors(i, id, p))
                           /\ Cardinality(Acceptors(i, id, p)) \in Nat)'
BY AcceptorsTyped, PTL

\* More than half of the servers is a set that holds such a one.
LEMMA LargerMajority ==
  ASSUME NEW D, NEW S, D \subseteq S, IsFiniteSet(S), Cardinality(D) > N \div 2
  PROVE  Cardinality(S) > N \div 2
<1>1. IsFiniteSet(D) /\ Cardinality(D) <= Cardinality(S)
  BY FS_Subset
<1>2. Cardinality(D) \in Nat /\ Cardinality(S) \in Nat
  BY <1>1, FS_CardinalityType
<1>3. N \div 2 \in Nat
  BY NAssumption
<1> QED  BY <1>1, <1>2, <1>3

\* The servers that took a proposal, with the proposer, are more than half of all.
LEMMA ProposerMakesMajority ==
  ASSUME NEW n \in Server, NEW Q \in SUBSET Peers(n), Cardinality(Q) >= Majority
  PROVE  Cardinality(Q \cup {n}) > N \div 2
<1>1. n \notin Q /\ Q \in SUBSET Server
  BY DEF Peers
<1>2. IsFiniteSet(Q)
  BY <1>1, ServersFinite, FS_Subset
<1>3. Cardinality(Q \cup {n}) = Cardinality(Q) + 1 /\ Cardinality(Q) \in Nat
  BY <1>1, <1>2, FS_AddElement, FS_CardinalityType
<1> QED  BY <1>3, MajorityPositive DEF Majority

\* What is chosen stays chosen.
LEMMA ChoiceStays ==
  ASSUME TypeOK', accepts \subseteq accepts', done \subseteq done'
  PROVE  /\ \A i, id : Chosen(i, id) => Chosen(i, id)'
         /\ \A i, but : Taken(i, but) => Taken(i, but)'
         /\ \A i, but : Closed(i, but) => Closed(i, but)'
         /\ \A i, v : PutChosen(i, v) => PutChosen(i, v)'
<1>1. ASSUME NEW i, NEW id, Chosen(i, id) PROVE Chosen(i, id)'
  <2>1. PICK a \in accepts : Cardinality(Acceptors(i, id, a.prop)) > N \div 2
    BY <1>1 DEF Chosen
  <2>2. Acceptors(i, id, a.prop) \subseteq Acceptors(i, id, a.prop)'
    BY DEF Acceptors
  <2>3. IsFiniteSet(Acceptors(i, id, a.prop)')
    BY AcceptorsTypedNext
  <2>4. Cardinality(Acceptors(i, id, a.prop)') > N \div 2
    BY <2>1, <2>2, <2>3, LargerMajority
  <2> QED  BY <2>4 DEF Chosen
<1>2. ASSUME NEW i, NEW but, Taken(i, but) PROVE Taken(i, but)'
  BY <1>1, <1>2 DEF Taken
<1>3. ASSUME NEW i, NEW but, Closed(i, but) PROVE Closed(i, but)'
  BY <1>2, <1>3 DEF Closed
<1>4. ASSUME NEW i, NEW v, PutChosen(i, v) PROVE PutChosen(i, v)'
  BY <1>1, <1>4 DEF PutChosen
<1> QED  BY <1>1, <1>2, <1>3, <1>4

\* What is chosen under one proposal is all that is accepted under it or a greater one.
LEMMA ChosenIsKept ==
  ASSUME TypeOK, ProposalsAreFresh, OneCommandInFlight, InsertedByQuorum, SentIsSafe,
         NEW i, NEW x, NEW p, Cardinality(Acceptors(i, x, p)) > N \div 2,
         NEW q, NEW y, Accepted(i, q, y), q = p \/ Less(p, q)
  PROVE  x = y
<1>1. Acceptors(i, x, p) \in SUBSET Server /\ Cardinality(Acceptors(i, x, p)) > Majority
  BY AcceptorsTyped DEF Majority
<1>2. \A s \in Acceptors(i, x, p) : x \in Votes(s, i, p)
  BY AcceptorsVoted
<1>3. PICK b \in accepts : b.index = i /\ b.prop = q /\ b.cmd.id = y
  BY DEF Accepted
<1>4. SafeAt(i, q, y)
  BY <1>3 DEF SentIsSafe, Accepting
<1>5. PICK r : r \in Acceptors(i, x, p)
  <2>1. Acceptors(i, x, p) # {}
    BY <1>1, FS_EmptySet, MajorityPositive
  <2> QED  BY <2>1
<1>6. Accepted(i, p, x) /\ p \in Tried
  BY <1>2, <1>5, VotesWereAccepted
<1>7. CASE q = p
  BY <1>6, <1>7, VotesAgree
<1>8. CASE Less(p, q)
  <2>1. PICK E \in SUBSET Server : /\ Cardinality(E) > Majority
                                   /\ \A s \in E : VotedOrWont(s, i, p, y)
    BY <1>4, <1>6, <1>8 DEF SafeAt
  <2>2. PICK s \in E : s \in Acceptors(i, x, p)
    BY <1>1, <2>1, MajoritiesMeet
  <2>3. x \in Votes(s, i, p) /\ y \in Votes(s, i, p)
    BY <1>2, <2>1, <2>2 DEF VotedOrWont
  <2> QED  BY <2>3, VotesAgree
<1> QED  BY <1>7, <1>8

\* A chosen command was accepted, under the proposal it is chosen under.
LEMMA ChosenIsAccepted ==
  ASSUME TypeOK, ProposalsAreFresh, InsertedByQuorum, NEW i, NEW x, Chosen(i, x)
  PROVE  \E p \in Tried : /\ Accepted(i, p, x)
                          /\ Cardinality(Acceptors(i, x, p)) > N \div 2
<1>1. PICK c \in accepts : Cardinality(Acceptors(i, x, c.prop)) > N \div 2
  BY DEF Chosen
<1>2. Acceptors(i, x, c.prop) # {}
  <2>1. N \div 2 \in Nat
    BY NAssumption
  <2> QED  BY <1>1, <2>1, FS_EmptySet
<1>3. PICK s \in Acceptors(i, x, c.prop) : TRUE
  BY <1>2
<1>4. x \in Votes(s, i, c.prop)
  BY <1>3, AcceptorsVoted
<1>5. Accepted(i, c.prop, x) /\ c.prop \in Tried
  BY <1>4, VotesWereAccepted
<1> QED  BY <1>1, <1>5

\* In a slot only one command is chosen.
LEMMA OneChoice ==
  ASSUME TypeOK, ProposalsAreFresh, OneCommandInFlight, InsertedByQuorum, SentIsSafe,
         NEW i, NEW x, NEW y, Chosen(i, x), Chosen(i, y)
  PROVE  x = y
<1>1. PICK p \in Tried : Accepted(i, p, x) /\ Cardinality(Acceptors(i, x, p)) > N \div 2
  BY ChosenIsAccepted
<1>2. PICK q \in Tried : Accepted(i, q, y) /\ Cardinality(Acceptors(i, y, q)) > N \div 2
  BY ChosenIsAccepted
<1>3. p = q \/ Less(p, q) \/ Less(q, p)
  BY TriedIsProposal, LessTotal
<1>4. CASE p = q \/ Less(p, q)
  BY <1>1, <1>2, <1>4, ChosenIsKept
<1>5. CASE Less(q, p)
  BY <1>1, <1>2, <1>5, ChosenIsKept
<1> QED  BY <1>3, <1>4, <1>5

\* A slot that is taken by others is not left for a command.
LEMMA TakenIsLost ==
  ASSUME TypeOK, ProposalsAreFresh, OneCommandInFlight, InsertedByQuorum, SentIsSafe,
         NEW i, NEW id, Taken(i, {id})
  PROVE  ~ Chosen(i, id)
BY OneChoice DEF Taken

\* A slot with a chosen command is taken.
LEMMA ChosenIsTaken ==
  (/\ TypeOK /\ ProposalsAreFresh /\ InsertedByQuorum)
  => \A i, x : Chosen(i, x) => Taken(i, {})
BY ChosenIsAccepted DEF Taken, Accepted

LEMMA ChosenIsTakenNext ==
  ((/\ TypeOK /\ ProposalsAreFresh /\ InsertedByQuorum)
   => \A i, x : Chosen(i, x) => Taken(i, {}))'
BY ChosenIsTaken, PTL

\* The acceptors of a command that was inserted are more than half of the servers.
LEMMA InsertedByMost ==
  ASSUME TypeOK, InsertedByQuorum, NEW d \in done
  PROVE  Cardinality(Acceptors(d.index, d.cmd.id, d.prop)) > N \div 2
<1>1. d.server \in Server
  BY DEF TypeOK
<1>2. PICK a \in accepts, Q \in SUBSET Peers(d.server) :
        /\ a.index = d.index /\ a.prop = d.prop /\ a.cmd.id = d.cmd.id
        /\ Cardinality(Q) >= Majority /\ \A s \in Q : [a EXCEPT !.to = s] \in accepts
  BY DEF InsertedByQuorum
<1>3. Cardinality(Q \cup {d.server}) > N \div 2
  BY <1>1, <1>2, ProposerMakesMajority
<1>4. ASSUME NEW s \in Q PROVE s \in Acceptors(d.index, d.cmd.id, d.prop)
  <2> DEFINE c == [a EXCEPT !.to = s]
  <2>1. c \in accepts
    BY <1>2
  <2>2. c.to = s /\ c.index = d.index /\ c.prop = d.prop /\ c.cmd.id = d.cmd.id
    BY <1>2 DEF TypeOK, Message
  <2> HIDE DEF c
  <2> QED  BY <2>1, <2>2 DEF Acceptors
<1>5. d.server \in Acceptors(d.index, d.cmd.id, d.prop)
  BY DEF Acceptors
<1> QED  BY <1>1, <1>3, <1>4, <1>5, AcceptorsTyped, LargerMajority

\* A command that was inserted is chosen.
LEMMA InsertedIsChosen ==
  TypeOK /\ InsertedByQuorum => \A d \in done : Chosen(d.index, d.cmd.id)
<1> SUFFICES ASSUME TypeOK, InsertedByQuorum, NEW d \in done PROVE Chosen(d.index, d.cmd.id)
  OBVIOUS
<1>1. PICK a \in accepts : a.prop = d.prop
  BY DEF InsertedByQuorum
<1>2. Cardinality(Acceptors(d.index, d.cmd.id, a.prop)) > N \div 2
  BY <1>1, InsertedByMost
<1> QED  BY <1>2 DEF Chosen

LEMMA InsertedIsChosenNext ==
  (TypeOK /\ InsertedByQuorum => \A d \in done : Chosen(d.index, d.cmd.id))'
BY InsertedIsChosen, PTL

\* A proposer that gives a slot up leaves it to another command, which is chosen.
LEMMA DefeatedIsTaken ==
  ASSUME TypeOK, TypeOK', OneReplyPerServer, AcceptedAsSent, NEW n \in Server,
         NEW resp \in Collected(n), Defeated(n, resp), done' = done,
         NEW i, NEW id, i = orig[n].index, id = orig[n].cmd.id
  PROVE  Taken(i, {id})'
<1> DEFINE x == sent[n].id
           p == orig[n].prop
<1>1. PICK a \in accepts, Q \in SUBSET Peers(n) :
        /\ a.index = i /\ a.prop = p /\ a.cmd = sent[n]
        /\ Cardinality(Q) >= Majority /\ \A s \in Q : [a EXCEPT !.to = s] \in accepts
  BY AcceptedByQuorum DEF Defeated
<1>2. accepts' = accepts \cup {Request(n, n)} /\ x # orig[n].cmd.id /\ pc[n] = "accept"
  BY DEF Defeated, AllAccepted
<1>3. Cardinality(Q \cup {n}) > N \div 2
  BY <1>1, ProposerMakesMajority
<1>4. ASSUME NEW s \in Q \cup {n}
      PROVE  \E c \in accepts' : c.to = s /\ c.index = i /\ c.prop = p /\ c.cmd.id = x
  <2>1. CASE s = n
    <3>1. Request(n, n).to = n /\ Request(n, n).index = i /\ Request(n, n).prop = p
          /\ Request(n, n).cmd = sent[n]
      BY <1>2 DEF Request
    <3> QED  BY <1>2, <2>1, <3>1
  <2>2. CASE s \in Q
    <3> DEFINE c == [a EXCEPT !.to = s]
    <3>1. c \in accepts'
      BY <1>1, <1>2, <2>2
    <3>2. c.to = s /\ c.index = i /\ c.prop = p /\ c.cmd.id = x
      BY <1>1 DEF TypeOK, Message
    <3> HIDE DEF c
    <3> QED  BY <3>1, <3>2
  <2> QED  BY <2>1, <2>2
<1>5. PICK cx, cp : cx = x /\ cp = p
  OBVIOUS
<1>6. \A s \in Q \cup {n} : s \in Acceptors(i, cx, cp)'
  BY <1>4, <1>5 DEF Acceptors
<1>7. IsFiniteSet(Acceptors(i, cx, cp)')
  BY AcceptorsTypedNext
<1>8. Cardinality(Acceptors(i, cx, cp)') > N \div 2
  BY <1>3, <1>6, <1>7, LargerMajority
<1>9. Chosen(i, cx)'
  BY <1>1, <1>2, <1>5, <1>8 DEF Chosen
<1> QED  BY <1>1, <1>2, <1>5, <1>9 DEF Taken

-----------------------------------------------------------------------------
(* What a step does to the requests that are served.                        *)

\* What the invariant says as long as nothing has made a read stale.
Regular ==
  /\ IInv /\ HTypeOK /\ deviations = {}
  /\ OwnValues /\ TypesAreKept /\ ServesLastRequest /\ OnePlace
  /\ KnownIsChosen /\ BeforeIsEarlier /\ StaleIsEarlier /\ ReturnedIsFresh

LEMMA RegularParts ==
  ASSUME Regular
  PROVE  /\ TypeOK /\ ServesOwnClients /\ OneReplyPerServer /\ RefusalsAreHigher
         /\ ProposalsAreFresh /\ OneCommandInFlight
         /\ OneValuePerId /\ AcceptedAsSent /\ InsertedByQuorum
         /\ VotesAreRecorded /\ PromisesAreKept /\ SentIsSafe /\ deviations = {}
BY DEF Regular, IInv

\* The steps of users are steps of the protocol.
LEMMA StepOfProtocol == [HNext]_hvars => [Next]_vars
<1>1. ASSUME HOther PROVE Next
  BY <1>1 DEF HOther, Next, Propose
<1>2. ASSUME NEW n \in Server, NEW c \in Clients, NEW type \in Types[c],
             IF type = "WRITE" THEN HStartPut(n, c) ELSE HStartGet(n, c)
      PROVE  Next
  <2>1. type \in {"READ", "WRITE"}
    BY BoundsAssumption
  <2>2. StartRequest(n, c, type)
    BY <1>2, <2>1 DEF HStartPut, HStartGet
  <2> QED  BY <2>2 DEF Next
<1>3. ASSUME NEW n \in Server, HGetReturn(n) PROVE Next
  BY <1>3 DEF HGetReturn, Next, Propose
<1>4. ASSUME NEW n \in Server, NEW resp \in Collected(n), HChoose(n, resp) \/ HPutReturn(n, resp)
      PROVE  Next
  BY <1>4 DEF HChoose, HPutReturn, Next, Propose
<1>5. ASSUME UNCHANGED hvars PROVE UNCHANGED vars
  BY <1>5 DEF hvars
<1> QED  BY <1>1, <1>2, <1>3, <1>4, <1>5 DEF HNext

\* Server n does not turn to another request or phase.
Stays(n) == pc'[n] = pc[n] /\ orig'[n] = orig[n] /\ sent'[n] = sent[n]

\* Its proposer goes on with the same command; when it does so in another slot, it
\* was defeated in this one.
GoesOn(n) ==
  /\ Proposing(n) /\ pc'[n] \in {"update", "prepare"}
  /\ orig'[n].cmd = orig[n].cmd /\ orig'[n].prop.client = orig[n].prop.client
  /\ \/ orig'[n].index = orig[n].index
     \/ \E resp \in Collected(n) : Defeated(n, resp)

\* A step users do not notice.
Quiet ==
  /\ UNCHANGED <<result, known, before, stale, done, ops>>
  /\ \A n \in Server : Stays(n) \/ GoesOn(n)

\* Every step is of that kind, or begins or ends a request or chooses a command.
LEMMA KindsOfSteps ==
  ASSUME Regular, [HNext]_hvars, deviations' = {}
  PROVE  \/ \E n \in Server, c \in Clients : HStartPut(n, c) \/ HStartGet(n, c)
         \/ \E n \in Server : \E resp \in Collected(n) : HChoose(n, resp) \/ HPutReturn(n, resp)
         \/ \E n \in Server : HGetReturn(n)
         \/ Quiet
<1>1. TypeOK /\ OneReplyPerServer /\ RefusalsAreHigher /\ [Next]_vars
  BY RegularParts, StepOfProtocol
<1>2. ASSUME NEW n \in Server, Keeps(n) \/ Answered(n) PROVE Stays(n)
  BY <1>2 DEF Keeps, Answered, Stays
<1>3. ASSUME NEW n \in Server, Retries(n) PROVE GoesOn(n)
  BY <1>3 DEF Retries, GoesOn, Asking, Proposing
<1>4. CASE UNCHANGED hvars
  BY <1>4 DEF hvars, vars, history, Quiet, Stays
<1>5. ASSUME HOther PROVE Quiet
  <2>1. UNCHANGED <<result, known, before, stale>>
    BY <1>5 DEF HOther
  <2>2. done' = done /\ ops' = ops
    BY <1>5 DEF HOther, Handle, HandleLate, UpdateLocalValues, PrepareRefused, Overtaken, Defeated,
                AcceptRefused, AcceptMixed, NextSlot, history
  <2>3. ASSUME NEW n \in Server PROVE Stays(n) \/ GoesOn(n)
    <3>1. CASE (\E d, s \in Server : Handle(d, s)) \/ \E m \in late : HandleLate(m)
      BY <3>1 DEF Handle, HandleLate, Stays
    <3>2. ASSUME NEW d \in Server, UpdateLocalValues(d) PROVE Stays(n) \/ GoesOn(n)
      <4>1. /\ pc[d] = "update" /\ pc' = [pc EXCEPT ![d] = "prepare"]
            /\ orig' = orig /\ sent' = sent
        BY <3>2 DEF UpdateLocalValues
      <4> QED  BY <1>1, <4>1 DEF Stays, GoesOn, Proposing, TypeOK
    <3>3. ASSUME NEW d \in Server, NEW resp \in Collected(d),
                 \/ PrepareRefused(d, resp) \/ Overtaken(d, resp) \/ AcceptRefused(d, resp)
          PROVE  Stays(n) \/ GoesOn(n)
      <4>1. CASE PrepareRefused(d, resp) \/ AcceptRefused(d, resp)
        <5>1. Asking(d) /\ NextNum(resp) > orig[d].prop.num
          BY <1>1, <4>1, RaisedNumbers DEF PrepareRefused, AcceptRefused, Asking
        <5>2. Keeps(n) \/ Retries(n)
          BY <1>1, <4>1, <5>1, RestartRetries DEF PrepareRefused, AcceptRefused
        <5> QED  BY <1>2, <1>3, <5>2
      <4>2. CASE Overtaken(d, resp)
        <5>1. Asking(d) /\ log[d][orig[d].index].min.num + 1 > orig[d].prop.num
          BY <1>1, <4>2, RaisedNumbers DEF Overtaken, AllAccepted, Asking
        <5>2. Keeps(n) \/ Retries(n)
          BY <1>1, <4>2, <5>1, RestartRetries DEF Overtaken
        <5> QED  BY <1>2, <1>3, <5>2
      <4> QED  BY <3>3, <4>1, <4>2
    <3>4. ASSUME NEW d \in Server, NEW resp \in Collected(d), Defeated(d, resp)
          PROVE  Stays(n) \/ GoesOn(n)
      <4>1. pc[d] = "accept" /\ (Keeps(n) \/ Advances(n))
        BY <1>1, <3>4, NextSlotAdvances DEF Defeated, AllAccepted
      <4>2. CASE Advances(n)
        <5>1. pc' = [pc EXCEPT ![d] = "update"]
          BY <3>4 DEF Defeated, NextSlot
        <5>2. n = d
          BY <1>1, <4>2, <5>1 DEF Advances, TypeOK
        <5> QED  BY <3>4, <4>2, <5>2 DEF Advances, GoesOn, Proposing
      <4> QED  BY <1>2, <4>1, <4>2
    <3>5. ASSUME NEW d \in Server, NEW resp \in Collected(d), AcceptMixed(d, resp)
          PROVE  Stays(n) \/ GoesOn(n)
      <4>1. CASE sent[d].id = orig[d].cmd.id
        <5>1. Asking(d) /\ log[d][orig[d].index].min.num + 1 > orig[d].prop.num
          BY <1>1, <3>5, RaisedNumbers DEF AcceptMixed, Asking
        <5>2. Keeps(n) \/ Retries(n)
          BY <1>1, <3>5, <4>1, <5>1, RestartRetries DEF AcceptMixed
        <5> QED  BY <1>2, <1>3, <5>2
      <4>2. CASE sent[d].id # orig[d].cmd.id
        <5> DEFINE entry == [min |-> Garbage, acc |-> [Garbage EXCEPT !.num = NextNum(resp)],
                             cmd |-> [sent[d] EXCEPT !.type = "NONE", !.value = NoId]]
        <5>1. NextSlot(d, entry) /\ entry.min = Garbage
          BY <3>5, <4>2 DEF AcceptMixed
        <5> HIDE DEF entry
        <5>2. "unset" \in deviations'
          BY <5>1 DEF NextSlot, Deviate, When
        <5> QED  BY <5>2
      <4> QED  BY <4>1, <4>2
    <3> QED  BY <1>5, <3>1, <3>2, <3>3, <3>4, <3>5 DEF HOther
  <2> QED  BY <2>1, <2>2, <2>3 DEF Quiet
<1> QED  BY <1>4, <1>5 DEF HNext

\* No step of another server turns to another request for this one.
LEMMA OthersStay ==
  ASSUME TypeOK, NEW n \in Server, NEW d \in Server, d # n,
         \/ \E c \in Clients : HStartPut(n, c) \/ HStartGet(n, c)
         \/ \E resp \in Collected(n) : HChoose(n, resp) \/ HPutReturn(n, resp)
         \/ HGetReturn(n)
  PROVE  Stays(d)
<1>1. ASSUME NEW c, NEW type, StartRequest(n, c, type) PROVE Stays(d)
  BY <1>1 DEF StartRequest, Stays, TypeOK
<1>2. ASSUME NEW resp, PreparePromised(n, resp) \/ Inserted(n, resp) PROVE Stays(d)
  BY <1>2 DEF PreparePromised, Inserted, EndPhase, Stays, TypeOK
<1>3. ASSUME ReadReturn(n) PROVE Stays(d)
  BY <1>3 DEF ReadReturn, Stays, TypeOK
<1> QED  BY <1>1, <1>2, <1>3 DEF HStartPut, HStartGet, HChoose, HPutReturn, HGetReturn

\* What a new request is.
Starts(n, c, type) ==
  /\ pc[n] = "idle" /\ pc'[n] = "update" /\ Home(c) = n
  /\ orig'[n].prop.client = c
  /\ orig'[n].cmd.id = <<c, ops[c] + 1>> /\ <<c, ops[c] + 1>> \in Id
  /\ orig'[n].cmd.type = type
  /\ orig'[n].cmd.value = IF type = "WRITE" THEN <<c, ops[c] + 1>> ELSE NoId
  /\ ops' = [ops EXCEPT ![c] = ops[c] + 1] /\ ops'[c] = ops[c] + 1
  /\ sent' = sent /\ done' = done /\ accepts' = accepts /\ late' = late /\ log' = log

LEMMA Started ==
  ASSUME TypeOK, NEW n \in Server, NEW c \in Clients, NEW type \in {"READ", "WRITE"},
         StartRequest(n, c, type)
  PROVE  Starts(n, c, type)
<1>1. /\ pc[n] = "idle" /\ Home(c) = n /\ pc' = [pc EXCEPT ![n] = "update"]
      /\ ops' = [ops EXCEPT ![c] = @ + 1] /\ UNCHANGED <<sent, done, accepts, late, log>>
  BY DEF StartRequest, Home, acceptor, phase, history
<1>2. orig'[n] = [cmd   |-> [id |-> <<c, ops[c] + 1>>, type |-> type,
                             value |-> IF type = "WRITE" THEN <<c, ops[c] + 1>> ELSE NoId],
                  index |-> Min(free[n]),
                  prop  |-> [num |-> 0, client |-> c]]
  BY DEF StartRequest, TypeOK
<1>3. <<c, ops[c] + 1>> \in Id
  BY DEF TypeOK, Id
<1>4. pc'[n] = "update"
  BY <1>1 DEF TypeOK
<1>5. /\ orig'[n].prop.client = c /\ orig'[n].cmd.id = <<c, ops[c] + 1>>
      /\ orig'[n].cmd.type = type
      /\ orig'[n].cmd.value = IF type = "WRITE" THEN <<c, ops[c] + 1>> ELSE NoId
  BY <1>2
<1>6. ops'[c] = ops[c] + 1
  BY <1>1 DEF TypeOK
<1> QED  BY <1>1, <1>3, <1>4, <1>5, <1>6 DEF Starts

\* A request that is served was served before, by the same server and with all that
\* its user knew, or begins.
LEMMA SameRequest ==
  ASSUME Regular, [HNext]_hvars, deviations' = {}, NEW n \in Server, pc'[n] # "idle"
  PROVE  LET c == orig[n].prop.client
         IN  \/ /\ pc[n] # "idle" /\ c \in Clients
                /\ orig'[n].cmd = orig[n].cmd /\ orig'[n].prop.client = c
                /\ stale'[c] = stale[c] /\ ops'[c] = ops[c]
             \/ \E b \in Clients : HStartPut(n, b) \/ HStartGet(n, b)
<1> DEFINE c == orig[n].prop.client
           Same == /\ pc[n] # "idle" /\ c \in Clients
                   /\ orig'[n].cmd = orig[n].cmd /\ orig'[n].prop.client = c
                   /\ stale'[c] = stale[c] /\ ops'[c] = ops[c]
<1>1. TypeOK /\ (pc[n] # "idle" => c \in Clients /\ Home(c) = n)
  BY RegularParts DEF ServesOwnClients
<1>2. ASSUME NEW d \in Server, NEW b \in Clients, HStartPut(d, b) \/ HStartGet(d, b), d # n
      PROVE  Same
  <2>1. /\ Home(b) = d /\ ops' = [ops EXCEPT ![b] = @ + 1]
        /\ stale' = stale \/ stale' = [stale EXCEPT ![b] = Overwritten]
    <3>1. CASE HStartPut(d, b)
      BY <1>1, <3>1, Started DEF Starts, HStartPut
    <3>2. CASE HStartGet(d, b)
      BY <1>1, <3>2, Started DEF Starts, HStartGet
    <3> QED  BY <1>2, <3>1, <3>2
  <2>2. Stays(n)
    BY <1>1, <1>2, OthersStay
  <2>3. pc[n] # "idle" /\ c \in Clients /\ c # b
    BY <1>1, <1>2, <2>1, <2>2 DEF Stays
  <2>4. ops'[c] = ops[c]
    BY <1>1, <2>1, <2>3 DEF TypeOK
  <2>5. stale'[c] = stale[c]
    BY <2>1, <2>3 DEF Regular, HTypeOK
  <2> QED  BY <2>2, <2>3, <2>4, <2>5 DEF Stays
<1>3. ASSUME NEW d \in Server, NEW resp \in Collected(d), HChoose(d, resp) \/ HPutReturn(d, resp)
      PROVE  Same
  <2>1. stale' = stale /\ ops' = ops /\ orig' = orig /\ pc[d] # "idle"
    BY <1>3 DEF HChoose, HPutReturn, PreparePromised, Inserted, AllAccepted
  <2>2. pc[n] # "idle"
    BY <1>1, <1>3, <2>1, OthersStay DEF Stays
  <2> QED  BY <1>1, <2>1, <2>2
<1>4. ASSUME NEW d \in Server, HGetReturn(d) PROVE Same
  <2>1. stale' = stale /\ ops' = ops /\ orig' = orig /\ pc[d] # "idle"
    BY <1>4 DEF HGetReturn, ReadReturn
  <2>2. pc[n] # "idle"
    BY <1>1, <1>4, <2>1, OthersStay DEF Stays
  <2> QED  BY <1>1, <2>1, <2>2
<1>5. ASSUME Quiet PROVE Same
  BY <1>1, <1>5 DEF Quiet, Stays, GoesOn, Proposing
<1> QED  BY <1>2, <1>3, <1>4, <1>5, KindsOfSteps

\* A command that was inserted had been accepted.
LEMMA InsertedWasAccepted ==
  ASSUME InsertedByQuorum, deviations = {}, NEW d \in done
  PROVE  \E a \in accepts : a.index = d.index /\ a.prop = d.prop /\ a.cmd = d.cmd
BY DEF InsertedByQuorum

\* No command has the command_id of the next request of a client.
LEMMA NextIdIsFresh ==
  ASSUME Regular, NEW c \in Clients
  PROVE  /\ \A x \in Commands : x.id # <<c, ops[c] + 1>>
         /\ \A a \in accepts : a.cmd.id # <<c, ops[c] + 1>>
         /\ \A d \in done : d.cmd.id # <<c, ops[c] + 1>>
<1>1. \A x \in Commands : x.id \in Id => x.id[2] <= ops[x.id[1]]
  BY RegularParts DEF OneValuePerId
<1>2. ops[c] \in Nat /\ <<c, ops[c] + 1>> \in Id
  BY RegularParts DEF TypeOK, Id
<1>3. \A x \in Commands : x.id # <<c, ops[c] + 1>>
  BY <1>1, <1>2
<1> QED  BY <1>3, CommandsHeld, InsertedWasAccepted, RegularParts

\* No two servers serve the same request.
LEMMA ServedOnce ==
  ASSUME ServesOwnClients, ServesLastRequest, NEW n \in Server, NEW d \in Server,
         pc[n] # "idle", pc[d] # "idle", orig[n].cmd.id = orig[d].cmd.id
  PROVE  n = d
<1>1. orig[n].prop.client = orig[d].prop.client
  BY DEF ServesLastRequest
<1> QED  BY <1>1 DEF ServesOwnClients

\* What was inserted in this step.
LEMMA NewlyDone ==
  ASSUME Regular, [HNext]_hvars, deviations' = {}, NEW d \in done'
  PROVE  \/ d \in done
         \/ \E n \in Server : \E resp \in Collected(n) :
              /\ HPutReturn(n, resp) /\ pc[n] = "accept" /\ d.server = n
              /\ d.index = orig[n].index /\ d.prop = orig[n].prop /\ d.cmd = orig[n].cmd
<1>1. ASSUME NEW n \in Server, NEW c \in Clients, HStartPut(n, c) \/ HStartGet(n, c)
      PROVE  done' = done
  BY <1>1 DEF HStartPut, HStartGet, StartRequest, history
<1>2. ASSUME NEW n \in Server, NEW resp \in Collected(n), HChoose(n, resp) PROVE done' = done
  BY <1>2 DEF HChoose, PreparePromised
<1>3. ASSUME NEW n \in Server, HGetReturn(n) PROVE done' = done
  BY <1>3 DEF HGetReturn, ReadReturn, history
<1>4. ASSUME NEW n \in Server, NEW resp \in Collected(n), HPutReturn(n, resp), d \notin done
      PROVE  /\ pc[n] = "accept" /\ d.server = n
             /\ d.index = orig[n].index /\ d.prop = orig[n].prop /\ d.cmd = orig[n].cmd
  BY <1>4 DEF HPutReturn, Inserted, AllAccepted
<1> QED  BY <1>1, <1>2, <1>3, <1>4, KindsOfSteps DEF Quiet

-----------------------------------------------------------------------------
(* Requests, their types and values.                                        *)

\* No step gives a command another value than its own command_id.
LEMMA OwnValuesStep ==
  ASSUME Regular, [HNext]_hvars, deviations' = {}
  PROVE  OwnValues'
<1>1. PICK new : /\ \A x \in Commands' : Known(x) \/ x = new
                 /\ Known(new) \/ new.value \in {NoId, new.id}
  BY RegularParts, StepOfProtocol, CommandsStep
<1>2. ASSUME NEW x, Known(x) PROVE x.value \in {NoId, x.id}
  BY <1>2 DEF Known, Regular, OwnValues
<1>3. \A x \in Commands' : x.value \in {NoId, x.id}
  BY <1>1, <1>2
<1> QED  BY <1>3 DEF OwnValues

\* A server serves the last request of its client until it is inserted.
LEMMA ServesLastStep ==
  ASSUME Regular, [HNext]_hvars, deviations' = {}
  PROVE  ServesLastRequest'
<1> DEFINE c(n) == orig[n].prop.client
<1>1. /\ TypeOK /\ ServesOwnClients /\ ServesLastRequest
      /\ done \subseteq done'
  BY RegularParts, StepOfProtocol, HistoryGrows DEF Regular
<1>2. ASSUME NEW n \in Server, NEW b \in Clients, HStartPut(n, b) \/ HStartGet(n, b)
      PROVE  /\ pc'[n] = "update" /\ orig'[n].prop.client = b /\ done' = done
             /\ orig'[n].cmd.id = <<b, ops[b] + 1>> /\ ops'[b] = ops[b] + 1
  <2>1. PICK type \in {"READ", "WRITE"} : StartRequest(n, b, type)
    BY <1>2 DEF HStartPut, HStartGet
  <2>2. Starts(n, b, type)
    BY <1>1, <2>1, Started
  <2> QED  BY <2>2 DEF Starts
<1>3. ASSUME NEW n \in Server, pc'[n] # "idle"
      PROVE  orig'[n].cmd.id = <<orig'[n].prop.client, ops'[orig'[n].prop.client]>>
  <2>1. CASE \E b \in Clients : HStartPut(n, b) \/ HStartGet(n, b)
    BY <1>2, <2>1
  <2>2. CASE /\ pc[n] # "idle" /\ orig'[n].cmd = orig[n].cmd
             /\ orig'[n].prop.client = c(n) /\ ops'[c(n)] = ops[c(n)]
    BY <1>1, <2>2 DEF ServesLastRequest
  <2> QED  BY <1>3, <2>1, <2>2, SameRequest
<1>4. ASSUME NEW n \in Server, Proposing(n)', NEW d \in done' PROVE d.cmd.id # orig'[n].cmd.id
  <2>1. pc'[n] # "idle"
    BY <1>4 DEF Proposing
  <2>2. CASE \E b \in Clients : HStartPut(n, b) \/ HStartGet(n, b)
    BY <1>2, <1>4, <2>2, NextIdIsFresh
  <2>3. CASE pc[n] # "idle" /\ orig'[n].cmd = orig[n].cmd
    <3>1. ASSUME NEW m \in Server, NEW resp \in Collected(m), HPutReturn(m, resp),
                 pc[m] = "accept", d.cmd = orig[m].cmd
          PROVE  d.cmd.id # orig'[n].cmd.id
      <4>1. pc'[m] \in {"apply", "idle"}
        BY <1>1, <3>1 DEF HPutReturn, Inserted, TypeOK
      <4>2. m # n
        BY <1>4, <4>1 DEF Proposing
      <4> QED  BY <1>1, <2>3, <3>1, <4>2, ServedOnce
    <3>2. ASSUME d \in done PROVE d.cmd.id # orig'[n].cmd.id
      <4>1. Proposing(n)
        <5>1. ASSUME NEW m \in Server, HGetReturn(m) PROVE m # n
          BY <1>1, <1>4, <5>1 DEF HGetReturn, ReadReturn, Proposing, TypeOK
        <5>2. ASSUME NEW m \in Server, NEW resp \in Collected(m),
                     HChoose(m, resp) \/ HPutReturn(m, resp)
              PROVE  Proposing(m)
          BY <5>2 DEF HChoose, PreparePromised, HPutReturn, Inserted, AllAccepted, Proposing
        <5>3. ASSUME NEW m \in Server, NEW b \in Clients, HStartPut(m, b) \/ HStartGet(m, b)
              PROVE  m # n
          BY <1>1, <2>3, <5>3, Started DEF Starts, HStartPut, HStartGet
        <5>4. Stays(n) => Proposing(n)
          BY <1>4 DEF Stays, Proposing
        <5>5. Quiet => Proposing(n)
          BY <5>4 DEF Quiet, GoesOn
        <5> QED  BY <1>1, <5>1, <5>2, <5>3, <5>4, <5>5, OthersStay, KindsOfSteps
      <4> QED  BY <1>1, <2>3, <3>2, <4>1 DEF ServesLastRequest
    <3> QED  BY <3>1, <3>2, NewlyDone
  <2> QED  BY <2>1, <2>2, <2>3, SameRequest
<1>5. ASSUME NEW n \in Server, pc'[n] = "apply"
      PROVE  /\ orig'[n].cmd.type = "READ"
             /\ \E d \in done' : /\ d.server = n /\ d.index = orig'[n].index
                                 /\ d.cmd = orig'[n].cmd
  <2>1. CASE Stays(n)
    BY <1>1, <1>5, <2>1 DEF Stays, ServesLastRequest
  <2>2. ASSUME NEW resp \in Collected(n), HPutReturn(n, resp)
        PROVE  /\ orig'[n].cmd.type = "READ"
               /\ \E d \in done' : /\ d.server = n /\ d.index = orig'[n].index
                                   /\ d.cmd = orig'[n].cmd
    <3>1. /\ pc' = [pc EXCEPT ![n] = IF orig[n].cmd.type = "READ" THEN "apply" ELSE "idle"]
          /\ orig' = orig
          /\ [server |-> n, index |-> orig[n].index, prop |-> orig[n].prop,
              cmd |-> orig[n].cmd] \in done'
      BY <2>2 DEF HPutReturn, Inserted
    <3>2. orig[n].cmd.type = "READ"
      BY <1>1, <1>5, <3>1 DEF TypeOK
    <3> QED  BY <3>1, <3>2
  <2>3. ASSUME NEW resp \in Collected(n), HChoose(n, resp) PROVE FALSE
    BY <1>1, <1>5, <2>3 DEF HChoose, PreparePromised, TypeOK
  <2>4. ASSUME HGetReturn(n) PROVE FALSE
    BY <1>1, <1>5, <2>4 DEF HGetReturn, ReadReturn, TypeOK
  <2>5. ASSUME NEW b \in Clients, HStartPut(n, b) \/ HStartGet(n, b) PROVE FALSE
    BY <1>2, <1>5, <2>5
  <2>6. Quiet => Stays(n)
    BY <1>5 DEF Quiet, GoesOn
  <2> QED  BY <1>1, <2>1, <2>2, <2>3, <2>4, <2>5, <2>6, OthersStay, KindsOfSteps
<1> QED  BY <1>3, <1>4, <1>5 DEF ServesLastRequest

\* What the acceptor puts in a log is a command that was there or was sent.
LEMMA HandlerLogs ==
  ASSUME TypeOK, NEW m \in Message, PaxosRequestHandler(m), NEW s \in Server, NEW i \in Slot
  PROVE  log'[s][i].cmd = log[s][i].cmd \/ (m.kind = "ACCEPT" /\ log'[s][i].cmd = m.cmd)
<1>1. log \in [Server -> [Slot -> Entry]] /\ m.to \in Server /\ m.index \in Slot
  BY DEF TypeOK, Message
<1>2. CASE Promise(m)
  <2>1. log' = [log EXCEPT ![m.to][m.index].min = m.prop]
    BY <1>2 DEF Promise
  <2> QED  BY <1>1, <2>1 DEF Entry
<1>3. CASE Accept(m)
  <2> DEFINE e == [min |-> m.prop, acc |-> m.prop, cmd |-> m.cmd]
  <2>1. m.kind = "ACCEPT" /\ log' = [log EXCEPT ![m.to][m.index] = e]
    BY <1>3 DEF Accept
  <2>2. e.cmd = m.cmd
    OBVIOUS
  <2> HIDE DEF e
  <2>3. log'[s][i] = log[s][i] \/ log'[s][i] = e
    BY <1>1, <2>1
  <2> QED  BY <2>1, <2>2, <2>3
<1>4. CASE Nack(m)
  BY <1>4 DEF Nack, acceptor
<1> QED  BY <1>2, <1>3, <1>4 DEF PaxosRequestHandler

\* So is what a proposer puts there, unless the entry is one that was never set.
LEMMA LoggedCommands ==
  ASSUME TypeOK, OneReplyPerServer, [Next]_vars, deviations' = {}, NEW s \in Server, NEW i \in Slot
  PROVE  \/ log'[s][i].cmd = log[s][i].cmd
         \/ \E m \in Accepting : log'[s][i].cmd = m.cmd
         \/ \E n \in Server : pc[n] = "accept" /\ log'[s][i].cmd \in {sent[n], orig[n].cmd}
<1> DEFINE Goal == \/ log'[s][i].cmd = log[s][i].cmd
                   \/ \E m \in Accepting : log'[s][i].cmd = m.cmd
                   \/ \E n \in Server : pc[n] = "accept" /\ log'[s][i].cmd \in {sent[n], orig[n].cmd}
<1>1. log' = log => Goal
  OBVIOUS
<1>2. ASSUME NEW n \in Server, NEW t \in Server, Handle(n, t) PROVE Goal
  <2>1. t \in asked[n] /\ PaxosRequestHandler(Request(n, t)) /\ Request(n, t) \in Message
    BY <1>2, RequestTyped DEF Handle
  <2>2. Request(n, t).kind = "ACCEPT" => pc[n] = "accept" /\ Request(n, t).cmd = sent[n]
    BY <2>1 DEF Request, OneReplyPerServer, Asking
  <2>3. \/ log'[s][i].cmd = log[s][i].cmd
        \/ Request(n, t).kind = "ACCEPT" /\ log'[s][i].cmd = Request(n, t).cmd
    BY <2>1, HandlerLogs
  <2> QED  BY <2>2, <2>3
<1>3. ASSUME NEW m \in late, HandleLate(m) PROVE Goal
  <2>1. m \in Message /\ PaxosRequestHandler(m)
    BY <1>3 DEF HandleLate, TypeOK
  <2> QED  BY <2>1, HandlerLogs DEF Accepting
<1>4. ASSUME NEW n \in Server, UpdateLocalValues(n) PROVE Goal
  <2>1. /\ log' = [log EXCEPT ![n][orig[n].index].min = orig[n].prop]
        /\ log \in [Server -> [Slot -> Entry]] /\ orig[n].index \in Slot
    BY <1>4, TypedParts DEF UpdateLocalValues, TypeOK
  <2>2. log'[s][i].cmd = log[s][i].cmd
    BY <2>1 DEF Entry
  <2> QED  BY <2>2
<1>5. ASSUME NEW n \in Server, NEW e, FillSlot(n, e), pc[n] = "accept", e.cmd \in {sent[n], orig[n].cmd}
      PROVE  Goal
  <2>1. /\ log' = [log EXCEPT ![n][orig[n].index] = e]
        /\ log \in [Server -> [Slot -> Entry]] /\ orig[n].index \in Slot
    BY <1>5, TypedParts DEF FillSlot, TypeOK
  <2>2. log'[s][i] = log[s][i] \/ log'[s][i] = e
    BY <2>1
  <2> QED  BY <1>5, <2>2
<1>6. ASSUME NEW n \in Server, NEW resp \in Collected(n), Inserted(n, resp) PROVE Goal
  <2> DEFINE e == [min |-> orig[n].prop, acc |-> orig[n].prop, cmd |-> orig[n].cmd]
  <2>1. FillSlot(n, e) /\ pc[n] = "accept" /\ e.cmd = orig[n].cmd
    BY <1>6 DEF Inserted, AllAccepted
  <2> HIDE DEF e, Goal
  <2> QED  BY <1>5, <2>1
<1>7. ASSUME NEW n \in Server, NEW resp \in Collected(n), Defeated(n, resp) PROVE Goal
  <2> DEFINE e == [min |-> orig[n].prop, acc |-> orig[n].prop, cmd |-> sent[n]]
  <2>1. FillSlot(n, e) /\ pc[n] = "accept" /\ e.cmd = sent[n]
    BY <1>7 DEF Defeated, NextSlot, AllAccepted
  <2> HIDE DEF e, Goal
  <2> QED  BY <1>5, <2>1
<1>8. ASSUME NEW n \in Server, NEW resp \in Collected(n), AcceptMixed(n, resp) PROVE Goal
  <2>1. CASE sent[n].id = orig[n].cmd.id
    BY <1>1, <1>8, <2>1 DEF AcceptMixed, acceptor
  <2>2. CASE sent[n].id # orig[n].cmd.id
    <3> DEFINE entry == [min |-> Garbage, acc |-> [Garbage EXCEPT !.num = NextNum(resp)],
                         cmd |-> [sent[n] EXCEPT !.type = "NONE", !.value = NoId]]
    <3>1. NextSlot(n, entry) /\ entry.min = Garbage
      BY <1>8, <2>2 DEF AcceptMixed
    <3> HIDE DEF entry
    <3>2. "unset" \in deviations'
      BY <3>1 DEF NextSlot, Deviate, When
    <3> QED  BY <3>2
  <2> QED  BY <2>1, <2>2
<1>9. ASSUME NEW n \in Server, NEW resp \in Collected(n),
             \/ PrepareRefused(n, resp) \/ AcceptRefused(n, resp) \/ Overtaken(n, resp)
             \/ PreparePromised(n, resp)
      PROVE  log' = log
  BY <1>9 DEF PrepareRefused, AcceptRefused, Overtaken, PreparePromised, acceptor
<1>10. ASSUME NEW n \in Server, ReadReturn(n) PROVE log' = log
  BY <1>10 DEF ReadReturn, acceptor
<1>11. ASSUME NEW n \in Server, NEW c \in Clients, NEW type \in Types[c], StartRequest(n, c, type)
       PROVE  log' = log
  BY <1>11 DEF StartRequest, acceptor
<1>12. ASSUME UNCHANGED vars PROVE Goal
  BY <1>1, <1>12 DEF vars, acceptor
<1> HIDE DEF Goal
<1>13. ASSUME NEW n \in Server, Propose(n) PROVE Goal
  BY <1>1, <1>4, <1>6, <1>7, <1>8, <1>9, <1>10, <1>13 DEF Propose
<1>14. Goal
  BY <1>1, <1>2, <1>3, <1>11, <1>12, <1>13 DEF Next
<1> QED  BY <1>14 DEF Goal

\* No step gives a command another type when none is sent with another type.
LEMMA TypesStep ==
  ASSUME Regular, [HNext]_hvars, deviations' = {}, causes' = {}
  PROVE  TypesAreKept'
<1>1. /\ TypeOK /\ OneReplyPerServer /\ [Next]_vars /\ TypesAreKept
  BY RegularParts, StepOfProtocol DEF Regular
<1>2. /\ \A m \in Accepting : m.cmd.type = TypeOf(m.cmd)
      /\ \A n \in Server :
           /\ pc[n] # "idle" => orig[n].cmd.type = TypeOf(orig[n].cmd)
           /\ pc[n] = "accept" => sent[n].type = TypeOf(sent[n])
           /\ \A i \in Slot : log[n][i].cmd = NoCommand \/ log[n][i].cmd.type = TypeOf(log[n][i].cmd)
  BY <1>1, Zenon DEF TypesAreKept
<1>3. ASSUME NEW m \in Accepting' PROVE m.cmd.type = TypeOf(m.cmd)
  <2>1. ASSUME NEW n \in Server, NEW s \in Server, pc[n] = "accept", m = Request(n, s)
        PROVE  m.cmd.type = TypeOf(m.cmd)
    <3>1. m.cmd = sent[n]
      BY <2>1 DEF Request
    <3> QED  BY <1>2, <2>1, <3>1
  <2> QED  BY <1>1, <1>2, <2>1, AcceptingStep
<1>4. ASSUME NEW n \in Server, NEW i \in Slot
      PROVE  log'[n][i].cmd = NoCommand \/ log'[n][i].cmd.type = TypeOf(log'[n][i].cmd)
  <2>1. CASE log'[n][i].cmd = log[n][i].cmd
    BY <1>2, <2>1
  <2>2. CASE \E m \in Accepting : log'[n][i].cmd = m.cmd
    BY <1>2, <2>2
  <2>3. CASE \E d \in Server : pc[d] = "accept" /\ log'[n][i].cmd \in {sent[d], orig[d].cmd}
    BY <1>2, <2>3
  <2> QED  BY <1>1, <2>1, <2>2, <2>3, LoggedCommands
<1>5. ASSUME NEW n \in Server, pc'[n] # "idle" PROVE orig'[n].cmd.type = TypeOf(orig'[n].cmd)
  <2>1. CASE pc[n] # "idle" /\ orig'[n].cmd = orig[n].cmd
    BY <1>2, <2>1
  <2>2. ASSUME NEW b \in Clients, HStartPut(n, b) \/ HStartGet(n, b)
        PROVE  orig'[n].cmd.type = TypeOf(orig'[n].cmd)
    <3>1. PICK type \in {"READ", "WRITE"} : StartRequest(n, b, type)
      BY <2>2 DEF HStartPut, HStartGet
    <3>2. Starts(n, b, type)
      BY <1>1, <3>1, Started
    <3>3. <<b, ops[b] + 1>> # NoId
      BY <3>2 DEF Starts, Id, NoId
    <3> QED  BY <3>2, <3>3 DEF Starts, TypeOf
  <2> QED  BY <1>5, <2>1, <2>2, SameRequest
<1>6. ASSUME NEW n \in Server, pc'[n] = "accept" PROVE sent'[n].type = TypeOf(sent'[n])
  <2>1. CASE Stays(n)
    BY <1>2, <1>6, <2>1 DEF Stays
  <2>2. ASSUME NEW resp \in Collected(n), HChoose(n, resp) PROVE sent'[n].type = TypeOf(sent'[n])
    BY <2>2 DEF HChoose, Cause
  <2>3. ASSUME NEW resp \in Collected(n), HPutReturn(n, resp) PROVE FALSE
    BY <1>1, <1>6, <2>3 DEF HPutReturn, Inserted, TypeOK
  <2>4. ASSUME HGetReturn(n) PROVE FALSE
    BY <1>1, <1>6, <2>4 DEF HGetReturn, ReadReturn, TypeOK
  <2>5. ASSUME NEW b \in Clients, HStartPut(n, b) \/ HStartGet(n, b) PROVE FALSE
    BY <1>1, <1>6, <2>5 DEF HStartPut, HStartGet, StartRequest, TypeOK
  <2>6. Quiet => Stays(n)
    BY <1>6 DEF Quiet, GoesOn
  <2> QED  BY <1>1, <2>1, <2>2, <2>3, <2>4, <2>5, <2>6, OthersStay, KindsOfSteps
<1>7. \A n \in Server :
        /\ pc'[n] # "idle" => orig'[n].cmd.type = TypeOf(orig'[n].cmd)
        /\ pc'[n] = "accept" => sent'[n].type = TypeOf(sent'[n])
        /\ \A i \in Slot : log'[n][i].cmd = NoCommand \/ log'[n][i].cmd.type = TypeOf(log'[n][i].cmd)
  BY <1>4, <1>5, <1>6
<1> HIDE <1>2, <1>4, <1>5, <1>6
<1> QED  BY <1>3, <1>7, Zenon DEF TypesAreKept, TypeOf

-----------------------------------------------------------------------------
(* The slot of a command.                                                   *)

\* A command stays in its slot: its proposer inserts it there or leaves the slot to
\* another command, which is chosen.
LEMMA PlacedStays ==
  ASSUME Regular, TypeOK', [HNext]_hvars, deviations' = {}, NEW i, NEW id, Placed(i, id)
  PROVE  Placed(i, id)'
<1>1. /\ TypeOK /\ OneReplyPerServer /\ AcceptedAsSent
      /\ accepts \subseteq accepts' /\ done \subseteq done'
  BY RegularParts, StepOfProtocol, HistoryGrows
<1>2. ASSUME \E d \in done : d.index = i /\ d.cmd.id = id PROVE Placed(i, id)'
  BY <1>1, <1>2 DEF Placed
<1>3. ASSUME Taken(i, {id}) PROVE Placed(i, id)'
  <2>1. Taken(i, {id})'
    BY <1>1, <1>3, ChoiceStays
  <2> QED  BY <2>1 DEF Placed
<1>4. ASSUME NEW n \in Server, Proposing(n), orig[n].index = i, orig[n].cmd.id = id
      PROVE  Placed(i, id)'
  <2>1. ASSUME Proposing(n)', orig'[n].index = i, orig'[n].cmd.id = id PROVE Placed(i, id)'
    BY <2>1 DEF Placed
  <2>2. CASE Stays(n)
    BY <1>4, <2>1, <2>2 DEF Stays, Proposing
  <2>3. CASE Quiet
    <3>1. ASSUME GoesOn(n), orig'[n].index = orig[n].index PROVE Placed(i, id)'
      BY <1>4, <2>1, <3>1 DEF GoesOn, Proposing
    <3>2. ASSUME NEW resp \in Collected(n), Defeated(n, resp) PROVE Placed(i, id)'
      <4>1. done' = done
        BY <2>3 DEF Quiet
      <4>2. Taken(i, {id})'
        BY <1>1, <1>4, <3>2, <4>1, DefeatedIsTaken
      <4> QED  BY <4>2 DEF Placed
    <3> QED  BY <2>2, <2>3, <3>1, <3>2 DEF Quiet, GoesOn
  <2>4. ASSUME NEW resp \in Collected(n), HChoose(n, resp) PROVE Placed(i, id)'
    <3>1. pc'[n] = "accept" /\ orig' = orig
      BY <1>1, <2>4 DEF HChoose, PreparePromised, TypeOK
    <3> QED  BY <1>4, <2>1, <3>1 DEF Proposing
  <2>5. ASSUME NEW resp \in Collected(n), HPutReturn(n, resp) PROVE Placed(i, id)'
    <3> DEFINE d == [server |-> n, index |-> orig[n].index, prop |-> orig[n].prop,
                     cmd |-> orig[n].cmd]
    <3>1. d \in done' /\ d.index = i /\ d.cmd.id = id
      BY <1>4, <2>5 DEF HPutReturn, Inserted
    <3> HIDE DEF d
    <3> QED  BY <3>1 DEF Placed
  <2>6. ASSUME HGetReturn(n) \/ \E c \in Clients : HStartPut(n, c) \/ HStartGet(n, c) PROVE FALSE
    BY <1>4, <2>6 DEF HGetReturn, ReadReturn, HStartPut, HStartGet, StartRequest, Proposing
  <2> QED  BY <1>1, <2>2, <2>3, <2>4, <2>5, <2>6, OthersStay, KindsOfSteps
<1> QED  BY <1>2, <1>3, <1>4 DEF Placed

\* No command comes to a second slot while it can still be chosen in its first.
LEMMA OnePlaceStep ==
  ASSUME Regular, TypeOK', [HNext]_hvars, deviations' = {}
  PROVE  OnePlace'
<1>1. /\ TypeOK /\ OneReplyPerServer /\ PromisesAreKept /\ [Next]_vars
      /\ ServesLastRequest /\ OnePlace
  BY RegularParts, StepOfProtocol DEF Regular
<1>2. ASSUME NEW d \in done', NEW e \in done', d.cmd.id = e.cmd.id PROVE d.index = e.index
  <2>1. ASSUME NEW x \in done, NEW n \in Server, pc[n] = "accept" PROVE x.cmd.id # orig[n].cmd.id
    BY <1>1, <2>1 DEF ServesLastRequest, Proposing
  <2>2. ASSUME NEW n \in Server, NEW resp \in Collected(n), HPutReturn(n, resp),
               pc[n] = "accept", d.index = orig[n].index, d.cmd = orig[n].cmd
        PROVE  d.index = e.index
    <3>1. CASE e \in done
      BY <1>2, <2>1, <2>2, <3>1
    <3>2. CASE e \notin done
      BY <2>2, <3>2 DEF HPutReturn, Inserted
    <3> QED  BY <3>1, <3>2
  <2>3. ASSUME NEW n \in Server, NEW resp \in Collected(n), HPutReturn(n, resp),
               pc[n] = "accept", e.index = orig[n].index, e.cmd = orig[n].cmd
        PROVE  d.index = e.index
    <3>1. CASE d \in done
      BY <1>2, <2>1, <2>3, <3>1
    <3>2. CASE d \notin done
      BY <2>3, <3>2 DEF HPutReturn, Inserted
    <3> QED  BY <3>1, <3>2
  <2>4. CASE d \in done /\ e \in done
    BY <1>1, <1>2, <2>4 DEF OnePlace
  <2> QED  BY <2>2, <2>3, <2>4, NewlyDone
<1>3. ASSUME NEW m \in Accepting' PROVE Placed(m.index, m.cmd.id)'
  <2>1. Placed(m.index, m.cmd.id)
    <3>1. ASSUME NEW n \in Server, NEW s \in Server, pc[n] = "accept", m = Request(n, s)
          PROVE  Placed(m.index, m.cmd.id)
      <4>1. m.index = orig[n].index /\ m.cmd = sent[n]
        BY <3>1 DEF Request
      <4> QED  BY <1>1, <3>1, <4>1 DEF OnePlace
    <3>2. m \in Accepting => Placed(m.index, m.cmd.id)
      BY <1>1 DEF OnePlace
    <3> QED  BY <1>1, <3>1, <3>2, AcceptingStep
  <2> QED  BY <2>1, PlacedStays
<1>4. ASSUME NEW n \in Server, pc'[n] = "accept" PROVE Placed(orig[n].index, sent[n].id)'
  <2>1. PICK i, id : i = orig'[n].index /\ id = sent'[n].id
    OBVIOUS
  <2>2. Placed(i, id)
    <3>1. CASE Stays(n)
      BY <1>1, <1>4, <2>1, <3>1 DEF Stays, OnePlace
    <3>2. ASSUME NEW resp \in Collected(n), HChoose(n, resp) PROVE Placed(i, id)
      <4>1. pc[n] = "prepare" /\ Nacks(resp) = {} /\ orig' = orig
        BY <3>2 DEF HChoose, PreparePromised
      <4>2. PICK h \in DOMAIN resp : Highest(resp) = resp[h]
        BY <1>1, HighestIsGreatest
      <4>3. resp[h] \in replied[n] /\ ~ IsNack(resp[h])
        BY <4>1, CollectedAreReplies, NoNacks
      <4>4. sent'[n] = IF resp[h].prop.num = -1 THEN orig[n].cmd ELSE resp[h].cmd
        BY <1>1, <3>2, <4>2 DEF HChoose, PreparePromised, TypeOK
      <4>5. CASE resp[h].prop.num = -1
        BY <2>1, <4>1, <4>4, <4>5 DEF Placed, Proposing
      <4>6. CASE resp[h].prop.num # -1
        <5>1. resp[h].prop # NoProposal
          BY <4>6 DEF NoProposal
        <5>2. Accepted(i, resp[h].prop, id)
          BY <1>1, <2>1, <4>1, <4>3, <4>4, <4>6, <5>1 DEF PromisesAreKept
        <5>3. PICK a \in accepts : a.index = i /\ a.cmd.id = id
          BY <5>2 DEF Accepted
        <5> QED  BY <1>1, <5>3 DEF OnePlace, Accepting
      <4> QED  BY <4>5, <4>6
    <3>3. ASSUME NEW resp \in Collected(n), HPutReturn(n, resp) PROVE FALSE
      BY <1>1, <1>4, <3>3 DEF HPutReturn, Inserted, TypeOK
    <3>4. ASSUME HGetReturn(n) PROVE FALSE
      BY <1>1, <1>4, <3>4 DEF HGetReturn, ReadReturn, TypeOK
    <3>5. ASSUME NEW b \in Clients, HStartPut(n, b) \/ HStartGet(n, b) PROVE FALSE
      BY <1>1, <1>4, <3>5 DEF HStartPut, HStartGet, StartRequest, TypeOK
    <3>6. Quiet => Stays(n)
      BY <1>4 DEF Quiet, GoesOn
    <3> QED  BY <1>1, <3>1, <3>2, <3>3, <3>4, <3>5, <3>6, OthersStay, KindsOfSteps
  <2>3. Placed(i, id)'
    BY <2>2, PlacedStays
  <2> QED  BY <2>1, <2>3
<1> QED  BY <1>2, <1>3, <1>4 DEF OnePlace

\* A command is chosen in one slot only.
LEMMA ChosenOnce ==
  ASSUME Regular, NEW i, NEW j, NEW x, Chosen(i, x), Chosen(j, x)
  PROVE  i = j
<1>1. /\ ServesOwnClients /\ ServesLastRequest /\ OnePlace
      /\ TypeOK /\ ProposalsAreFresh /\ OneCommandInFlight /\ InsertedByQuorum /\ SentIsSafe
  BY RegularParts DEF Regular
<1>2. ASSUME NEW k, Chosen(k, x)
      PROVE  \/ \E n \in Server : Proposing(n) /\ orig[n].index = k /\ orig[n].cmd.id = x
             \/ \E d \in done : d.index = k /\ d.cmd.id = x
  <2>1. PICK a \in accepts : a.index = k /\ a.cmd.id = x
    BY <1>1, <1>2, ChosenIsAccepted DEF Accepted
  <2>2. Placed(k, x)
    BY <1>1, <2>1 DEF OnePlace, Accepting
  <2>3. ~ Taken(k, {x})
    BY <1>1, <1>2, TakenIsLost
  <2> QED  BY <2>2, <2>3 DEF Placed
<1>3. ASSUME NEW n \in Server, NEW m \in Server, Proposing(n), Proposing(m),
             orig[n].cmd.id = x, orig[m].cmd.id = x
      PROVE  n = m
  BY <1>1, <1>3, ServedOnce DEF Proposing
<1>4. ASSUME NEW n \in Server, NEW d \in done, Proposing(n), orig[n].cmd.id = x, d.cmd.id = x
      PROVE  FALSE
  BY <1>1, <1>4 DEF ServesLastRequest
<1>5. ASSUME NEW d \in done, NEW e \in done, d.cmd.id = x, e.cmd.id = x PROVE d.index = e.index
  BY <1>1, <1>5 DEF OnePlace
<1> QED  BY <1>2, <1>3, <1>4, <1>5

-----------------------------------------------------------------------------
(* What users know.                                                         *)

\* A command in the log of a server whose type is WRITE has its command_id as value.
LEMMA WriteHasValue ==
  ASSUME Regular, NEW n \in Server, NEW i \in Slot, log[n][i].cmd.type = "WRITE"
  PROVE  log[n][i].cmd.value # NoId /\ log[n][i].cmd.value = log[n][i].cmd.id
<1>1. log[n][i].cmd = NoCommand \/ log[n][i].cmd.type = TypeOf(log[n][i].cmd)
  BY DEF Regular, TypesAreKept
<1>2. log[n][i].cmd.value # NoId
  BY <1>1 DEF TypeOf, NoCommand
<1>3. log[n][i].cmd.value \in {NoId, log[n][i].cmd.id}
  BY CommandsHeld DEF Regular, OwnValues
<1> QED  BY <1>2, <1>3

\* A command with a value is a WRITE in every log.
LEMMA ValueIsWrite ==
  ASSUME Regular, NEW n \in Server, NEW i \in Slot, log[n][i].cmd.value # NoId
  PROVE  log[n][i].cmd.type = "WRITE"
<1>1. log[n][i].cmd = NoCommand \/ log[n][i].cmd.type = TypeOf(log[n][i].cmd)
  BY DEF Regular, TypesAreKept
<1> QED  BY <1>1 DEF TypeOf, NoCommand

\* Where the command of a slot's entry is chosen, it is a WRITE exactly when the put
\* of its value is chosen there.
LEMMA ChosenEntry ==
  ASSUME Regular, NEW n \in Server, NEW i \in Slot, Chosen(i, log[n][i].cmd.id)
  PROVE  /\ log[n][i].cmd.type = "WRITE" => PutChosen(i, log[n][i].cmd.value)
         /\ \A x : PutChosen(i, x) => log[n][i].cmd.type = "WRITE"
<1>1. /\ TypeOK /\ ProposalsAreFresh /\ OneCommandInFlight /\ InsertedByQuorum /\ SentIsSafe
      /\ \A x, y \in Commands : x.id = y.id => x.value = y.value
  BY RegularParts DEF OneValuePerId
<1>2. log[n][i].cmd \in Commands /\ \A a \in accepts : a.cmd \in Commands
  BY CommandsHeld
<1>3. ASSUME log[n][i].cmd.type = "WRITE" PROVE PutChosen(i, log[n][i].cmd.value)
  <2>1. log[n][i].cmd.value # NoId /\ log[n][i].cmd.value = log[n][i].cmd.id
    BY <1>3, WriteHasValue
  <2>2. PICK a \in accepts : a.index = i /\ a.cmd.id = log[n][i].cmd.id
    BY <1>1, ChosenIsAccepted DEF Accepted
  <2>3. a.cmd.value # NoId
    BY <1>1, <1>2, <2>1, <2>2
  <2> QED  BY <2>1, <2>2, <2>3 DEF PutChosen
<1>4. ASSUME NEW x, PutChosen(i, x) PROVE log[n][i].cmd.type = "WRITE"
  <2>1. PICK a \in accepts : a.cmd.id = x /\ a.cmd.value # NoId
    BY <1>4 DEF PutChosen
  <2>2. x = log[n][i].cmd.id
    BY <1>1, <1>4, OneChoice DEF PutChosen
  <2>3. log[n][i].cmd.value # NoId
    BY <1>1, <1>2, <2>1, <2>2
  <2> QED  BY <2>3, ValueIsWrite
<1> QED  BY <1>3, <1>4

\* The slot of a READ that was inserted keeps it, at the server that inserted it.
LEMMA ReadIsInLog ==
  ASSUME Regular, NEW n \in Server, pc[n] = "apply"
  PROVE  /\ Chosen(orig[n].index, orig[n].cmd.id)
         /\ log[n][orig[n].index].cmd.id = orig[n].cmd.id
<1> DEFINE i == orig[n].index
<1>1. /\ TypeOK /\ ProposalsAreFresh /\ OneCommandInFlight /\ InsertedByQuorum /\ SentIsSafe
      /\ VotesAreRecorded /\ i \in Slot
  BY RegularParts, TypedParts
<1>2. PICK d \in done : d.server = n /\ d.index = i /\ d.cmd = orig[n].cmd
  BY DEF Regular, ServesLastRequest
<1>3. d.cmd.id \in Votes(n, i, d.prop)
  BY <1>2 DEF Votes
<1>4. d.prop \in Tried /\ d.prop.num >= 0
  BY <1>1, <1>3, VotesWereAccepted
<1>5. ~ Less(log[n][i].acc, d.prop)
  BY <1>1, <1>3, <1>4 DEF VotesAreRecorded
<1>6. log[n][i].acc \in Proposal /\ d.prop \in Proposal
  BY <1>1, <1>4, EntryTyped, TriedIsProposal
<1>7. log[n][i].acc # NoProposal
  <2>1. d.prop.num \in Int
    BY <1>6, ProposalParts
  <2>2. Less(NoProposal, d.prop)
    BY <1>4, <2>1 DEF Less, NoProposal
  <2> QED  BY <1>5, <2>2
<1>8. Accepted(i, log[n][i].acc, log[n][i].cmd.id)
  BY <1>1, <1>7 DEF VotesAreRecorded
<1>9. log[n][i].acc = d.prop \/ Less(d.prop, log[n][i].acc)
  BY <1>5, <1>6, LessTotal
<1>10. Cardinality(Acceptors(i, orig[n].cmd.id, d.prop)) > N \div 2
  BY <1>1, <1>2, InsertedByMost
<1>11. log[n][i].cmd.id = orig[n].cmd.id
  BY <1>1, <1>8, <1>9, <1>10, ChosenIsKept
<1>12. Chosen(i, orig[n].cmd.id)
  BY <1>1, <1>2, InsertedIsChosen
<1> QED  BY <1>11, <1>12

\* A get that ends with nothing unlearned returns the value of the last put that is
\* chosen before its own slot.
LEMMA GetReturnsLast ==
  ASSUME Regular, NEW n \in Server, pc[n] = "apply", ~ Unlearned(n),
         NEW v, v = LastWrite(log[n], orig[n].index, NoId)
  PROVE  /\ Closed(orig[n].index, {})
         /\ \/ v = NoId /\ \A k \in 0 .. orig[n].index : \A x : ~ PutChosen(k, x)
            \/ \E m \in 0 .. orig[n].index :
                 /\ v # NoId /\ PutChosen(m, v)
                 /\ \A k \in 0 .. orig[n].index : \A x : PutChosen(k, x) => k <= m
<1> DEFINE i == orig[n].index
           W == {k \in 0 .. i : log[n][k].cmd.type = "WRITE"}
<1>1. TypeOK /\ ProposalsAreFresh /\ InsertedByQuorum /\ i \in Slot
  BY RegularParts, TypedParts
<1>2. i \in Nat /\ 0 .. i \subseteq Slot
  BY <1>1, BoundsAssumption DEF Slot
<1>3. ASSUME NEW k \in 0 .. i PROVE Chosen(k, log[n][k].cmd.id)
  <2>1. CASE k = i
    BY <2>1, ReadIsInLog
  <2>2. CASE k # i
    <3>1. k \in 0 .. i - 1
      BY <1>2, <2>2
    <3> QED  BY <3>1 DEF Unlearned
  <2> QED  BY <2>1, <2>2
<1>4. Closed(i, {})
  BY <1>1, <1>3, ChosenIsTaken DEF Closed
<1>5. \A k \in 0 .. i : \A x : PutChosen(k, x) => k \in W
  BY <1>2, <1>3, ChosenEntry
<1>6. CASE W = {}
  <2>1. v = NoId
    BY <1>6 DEF LastWrite
  <2> QED  BY <1>4, <1>5, <1>6, <2>1
<1>7. CASE W # {}
  <2>1. W \in SUBSET Int /\ \A k \in W : k <= i
    BY <1>2
  <2>2. Max(W) \in W /\ \A k \in W : k <= Max(W)
    <3> HIDE DEF W, i
    <3> QED  BY <1>2, <1>7, <2>1, MaxOfBounded
  <2>3. v = log[n][Max(W)].cmd.value
    BY <1>7 DEF LastWrite
  <2>4. PICK m : m = Max(W)
    OBVIOUS
  <2>5. m \in 0 .. i /\ m \in Slot /\ log[n][m].cmd.type = "WRITE"
    BY <1>2, <2>2, <2>4
  <2>6. v # NoId
    BY <2>3, <2>4, <2>5, WriteHasValue
  <2>7. PutChosen(m, v)
    BY <1>3, <2>3, <2>4, <2>5, ChosenEntry
  <2>8. \A k \in 0 .. i : \A x : PutChosen(k, x) => k <= m
    BY <1>5, <2>2, <2>4
  <2> QED  BY <1>4, <2>5, <2>6, <2>7, <2>8
<1> QED  BY <1>6, <1>7

\* So it returns no value that was stale when it was called.
LEMMA GetIsFresh ==
  ASSUME Regular, NEW n \in Server, pc[n] = "apply", ~ Unlearned(n)
  PROVE  LastWrite(log[n], orig[n].index, NoId) \notin stale[orig[n].prop.client]
<1>1. /\ TypeOK /\ ProposalsAreFresh /\ OneCommandInFlight /\ InsertedByQuorum /\ SentIsSafe
      /\ StaleIsEarlier /\ orig[n].cmd.type = "READ" /\ orig[n].index \in Slot
  BY RegularParts, TypedParts DEF Regular, ServesLastRequest
<1>2. PICK i, v : i = orig[n].index /\ v = LastWrite(log[n], orig[n].index, NoId)
  OBVIOUS
<1>3. SUFFICES ASSUME v \in stale[orig[n].prop.client] PROVE FALSE
  BY <1>2
<1>4. PICK k \in Slot : /\ \E a \in accepts : PutChosen(k, a.cmd.id)
                        /\ Closed(k, {orig[n].cmd.id})
                        /\ v # NoId => \E j \in 0 .. k - 1 : Chosen(j, v)
  BY <1>1, <1>3 DEF StaleIsEarlier
<1>5. i \in Nat /\ k \in Nat
  BY <1>1, <1>2, BoundsAssumption DEF Slot
<1>6. k < i
  <2>1. Chosen(i, orig[n].cmd.id)
    BY <1>2, ReadIsInLog
  <2>2. ~ Taken(i, {orig[n].cmd.id})
    BY <1>1, <2>1, TakenIsLost
  <2>3. i \notin 0 .. k
    BY <1>4, <2>2 DEF Closed
  <2> QED  BY <1>5, <2>3
<1>7. \/ v = NoId /\ \A j \in 0 .. i : \A x : ~ PutChosen(j, x)
      \/ \E m \in 0 .. i : /\ v # NoId /\ PutChosen(m, v)
                           /\ \A j \in 0 .. i : \A x : PutChosen(j, x) => j <= m
  BY <1>2, GetReturnsLast
<1>8. k \in 0 .. i
  BY <1>5, <1>6
<1>9. PICK m \in 0 .. i : v # NoId /\ PutChosen(m, v) /\ k <= m
  BY <1>4, <1>7, <1>8
<1>10. PICK j \in 0 .. k - 1 : Chosen(j, v)
  BY <1>4, <1>9
<1>11. j = m
  BY <1>9, <1>10, ChosenOnce DEF PutChosen
<1> QED  BY <1>5, <1>9, <1>10, <1>11

\* What a user learns is the value of a put that is chosen, with all slots before it.
LEMMA KnownStep ==
  ASSUME Regular, IInv', [HNext]_hvars, deviations' = {}, causes' = {}
  PROVE  KnownIsChosen'
<1>1. /\ TypeOK /\ TypeOK' /\ ProposalsAreFresh' /\ InsertedByQuorum'
      /\ accepts \subseteq accepts' /\ done \subseteq done' /\ KnownIsChosen
  BY RegularParts, StepOfProtocol, HistoryGrows DEF IInv, Regular
<1>2. /\ \A i, id : Chosen(i, id) => Chosen(i, id)'
      /\ \A i, but : Closed(i, but) => Closed(i, but)'
      /\ \A i, v : PutChosen(i, v) => PutChosen(i, v)'
  BY <1>1, ChoiceStays
<1> DEFINE Sure(v) == \E i \in Slot : PutChosen(i, v)' /\ Closed(i, {})'
<1>3. \A v \in known : Sure(v)
  BY <1>1, <1>2 DEF KnownIsChosen
<1>4. ASSUME NEW n \in Server, NEW resp \in Collected(n), HPutReturn(n, resp),
             NEW v, v = orig[n].cmd.value, v # NoId
      PROVE  Sure(v)
  <2> DEFINE e == [server |-> n, index |-> orig[n].index, prop |-> orig[n].prop, cmd |-> orig[n].cmd]
  <2>1. e \in done' /\ e.index = orig[n].index /\ e.cmd = orig[n].cmd /\ ~ Unlearned(n)
    BY <1>4 DEF HPutReturn, Inserted, Cause
  <2> HIDE DEF e
  <2>2. PICK i : i = orig[n].index
    OBVIOUS
  <2>3. i \in Slot /\ i \in Nat
    BY <1>1, <2>2, TypedParts, BoundsAssumption DEF Slot
  <2>4. v = orig[n].cmd.id
    BY <1>4, CommandsHeld DEF Regular, OwnValues
  <2>5. Chosen(i, v)'
    <3>1. PICK d : d = e
      OBVIOUS
    <3>2. d \in done' /\ d.index = i /\ d.cmd.id = v
      BY <2>1, <2>2, <2>4, <3>1
    <3> QED  BY <1>1, <3>2, InsertedIsChosenNext
  <2>6. PutChosen(i, v)'
    <3>1. PICK a \in accepts' : a.index = e.index /\ a.cmd = e.cmd
      BY <1>1, <2>1 DEF InsertedByQuorum
    <3> QED  BY <1>4, <2>1, <2>2, <2>4, <2>5, <3>1 DEF PutChosen
  <2>7. ASSUME NEW j \in 0 .. i PROVE Taken(j, {})'
    <3>1. CASE j = i
      BY <1>1, <2>5, <3>1, ChosenIsTakenNext
    <3>2. CASE j # i
      <4>1. j \in 0 .. orig[n].index - 1
        BY <2>2, <2>3, <3>2
      <4>2. PICK id : id = log[n][j].cmd.id
        OBVIOUS
      <4>3. Chosen(j, id)'
        BY <1>2, <2>1, <4>1, <4>2 DEF Unlearned
      <4> QED  BY <1>1, <4>3, ChosenIsTakenNext
    <3> QED  BY <3>1, <3>2
  <2>8. Closed(i, {})'
    BY <2>7 DEF Closed
  <2> QED  BY <2>3, <2>6, <2>8
<1>5. ASSUME NEW n \in Server, HGetReturn(n),
             NEW v, v = LastWrite(log[n], orig[n].index, NoId), v # NoId
      PROVE  Sure(v)
  <2>1. pc[n] = "apply" /\ ~ Unlearned(n)
    BY <1>5 DEF HGetReturn, ReadReturn, Cause
  <2>2. orig[n].index \in Nat /\ 0 .. orig[n].index \subseteq Slot
    BY <1>1, TypedParts, BoundsAssumption DEF Slot
  <2>3. PICK m \in 0 .. orig[n].index : PutChosen(m, v)
    BY <1>5, <2>1, GetReturnsLast
  <2>4. Closed(orig[n].index, {})
    BY <1>5, <2>1, GetReturnsLast
  <2>5. m \in Slot /\ 0 .. m \subseteq 0 .. orig[n].index
    BY <2>2
  <2>6. Closed(m, {})
    BY <2>4, <2>5 DEF Closed
  <2> QED  BY <1>2, <2>3, <2>5, <2>6
<1>6. ASSUME NEW v \in known' PROVE Sure(v)
  <2>1. ASSUME NEW n \in Server, NEW resp \in Collected(n), HPutReturn(n, resp) PROVE Sure(v)
    BY <1>3, <1>4, <1>6, <2>1 DEF HPutReturn
  <2>2. ASSUME NEW n \in Server, HGetReturn(n) PROVE Sure(v)
    BY <1>3, <1>5, <1>6, <2>2 DEF HGetReturn
  <2>3. ASSUME NEW n \in Server, NEW c \in Clients, HStartPut(n, c) \/ HStartGet(n, c)
        PROVE  known' = known
    BY <2>3 DEF HStartPut, HStartGet
  <2>4. ASSUME NEW n \in Server, NEW resp \in Collected(n), HChoose(n, resp) PROVE known' = known
    BY <2>4 DEF HChoose
  <2>5. known' = known => Sure(v)
    BY <1>3, <1>6
  <2> HIDE DEF Sure
  <2> QED  BY <2>1, <2>2, <2>3, <2>4, <2>5, KindsOfSteps DEF Quiet
<1> QED  BY <1>6 DEF KnownIsChosen

\* Nothing that is closed is left for a request that has just begun.
LEMMA ClosedForNext ==
  ASSUME Regular, NEW c \in Clients, NEW i, Closed(i, {})
  PROVE  Closed(i, {<<c, ops[c] + 1>>})
BY NextIdIsFresh DEF Closed, Taken

\* What is known when a put begins has an earlier slot than that put.
LEMMA BeforeStep ==
  ASSUME Regular, TypeOK', [HNext]_hvars, deviations' = {}
  PROVE  BeforeIsEarlier'
<1>1. /\ TypeOK /\ accepts \subseteq accepts' /\ done \subseteq done'
      /\ BeforeIsEarlier /\ KnownIsChosen
  BY RegularParts, StepOfProtocol, HistoryGrows DEF Regular
<1>2. /\ \A i, id : Chosen(i, id) => Chosen(i, id)'
      /\ \A i, but : Closed(i, but) => Closed(i, but)'
  BY <1>1, ChoiceStays
<1> DEFINE Earlier(u, v) == \E i \in Slot : Chosen(i, u)' /\ Closed(i, {v})'
<1>3. \A uv \in before : Earlier(uv[1], uv[2])
  BY <1>1, <1>2 DEF BeforeIsEarlier
<1>4. ASSUME NEW n \in Server, NEW c \in Clients, HStartPut(n, c), NEW u \in known,
             NEW v, v = <<c, ops[c] + 1>>
      PROVE  Earlier(u, v)
  <2>1. PICK i \in Slot : PutChosen(i, u) /\ Closed(i, {})
    BY <1>1 DEF KnownIsChosen
  <2>2. Chosen(i, u) /\ Closed(i, {v})
    BY <1>4, <2>1, ClosedForNext DEF PutChosen
  <2> QED  BY <1>2, <2>2
<1>5. ASSUME NEW uv \in before' PROVE Earlier(uv[1], uv[2])
  <2>1. ASSUME NEW n \in Server, NEW c \in Clients, HStartPut(n, c), uv \notin before
        PROVE  Earlier(uv[1], uv[2])
    <3>1. Starts(n, c, "WRITE") /\ before' = before \cup (known \X {orig'[n].cmd.id})
      BY <1>1, <2>1, Started DEF HStartPut
    <3>2. uv[1] \in known /\ uv[2] = <<c, ops[c] + 1>>
      BY <1>5, <2>1, <3>1 DEF Starts
    <3> QED  BY <1>4, <2>1, <3>2
  <2>2. ASSUME NEW n \in Server, NEW resp \in Collected(n), HChoose(n, resp) \/ HPutReturn(n, resp)
        PROVE  before' = before
    BY <2>2 DEF HChoose, HPutReturn
  <2>3. ASSUME NEW n \in Server, HGetReturn(n) \/ \E c \in Clients : HStartGet(n, c)
        PROVE  before' = before
    BY <2>3 DEF HGetReturn, HStartGet
  <2>4. uv \in before => Earlier(uv[1], uv[2])
    BY <1>3
  <2> HIDE DEF Earlier
  <2> QED  BY <1>5, <2>1, <2>2, <2>3, <2>4, KindsOfSteps DEF Quiet
<1> QED  BY <1>5 DEF BeforeIsEarlier

\* A get begins after a put that has overwritten the values it may not return.
LEMMA StaleStep ==
  ASSUME Regular, TypeOK', [HNext]_hvars, deviations' = {}
  PROVE  StaleIsEarlier'
<1>1. /\ TypeOK /\ ProposalsAreFresh /\ OneCommandInFlight /\ InsertedByQuorum /\ SentIsSafe
      /\ accepts \subseteq accepts' /\ done \subseteq done'
      /\ StaleIsEarlier /\ BeforeIsEarlier /\ KnownIsChosen
  BY RegularParts, StepOfProtocol, HistoryGrows DEF Regular
<1>2. /\ \A i, id : Chosen(i, id) => Chosen(i, id)'
      /\ \A i, but : Closed(i, but) => Closed(i, but)'
      /\ \A i, v : PutChosen(i, v) => PutChosen(i, v)'
  BY <1>1, ChoiceStays
<1> DEFINE Before(w, id) == \E k \in Slot :
             /\ \E a \in accepts : PutChosen(k, a.cmd.id)
             /\ Closed(k, {id})
             /\ w # NoId => \E i \in 0 .. k - 1 : Chosen(i, w)
           After(w, id) == \E k \in Slot :
             /\ \E a \in accepts' : PutChosen(k, a.cmd.id)'
             /\ Closed(k, {id})'
             /\ w # NoId => \E i \in 0 .. k - 1 : Chosen(i, w)'
<1>3. ASSUME NEW w, NEW id, Before(w, id) PROVE After(w, id)
  BY <1>1, <1>2, <1>3
<1>4. ASSUME NEW c \in Clients, NEW w \in Overwritten PROVE Before(w, <<c, ops[c] + 1>>)
  <2>1. PICK v \in known : w # NoId => <<w, v>> \in before
    BY <1>4 DEF Overwritten, Regular, HTypeOK
  <2>2. PICK k \in Slot : PutChosen(k, v) /\ Closed(k, {})
    BY <1>1 DEF KnownIsChosen
  <2>3. \E a \in accepts : PutChosen(k, a.cmd.id)
    BY <2>2 DEF PutChosen
  <2>4. Closed(k, {<<c, ops[c] + 1>>})
    BY <2>2, ClosedForNext
  <2>5. ASSUME w # NoId PROVE \E i \in 0 .. k - 1 : Chosen(i, w)
    <3>1. PICK i \in Slot : Chosen(i, w) /\ Closed(i, {v})
      BY <1>1, <2>1, <2>5 DEF BeforeIsEarlier
    <3>2. i \in Nat /\ k \in Nat
      BY BoundsAssumption DEF Slot
    <3>3. ~ Taken(k, {v})
      BY <1>1, <2>2, TakenIsLost DEF PutChosen
    <3>4. k \notin 0 .. i
      BY <3>1, <3>3 DEF Closed
    <3>5. i \in 0 .. k - 1
      BY <3>2, <3>4
    <3> QED  BY <3>1, <3>5
  <2> QED  BY <2>3, <2>4, <2>5
<1> SUFFICES ASSUME NEW n \in Server, pc'[n] # "idle", orig'[n].cmd.type = "READ",
                    NEW w \in stale'[orig'[n].prop.client], NEW id, id = orig'[n].cmd.id
             PROVE  After(w, id)
  BY DEF StaleIsEarlier
<1>5. CASE /\ pc[n] # "idle" /\ orig'[n].cmd = orig[n].cmd
           /\ orig'[n].prop.client = orig[n].prop.client
           /\ stale'[orig[n].prop.client] = stale[orig[n].prop.client]
  <2>1. Before(w, id)
    BY <1>1, <1>5 DEF StaleIsEarlier
  <2> HIDE DEF Before, After
  <2> QED  BY <1>3, <1>5, <2>1
<1>6. ASSUME NEW b \in Clients, HStartPut(n, b) PROVE FALSE
  <2>1. Starts(n, b, "WRITE")
    BY <1>1, <1>6, Started DEF HStartPut
  <2> QED  BY <2>1 DEF Starts
<1>7. ASSUME NEW b \in Clients, HStartGet(n, b) PROVE After(w, id)
  <2>1. Starts(n, b, "READ") /\ stale' = [stale EXCEPT ![b] = Overwritten]
    BY <1>1, <1>7, Started DEF HStartGet
  <2>2. w \in Overwritten /\ id = <<b, ops[b] + 1>>
    BY <2>1 DEF Starts, Regular, HTypeOK
  <2> HIDE DEF Before, After
  <2> QED  BY <1>3, <1>4, <2>2
<1> HIDE DEF Before, After
<1> QED  BY <1>5, <1>6, <1>7, SameRequest

\* What a get has returned stays a value it may return, until its client's next get.
LEMMA ReturnedStep ==
  ASSUME Regular, [HNext]_hvars, deviations' = {}, causes' = {}
  PROVE  ReturnedIsFresh'
<1>1. TypeOK /\ ServesOwnClients /\ ServesLastRequest /\ ReturnedIsFresh /\ HTypeOK
  BY RegularParts DEF Regular
<1> SUFFICES ASSUME NEW c \in Clients
             PROVE  \/ \E n \in Server : /\ pc'[n] # "idle" /\ orig'[n].prop.client = c
                                         /\ orig'[n].cmd.type = "READ"
                    \/ result'[c] \notin stale'[c]
  BY DEF ReturnedIsFresh
<1> DEFINE Reads(n) == pc[n] # "idle" /\ orig[n].prop.client = c /\ orig[n].cmd.type = "READ"
           ReadsOn(n) == pc'[n] # "idle" /\ orig'[n].prop.client = c /\ orig'[n].cmd.type = "READ"
           Goal == (\E n \in Server : ReadsOn(n)) \/ result'[c] \notin stale'[c]
<1>2. (\E n \in Server : Reads(n)) \/ result[c] \notin stale[c]
  BY <1>1 DEF ReturnedIsFresh
<1>3. ASSUME result' = result, stale' = stale, \A n \in Server : Reads(n) => ReadsOn(n) PROVE Goal
  BY <1>2, <1>3
<1>4. ASSUME NEW n \in Server, Stays(n) PROVE Reads(n) => ReadsOn(n)
  BY <1>4 DEF Stays
<1>5. ASSUME Quiet PROVE Goal
  <2>1. \A n \in Server : Reads(n) => ReadsOn(n)
    BY <1>5 DEF Quiet, Stays, GoesOn
  <2>2. result' = result /\ stale' = stale
    BY <1>5 DEF Quiet
  <2> HIDE DEF Reads, ReadsOn, Goal
  <2> QED  BY <1>3, <2>1, <2>2
<1>6. ASSUME NEW n \in Server, NEW b \in Clients, HStartPut(n, b) PROVE Goal
  <2>1. Starts(n, b, "WRITE") /\ result' = result /\ stale' = stale
    BY <1>1, <1>6, Started DEF HStartPut
  <2>2. ~ Reads(n)
    BY <2>1 DEF Starts
  <2>3. \A d \in Server : d # n => Stays(d)
    BY <1>1, <1>6, OthersStay
  <2> HIDE DEF Reads, ReadsOn, Goal
  <2> QED  BY <1>3, <1>4, <2>1, <2>2, <2>3
<1>7. ASSUME NEW n \in Server, NEW b \in Clients, HStartGet(n, b) PROVE Goal
  <2>1. /\ Starts(n, b, "READ")
        /\ result' = [result EXCEPT ![b] = NoId] /\ stale' = [stale EXCEPT ![b] = Overwritten]
    BY <1>1, <1>7, Started DEF HStartGet
  <2>2. CASE b = c
    BY <2>1, <2>2 DEF Starts
  <2>3. CASE b # c
    <3>1. result'[c] = result[c] /\ stale'[c] = stale[c]
      BY <1>1, <2>1, <2>3 DEF HTypeOK
    <3>2. ~ Reads(n)
      BY <2>1 DEF Starts
    <3>3. \A d \in Server : d # n => Stays(d)
      BY <1>1, <1>7, OthersStay
    <3>4. \A d \in Server : Reads(d) => ReadsOn(d)
      BY <1>4, <3>2, <3>3
    <3> HIDE DEF Reads, ReadsOn
    <3> QED  BY <1>2, <3>1, <3>4
  <2> QED  BY <2>2, <2>3
<1>8. ASSUME NEW n \in Server, NEW resp \in Collected(n), HChoose(n, resp) \/ HPutReturn(n, resp)
      PROVE  Goal
  <2>1. result' = result /\ stale' = stale /\ orig' = orig
    BY <1>8 DEF HChoose, HPutReturn, PreparePromised, Inserted
  <2>2. orig[n].cmd.type = "READ" => pc'[n] # "idle"
    BY <1>1, <1>8 DEF HChoose, HPutReturn, PreparePromised, Inserted, TypeOK
  <2>3. Reads(n) => ReadsOn(n)
    BY <2>1, <2>2
  <2>4. \A d \in Server : d # n => Stays(d)
    BY <1>1, <1>8, OthersStay
  <2> HIDE DEF Reads, ReadsOn, Goal
  <2> QED  BY <1>3, <1>4, <2>1, <2>3, <2>4
<1>9. ASSUME NEW n \in Server, HGetReturn(n) PROVE Goal
  <2> DEFINE value == LastWrite(log[n], orig[n].index, NoId)
  <2>1. /\ pc[n] = "apply" /\ ~ Unlearned(n) /\ stale' = stale /\ orig' = orig
        /\ result' = [result EXCEPT ![orig[n].prop.client] = value]
    BY <1>9 DEF HGetReturn, ReadReturn, Cause
  <2>2. value \notin stale[orig[n].prop.client]
    BY <2>1, GetIsFresh
  <2> HIDE DEF value
  <2>3. CASE orig[n].prop.client = c
    <3>1. result'[c] = value
      BY <1>1, <2>1, <2>3 DEF HTypeOK
    <3> QED  BY <2>1, <2>2, <2>3, <3>1
  <2>4. CASE orig[n].prop.client # c
    <3>1. result'[c] = result[c]
      BY <1>1, <2>1, <2>4 DEF HTypeOK
    <3>2. ~ Reads(n)
      BY <2>4
    <3>3. \A d \in Server : d # n => Stays(d)
      BY <1>1, <1>9, OthersStay
    <3>4. \A d \in Server : Reads(d) => ReadsOn(d)
      BY <1>4, <3>2, <3>3
    <3> HIDE DEF Reads, ReadsOn
    <3> QED  BY <1>2, <2>1, <3>1, <3>4
  <2> QED  BY <2>3, <2>4
<1> HIDE DEF Goal
<1>10. Goal
  BY <1>5, <1>6, <1>7, <1>8, <1>9, KindsOfSteps
<1> QED  BY <1>10 DEF Goal

-----------------------------------------------------------------------------
(* The invariant, and what it says of reads.                                *)

\* The history of users has its type.
LEMMA HTypeStep ==
  ASSUME IInv, TypeOK', HTypeOK, [HNext]_hvars
  PROVE  HTypeOK'
<1>1. /\ TypeOK /\ ServesOwnClients
      /\ result \in [Clients -> Id \cup {NoId}] /\ known \in SUBSET Id
      /\ before \in SUBSET (Id \X Id) /\ stale \in [Clients -> SUBSET (Id \cup {NoId})]
      /\ causes \in SUBSET {"relabelled", "unlearned"}
  BY DEF IInv, HTypeOK
<1>2. ASSUME NEW kind \in {"relabelled", "unlearned"}, NEW happens, Cause(kind, happens)
      PROVE  causes' \in SUBSET {"relabelled", "unlearned"}
  BY <1>1, <1>2 DEF Cause
<1>3. Overwritten \in SUBSET (Id \cup {NoId})
  BY <1>1 DEF Overwritten
<1>4. ASSUME NEW n \in Server, NEW c \in Clients, HStartPut(n, c) PROVE HTypeOK'
  <2>1. /\ Starts(n, c, "WRITE") /\ before' = before \cup (known \X {orig'[n].cmd.id})
        /\ UNCHANGED <<result, known, stale, causes>>
    BY <1>1, <1>4, Started DEF HStartPut
  <2>2. orig'[n].cmd.id \in Id
    BY <2>1 DEF Starts
  <2> QED  BY <1>1, <2>1, <2>2 DEF HTypeOK
<1>5. ASSUME NEW n \in Server, NEW c \in Clients, HStartGet(n, c) PROVE HTypeOK'
  BY <1>1, <1>3, <1>5 DEF HStartGet, HTypeOK
<1>6. ASSUME NEW n \in Server, NEW resp \in Collected(n), HChoose(n, resp) PROVE HTypeOK'
  BY <1>1, <1>2, <1>6 DEF HChoose, HTypeOK
<1>7. ASSUME NEW n \in Server, NEW resp \in Collected(n), HPutReturn(n, resp) PROVE HTypeOK'
  <2>1. orig[n].cmd.value \in Id \cup {NoId}
    BY <1>1, TypedParts DEF Command
  <2>2. causes' \in SUBSET {"relabelled", "unlearned"}
    BY <1>2, <1>7 DEF HPutReturn
  <2> QED  BY <1>1, <1>7, <2>1, <2>2 DEF HPutReturn, HTypeOK
<1>8. ASSUME NEW n \in Server, HGetReturn(n) PROVE HTypeOK'
  <2> DEFINE value == LastWrite(log[n], orig[n].index, NoId)
  <2>1. value \in Id \cup {NoId}
    <3>1. log[n] \in [Slot -> Entry] /\ orig[n].index \in Slot
      BY <1>1, TypedParts DEF TypeOK
    <3> QED  BY <3>1, LastWriteTyped
  <2>2. causes' \in SUBSET {"relabelled", "unlearned"}
    BY <1>2, <1>8 DEF HGetReturn
  <2>3. /\ result' = [result EXCEPT ![orig[n].prop.client] = value]
        /\ known' = known \cup ({value} \ {NoId}) /\ UNCHANGED <<before, stale>>
    BY <1>8 DEF HGetReturn
  <2> HIDE DEF value
  <2> QED  BY <1>1, <2>1, <2>2, <2>3 DEF HTypeOK
<1>9. ASSUME HOther \/ UNCHANGED hvars PROVE HTypeOK'
  BY <1>1, <1>9 DEF HOther, hvars, HTypeOK
<1> QED  BY <1>4, <1>5, <1>6, <1>7, <1>8, <1>9 DEF HNext

\* What has made a read stale is never forgotten.
LEMMA CausesGrow ==
  ASSUME [HNext]_hvars
  PROVE  causes \subseteq causes'
<1>1. ASSUME NEW kind, NEW happens, Cause(kind, happens) PROVE causes \subseteq causes'
  BY <1>1 DEF Cause
<1>2. ASSUME NEW n \in Server, NEW c \in Clients, HStartPut(n, c) \/ HStartGet(n, c)
      PROVE  causes \subseteq causes'
  BY <1>2 DEF HStartPut, HStartGet
<1>3. ASSUME NEW n \in Server, HGetReturn(n) PROVE causes \subseteq causes'
  BY <1>1, <1>3 DEF HGetReturn
<1>4. ASSUME NEW n \in Server, NEW resp \in Collected(n), HChoose(n, resp) \/ HPutReturn(n, resp)
      PROVE  causes \subseteq causes'
  BY <1>1, <1>4 DEF HChoose, HPutReturn
<1>5. ASSUME HOther \/ UNCHANGED hvars PROVE causes \subseteq causes'
  BY <1>5 DEF HOther, hvars
<1> QED  BY <1>2, <1>3, <1>4, <1>5 DEF HNext

\* At first no user knows anything and nothing is in the log.
LEMMA HistoryInit == HInit => IInv /\ HistoryInv
<1> SUFFICES ASSUME HInit PROVE IInv /\ HistoryInv
  OBVIOUS
<1>1. Init /\ IInv /\ TypeOK
  BY InitInvariant DEF HInit, IInv
<1>2. HTypeOK
  BY <1>1 DEF HInit, HTypeOK
<1>3. /\ \A n \in Server : pc[n] = "idle" /\ sent[n] = NoCommand /\ orig[n].cmd = NoCommand
      /\ \A n \in Server : \A i \in Slot : log[n][i].cmd = NoCommand
      /\ \A n \in Server : replied[n] = {}
      /\ done = {} /\ accepts = {} /\ late = {}
  BY <1>1 DEF Init, EmptyEntry
<1>4. OwnValues
  <2>1. \A x \in Commands : x = NoCommand
    BY <1>3 DEF Commands
  <2> QED  BY <2>1 DEF OwnValues, NoCommand
<1>5. TypesAreKept
  BY <1>3 DEF TypesAreKept, Accepting
<1>6. ServesLastRequest
  BY <1>3 DEF ServesLastRequest, Proposing
<1>7. OnePlace
  BY <1>3 DEF OnePlace, Accepting
<1>8. KnownIsChosen /\ BeforeIsEarlier
  BY DEF HInit, KnownIsChosen, BeforeIsEarlier
<1>9. StaleIsEarlier
  BY <1>3 DEF StaleIsEarlier
<1>10. ReturnedIsFresh
  BY DEF HInit, ReturnedIsFresh
<1> QED  BY <1>1, <1>2, <1>4, <1>5, <1>6, <1>7, <1>8, <1>9, <1>10 DEF HistoryInv

\* Every step of the users and of the servers keeps it.
LEMMA HistoryStep == IInv /\ HistoryInv /\ [HNext]_hvars => IInv' /\ HistoryInv'
<1> SUFFICES ASSUME IInv, HistoryInv, [HNext]_hvars PROVE IInv' /\ HistoryInv'
  OBVIOUS
<1>1. IInv'
  BY StepOfProtocol, StepInvariant
<1>2. TypeOK /\ TypeOK' /\ HTypeOK
  BY <1>1 DEF IInv, HistoryInv
<1>3. HTypeOK'
  BY <1>2, HTypeStep
<1>4. ASSUME deviations' = {}, causes' = {}
      PROVE  /\ OwnValues' /\ TypesAreKept' /\ ServesLastRequest' /\ OnePlace'
             /\ KnownIsChosen' /\ BeforeIsEarlier' /\ StaleIsEarlier' /\ ReturnedIsFresh'
  <2>1. deviations = {} /\ causes = {}
    BY <1>2, <1>4, StepOfProtocol, HistoryGrows, CausesGrow
  <2>2. Regular
    BY <2>1 DEF Regular, HistoryInv
  <2>3. OwnValues' /\ TypesAreKept' /\ ServesLastRequest' /\ OnePlace'
    BY <1>2, <1>4, <2>2, OwnValuesStep, TypesStep, ServesLastStep, OnePlaceStep
  <2>4. KnownIsChosen' /\ BeforeIsEarlier' /\ StaleIsEarlier' /\ ReturnedIsFresh'
    BY <1>1, <1>2, <1>4, <2>2, KnownStep, BeforeStep, StaleStep, ReturnedStep
  <2> QED  BY <2>3, <2>4
<1> QED  BY <1>1, <1>3, <1>4 DEF HistoryInv

\* As long as nothing else has made a read stale: what users know is chosen, with
\* every slot before it, in the order in which they could learn it.
THEOREM HistoryIsChosen == HSpec => [](IInv /\ HistoryInv)
BY HistoryInit, HistoryStep, PTL DEF HSpec

\* What gets return and users know has its type.
THEOREM HistoryTyped == HSpec => []HTypeOK
<1>1. HistoryInv => HTypeOK
  BY DEF HistoryInv
<1> QED  BY <1>1, HistoryIsChosen, PTL

\* A get (server.cpp 380-426) returns no value that was overwritten for good when it
\* was called, unless Paxos was departed from, a command was sent with another type
\* than its client gave it, or a request ended without the slots before its own.
THEOREM ReadsAreFresh == HSpec => []OnlyKnownCausesMakeReadsStale
<1>1. HistoryInv => OnlyKnownCausesMakeReadsStale
  BY DEF HistoryInv, ReturnedIsFresh, OnlyKnownCausesMakeReadsStale, NoStaleRead, Running
<1> QED  BY <1>1, HistoryIsChosen, PTL
=============================================================================
