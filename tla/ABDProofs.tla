----------------------------- MODULE ABDProofs -----------------------------
(***************************************************************************)
(* Theorems about ABD and the history its users see, for every number of    *)
(* servers and set of clients: the tags and values servers keep, and, while  *)
(* find_majority_tag has not thrown away a greater reply, no get returns a   *)
(* value that was overwritten.                                              *)
(***************************************************************************)
EXTENDS ABDHistory, FiniteSetTheorems, WellFoundedInduction, TLAPS

-----------------------------------------------------------------------------
(* The order of tags.                                                       *)

\* Tags are ordered transitively.
LEMMA LeqTransitive ==
  ASSUME NEW a \in Tag, NEW b \in Tag, NEW c \in Tag, Leq(a, b), Leq(b, c)
  PROVE  Leq(a, c)
BY DEF Tag, Leq, Less

\* Handling a WRITE leaves a tag that is no smaller than the one the server
\* kept and no smaller than the one the WRITE carries.
LEMMA AfterWriteGrows ==
  ASSUME NEW pair \in Pair, NEW w, w.tag \in Tag, w.value \in Value
  PROVE  /\ AfterWrite(pair, w) \in Pair
         /\ Leq(pair.tag, AfterWrite(pair, w).tag)
         /\ Leq(w.tag, AfterWrite(pair, w).tag)
<1>1. CASE pair = Absent
  <2>1. AfterWrite(pair, w) = [tag |-> w.tag, value |-> w.value]
    BY <1>1 DEF AfterWrite
  <2>2. Leq(ZeroTag, w.tag)
    BY DEF Leq, Less, ZeroTag, Tag
  <2> QED  BY <1>1, <2>1, <2>2 DEF Pair, Absent, Leq
<1>2. CASE pair # Absent /\ Less(pair.tag, w.tag)
  <2>1. AfterWrite(pair, w) = [tag |-> w.tag, value |-> w.value]
    BY <1>2 DEF AfterWrite
  <2> QED  BY <1>2, <2>1 DEF Pair, Leq
<1>3. CASE pair # Absent /\ ~ Less(pair.tag, w.tag)
  <2>1. AfterWrite(pair, w) = pair
    BY <1>3 DEF AfterWrite
  <2>2. pair.tag \in Tag
    BY DEF Pair
  <2>3. Leq(w.tag, pair.tag)
    BY <1>3, <2>2 DEF Leq, Less, Tag
  <2> QED  BY <2>1, <2>3 DEF Leq
<1> QED  BY <1>1, <1>2, <1>3

-----------------------------------------------------------------------------
(* find_majority_tag returns one of the collected replies.                  *)

\* Of the first n replies with the first one's integer, one beats the others;
\* by minimal counterexample over n.
LEMMA BestPeerExists ==
  ASSUME NEW vec \in Seq(Response), Len(vec) >= 1
  PROVE  \E i \in Peers(vec) : \A j \in Peers(vec) :
            \/ vec[j].tag.client_id < vec[i].tag.client_id
            \/ vec[j].tag.client_id = vec[i].tag.client_id /\ i <= j
<1> DEFINE Beats(i, j) == \/ vec[j].tag.client_id < vec[i].tag.client_id
                          \/ vec[j].tag.client_id = vec[i].tag.client_id /\ i <= j
           Best(n, i) == i \in Peers(vec) /\ i <= n
                         /\ \A j \in Peers(vec) : j <= n => Beats(i, j)
           T == {n \in 1 .. Len(vec) : ~ \E i \in Peers(vec) : Best(n, i)}
<1>1. /\ Len(vec) \in Nat
      /\ DOMAIN vec = 1 .. Len(vec)
      /\ \A i \in 1 .. Len(vec) : vec[i].tag.client_id \in Nat
  <2>1. Len(vec) \in Nat /\ DOMAIN vec = 1 .. Len(vec)
    OBVIOUS
  <2>2. \A i \in 1 .. Len(vec) : vec[i] \in Response
    OBVIOUS
  <2>3. \A r \in Response : r.tag.client_id \in Nat
    BY DEF Response, Tag
  <2> QED  BY <2>1, <2>2, <2>3
<1>2. Peers(vec) \subseteq 1 .. Len(vec) /\ 1 \in Peers(vec)
  BY <1>1 DEF Peers
<1>3. T = {}
  <2> SUFFICES ASSUME T # {} PROVE FALSE
    OBVIOUS
  <2>1. T \subseteq Nat
    BY <1>1
  <2>2. PICK n \in T : \A m \in T : ~ (<<m, n>> \in OpToRel(<, Nat))
    <3> HIDE DEF T
    <3> QED BY <2>1, NatLessThanWellFounded, WFMin
  <2>3. \A m \in T : ~ (m < n)
    BY <2>1, <2>2 DEF OpToRel
  <2>4. n \in 1 .. Len(vec)
    OBVIOUS
  <2>5. n # 1
    <3>1. Best(1, 1)
      BY <1>1, <1>2
    <3> QED  BY <1>2, <3>1
  <2>6. n - 1 \in 1 .. Len(vec) /\ n - 1 < n
    BY <1>1, <2>4, <2>5
  <2>7. n - 1 \notin T
    <3> HIDE DEF T
    <3> QED  BY <2>3, <2>6
  <2>8. PICK i \in Peers(vec) : Best(n - 1, i)
    BY <2>6, <2>7
  <2>9. i \in 1 .. Len(vec) /\ i <= n - 1 /\ n \in Nat
    BY <1>1, <1>2, <2>4, <2>8
  <2>10. \A j \in Peers(vec) : j <= n => j <= n - 1 \/ j = n
    BY <1>1, <1>2, <2>4
  <2>11. \A j \in Peers(vec) : j <= n - 1 => Beats(i, j)
    BY <2>8
  <2>12. \E k \in Peers(vec) : Best(n, k)
    <3>1. CASE n \in Peers(vec) /\ vec[i].tag.client_id < vec[n].tag.client_id
      <4>1. ASSUME NEW j \in Peers(vec), j <= n - 1 PROVE Beats(n, j)
        <5>1. Beats(i, j)
          BY <2>11, <4>1
        <5>2. /\ vec[j].tag.client_id \in Nat
              /\ vec[i].tag.client_id \in Nat
              /\ vec[n].tag.client_id \in Nat
          BY <1>1, <1>2, <2>4, <2>9
        <5>3. vec[j].tag.client_id <= vec[i].tag.client_id
          BY <5>1, <5>2
        <5>4. vec[j].tag.client_id < vec[n].tag.client_id
          <6> HIDE DEF T, Best
          <6> QED  BY <3>1, <5>2, <5>3
        <5> QED  BY <5>4
      <4>2. Beats(n, n)
        BY <2>9
      <4>3. Best(n, n)
        <5> HIDE DEF Beats
        <5> QED  BY <2>9, <2>10, <3>1, <4>1, <4>2
      <4> QED  BY <3>1, <4>3
    <3>2. CASE ~ (n \in Peers(vec) /\ vec[i].tag.client_id < vec[n].tag.client_id)
      <4>2. i <= n
        BY <1>1, <2>9
      <4>1. ASSUME n \in Peers(vec) PROVE Beats(i, n)
        <5>1. /\ vec[i].tag.client_id \in Nat
              /\ vec[n].tag.client_id \in Nat
          BY <1>1, <1>2, <2>4, <2>9, <4>1
        <5>2. ~ (vec[i].tag.client_id < vec[n].tag.client_id)
          BY <3>2, <4>1
        <5>3. \/ vec[n].tag.client_id < vec[i].tag.client_id
              \/ vec[n].tag.client_id = vec[i].tag.client_id
          <6> HIDE DEF T, Best
          <6> QED  BY <5>1, <5>2
        <5> QED  BY <4>2, <5>3
      <4>3. Best(n, i)
        BY <2>8, <2>10, <2>11, <4>1, <4>2
      <4> QED  BY <4>3
    <3> QED  BY <3>1, <3>2
  <2> QED  BY <2>4, <2>12
<1>4. Len(vec) \notin T /\ Len(vec) \in 1 .. Len(vec)
  BY <1>1, <1>3
<1>5. PICK i \in Peers(vec) : Best(Len(vec), i)
  BY <1>4
<1> QED  BY <1>1, <1>2, <1>5

\* find_majority_tag (265-285) returns one of the replies it was given.
LEMMA FindMajorityTagIsCollected ==
  ASSUME NEW vec \in Seq(Response), Len(vec) >= 1
  PROVE  \E i \in DOMAIN vec : FindMajorityTag(vec) = vec[i]
<1> DEFINE Beats(i, j) == \/ vec[j].tag.client_id < vec[i].tag.client_id
                          \/ vec[j].tag.client_id = vec[i].tag.client_id /\ i <= j
           best == CHOOSE i \in Peers(vec) : \A j \in Peers(vec) : Beats(i, j)
<1>1. best \in Peers(vec)
  BY BestPeerExists
<1>2. FindMajorityTag(vec) = vec[best]
  BY DEF FindMajorityTag
<1> QED  BY <1>1, <1>2 DEF Peers

-----------------------------------------------------------------------------
(* Quorums.                                                                 *)

\* There are N servers.
LEMMA ServerFinite == IsFiniteSet(Server) /\ Cardinality(Server) = N
BY FS_Interval, NAssumption DEF Server

\* More than half (204): one reply at least, and two majorities outnumber N.
LEMMA MajorityPositive == Majority \in Nat /\ Majority >= 1 /\ Majority + Majority > N
BY NAssumption DEF Majority

\* Two majorities of the servers have a server in common.
LEMMA MajoritiesMeet ==
  ASSUME NEW S \in SUBSET Server, NEW T \in SUBSET Server,
         Cardinality(S) >= Majority, Cardinality(T) >= Majority
  PROVE  S \cap T # {}
<1>1. /\ IsFiniteSet(S) /\ Cardinality(S) \in Nat
      /\ IsFiniteSet(T) /\ Cardinality(T) \in Nat
  BY ServerFinite, FS_Subset, FS_CardinalityType
<1>2. Cardinality(S) + Cardinality(T) > Cardinality(Server)
  BY <1>1, ServerFinite, MajorityPositive, NAssumption
<1> QED  BY <1>2, ServerFinite, FS_MajoritiesIntersect

-----------------------------------------------------------------------------
(* Type correctness.                                                        *)

\* The state main boots with (976-987), and an idle client, have their type.
LEMMA TypeInit == Init => TypeOK
<1> SUFFICES ASSUME Init PROVE TypeOK
  OBVIOUS
<1>1. Absent \in Pair /\ NoValue \in Value
  BY DEF Absent, Pair, Tag, ZeroTag, Value
<1> QED  BY <1>1, BoundsAssumption DEF Init, TypeOK

\* What a client finds in a full query phase is a tag and a value.
LEMMA FoundIsTyped ==
  ASSUME TypeOK, NEW c \in Clients, HasMajority(c)
  PROVE  FindMajorityTag(vec_resp[c]) \in Response
<1>1. vec_resp[c] \in Seq(Response)
  BY DEF TypeOK
<1>2. Len(vec_resp[c]) >= 1
  BY <1>1, MajorityPositive DEF HasMajority
<1> QED  BY <1>1, <1>2, FindMajorityTagIsCollected

\* A reply with a tag and a value keeps the types of what it changes.
LEMMA ReplyTyped ==
  ASSUME TypeOK, NEW c \in Clients, NEW s \in Server, NEW tag \in Tag, NEW value \in Value,
         Reply(c, s, tag, value)
  PROVE  /\ asked' \in [Clients -> SUBSET Server]
         /\ replied' \in [Clients -> SUBSET Response]
<1>1. [server |-> s, tag |-> tag, value |-> value] \in Response
  BY DEF Response
<1> QED  BY <1>1 DEF Reply, TypeOK

\* Sending a phase's requests keeps the types of what it changes.
LEMMA BroadcastTyped ==
  ASSUME TypeOK, NEW c \in Clients, Broadcast(c)
  PROVE  /\ asked' \in [Clients -> SUBSET Server]
         /\ replied' \in [Clients -> SUBSET Response]
         /\ vec_resp' \in [Clients -> Seq(Response)]
BY DEF Broadcast, TypeOK

\* No handler and no step of a client breaks the types.
LEMMA TypeStep == TypeOK /\ [Next]_vars => TypeOK'
<1> SUFFICES ASSUME TypeOK, [Next]_vars PROVE TypeOK'
  OBVIOUS
<1> USE DEF serverVars, clientVars, history
<1>1. \A s \in Server : abd_ks_map[s].tag \in Tag /\ abd_ks_map[s].value \in Value
  BY DEF TypeOK, Pair
<1>2. \A c \in Clients : req[c].tag \in Tag /\ req[c].value \in Value
  BY DEF TypeOK, Pair
<1>3. ZeroTag \in Tag /\ NoValue \in Value /\ Absent \in Pair
  BY DEF ZeroTag, Tag, Value, Absent, Pair
<1>4. ASSUME NEW c \in Clients, NEW s \in Server, HandleReadQuery(c, s) PROVE TypeOK'
  BY <1>1, <1>4, ReplyTyped DEF HandleReadQuery, TypeOK
<1>5. ASSUME NEW c \in Clients, NEW s \in Server, HandleReadQueryMiss(c, s) PROVE TypeOK'
  BY <1>3, <1>5, ReplyTyped DEF HandleReadQueryMiss, TypeOK
<1>6. ASSUME NEW c \in Clients, NEW s \in Server, HandleWriteQuery(c, s) PROVE TypeOK'
  BY <1>1, <1>3, <1>6, ReplyTyped DEF HandleWriteQuery, TypeOK
<1>7. ASSUME NEW c \in Clients, NEW s \in Server, HandleWrite(c, s) PROVE TypeOK'
  <2>1. AfterWrite(abd_ks_map[s], req[c]) \in Pair
    BY <1>2, AfterWriteGrows DEF TypeOK
  <2>2. abd_ks_map' \in [Server -> Pair]
    BY <1>7, <2>1 DEF HandleWrite, TypeOK
  <2> QED  BY <1>3, <1>7, <2>2, ReplyTyped DEF HandleWrite, TypeOK
<1>8. ASSUME NEW w \in late, HandleLateWrite(w) PROVE TypeOK'
  <2>1. w.server \in Server /\ w.tag \in Tag /\ w.value \in Value
    BY DEF TypeOK, Write
  <2>2. AfterWrite(abd_ks_map[w.server], w) \in Pair
    BY <2>1, AfterWriteGrows DEF TypeOK
  <2>3. abd_ks_map' \in [Server -> Pair]
    BY <1>8, <2>2 DEF HandleLateWrite, TypeOK
  <2> QED  BY <1>8, <2>3 DEF HandleLateWrite, TypeOK
<1>9. ASSUME NEW s \in Server, BeginInsert(s) \/ EndInsert(s) \/ Crash(s) PROVE TypeOK'
  BY <1>9, BoundsAssumption DEF BeginInsert, EndInsert, Crash, TypeOK
<1>10. ASSUME NEW c \in Clients, NEW kind \in {"Put", "Get"}, StartQuery(c, kind),
              req' \in [Clients -> Pair], result' \in [Clients -> Value]
       PROVE  TypeOK'
  <2>1. ops' \in [Clients -> Nat] /\ \A d \in Clients : ops'[d] <= MaxOps[d]
    <3>1. /\ ops \in [Clients -> Nat] /\ MaxOps \in [Clients -> Nat]
          /\ \A d \in Clients : ops[d] <= MaxOps[d]
          /\ ops[c] < MaxOps[c]
          /\ ops' = [ops EXCEPT ![c] = ops[c] + 1]
      BY <1>10, BoundsAssumption DEF StartQuery, TypeOK
    <3>2. ops' \in [Clients -> Nat]
      BY <3>1
    <3>3. ASSUME NEW d \in Clients PROVE ops'[d] <= MaxOps[d]
      <4>1. ops[c] \in Nat /\ MaxOps[c] \in Nat
        BY <3>1
      <4>2. ops'[c] <= MaxOps[c]
        BY <3>1, <4>1
      <4>3. d # c => ops'[d] = ops[d]
        BY <3>1
      <4> QED  BY <3>1, <4>2, <4>3
    <3> QED  BY <3>2, <3>3
  <2> QED  BY <1>10, <2>1, BroadcastTyped DEF StartQuery, TypeOK
<1>11. ASSUME NEW c \in Clients, StartPut(c) PROVE TypeOK'
  <2>1. <<c, ops[c] + 1>> \in Value
    BY DEF Value, TypeOK
  <2>2. [tag |-> ZeroTag, value |-> <<c, ops[c] + 1>>] \in Pair
    BY <1>3, <2>1 DEF Pair
  <2>3. req' \in [Clients -> Pair] /\ result' \in [Clients -> Value]
    BY <1>11, <2>2 DEF StartPut, TypeOK
  <2> QED  BY <1>10, <1>11, <2>3 DEF StartPut
<1>12. ASSUME NEW c \in Clients, StartGet(c) PROVE TypeOK'
  <2>1. req' \in [Clients -> Pair] /\ result' \in [Clients -> Value]
    BY <1>3, <1>12 DEF StartGet, TypeOK
  <2> QED  BY <1>10, <1>12, <2>1 DEF StartGet
<1>13. ASSUME NEW c \in Clients, NEW r \in replied[c], Collect(c, r) PROVE TypeOK'
  <2>1. r \in Response /\ Append(vec_resp[c], r) \in Seq(Response)
    BY DEF TypeOK
  <2> QED  BY <1>13, <2>1 DEF Collect, TypeOK
<1>14. ASSUME NEW c \in Clients, NEW tag \in Tag, NEW value \in Value, StartWrite(c, tag, value)
       PROVE  TypeOK'
  <2>1. [tag |-> tag, value |-> value] \in Pair
    BY DEF Pair
  <2>2. req' \in [Clients -> Pair]
    BY <1>14, <2>1 DEF StartWrite, TypeOK
  <2> QED  BY <1>14, <2>2, BroadcastTyped DEF StartWrite, TypeOK
<1>15. ASSUME NEW c \in Clients, PutWrite(c) PROVE TypeOK'
  <2>1. FindMajorityTag(vec_resp[c]) \in Response
    BY <1>15, FoundIsTyped DEF PutWrite
  <2>2. [integer |-> FindMajorityTag(vec_resp[c]).tag.integer + 1, client_id |-> c] \in Tag
    BY <2>1, ClientsAssumption DEF Response, Tag
  <2> QED  BY <1>2, <1>14, <1>15, <2>2 DEF PutWrite
<1>16. ASSUME NEW c \in Clients, GetWriteBack(c) PROVE TypeOK'
  <2>1. FindMajorityTag(vec_resp[c]) \in Response
    BY <1>16, FoundIsTyped DEF GetWriteBack
  <2> QED  BY <1>14, <1>16, <2>1 DEF GetWriteBack, Response
<1>17. ASSUME NEW c \in Clients, GetEmpty(c) PROVE TypeOK'
  BY <1>17 DEF GetEmpty, EndOperation, TypeOK
<1>18. ASSUME NEW c \in Clients, EndWrite(c), result' \in [Clients -> Value] PROVE TypeOK'
  <2>1. \A s \in asked[c] : [server |-> s, tag |-> req[c].tag, value |-> req[c].value] \in Write
    BY <1>2 DEF Write, TypeOK
  <2>2. late' \subseteq Write /\ settled' \subseteq Tag
    BY <1>2, <1>18, <2>1 DEF EndWrite, TypeOK
  <2> QED  BY <1>18, <2>2 DEF EndWrite, EndOperation, TypeOK
<1>19. ASSUME NEW c \in Clients, PutReturn(c) \/ GetReturn(c) PROVE TypeOK'
  <2>1. result' \in [Clients -> Value]
    BY <1>2, <1>19 DEF PutReturn, GetReturn, TypeOK
  <2> QED  BY <1>18, <1>19, <2>1 DEF PutReturn, GetReturn
<1>20. CASE UNCHANGED vars
  BY <1>20 DEF vars, TypeOK
<1> QED
  BY <1>4, <1>5, <1>6, <1>7, <1>8, <1>9, <1>11, <1>12, <1>13, <1>15, <1>16, <1>17, <1>19, <1>20
  DEF Next, ServerStep, ClientStep, LateStep

\* The state keeps its type, whatever the numbers of servers, clients and
\* operations.
THEOREM TypeCorrect == Spec => []TypeOK
<1> QED  BY TypeInit, TypeStep, PTL DEF Spec

-----------------------------------------------------------------------------
(* Tags only grow.                                                          *)

\* No step lowers the tag of a server: only the WRITE handler writes it.
LEMMA TagsGrow ==
  ASSUME TypeOK, [Next]_vars, NEW s \in Server
  PROVE  Leq(abd_ks_map[s].tag, abd_ks_map'[s].tag)
<1> USE DEF serverVars, clientVars, history
<1>1. abd_ks_map[s] \in Pair /\ abd_ks_map[s].tag \in Tag
  BY DEF TypeOK, Pair
<1>2. Leq(abd_ks_map[s].tag, abd_ks_map[s].tag)
  BY DEF Leq
<1>3. ASSUME NEW c \in Clients, NEW d \in Server, HandleWrite(c, d)
      PROVE  Leq(abd_ks_map[s].tag, abd_ks_map'[s].tag)
  <2>1. req[c].tag \in Tag /\ req[c].value \in Value
    BY DEF TypeOK, Pair
  <2>2. Leq(abd_ks_map[s].tag, AfterWrite(abd_ks_map[s], req[c]).tag)
    BY <1>1, <2>1, AfterWriteGrows
  <2>3. abd_ks_map'[s] = IF s = d THEN AfterWrite(abd_ks_map[s], req[c]) ELSE abd_ks_map[s]
    BY <1>3 DEF HandleWrite, TypeOK
  <2> QED  BY <1>2, <2>2, <2>3
<1>4. ASSUME NEW w \in late, HandleLateWrite(w)
      PROVE  Leq(abd_ks_map[s].tag, abd_ks_map'[s].tag)
  <2>1. w.tag \in Tag /\ w.value \in Value /\ w.server \in Server
    BY DEF TypeOK, Write
  <2>2. Leq(abd_ks_map[s].tag, AfterWrite(abd_ks_map[s], w).tag)
    BY <1>1, <2>1, AfterWriteGrows
  <2>3. abd_ks_map'[s] = IF s = w.server THEN AfterWrite(abd_ks_map[s], w) ELSE abd_ks_map[s]
    BY <1>4, <2>1 DEF HandleLateWrite, TypeOK
  <2> QED  BY <1>2, <2>2, <2>3
<1>5. ASSUME UNCHANGED abd_ks_map PROVE Leq(abd_ks_map[s].tag, abd_ks_map'[s].tag)
  BY <1>2, <1>5
<1>6. \/ \E c \in Clients, d \in Server : HandleWrite(c, d)
      \/ \E w \in late : HandleLateWrite(w)
      \/ UNCHANGED abd_ks_map
  BY DEF Next, ServerStep, ClientStep, LateStep, vars, HandleReadQuery, HandleReadQueryMiss,
         HandleWriteQuery, BeginInsert, EndInsert, Crash, StartPut, StartGet, StartQuery, Collect,
         PutWrite, GetWriteBack, StartWrite, GetEmpty, EndOperation, PutReturn, GetReturn, EndWrite
<1> QED  BY <1>3, <1>4, <1>5, <1>6

\* A server never goes back to a smaller tag: the handler of WRITE (297-359)
\* is safe against every order in which WRITEs arrive.
THEOREM TagsNeverRegressThm == Spec => TagsNeverRegress
<1>1. TypeOK /\ [Next]_vars => [\A s \in Server : Leq(abd_ks_map[s].tag, abd_ks_map'[s].tag)]_vars
  BY TagsGrow
<1> QED  BY <1>1, TypeCorrect, PTL DEF Spec, TagsNeverRegress

-----------------------------------------------------------------------------
(* What one step can do to the phase of client c.                           *)

Stays(c) ==
  /\ asked'[c] = asked[c] /\ replied'[c] = replied[c] /\ vec_resp'[c] = vec_resp[c]
  /\ pc'[c] = pc[c] /\ req'[c] = req[c] /\ floor'[c] = floor[c] /\ (c \in missed <=> c \in missed')

Answered(c) ==
  \E s \in asked[c] : \E r \in Response :
    /\ r.server = s
    /\ asked'[c] = asked[c] \ {s} /\ replied'[c] = replied[c] \cup {r}
    /\ pc[c] = "query" /\ c \notin missed' => r.tag = abd_ks_map[s].tag
    /\ pc[c] = "write" => Leq(req[c].tag, abd_ks_map'[s].tag)
    /\ vec_resp'[c] = vec_resp[c] /\ pc'[c] = pc[c] /\ req'[c] = req[c] /\ floor'[c] = floor[c]
    /\ c \in missed => c \in missed'

Gathers(c) ==
  \E r \in replied[c] :
    /\ vec_resp'[c] = Append(vec_resp[c], r) /\ replied'[c] = replied[c] \ {r}
    /\ asked'[c] = asked[c]
    /\ pc'[c] = pc[c] /\ req'[c] = req[c] /\ floor'[c] = floor[c] /\ (c \in missed <=> c \in missed')

Asks(c) ==
  /\ asked'[c] = Server /\ replied'[c] = {} /\ vec_resp'[c] = <<>>
  /\ pc'[c] = "write" \/ (pc'[c] = "query" /\ floor'[c] = settled)

Ends(c) == asked'[c] = {} /\ replied'[c] = {} /\ vec_resp'[c] = <<>> /\ pc'[c] = "idle"

\* How a step may change the phase of one client: a server answers it, it takes
\* a reply, it starts a phase, it ends one, or it is not concerned.
LEMMA PhaseStep ==
  ASSUME TypeOK, [Next]_vars, NEW c \in Clients
  PROVE  Stays(c) \/ Answered(c) \/ Gathers(c) \/ Asks(c) \/ Ends(c)
<1> USE DEF serverVars, clientVars, history
<1>1. \A s \in Server : abd_ks_map[s].tag \in Tag /\ abd_ks_map[s].value \in Value
  BY DEF TypeOK, Pair
<1>2. ZeroTag \in Tag /\ NoValue \in Value
  BY DEF ZeroTag, Tag, Value
<1>3. \A s \in Server, t \in Tag, v \in Value :
        [server |-> s, tag |-> t, value |-> v] \in Response
  BY DEF Response
<1>4. ASSUME NEW d \in Clients, NEW s \in Server, HandleReadQuery(d, s)
      PROVE  Stays(c) \/ Answered(c)
  <2>1. CASE c = d
    <3> DEFINE r == [server |-> s, tag |-> abd_ks_map[s].tag, value |-> abd_ks_map[s].value]
    <3>1. r \in Response /\ r.server = s /\ r.tag = abd_ks_map[s].tag
      BY <1>1, <1>2, <1>3
    <3>2. s \in asked[c] /\ asked'[c] = asked[c] \ {s} /\ replied'[c] = replied[c] \cup {r}
      BY <1>4, <2>1 DEF HandleReadQuery, Reply, TypeOK
    <3>3. /\ pc[c] = "query" /\ vec_resp'[c] = vec_resp[c] /\ pc'[c] = pc[c]
          /\ req'[c] = req[c] /\ floor'[c] = floor[c] /\ missed' = missed
      BY <1>4, <2>1 DEF HandleReadQuery
    <3> HIDE DEF r
    <3> QED  BY <3>1, <3>2, <3>3 DEF Answered
  <2>2. CASE c # d
    BY <1>4, <2>2 DEF HandleReadQuery, Reply, Stays, TypeOK
  <2> QED  BY <2>1, <2>2
<1>5. ASSUME NEW d \in Clients, NEW s \in Server, HandleReadQueryMiss(d, s)
      PROVE  Stays(c) \/ Answered(c)
  <2>1. CASE c = d
    <3> DEFINE r == [server |-> s, tag |-> ZeroTag, value |-> NoValue]
    <3>1. r \in Response /\ r.server = s /\ r.tag = ZeroTag
      BY <1>1, <1>2, <1>3
    <3>2. s \in asked[c] /\ asked'[c] = asked[c] \ {s} /\ replied'[c] = replied[c] \cup {r}
      BY <1>5, <2>1 DEF HandleReadQueryMiss, Reply, TypeOK
    <3>3. /\ pc[c] = "query" /\ vec_resp'[c] = vec_resp[c] /\ pc'[c] = pc[c]
          /\ req'[c] = req[c] /\ floor'[c] = floor[c] /\ c \in missed'
      BY <1>5, <2>1 DEF HandleReadQueryMiss
    <3> HIDE DEF r
    <3> QED  BY <3>1, <3>2, <3>3 DEF Answered
  <2>2. CASE c # d
    BY <1>5, <2>2 DEF HandleReadQueryMiss, Reply, Stays, TypeOK
  <2> QED  BY <2>1, <2>2
<1>6. ASSUME NEW d \in Clients, NEW s \in Server, HandleWriteQuery(d, s)
      PROVE  Stays(c) \/ Answered(c)
  <2>1. CASE c = d
    <3> DEFINE r == [server |-> s, tag |-> abd_ks_map[s].tag, value |-> NoValue]
    <3>1. r \in Response /\ r.server = s /\ r.tag = abd_ks_map[s].tag
      BY <1>1, <1>2, <1>3
    <3>2. s \in asked[c] /\ asked'[c] = asked[c] \ {s} /\ replied'[c] = replied[c] \cup {r}
      BY <1>6, <2>1 DEF HandleWriteQuery, Reply, TypeOK
    <3>3. /\ pc[c] = "query" /\ vec_resp'[c] = vec_resp[c] /\ pc'[c] = pc[c]
          /\ req'[c] = req[c] /\ floor'[c] = floor[c] /\ missed' = missed
      BY <1>6, <2>1 DEF HandleWriteQuery
    <3> HIDE DEF r
    <3> QED  BY <3>1, <3>2, <3>3 DEF Answered
  <2>2. CASE c # d
    BY <1>6, <2>2 DEF HandleWriteQuery, Reply, Stays, TypeOK
  <2> QED  BY <2>1, <2>2
<1>7. ASSUME NEW d \in Clients, NEW s \in Server, HandleWrite(d, s)
      PROVE  Stays(c) \/ Answered(c)
  <2>1. CASE c = d
    <3> DEFINE r == [server |-> s, tag |-> ZeroTag, value |-> NoValue]
    <3>1. r \in Response /\ r.server = s /\ r.tag = ZeroTag
      BY <1>1, <1>2, <1>3
    <3>2. s \in asked[c] /\ asked'[c] = asked[c] \ {s} /\ replied'[c] = replied[c] \cup {r}
      BY <1>7, <2>1 DEF HandleWrite, Reply, TypeOK
    <3>3. /\ pc[c] = "write" /\ vec_resp'[c] = vec_resp[c] /\ pc'[c] = pc[c]
          /\ req'[c] = req[c] /\ floor'[c] = floor[c] /\ missed' = missed
      BY <1>7, <2>1 DEF HandleWrite
    <3>4. Leq(req[c].tag, AfterWrite(abd_ks_map[s], req[c]).tag)
      BY AfterWriteGrows DEF TypeOK, Pair
    <3>5. abd_ks_map'[s] = AfterWrite(abd_ks_map[s], req[c])
      BY <1>7, <2>1 DEF HandleWrite, TypeOK
    <3> HIDE DEF r
    <3> QED  BY <3>1, <3>2, <3>3, <3>4, <3>5 DEF Answered
  <2>2. CASE c # d
    BY <1>7, <2>2 DEF HandleWrite, Reply, Stays, TypeOK
  <2> QED  BY <2>1, <2>2
<1>8. ASSUME NEW d \in Clients, NEW kind, StartQuery(d, kind), c # d => req'[c] = req[c]
      PROVE  Stays(c) \/ Asks(c)
  <2>1. CASE c = d
    BY <1>8, <2>1 DEF StartQuery, Broadcast, Asks, TypeOK
  <2>2. CASE c # d
    BY <1>8, <2>2 DEF StartQuery, Broadcast, Stays, TypeOK
  <2> QED  BY <2>1, <2>2
<1>9. ASSUME NEW d \in Clients, StartPut(d) \/ StartGet(d) PROVE Stays(c) \/ Asks(c)
  <2>1. c # d => req'[c] = req[c]
    BY <1>9 DEF StartPut, StartGet, TypeOK
  <2> QED  BY <1>8, <1>9, <2>1 DEF StartPut, StartGet
<1>10. ASSUME NEW d \in Clients, NEW r \in replied[d], Collect(d, r) PROVE Stays(c) \/ Gathers(c)
  <2>1. CASE c = d
    BY <1>10, <2>1 DEF Collect, Gathers, TypeOK
  <2>2. CASE c # d
    BY <1>10, <2>2 DEF Collect, Stays, TypeOK
  <2> QED  BY <2>1, <2>2
<1>11. ASSUME NEW d \in Clients, NEW tag, NEW value, StartWrite(d, tag, value)
       PROVE  Stays(c) \/ Asks(c)
  <2>1. CASE c = d
    BY <1>11, <2>1 DEF StartWrite, Broadcast, Asks, TypeOK
  <2>2. CASE c # d
    BY <1>11, <2>2 DEF StartWrite, Broadcast, Stays, TypeOK
  <2> QED  BY <2>1, <2>2
<1>12. ASSUME NEW d \in Clients, PutWrite(d) \/ GetWriteBack(d) PROVE Stays(c) \/ Asks(c)
  BY <1>11, <1>12 DEF PutWrite, GetWriteBack
<1>13. ASSUME NEW d \in Clients, EndOperation(d), UNCHANGED <<req, floor, missed>>
       PROVE  Stays(c) \/ Ends(c)
  <2>1. CASE c = d
    BY <1>13, <2>1 DEF EndOperation, Ends, TypeOK
  <2>2. CASE c # d
    BY <1>13, <2>2 DEF EndOperation, Stays, TypeOK
  <2> QED  BY <2>1, <2>2
<1>14. ASSUME NEW d \in Clients, GetEmpty(d) \/ PutReturn(d) \/ GetReturn(d)
       PROVE  Stays(c) \/ Ends(c)
  BY <1>13, <1>14 DEF GetEmpty, PutReturn, GetReturn, EndWrite
<1>15. ASSUME NEW s \in Server, BeginInsert(s) \/ EndInsert(s) \/ Crash(s) PROVE Stays(c)
  BY <1>15 DEF BeginInsert, EndInsert, Crash, Stays
<1>16. ASSUME NEW w \in late, HandleLateWrite(w) PROVE Stays(c)
  BY <1>16 DEF HandleLateWrite, Stays
<1>17. CASE UNCHANGED vars
  BY <1>17 DEF vars, Stays
<1> QED
  BY <1>4, <1>5, <1>6, <1>7, <1>9, <1>10, <1>12, <1>14, <1>15, <1>16, <1>17
  DEF Next, ServerStep, ClientStep, LateStep

-----------------------------------------------------------------------------
(* The inductive invariant.                                                 *)

\* Collecting one more reply adds its server to the collected ones.
LEMMA CollectedAppend ==
  ASSUME NEW vec \in Seq(Response), NEW r \in Response
  PROVE  {Append(vec, r)[i].server : i \in DOMAIN Append(vec, r)}
           = {vec[i].server : i \in DOMAIN vec} \cup {r.server}
<1>1. /\ Len(vec) \in Nat /\ DOMAIN vec = 1 .. Len(vec)
      /\ DOMAIN Append(vec, r) = 1 .. (Len(vec) + 1)
      /\ \A i \in 1 .. Len(vec) : Append(vec, r)[i] = vec[i]
      /\ Append(vec, r)[Len(vec) + 1] = r
  OBVIOUS
<1>2. 1 .. (Len(vec) + 1) = (1 .. Len(vec)) \cup {Len(vec) + 1}
  BY <1>1
<1> QED  BY <1>1, <1>2

\* A client has collected replies from a finite set of servers.
LEMMA CollectedFinite ==
  ASSUME TypeOK, NEW c \in Clients
  PROVE  /\ Collected(c) \in SUBSET Server
         /\ IsFiniteSet(Collected(c))
<1>1. Collected(c) \in SUBSET Server
  <2>1. \A i \in DOMAIN vec_resp[c] : vec_resp[c][i] \in Response
    BY DEF TypeOK
  <2>2. \A r \in Response : r.server \in Server
    BY DEF Response
  <2> QED  BY <2>1, <2>2 DEF Collected
<1> QED  BY <1>1, ServerFinite, FS_Subset

\* The future of a reply is read once (238-241): no step makes a server count
\* twice in a phase.
LEMMA OneReplyStep ==
  ASSUME TypeOK, OneReplyPerServer, [Next]_vars
  PROVE  OneReplyPerServer'
<1> DEFINE One(c) ==
      /\ Cardinality(Collected(c)) = Len(vec_resp[c])
      /\ Collected(c) \cap asked[c] = {}
      /\ \A r \in replied[c] : r.server \notin asked[c] \cup Collected(c)
      /\ \A r1, r2 \in replied[c] : r1.server = r2.server => r1 = r2
<1> SUFFICES ASSUME NEW c \in Clients PROVE One(c)'
  BY DEF OneReplyPerServer
<1>1. One(c)
  BY DEF OneReplyPerServer
<1>2. vec_resp[c] \in Seq(Response) /\ asked[c] \subseteq Server /\ replied[c] \subseteq Response
  BY DEF TypeOK
<1>3. CASE Stays(c)
  BY <1>1, <1>3 DEF Stays, Collected
<1>4. CASE Answered(c)
  <2>1. PICK s \in asked[c], r \in Response :
          /\ r.server = s
          /\ asked'[c] = asked[c] \ {s} /\ replied'[c] = replied[c] \cup {r}
          /\ vec_resp'[c] = vec_resp[c]
    BY <1>4 DEF Answered
  <2>2. Collected(c)' = Collected(c)
    BY <2>1 DEF Collected
  <2> QED  BY <1>1, <2>1, <2>2
<1>5. CASE Gathers(c)
  <2>1. PICK r \in replied[c] :
          /\ vec_resp'[c] = Append(vec_resp[c], r) /\ replied'[c] = replied[c] \ {r}
          /\ asked'[c] = asked[c]
    BY <1>5 DEF Gathers
  <2>2. Collected(c)' = Collected(c) \cup {r.server}
    BY <1>2, <2>1, CollectedAppend DEF Collected
  <2>3. r.server \notin Collected(c) /\ r.server \notin asked[c]
    BY <1>1, <2>1
  <2>4. Cardinality(Collected(c)') = Cardinality(Collected(c)) + 1
    BY <2>2, <2>3, CollectedFinite, FS_AddElement
  <2>5. Len(vec_resp[c])' = Len(vec_resp[c]) + 1
    BY <1>2, <2>1
  <2> QED  BY <1>1, <2>1, <2>2, <2>3, <2>4, <2>5
<1>6. CASE Asks(c) \/ Ends(c)
  <2>1. vec_resp'[c] = <<>> /\ replied'[c] = {}
    BY <1>6 DEF Asks, Ends
  <2>2. Collected(c)' = {}
    BY <2>1 DEF Collected
  <2> QED  BY <2>1, <2>2, FS_EmptySet
<1> QED  BY <1>3, <1>4, <1>5, <1>6, PhaseStep

\* A server that has answered the WRITE of a client keeps its tag or a greater
\* one, whatever WRITEs it handles afterwards.
LEMMA AnsweredWritesStep ==
  ASSUME TypeOK, TypeOK', AnsweredWritesHeld, [Next]_vars
  PROVE  AnsweredWritesHeld'
<1> SUFFICES ASSUME NEW c \in Clients, pc'[c] = "write", NEW s \in Server \ asked'[c]
             PROVE  Leq(req'[c].tag, abd_ks_map'[s].tag)
  BY DEF AnsweredWritesHeld
<1>1. /\ req[c].tag \in Tag /\ abd_ks_map[s].tag \in Tag /\ abd_ks_map'[s].tag \in Tag
      /\ Leq(abd_ks_map[s].tag, abd_ks_map'[s].tag)
  BY TagsGrow DEF TypeOK, Pair
<1>2. ASSUME pc[c] = "write", s \notin asked[c]
      PROVE  Leq(req[c].tag, abd_ks_map'[s].tag)
  BY <1>1, <1>2, LeqTransitive DEF AnsweredWritesHeld
<1>3. CASE Stays(c)
  BY <1>2, <1>3 DEF Stays
<1>4. CASE Answered(c)
  BY <1>2, <1>4 DEF Answered
<1>5. CASE Gathers(c)
  BY <1>2, <1>5 DEF Gathers
<1>6. CASE Asks(c) \/ Ends(c)
  BY <1>6 DEF Asks, Ends
<1> QED  BY <1>3, <1>4, <1>5, <1>6, PhaseStep

\* Holders of a tag stay holders.
LEMMA HoldersGrow ==
  ASSUME TypeOK, TypeOK', [Next]_vars, NEW t \in Tag
  PROVE  Holders(t) \subseteq Holders(t)'
<1> SUFFICES ASSUME NEW s \in Server, Leq(t, abd_ks_map[s].tag)
             PROVE  Leq(t, abd_ks_map'[s].tag)
  BY DEF Holders
<1>1. abd_ks_map[s].tag \in Tag /\ abd_ks_map'[s].tag \in Tag
  BY DEF TypeOK, Pair
<1> QED  BY <1>1, TagsGrow, LeqTransitive

\* The tag of an operation that returns is held by a majority, and holders
\* never lose it.
LEMMA SettledStep ==
  ASSUME TypeOK, TypeOK', OneReplyPerServer, AnsweredWritesHeld, SettledTagsHeld, [Next]_vars
  PROVE  SettledTagsHeld'
<1> USE DEF serverVars, clientVars, history
<1>1. ASSUME NEW t \in Tag, Cardinality(Holders(t)) >= Majority
      PROVE  Cardinality(Holders(t)') >= Majority
  <2>1. Holders(t) \subseteq Holders(t)'
    BY HoldersGrow
  <2>2. IsFiniteSet(Holders(t)') /\ Holders(t)' \subseteq Server
    BY ServerFinite, FS_Subset DEF Holders
  <2>3. /\ Cardinality(Holders(t)) <= Cardinality(Holders(t)')
        /\ Cardinality(Holders(t)) \in Nat /\ Cardinality(Holders(t)') \in Nat
    BY <2>1, <2>2, FS_Subset, FS_CardinalityType
  <2> QED  BY <1>1, <2>3, MajorityPositive
<1>2. ASSUME NEW c \in Clients, EndWrite(c)
      PROVE  Cardinality(Holders(req[c].tag)) >= Majority
  <2>1. Collected(c) \subseteq Holders(req[c].tag)
    BY <1>2, CollectedFinite DEF EndWrite, OneReplyPerServer, AnsweredWritesHeld, Holders
  <2>2. IsFiniteSet(Holders(req[c].tag))
    BY ServerFinite, FS_Subset DEF Holders
  <2>3. /\ Cardinality(Collected(c)) <= Cardinality(Holders(req[c].tag))
        /\ Cardinality(Collected(c)) \in Nat /\ Cardinality(Holders(req[c].tag)) \in Nat
    BY <2>1, <2>2, FS_Subset, FS_CardinalityType, CollectedFinite
  <2>4. Cardinality(Collected(c)) >= Majority
    BY <1>2 DEF EndWrite, HasMajority, OneReplyPerServer
  <2> QED  BY <2>3, <2>4, MajorityPositive
<1>3. \/ settled' = settled
      \/ \E c \in Clients : EndWrite(c) /\ settled' = settled \cup {req[c].tag}
  BY DEF Next, ServerStep, ClientStep, LateStep, vars, HandleReadQuery, HandleReadQueryMiss,
         HandleWriteQuery, HandleWrite, HandleLateWrite, BeginInsert, EndInsert, Crash, StartPut,
         StartGet, StartQuery, Collect, PutWrite, GetWriteBack, StartWrite, GetEmpty, EndOperation,
         PutReturn, GetReturn, EndWrite
<1>4. \A t \in settled' : t \in Tag /\ Cardinality(Holders(t)) >= Majority
  BY <1>2, <1>3 DEF SettledTagsHeld, TypeOK
<1> QED  BY <1>1, <1>4 DEF SettledTagsHeld

\* What had been written when a query began stays covered by a majority while
\* the query collects its replies.
LEMMA FloorStep ==
  ASSUME TypeOK, TypeOK', SettledTagsHeld, FloorCovered, [Next]_vars
  PROVE  FloorCovered'
<1> SUFFICES ASSUME NEW c \in Clients, pc'[c] = "query", NEW t \in floor'[c]
             PROVE  \E Q \in SUBSET Server : CoveredBy(c, t, Q)'
  BY DEF FloorCovered
<1>1. t \in Tag /\ \A s \in Server : abd_ks_map[s].tag \in Tag /\ abd_ks_map'[s].tag \in Tag
  BY DEF TypeOK, Pair
<1>2. ASSUME NEW s \in Server, Leq(t, abd_ks_map[s].tag) PROVE Leq(t, abd_ks_map'[s].tag)
  BY <1>1, <1>2, TagsGrow, LeqTransitive
<1>3. ASSUME pc[c] = "query", floor'[c] = floor[c]
      PROVE  \E Q \in SUBSET Server : CoveredBy(c, t, Q)
  BY <1>3 DEF FloorCovered
<1>4. CASE Stays(c)
  <2>1. PICK Q \in SUBSET Server : CoveredBy(c, t, Q)
    BY <1>3, <1>4 DEF Stays
  <2>2. CoveredBy(c, t, Q)'
    BY <1>2, <1>4, <2>1 DEF CoveredBy, Stays
  <2> QED  BY <2>2
<1>5. CASE Answered(c)
  <2>1. PICK s \in asked[c], r \in Response :
          /\ r.server = s /\ replied'[c] = replied[c] \cup {r}
          /\ pc[c] = "query" /\ c \notin missed' => r.tag = abd_ks_map[s].tag
          /\ vec_resp'[c] = vec_resp[c] /\ pc'[c] = pc[c] /\ floor'[c] = floor[c]
          /\ c \in missed => c \in missed'
    BY <1>5 DEF Answered
  <2>2. PICK Q \in SUBSET Server : CoveredBy(c, t, Q)
    BY <1>3, <2>1
  <2>3. c \notin missed' /\ r.server \in Q => Leq(t, r.tag)
    BY <2>1, <2>2 DEF CoveredBy
  <2>4. CoveredBy(c, t, Q)'
    BY <1>2, <2>1, <2>2, <2>3 DEF CoveredBy
  <2> QED  BY <2>4
<1>6. CASE Gathers(c)
  <2>1. PICK r \in replied[c] :
          /\ vec_resp'[c] = Append(vec_resp[c], r) /\ replied'[c] = replied[c] \ {r}
          /\ pc'[c] = pc[c] /\ floor'[c] = floor[c] /\ (c \in missed <=> c \in missed')
    BY <1>6 DEF Gathers
  <2>2. PICK Q \in SUBSET Server : CoveredBy(c, t, Q)
    BY <1>3, <2>1
  <2>3. vec_resp[c] \in Seq(Response) /\ r \in Response
    BY DEF TypeOK
  <2>4. \A i \in DOMAIN vec_resp'[c] :
          \/ i \in DOMAIN vec_resp[c] /\ vec_resp'[c][i] = vec_resp[c][i]
          \/ vec_resp'[c][i] = r
    BY <2>1, <2>3
  <2>5. CoveredBy(c, t, Q)'
    BY <1>2, <2>1, <2>2, <2>4 DEF CoveredBy
  <2> QED  BY <2>5
<1>7. CASE Asks(c)
  <2>1. t \in settled /\ replied'[c] = {} /\ vec_resp'[c] = <<>>
    BY <1>7 DEF Asks
  <2>2. Holders(t) \in SUBSET Server /\ Cardinality(Holders(t)) >= Majority
    BY <2>1 DEF SettledTagsHeld, Holders
  <2>3. \A s \in Holders(t) : Leq(t, abd_ks_map'[s].tag)
    BY <1>2 DEF Holders
  <2>4. PICK Q \in SUBSET Server :
          Cardinality(Q) >= Majority /\ \A s \in Q : Leq(t, abd_ks_map'[s].tag)
    BY <2>2, <2>3
  <2>5. CoveredBy(c, t, Q)'
    BY <2>1, <2>4 DEF CoveredBy
  <2> QED  BY <2>4, <2>5
<1>8. CASE Ends(c)
  BY <1>8 DEF Ends
<1> QED  BY <1>4, <1>5, <1>6, <1>7, <1>8, PhaseStep

\* The invariant holds at the start.
LEMMA IInvInit == Init => IInv
<1> SUFFICES ASSUME Init PROVE IInv
  OBVIOUS
<1>1. TypeOK
  BY TypeInit
<1>2. OneReplyPerServer
  <2>1. \A c \in Clients : Collected(c) = {} /\ Len(vec_resp[c]) = 0 /\ replied[c] = {}
    BY DEF Init, Collected
  <2> QED  BY <2>1, FS_EmptySet DEF OneReplyPerServer
<1> QED  BY <1>1, <1>2 DEF Init, IInv, AnsweredWritesHeld, SettledTagsHeld, FloorCovered

\* Every step preserves the invariant.
LEMMA IInvStep == IInv /\ [Next]_vars => IInv'
<1> SUFFICES ASSUME IInv, [Next]_vars PROVE IInv'
  OBVIOUS
<1>1. TypeOK'
  BY TypeStep DEF IInv
<1> QED
  BY <1>1, OneReplyStep, AnsweredWritesStep, SettledStep, FloorStep DEF IInv

\* The inductive invariant holds in every reachable state.
THEOREM IInvCorrect == Spec => []IInv
BY IInvInit, IInvStep, PTL DEF Spec

\* Durability: the tag of every finished put and get is kept by a majority of
\* the servers from then on, for any number of servers and clients and every
\* order of handlers, late WRITEs and stops.
THEOREM Durability == Spec => []SettledTagsHeld
<1>1. IInv => SettledTagsHeld
  BY DEF IInv
<1> QED  BY <1>1, IInvCorrect, PTL

\* A full query phase has met every operation that had returned before it: the
\* majority that covers the operation and the collected one have a server in
\* common.
LEMMA MajorityIsFresh == IInv => FreshResponseCollected
<1> SUFFICES ASSUME IInv, NEW c \in Clients, pc[c] = "query", HasMajority(c), c \notin missed,
                    NEW t \in floor[c]
             PROVE  \E i \in DOMAIN vec_resp[c] : Leq(t, vec_resp[c][i].tag)
  BY DEF FreshResponseCollected
<1>1. PICK Q \in SUBSET Server : CoveredBy(c, t, Q)
  BY DEF IInv, FloorCovered
<1>2. Collected(c) \in SUBSET Server /\ Cardinality(Collected(c)) >= Majority
  BY CollectedFinite DEF IInv, OneReplyPerServer, HasMajority
<1>3. PICK s \in Q : s \in Collected(c)
  BY <1>1, <1>2, MajoritiesMeet DEF CoveredBy
<1>4. PICK i \in DOMAIN vec_resp[c] : vec_resp[c][i].server = s
  BY <1>3 DEF Collected
<1> QED  BY <1>1, <1>3, <1>4 DEF CoveredBy

\* Quorum intersection: the replies a query collects contain one as recent as
\* every operation that had returned when the query began.
THEOREM FreshReplies == Spec => []FreshResponseCollected
BY MajorityIsFresh, IInvCorrect, PTL

-----------------------------------------------------------------------------
(* The owner of a value.                                                    *)

\* A server that handles a WRITE keeps a pair with its owner.
LEMMA AfterWriteOwned ==
  ASSUME NEW pair, NEW w, Owned(pair), Owned(w)
  PROVE  Owned(AfterWrite(pair, w))
BY DEF AfterWrite, Owned

\* A reply with an owner leaves every reply with its owner.
LEMMA ReplyOwned ==
  ASSUME TypeOK, OwnersInv, NEW c \in Clients, NEW s, NEW tag, NEW value,
         Reply(c, s, tag, value), value # NoValue => tag.client_id = value[1]
  PROVE  \A d \in Clients : \A r \in replied'[d] : Owned(r)
<1> DEFINE new == [server |-> s, tag |-> tag, value |-> value]
<1>1. Owned(new)
  BY DEF Owned
<1>2. replied \in [Clients -> SUBSET Response] /\ replied' = [replied EXCEPT ![c] = @ \cup {new}]
  BY DEF Reply, TypeOK
<1> HIDE DEF new
<1> QED  BY <1>1, <1>2 DEF OwnersInv

\* What find_majority_tag returns to a client has its owner.
LEMMA FoundOwned ==
  ASSUME TypeOK, OwnersInv, NEW c \in Clients, HasMajority(c)
  PROVE  Owned(FindMajorityTag(vec_resp[c]))
<1>1. vec_resp[c] \in Seq(Response) /\ Len(vec_resp[c]) >= 1
  BY MajorityPositive DEF HasMajority, TypeOK
<1> QED  BY <1>1, FindMajorityTagIsCollected DEF OwnersInv

\* No step gives a value to the wrong client.
LEMMA OwnersStep ==
  ASSUME TypeOK, OwnersInv, [Next]_vars
  PROVE  OwnersInv'
<1> USE DEF serverVars, clientVars, history
<1>1. /\ \A s \in Server : Owned(abd_ks_map[s])
      /\ \A w \in late : Owned(w)
      /\ \A c \in Clients : pc[c] = "write" => Owned(req[c])
      /\ \A c \in Clients : pc[c] = "query" /\ op[c] = "Put" => req[c].value[1] = c
      /\ \A c \in Clients : \A r \in replied[c] : Owned(r)
      /\ \A c \in Clients : \A i \in DOMAIN vec_resp[c] : Owned(vec_resp[c][i])
  BY DEF OwnersInv, WriterOwnsTag
<1>2. /\ abd_ks_map \in [Server -> Pair] /\ req \in [Clients -> Pair]
      /\ pc \in [Clients -> {"idle", "query", "write"}] /\ op \in [Clients -> {"Put", "Get"}]
      /\ replied \in [Clients -> SUBSET Response] /\ vec_resp \in [Clients -> Seq(Response)]
      /\ late \subseteq Write
  BY DEF TypeOK
<1> DEFINE Kept == UNCHANGED <<abd_ks_map, late, pc, op, req, vec_resp>>
<1>3. ASSUME Kept, \A c \in Clients : \A r \in replied'[c] : Owned(r)
      PROVE  OwnersInv'
  BY <1>1, <1>3 DEF OwnersInv, WriterOwnsTag, Owned
<1>4. ASSUME NEW c \in Clients, NEW s \in Server,
             HandleReadQuery(c, s) \/ HandleReadQueryMiss(c, s) \/ HandleWriteQuery(c, s)
      PROVE  OwnersInv'
  <2>1. \E tag, value : /\ Reply(c, s, tag, value)
                        /\ value # NoValue => tag.client_id = value[1]
    BY <1>1, <1>4 DEF HandleReadQuery, HandleReadQueryMiss, HandleWriteQuery, Owned
  <2>2. \A d \in Clients : \A r \in replied'[d] : Owned(r)
    BY <2>1, ReplyOwned
  <2>3. Kept
    BY <1>4 DEF HandleReadQuery, HandleReadQueryMiss, HandleWriteQuery
  <2> QED  BY <1>3, <2>2, <2>3
<1>5. ASSUME NEW c \in Clients, NEW s \in Server, HandleWrite(c, s) PROVE OwnersInv'
  <2>1. \A d \in Clients : \A r \in replied'[d] : Owned(r)
    BY <1>5, ReplyOwned DEF HandleWrite
  <2>2. Owned(AfterWrite(abd_ks_map[s], req[c]))
    BY <1>1, <1>5, AfterWriteOwned DEF HandleWrite
  <2>3. abd_ks_map' = [abd_ks_map EXCEPT ![s] = AfterWrite(@, req[c])]
        /\ UNCHANGED <<late, pc, op, req, vec_resp>>
    BY <1>5 DEF HandleWrite
  <2>4. \A t \in Server : Owned(abd_ks_map'[t])
    BY <1>1, <1>2, <2>2, <2>3
  <2> QED  BY <1>1, <2>1, <2>3, <2>4 DEF OwnersInv, WriterOwnsTag, Owned
<1>6. ASSUME NEW w \in late, HandleLateWrite(w) PROVE OwnersInv'
  <2>1. w.server \in Server /\ Owned(w)
    BY <1>1, <1>2 DEF Write
  <2>2. Owned(AfterWrite(abd_ks_map[w.server], w))
    BY <1>1, <2>1, AfterWriteOwned
  <2>3. /\ abd_ks_map' = [abd_ks_map EXCEPT ![w.server] = AfterWrite(@, w)]
        /\ late' = late \ {w} /\ UNCHANGED <<pc, op, req, replied, vec_resp>>
    BY <1>6 DEF HandleLateWrite
  <2>4. \A t \in Server : Owned(abd_ks_map'[t])
    BY <1>1, <1>2, <2>1, <2>2, <2>3
  <2> QED  BY <1>1, <2>3, <2>4 DEF OwnersInv, WriterOwnsTag, Owned
<1>7. ASSUME NEW s \in Server, BeginInsert(s) \/ EndInsert(s) \/ Crash(s) PROVE OwnersInv'
  BY <1>1, <1>3, <1>7 DEF BeginInsert, EndInsert, Crash
<1>8. ASSUME NEW c \in Clients, Broadcast(c), UNCHANGED <<abd_ks_map, late>>,
             \A d \in Clients \ {c} : pc'[d] = pc[d] /\ op'[d] = op[d] /\ req'[d] = req[d],
             pc'[c] = "write" => Owned(req'[c]),
             pc'[c] = "query" /\ op'[c] = "Put" => req'[c].value[1] = c
      PROVE  OwnersInv'
  <2>1. ASSUME NEW d \in Clients
        PROVE  /\ \A r \in replied'[d] : Owned(r)
               /\ \A i \in DOMAIN vec_resp'[d] : Owned(vec_resp'[d][i])
    BY <1>1, <1>2, <1>8 DEF Broadcast
  <2>2. ASSUME NEW d \in Clients
        PROVE  /\ pc'[d] = "write" => Owned(req'[d])
               /\ pc'[d] = "query" /\ op'[d] = "Put" => req'[d].value[1] = d
    BY <1>1, <1>8 DEF Owned
  <2>3. WriterOwnsTag'
    BY <1>1, <1>8 DEF WriterOwnsTag, Owned
  <2> QED  BY <2>1, <2>2, <2>3 DEF OwnersInv, Owned
<1>9. ASSUME NEW c \in Clients, StartPut(c) \/ StartGet(c) PROVE OwnersInv'
  <2>1. PICK kind, pair :
          /\ StartQuery(c, kind) /\ req' = [req EXCEPT ![c] = pair]
          /\ kind = "Put" => pair = [tag |-> ZeroTag, value |-> <<c, ops[c] + 1>>]
    <3>1. CASE StartPut(c)
      <4> DEFINE put == [tag |-> ZeroTag, value |-> <<c, ops[c] + 1>>]
      <4>1. StartQuery(c, "Put") /\ req' = [req EXCEPT ![c] = put]
        BY <3>1 DEF StartPut
      <4> QED  BY <4>1
    <3>2. CASE StartGet(c)
      <4>1. StartQuery(c, "Get") /\ req' = [req EXCEPT ![c] = Absent]
        BY <3>2 DEF StartGet
      <4>2. "Get" # "Put"
        OBVIOUS
      <4> QED  BY <4>1, <4>2
    <3> QED  BY <1>9, <3>1, <3>2
  <2>2. /\ pc' = [pc EXCEPT ![c] = "query"] /\ op' = [op EXCEPT ![c] = kind] /\ Broadcast(c)
        /\ UNCHANGED <<abd_ks_map, late>>
    BY <2>1 DEF StartQuery
  <2>3. kind = "Put" => pair.value[1] = c
    BY <2>1
  <2>4. pc'[c] = "query" /\ op'[c] = kind /\ req'[c] = pair
    BY <1>2, <2>1, <2>2
  <2> QED  BY <1>2, <1>8, <2>1, <2>2, <2>3, <2>4
<1>10. ASSUME NEW c \in Clients, NEW r \in replied[c], Collect(c, r) PROVE OwnersInv'
  <2>1. /\ vec_resp' = [vec_resp EXCEPT ![c] = Append(@, r)]
        /\ replied' = [replied EXCEPT ![c] = @ \ {r}]
        /\ UNCHANGED <<abd_ks_map, late, pc, op, req>>
    BY <1>10 DEF Collect
  <2>2. \A i \in DOMAIN vec_resp'[c] :
          (i \in DOMAIN vec_resp[c] /\ vec_resp'[c][i] = vec_resp[c][i]) \/ vec_resp'[c][i] = r
    <3>1. vec_resp[c] \in Seq(Response) /\ r \in Response /\ vec_resp'[c] = Append(vec_resp[c], r)
      BY <1>2, <2>1
    <3> QED  BY <3>1
  <2>3. ASSUME NEW d \in Clients
        PROVE  \A i \in DOMAIN vec_resp'[d] : Owned(vec_resp'[d][i])
    BY <1>1, <1>2, <2>1, <2>2
  <2>4. \A d \in Clients : \A q \in replied'[d] : Owned(q)
    BY <1>1, <1>2, <2>1
  <2> QED  BY <1>1, <2>1, <2>3, <2>4 DEF OwnersInv, WriterOwnsTag, Owned
<1>11. ASSUME NEW c \in Clients, NEW tag, NEW value, StartWrite(c, tag, value),
              value # NoValue => tag.client_id = value[1]
       PROVE  OwnersInv'
  <2>1. /\ req' = [req EXCEPT ![c] = [tag |-> tag, value |-> value]]
        /\ pc' = [pc EXCEPT ![c] = "write"]
        /\ UNCHANGED <<abd_ks_map, late, op>> /\ Broadcast(c)
    BY <1>11 DEF StartWrite
  <2>2. pc'[c] = "write" /\ Owned(req'[c])
    BY <1>2, <1>11, <2>1 DEF Owned
  <2> QED  BY <1>2, <1>8, <2>1, <2>2
<1>12. ASSUME NEW c \in Clients, PutWrite(c) PROVE OwnersInv'
  BY <1>1, <1>11, <1>12 DEF PutWrite
<1>13. ASSUME NEW c \in Clients, GetWriteBack(c) PROVE OwnersInv'
  BY <1>11, <1>13, FoundOwned DEF GetWriteBack, Owned
<1>14. ASSUME NEW c \in Clients, GetEmpty(c) \/ EndWrite(c) PROVE OwnersInv'
  <2>1. /\ pc' = [pc EXCEPT ![c] = "idle"]
        /\ replied' = [replied EXCEPT ![c] = {}]
        /\ vec_resp' = [vec_resp EXCEPT ![c] = <<>>]
        /\ UNCHANGED <<abd_ks_map, op, req>>
    BY <1>14 DEF GetEmpty, EndWrite, EndOperation
  <2>2. \A w \in late' : Owned(w)
    <3>1. ASSUME GetEmpty(c) PROVE late' = late
      BY <3>1 DEF GetEmpty
    <3>2. ASSUME EndWrite(c), NEW s PROVE Owned([server |-> s, tag |-> req[c].tag,
                                                 value |-> req[c].value])
      BY <1>1, <3>2 DEF EndWrite, Owned
    <3> QED  BY <1>1, <1>14, <3>1, <3>2 DEF EndWrite
  <2>3. ASSUME NEW d \in Clients
        PROVE  /\ \A r \in replied'[d] : Owned(r)
               /\ \A i \in DOMAIN vec_resp'[d] : Owned(vec_resp'[d][i])
    BY <1>1, <1>2, <2>1
  <2>4. ASSUME NEW d \in Clients
        PROVE  /\ pc'[d] = "write" => Owned(req'[d])
               /\ pc'[d] = "query" /\ op'[d] = "Put" => req'[d].value[1] = d
    BY <1>1, <1>2, <2>1
  <2> QED  BY <1>1, <2>1, <2>2, <2>3, <2>4 DEF OwnersInv, WriterOwnsTag, Owned
<1>15. CASE UNCHANGED vars
  BY <1>1, <1>3, <1>15 DEF vars
<1> QED
  BY <1>4, <1>5, <1>6, <1>7, <1>9, <1>10, <1>12, <1>13, <1>14, <1>15
  DEF Next, ServerStep, ClientStep, LateStep, PutReturn, GetReturn

\* Every pair of a tag and a value that is kept, sent or collected is on its way
\* from the put of the tag's client: gets and late WRITEs of others change neither.
THEOREM PairsHaveOwners == Spec => []OwnersInv
<1>1. Init => OwnersInv
  BY DEF Init, OwnersInv, WriterOwnsTag, Owned, Absent
<1> QED  BY <1>1, TypeCorrect, OwnersStep, PTL DEF Spec

\* A value is kept under the client id of the put that made it, also after
\* another client's get has written it back and when its WRITE arrives late.
THEOREM ValuesKeepTheirWriter == Spec => []WriterOwnsTag
<1>1. OwnersInv => WriterOwnsTag
  BY DEF OwnersInv
<1> QED  BY <1>1, PairsHaveOwners, PTL

-----------------------------------------------------------------------------
(* What find_majority_tag returns when it discards nothing greater.         *)

\* A reply with the first one's integer, none of which beats it, is as great as
\* every reply when no integer is greater than the first one.
LEMMA FoundIsGreatest ==
  ASSUME NEW vec \in Seq(Response), Len(vec) >= 1, ~ DiscardsGreater(vec), NEW i \in DOMAIN vec
  PROVE  Leq(vec[i].tag, FindMajorityTag(vec).tag)
<1> DEFINE Beats(a, b) == \/ vec[b].tag.client_id < vec[a].tag.client_id
                          \/ vec[b].tag.client_id = vec[a].tag.client_id /\ a <= b
           best == CHOOSE a \in Peers(vec) : \A b \in Peers(vec) : Beats(a, b)
<1>1. best \in Peers(vec) /\ \A b \in Peers(vec) : Beats(best, b)
  BY BestPeerExists
<1>2. FindMajorityTag(vec) = vec[best]
  BY DEF FindMajorityTag
<1>3. \A a \in DOMAIN vec : vec[a].tag \in Tag
  <2>1. \A a \in DOMAIN vec : vec[a] \in Response
    OBVIOUS
  <2>2. \A r \in Response : r.tag \in Tag
    BY DEF Response
  <2> QED  BY <2>1, <2>2
<1> HIDE DEF best
<1>4. 1 \in DOMAIN vec /\ best \in DOMAIN vec /\ vec[best].tag.integer = vec[1].tag.integer
  <2>1. Len(vec) \in Nat /\ DOMAIN vec = 1 .. Len(vec)
    OBVIOUS
  <2> QED  BY <1>1, <2>1 DEF Peers
<1>5. ~ (vec[i].tag.integer > vec[best].tag.integer)
  BY <1>4 DEF DiscardsGreater
<1>6. vec[i].tag.integer = vec[best].tag.integer => ~ (vec[best].tag.client_id < vec[i].tag.client_id)
  <2> SUFFICES ASSUME vec[i].tag.integer = vec[best].tag.integer
               PROVE  ~ (vec[best].tag.client_id < vec[i].tag.client_id)
    OBVIOUS
  <2>1. Beats(best, i)
    BY <1>1, <1>4 DEF Peers
  <2>2. vec[i].tag \in Tag /\ vec[best].tag \in Tag
    BY <1>3, <1>4
  <2> QED  BY <2>1, <2>2 DEF Tag
<1>7. vec[i].tag \in Tag /\ vec[best].tag \in Tag
  BY <1>3, <1>4
<1> QED  BY <1>2, <1>5, <1>6, <1>7 DEF Leq, Less, Tag

\* A client that discards nothing greater has found a tag no smaller than any
\* that was settled as its query began.
LEMMA FoundIsFresh ==
  ASSUME IInv, NEW c \in Clients, pc[c] = "query", HasMajority(c), c \notin missed,
         ~ DiscardsGreater(vec_resp[c]), NEW t \in floor[c]
  PROVE  t \in Tag /\ Leq(t, FindMajorityTag(vec_resp[c]).tag)
<1>1. /\ vec_resp[c] \in Seq(Response) /\ Len(vec_resp[c]) >= 1
      /\ t \in Tag
  BY MajorityPositive DEF IInv, TypeOK, HasMajority
<1>2. PICK i \in DOMAIN vec_resp[c] : Leq(t, vec_resp[c][i].tag)
  BY MajorityIsFresh DEF FreshResponseCollected
<1>3. Leq(vec_resp[c][i].tag, FindMajorityTag(vec_resp[c]).tag)
  BY <1>1, FoundIsGreatest
<1>4. vec_resp[c][i] \in Response /\ FindMajorityTag(vec_resp[c]) \in Response
  BY <1>1, FoundIsTyped DEF IInv
<1>5. vec_resp[c][i].tag \in Tag /\ FindMajorityTag(vec_resp[c]).tag \in Tag
  BY <1>4 DEF Response
<1> QED  BY <1>1, <1>2, <1>3, <1>5, LeqTransitive

\* What a get has found was written, or the key was absent.
LEMMA FoundIsWritten ==
  ASSUME TypeOK, OnlyWrittenSpreads, NEW c \in Clients, pc[c] = "query", op[c] = "Get",
         HasMajority(c)
  PROVE  PairOf(FindMajorityTag(vec_resp[c])) \in written \cup {Absent}
<1>1. vec_resp[c] \in Seq(Response) /\ Len(vec_resp[c]) >= 1
  BY MajorityPositive DEF TypeOK, HasMajority
<1>2. PICK i \in DOMAIN vec_resp[c] : FindMajorityTag(vec_resp[c]) = vec_resp[c][i]
  BY <1>1, FindMajorityTagIsCollected
<1> QED  BY <1>2 DEF OnlyWrittenSpreads

-----------------------------------------------------------------------------
(* Steps of servers and steps that collect replies.                         *)

\* The steps in which no operation starts, goes on to its WRITEs or ends.
Quiet == UNCHANGED <<pc, op, ops, req, result, settled, floor, known, before, stale, written>>

\* They leave all but OnlyWrittenSpreads alone; only a get may have missed the key.
LEMMA QuietStep ==
  ASSUME OneTagPerValue, TagsFollowTime, GetsAvoidStale, Quiet, missed \subseteq missed',
         \A c \in Clients : op[c] = "Put" /\ c \in missed' => c \in missed
  PROVE  OneTagPerValue' /\ TagsFollowTime' /\ GetsAvoidStale'
<1>1. OneTagPerValue'
  BY DEF OneTagPerValue, Quiet
<1>2. TagsFollowTime'
  BY DEF TagsFollowTime, Quiet, WrittenUnder
<1>3. GetsAvoidStale'
  BY DEF GetsAvoidStale, Quiet
<1> QED  BY <1>1, <1>2, <1>3

\* A reply with a written pair is as good as those before it.
LEMMA ReplySpreads ==
  ASSUME TypeOK, OnlyWrittenSpreads, Quiet, UNCHANGED <<late, vec_resp>>,
         \A s \in Server : abd_ks_map'[s] \in written \cup {Absent},
         NEW c \in Clients, NEW s, NEW tag, NEW value, Reply(c, s, tag, value),
         pc[c] = "query" /\ op[c] = "Get" => [tag |-> tag, value |-> value] \in written \cup {Absent}
  PROVE  OnlyWrittenSpreads'
<1> DEFINE new == [server |-> s, tag |-> tag, value |-> value]
<1>1. replied \in [Clients -> SUBSET Response] /\ replied' = [replied EXCEPT ![c] = @ \cup {new}]
  BY DEF Reply, TypeOK
<1>2. PairOf(new) = [tag |-> tag, value |-> value]
  BY DEF PairOf
<1> HIDE DEF new
<1>3. ASSUME NEW d \in Clients, pc[d] = "query" /\ op[d] = "Get", NEW r \in replied'[d]
      PROVE  PairOf(r) \in written \cup {Absent}
  <2>1. CASE r \in replied[d]
    BY <1>3, <2>1 DEF OnlyWrittenSpreads
  <2>2. ASSUME r \notin replied[d] PROVE d = c /\ r = new
    BY <1>1, <1>3, <2>2
  <2> QED  BY <1>2, <1>3, <2>1, <2>2
<1>4. /\ pc' = pc /\ op' = op /\ written' = written /\ req' = req /\ result' = result
      /\ late' = late /\ vec_resp' = vec_resp
  BY DEF Quiet
<1> QED  BY <1>3, <1>4 DEF OnlyWrittenSpreads, PairOf

\* A server that handles a WRITE keeps its pair or takes the one it was sent.
LEMMA AfterWriteWritten ==
  ASSUME NEW pair, NEW w
  PROVE  AfterWrite(pair, w) \in {pair, PairOf(w)}
BY DEF AfterWrite, PairOf

\* A pair is its tag and its value.
LEMMA PairOfPair == \A p \in Pair : PairOf(p) = p
BY DEF Pair, PairOf

\* No handler, insertion, stop or collected reply brings in what was never written.
LEMMA OtherStep ==
  ASSUME TypeOK, HistoryInv, HOther, ~ discarded'
  PROVE  OnlyWrittenSpreads' /\ OneTagPerValue' /\ TagsFollowTime' /\ GetsAvoidStale'
<1> USE DEF serverVars, clientVars, history
<1>1. /\ OnlyWrittenSpreads /\ OneTagPerValue /\ TagsFollowTime /\ GetsAvoidStale
      /\ UNCHANGED <<known, before, stale, written, discarded>>
  BY DEF HOther, HistoryInv
<1>2. /\ abd_ks_map \in [Server -> Pair] /\ req \in [Clients -> Pair]
      /\ replied \in [Clients -> SUBSET Response] /\ vec_resp \in [Clients -> Seq(Response)]
      /\ late \subseteq Write
  BY DEF TypeOK
<1>3. ASSUME NEW c \in Clients, NEW s \in Server,
             HandleReadQuery(c, s) \/ HandleReadQueryMiss(c, s) \/ HandleWriteQuery(c, s)
      PROVE  /\ Quiet /\ OnlyWrittenSpreads' /\ missed \subseteq missed'
             /\ \A d \in Clients : op[d] = "Put" /\ d \in missed' => d \in missed
  <2>1. Quiet /\ UNCHANGED <<late, vec_resp, abd_ks_map>>
    BY <1>1, <1>3 DEF HandleReadQuery, HandleReadQueryMiss, HandleWriteQuery, Quiet
  <2>2. /\ missed \subseteq missed'
        /\ \A d \in Clients : op[d] = "Put" /\ d \in missed' => d \in missed
    <3>1. "Get" # "Put"
      OBVIOUS
    <3>2. missed' = missed \/ (missed' = missed \cup {c} /\ op[c] = "Get")
      BY <1>3 DEF HandleReadQuery, HandleReadQueryMiss, HandleWriteQuery
    <3> QED  BY <3>1, <3>2
  <2>3. \A r \in Server : abd_ks_map'[r] \in written \cup {Absent}
    BY <1>1, <2>1 DEF OnlyWrittenSpreads
  <2>4. \E tag, value :
          /\ Reply(c, s, tag, value)
          /\ pc[c] = "query" /\ op[c] = "Get" =>
               [tag |-> tag, value |-> value] \in written \cup {Absent}
    <3>1. CASE HandleReadQuery(c, s)
      <4>1. abd_ks_map[s] = [tag |-> abd_ks_map[s].tag, value |-> abd_ks_map[s].value]
        BY <1>2 DEF Pair
      <4>2. abd_ks_map[s] \in written \cup {Absent}
        BY <1>1 DEF OnlyWrittenSpreads
      <4> QED  BY <3>1, <4>1, <4>2 DEF HandleReadQuery
    <3>2. CASE HandleReadQueryMiss(c, s)
      BY <3>2 DEF HandleReadQueryMiss, Absent
    <3>3. CASE HandleWriteQuery(c, s)
      <4>1. "Get" # "Put"
        OBVIOUS
      <4> QED  BY <3>3, <4>1 DEF HandleWriteQuery
    <3> QED  BY <1>3, <3>1, <3>2, <3>3
  <2> QED  BY <1>1, <2>1, <2>2, <2>3, <2>4, ReplySpreads
<1>4. ASSUME NEW c \in Clients, NEW s \in Server, HandleWrite(c, s)
      PROVE  Quiet /\ OnlyWrittenSpreads' /\ missed' = missed
  <2>1. /\ Quiet /\ UNCHANGED <<late, vec_resp, missed>> /\ Reply(c, s, ZeroTag, NoValue)
        /\ pc[c] = "write" /\ abd_ks_map' = [abd_ks_map EXCEPT ![s] = AfterWrite(@, req[c])]
    BY <1>1, <1>4 DEF HandleWrite, Quiet
  <2>2. AfterWrite(abd_ks_map[s], req[c]) \in {abd_ks_map[s], req[c]}
    BY <1>2, AfterWriteWritten, PairOfPair
  <2>3. \A r \in Server : abd_ks_map'[r] \in written \cup {Absent}
    BY <1>1, <1>2, <2>1, <2>2 DEF OnlyWrittenSpreads
  <2>4. ~ (pc[c] = "query")
    BY <2>1
  <2> QED  BY <1>1, <2>1, <2>3, <2>4, ReplySpreads
<1>5. ASSUME NEW w \in late, HandleLateWrite(w)
      PROVE  Quiet /\ OnlyWrittenSpreads' /\ missed' = missed
  <2>1. /\ Quiet /\ UNCHANGED <<vec_resp, replied, missed>> /\ late' = late \ {w}
        /\ abd_ks_map' = [abd_ks_map EXCEPT ![w.server] = AfterWrite(@, w)]
    BY <1>1, <1>5 DEF HandleLateWrite, Quiet
  <2>2. w.server \in Server /\ PairOf(w) \in written
    BY <1>1, <1>2 DEF OnlyWrittenSpreads, Write
  <2>3. AfterWrite(abd_ks_map[w.server], w) \in {abd_ks_map[w.server], PairOf(w)}
    BY AfterWriteWritten
  <2>4. \A r \in Server : abd_ks_map'[r] \in written \cup {Absent}
    BY <1>1, <1>2, <2>1, <2>2, <2>3 DEF OnlyWrittenSpreads
  <2> QED  BY <1>1, <2>1, <2>4 DEF OnlyWrittenSpreads, PairOf, Quiet
<1>6. ASSUME NEW s \in Server, BeginInsert(s) \/ EndInsert(s) \/ Crash(s)
      PROVE  Quiet /\ OnlyWrittenSpreads' /\ missed' = missed
  <2>1. Quiet /\ UNCHANGED <<abd_ks_map, late, vec_resp, replied, missed>>
    BY <1>1, <1>6 DEF BeginInsert, EndInsert, Crash, Quiet
  <2> QED  BY <1>1, <2>1 DEF OnlyWrittenSpreads, PairOf, Quiet
<1>7. ASSUME NEW c \in Clients, NEW r \in replied[c], Collect(c, r)
      PROVE  Quiet /\ OnlyWrittenSpreads' /\ missed' = missed
  <2>1. /\ Quiet /\ UNCHANGED <<abd_ks_map, late, missed>>
        /\ vec_resp' = [vec_resp EXCEPT ![c] = Append(@, r)]
        /\ replied' = [replied EXCEPT ![c] = @ \ {r}]
    BY <1>1, <1>7 DEF Collect, Quiet
  <2>2. \A i \in DOMAIN vec_resp'[c] :
          (i \in DOMAIN vec_resp[c] /\ vec_resp'[c][i] = vec_resp[c][i]) \/ vec_resp'[c][i] = r
    <3>1. vec_resp[c] \in Seq(Response) /\ r \in Response /\ vec_resp'[c] = Append(vec_resp[c], r)
      BY <1>2, <2>1
    <3> QED  BY <3>1
  <2>3. ASSUME NEW d \in Clients, pc[d] = "query" /\ op[d] = "Get", NEW i \in DOMAIN vec_resp'[d]
        PROVE  PairOf(vec_resp'[d][i]) \in written \cup {Absent}
    <3>1. CASE d = c
      BY <1>1, <2>2, <2>3, <3>1 DEF OnlyWrittenSpreads
    <3>2. CASE d # c
      BY <1>1, <1>2, <2>1, <2>3, <3>2 DEF OnlyWrittenSpreads
    <3> QED  BY <3>1, <3>2
  <2>4. \A d \in Clients : replied'[d] \subseteq replied[d]
    BY <1>2, <2>1
  <2> QED  BY <1>1, <2>1, <2>3, <2>4 DEF OnlyWrittenSpreads, PairOf, Quiet
<1> QED
  BY <1>1, <1>3, <1>4, <1>5, <1>6, <1>7, QuietStep DEF HOther, ServerStep, LateStep

-----------------------------------------------------------------------------
(* Steps of clients.                                                        *)

\* What a value was written under keeps its tag.
LEMMA TagOfWritten ==
  ASSUME OneTagPerValue, NEW p \in written, NEW tags, WrittenUnder(p.value, tags)
  PROVE  p.tag \in tags
BY DEF OneTagPerValue, WrittenUnder

\* Values that were written are those of a put that has begun.
LEMMA WrittenIsOld ==
  ASSUME TypeOK, HTypeOK, OneTagPerValue, NEW p \in written
  PROVE  /\ p.value \in Clients \X Nat /\ p.tag \in Tag /\ p.tag.integer > 0
         /\ p.value[1] \in Clients /\ p.value[2] \in Nat
         /\ p.value[2] <= ops[p.value[1]] /\ ops[p.value[1]] \in Nat
<1>1. p \in Pair /\ p.value # NoValue
  BY DEF HTypeOK, OneTagPerValue
<1>2. p.value \in Clients \X Nat /\ p.tag \in Tag
  BY <1>1 DEF Pair, Value
<1> QED  BY <1>2 DEF OneTagPerValue, TypeOK

\* A put begins: what is known now was settled before, so it is below what the
\* query will find.
LEMMA StartPutStep ==
  ASSUME TypeOK, HistoryInv, NEW c \in Clients, HStartPut(c), ~ discarded'
  PROVE  OnlyWrittenSpreads' /\ OneTagPerValue' /\ TagsFollowTime' /\ GetsAvoidStale'
<1> DEFINE mine == <<c, ops[c] + 1>>
           pair == [tag |-> ZeroTag, value |-> mine]
<1>1. /\ OnlyWrittenSpreads /\ OneTagPerValue /\ TagsFollowTime /\ GetsAvoidStale
      /\ HTypeOK /\ UNCHANGED <<known, stale, written, discarded>>
  BY DEF HStartPut, HistoryInv
<1>2. /\ pc' = [pc EXCEPT ![c] = "query"] /\ op' = [op EXCEPT ![c] = "Put"]
      /\ ops' = [ops EXCEPT ![c] = @ + 1] /\ req' = [req EXCEPT ![c] = pair]
      /\ replied' = [replied EXCEPT ![c] = {}] /\ vec_resp' = [vec_resp EXCEPT ![c] = <<>>]
      /\ floor' = [floor EXCEPT ![c] = settled] /\ missed' = missed \ {c}
      /\ UNCHANGED <<abd_ks_map, late, settled, result>>
      /\ before' = before \cup {<<u, req'[c].value>> : u \in known}
  BY DEF HStartPut, StartPut, StartQuery, Broadcast, serverVars
<1>3. /\ pc \in [Clients -> {"idle", "query", "write"}] /\ op \in [Clients -> {"Put", "Get"}]
      /\ ops \in [Clients -> Nat] /\ req \in [Clients -> Pair]
      /\ replied \in [Clients -> SUBSET Response] /\ vec_resp \in [Clients -> Seq(Response)]
      /\ floor \in [Clients -> SUBSET Tag]
  BY DEF TypeOK
<1>4. /\ pc'[c] = "query" /\ op'[c] = "Put" /\ ops'[c] = ops[c] + 1 /\ req'[c].value = mine
      /\ floor'[c] = settled /\ c \notin missed'
      /\ "Put" # "Get" /\ "query" # "write" /\ "query" # "idle"
  <2>1. req'[c] = pair
    BY <1>2, <1>3
  <2> QED  BY <1>2, <1>3, <2>1
<1>5. \A d \in Clients \ {c} :
        /\ pc'[d] = pc[d] /\ op'[d] = op[d] /\ ops'[d] = ops[d] /\ req'[d] = req[d]
        /\ replied'[d] = replied[d] /\ vec_resp'[d] = vec_resp[d] /\ floor'[d] = floor[d]
        /\ (d \in missed' <=> d \in missed)
  BY <1>2, <1>3
<1>6. before' = before \cup {<<u, mine>> : u \in known}
  BY <1>2, <1>4
<1> HIDE DEF pair
<1>7. OnlyWrittenSpreads'
  <2>1. ASSUME NEW d \in Clients
        PROVE  /\ pc'[d] = "write" => req'[d] \in written
               /\ pc'[d] = "query" /\ op'[d] = "Get" =>
                    /\ result'[d] = NoValue
                    /\ \A r \in replied'[d] : PairOf(r) \in written \cup {Absent}
                    /\ \A i \in DOMAIN vec_resp'[d] :
                         PairOf(vec_resp'[d][i]) \in written \cup {Absent}
    BY <1>1, <1>2, <1>4, <1>5 DEF OnlyWrittenSpreads
  <2> QED  BY <1>1, <1>2, <2>1 DEF OnlyWrittenSpreads, PairOf
<1>8. \A p \in written : p.value # mine
  <2> SUFFICES ASSUME NEW p \in written, p.value = mine PROVE FALSE
    OBVIOUS
  <2>1. p.value[1] = c /\ p.value[2] = ops[c] + 1
    OBVIOUS
  <2>2. p.value[2] <= ops[c] /\ ops[c] \in Nat
    BY <1>1, <2>1, WrittenIsOld
  <2> QED  BY <2>1, <2>2
<1>9. OneTagPerValue'
  <2>1. ASSUME NEW p \in written PROVE p.value[2] <= ops'[p.value[1]]
    <3>1. /\ p.value[1] \in Clients /\ p.value[2] \in Nat
          /\ p.value[2] <= ops[p.value[1]] /\ ops[p.value[1]] \in Nat
      BY <1>1, WrittenIsOld
    <3>2. CASE p.value[1] = c
      BY <1>4, <3>1, <3>2
    <3>3. CASE p.value[1] # c
      BY <1>5, <3>1, <3>3
    <3> QED  BY <3>2, <3>3
  <2>2. ASSUME NEW d \in Clients, pc'[d] = "query" /\ op'[d] = "Put"
        PROVE  /\ req'[d].value = <<d, ops'[d]>> /\ d \notin missed'
               /\ \A p \in written : p.value # req'[d].value
    <3>1. CASE d = c
      BY <1>4, <1>8, <3>1
    <3>2. CASE d # c
      BY <1>1, <1>5, <2>2, <3>2 DEF OneTagPerValue
    <3> QED  BY <3>1, <3>2
  <2> QED  BY <1>1, <2>1, <2>2 DEF OneTagPerValue
<1>10. TagsFollowTime'
  <2>1. \A x \in before' : x[1] \in known
    BY <1>1, <1>6 DEF TagsFollowTime
  <2>2. ASSUME NEW x \in before', NEW p \in written, NEW q \in written,
               p.value = x[1], q.value = x[2]
        PROVE  Less(p.tag, q.tag)
    <3>1. x \in before
      BY <1>6, <1>8, <2>2
    <3> QED  BY <1>1, <2>2, <3>1 DEF TagsFollowTime
  <2>3. ASSUME NEW x \in before', NEW d \in Clients, pc'[d] = "query", op'[d] = "Put",
               x[2] = req'[d].value
        PROVE  WrittenUnder(x[1], floor'[d])
    <3>1. CASE d = c
      BY <1>1, <1>4, <2>1, <3>1 DEF TagsFollowTime
    <3>2. CASE d # c
      <4>1. req[d].value = <<d, ops[d]>>
        BY <1>1, <1>5, <2>3, <3>2 DEF OneTagPerValue
      <4>2. x \in before
        BY <1>5, <1>6, <2>3, <3>2, <4>1
      <4> QED  BY <1>1, <1>5, <2>3, <3>2, <4>2 DEF TagsFollowTime
    <3> QED  BY <3>1, <3>2
  <2> QED  BY <1>1, <1>2, <2>1, <2>2, <2>3 DEF TagsFollowTime, WrittenUnder
<1>11. GetsAvoidStale'
  <2>1. ASSUME NEW d \in Clients \ {c}, op'[d] = "Get"
        PROVE  /\ pc'[d] = "query" => \A u \in stale[d] : \E t \in floor'[d] :
                    IF u = NoValue THEN Less(ZeroTag, t)
                    ELSE \E p \in written : p.value = u /\ Less(p.tag, t)
               /\ pc'[d] = "write" /\ d \notin missed' => req'[d].value \notin stale[d]
               /\ pc'[d] = "idle" /\ d \notin missed' => result[d] \notin stale[d]
    BY <1>1, <1>5, <2>1 DEF GetsAvoidStale
  <2> QED  BY <1>1, <1>2, <1>4, <2>1 DEF GetsAvoidStale
<1> QED  BY <1>7, <1>9, <1>10, <1>11

\* A get begins: what it has to avoid is below what was settled then.
LEMMA OverwrittenIsBelow ==
  ASSUME TypeOK, HTypeOK, OneTagPerValue, TagsFollowTime, NEW u \in Overwritten
  PROVE  \E t \in settled : IF u = NoValue THEN Less(ZeroTag, t)
                            ELSE \E p \in written : p.value = u /\ Less(p.tag, t)
<1>1. known # {} /\ (u = NoValue \/ \E x \in before : x[2] \in known /\ u = x[1])
  BY DEF Overwritten
<1>2. CASE u = NoValue
  <2>1. PICK v \in known : TRUE
    BY <1>1
  <2>2. PICK p \in written : p.value = v /\ p.tag \in settled
    BY DEF TagsFollowTime, WrittenUnder
  <2>3. p.tag \in Tag /\ p.tag.integer > 0
    BY WrittenIsOld
  <2>4. Less(ZeroTag, p.tag)
    BY <2>3 DEF Less, ZeroTag, Tag
  <2> QED  BY <1>2, <2>2, <2>4
<1>3. CASE u # NoValue
  <2>1. PICK x \in before : x[2] \in known /\ u = x[1]
    BY <1>1, <1>3
  <2>2. PICK q \in written : q.value = x[2] /\ q.tag \in settled
    BY <2>1 DEF TagsFollowTime, WrittenUnder
  <2>3. x[1] \in known
    BY <2>1 DEF TagsFollowTime
  <2>4. PICK p \in written : p.value = x[1]
    BY <2>3 DEF TagsFollowTime, WrittenUnder
  <2>5. Less(p.tag, q.tag)
    BY <2>1, <2>2, <2>4 DEF TagsFollowTime
  <2> QED  BY <1>3, <2>1, <2>2, <2>4, <2>5
<1> QED  BY <1>2, <1>3

LEMMA StartGetStep ==
  ASSUME TypeOK, HistoryInv, NEW c \in Clients, HStartGet(c), ~ discarded'
  PROVE  OnlyWrittenSpreads' /\ OneTagPerValue' /\ TagsFollowTime' /\ GetsAvoidStale'
<1>1. /\ OnlyWrittenSpreads /\ OneTagPerValue /\ TagsFollowTime /\ GetsAvoidStale
      /\ HTypeOK /\ UNCHANGED <<known, before, written, discarded>>
      /\ stale' = [stale EXCEPT ![c] = Overwritten]
  BY DEF HStartGet, HistoryInv
<1>2. /\ pc' = [pc EXCEPT ![c] = "query"] /\ op' = [op EXCEPT ![c] = "Get"]
      /\ ops' = [ops EXCEPT ![c] = @ + 1] /\ req' = [req EXCEPT ![c] = Absent]
      /\ replied' = [replied EXCEPT ![c] = {}] /\ vec_resp' = [vec_resp EXCEPT ![c] = <<>>]
      /\ floor' = [floor EXCEPT ![c] = settled] /\ missed' = missed \ {c}
      /\ result' = [result EXCEPT ![c] = NoValue]
      /\ UNCHANGED <<abd_ks_map, late, settled>>
  BY DEF HStartGet, StartGet, StartQuery, Broadcast, serverVars
<1>3. /\ pc \in [Clients -> {"idle", "query", "write"}] /\ op \in [Clients -> {"Put", "Get"}]
      /\ ops \in [Clients -> Nat] /\ req \in [Clients -> Pair] /\ result \in [Clients -> Value]
      /\ replied \in [Clients -> SUBSET Response] /\ vec_resp \in [Clients -> Seq(Response)]
      /\ floor \in [Clients -> SUBSET Tag] /\ stale \in [Clients -> SUBSET Value]
  BY <1>1 DEF TypeOK, HTypeOK
<1>4. /\ pc'[c] = "query" /\ op'[c] = "Get" /\ ops'[c] = ops[c] + 1
      /\ replied'[c] = {} /\ vec_resp'[c] = <<>> /\ result'[c] = NoValue
      /\ floor'[c] = settled /\ stale'[c] = Overwritten
      /\ "Put" # "Get" /\ "query" # "write" /\ "query" # "idle"
  BY <1>1, <1>2, <1>3
<1>5. \A d \in Clients \ {c} :
        /\ pc'[d] = pc[d] /\ op'[d] = op[d] /\ ops'[d] = ops[d] /\ req'[d] = req[d]
        /\ replied'[d] = replied[d] /\ vec_resp'[d] = vec_resp[d] /\ floor'[d] = floor[d]
        /\ stale'[d] = stale[d] /\ result'[d] = result[d]
        /\ (d \in missed' <=> d \in missed)
  BY <1>1, <1>2, <1>3
<1>6. OnlyWrittenSpreads'
  <2>1. ASSUME NEW d \in Clients
        PROVE  /\ pc'[d] = "write" => req'[d] \in written
               /\ pc'[d] = "query" /\ op'[d] = "Get" =>
                    /\ result'[d] = NoValue
                    /\ \A r \in replied'[d] : PairOf(r) \in written \cup {Absent}
                    /\ \A i \in DOMAIN vec_resp'[d] :
                         PairOf(vec_resp'[d][i]) \in written \cup {Absent}
    <3>1. CASE d = c
      BY <1>4, <3>1
    <3>2. CASE d # c
      BY <1>1, <1>5, <3>2 DEF OnlyWrittenSpreads
    <3> QED  BY <3>1, <3>2
  <2> QED  BY <1>1, <1>2, <2>1 DEF OnlyWrittenSpreads, PairOf
<1>7. OneTagPerValue'
  <2>1. ASSUME NEW p \in written PROVE p.value[2] <= ops'[p.value[1]]
    <3>1. /\ p.value[1] \in Clients /\ p.value[2] \in Nat
          /\ p.value[2] <= ops[p.value[1]] /\ ops[p.value[1]] \in Nat
      BY <1>1, WrittenIsOld
    <3>2. CASE p.value[1] = c
      BY <1>4, <3>1, <3>2
    <3>3. CASE p.value[1] # c
      BY <1>5, <3>1, <3>3
    <3> QED  BY <3>2, <3>3
  <2>2. ASSUME NEW d \in Clients, pc'[d] = "query" /\ op'[d] = "Put"
        PROVE  /\ req'[d].value = <<d, ops'[d]>> /\ d \notin missed'
               /\ \A p \in written : p.value # req'[d].value
    <3>1. d # c
      BY <1>4, <2>2
    <3> QED  BY <1>1, <1>5, <2>2, <3>1 DEF OneTagPerValue
  <2> QED  BY <1>1, <2>1, <2>2 DEF OneTagPerValue
<1>8. TagsFollowTime'
  <2>1. ASSUME NEW x \in before, NEW d \in Clients, pc'[d] = "query", op'[d] = "Put",
               x[2] = req'[d].value
        PROVE  WrittenUnder(x[1], floor'[d])
    <3>1. d # c
      BY <1>4, <2>1
    <3> QED  BY <1>1, <1>5, <2>1, <3>1 DEF TagsFollowTime
  <2> QED  BY <1>1, <1>2, <2>1 DEF TagsFollowTime, WrittenUnder
<1>9. GetsAvoidStale'
  <2>1. ASSUME NEW d \in Clients, op'[d] = "Get"
        PROVE  /\ pc'[d] = "query" => \A u \in stale'[d] : \E t \in floor'[d] :
                    IF u = NoValue THEN Less(ZeroTag, t)
                    ELSE \E p \in written : p.value = u /\ Less(p.tag, t)
               /\ pc'[d] = "write" /\ d \notin missed' => req'[d].value \notin stale'[d]
               /\ pc'[d] = "idle" /\ d \notin missed' => result'[d] \notin stale'[d]
    <3>1. CASE d = c
      BY <1>1, <1>4, <3>1, OverwrittenIsBelow
    <3>2. CASE d # c
      BY <1>1, <1>5, <2>1, <3>2 DEF GetsAvoidStale
    <3> QED  BY <3>1, <3>2
  <2> QED  BY <1>1, <2>1 DEF GetsAvoidStale
<1> QED  BY <1>6, <1>7, <1>8, <1>9

\* A query goes on to its WRITEs with pair p: what a client changes by that.
StartsWriting(c, p) ==
  /\ pc' = [pc EXCEPT ![c] = "write"] /\ req' = [req EXCEPT ![c] = p]
  /\ replied' = [replied EXCEPT ![c] = {}] /\ vec_resp' = [vec_resp EXCEPT ![c] = <<>>]
  /\ written' = written \cup {p}
  /\ UNCHANGED <<abd_ks_map, late, op, ops, result, settled, floor, missed, known, before, stale>>

\* For all other clients nothing changes but that there may be more written pairs.
LEMMA OthersKeep ==
  ASSUME TypeOK, NEW c \in Clients, NEW p, StartsWriting(c, p)
  PROVE  /\ pc'[c] = "write" /\ req'[c] = p
         /\ \A d \in Clients \ {c} :
              /\ pc'[d] = pc[d] /\ req'[d] = req[d]
              /\ replied'[d] = replied[d] /\ vec_resp'[d] = vec_resp[d]
BY DEF StartsWriting, TypeOK

\* The pair of a WRITE spreads as a written one.
LEMMA WriteSpreads ==
  ASSUME TypeOK, OnlyWrittenSpreads, NEW c \in Clients, NEW p, StartsWriting(c, p)
  PROVE  OnlyWrittenSpreads'
<1>1. \A s \in Server : abd_ks_map'[s] \in written' \cup {Absent}
  BY DEF OnlyWrittenSpreads, StartsWriting
<1>2. \A w \in late' : PairOf(w) \in written'
  BY DEF OnlyWrittenSpreads, StartsWriting
<1>3. ASSUME NEW d \in Clients
      PROVE  /\ pc'[d] = "write" => req'[d] \in written'
             /\ pc'[d] = "query" /\ op'[d] = "Get" =>
                  /\ result'[d] = NoValue
                  /\ \A r \in replied'[d] : PairOf(r) \in written' \cup {Absent}
                  /\ \A i \in DOMAIN vec_resp'[d] :
                       PairOf(vec_resp'[d][i]) \in written' \cup {Absent}
  <2>1. written' = written \cup {p} /\ op' = op /\ result' = result /\ "query" # "write"
    BY DEF StartsWriting
  <2>2. CASE d = c
    BY <2>1, <2>2, OthersKeep
  <2>3. CASE d # c
    BY <2>1, <2>3, OthersKeep DEF OnlyWrittenSpreads
  <2> QED  BY <2>2, <2>3
<1> QED  BY <1>1, <1>2, <1>3 DEF OnlyWrittenSpreads, PairOf

\* A put gets a tag above everything that was known as it was called.
LEMMA PutWriteStep ==
  ASSUME IInv, HistoryInv, NEW c \in Clients, HChoose(c), PutWrite(c), ~ discarded'
  PROVE  OnlyWrittenSpreads' /\ OneTagPerValue' /\ TagsFollowTime' /\ GetsAvoidStale'
<1> DEFINE max  == FindMajorityTag(vec_resp[c]).tag
           tag  == [integer |-> max.integer + 1, client_id |-> c]
           pair == [tag |-> tag, value |-> req[c].value]
<1>1. /\ OnlyWrittenSpreads /\ OneTagPerValue /\ TagsFollowTime /\ GetsAvoidStale
      /\ HTypeOK /\ TypeOK /\ ~ discarded /\ ~ DiscardsGreater(vec_resp[c])
  BY DEF HChoose, HistoryInv, IInv
<1>2. /\ pc[c] = "query" /\ op[c] = "Put" /\ HasMajority(c)
      /\ req' = [req EXCEPT ![c] = pair] /\ pc' = [pc EXCEPT ![c] = "write"]
      /\ replied' = [replied EXCEPT ![c] = {}] /\ vec_resp' = [vec_resp EXCEPT ![c] = <<>>]
      /\ UNCHANGED <<abd_ks_map, late, op, ops, result, settled, floor, missed>>
  BY DEF PutWrite, StartWrite, Broadcast, serverVars, history
<1>3. "Put" # "Get" /\ "query" # "write" /\ "query" # "idle" /\ "write" # "idle"
  OBVIOUS
<1>4. StartsWriting(c, pair)
  <2>1. req'[c] = pair
    BY <1>1, <1>2 DEF TypeOK
  <2>2. written' = written \cup {req'[c]} /\ UNCHANGED <<known, before, stale>>
    BY <1>2, <1>3 DEF HChoose, GetWriteBack, GetEmpty
  <2> HIDE DEF pair
  <2> QED  BY <1>2, <2>1, <2>2 DEF StartsWriting
<1>5. /\ req[c].value = <<c, ops[c]>> /\ c \notin missed /\ ops[c] \in Nat
      /\ \A p \in written : p.value # req[c].value
  BY <1>1, <1>2 DEF OneTagPerValue, TypeOK
<1>6. max \in Tag /\ tag \in Tag
  <2>1. FindMajorityTag(vec_resp[c]) \in Response
    BY <1>1, <1>2, FoundIsTyped
  <2>2. max \in Tag
    BY <2>1 DEF Response
  <2> QED  BY <2>2, ClientsAssumption DEF Tag
<1>7. ASSUME NEW t \in floor[c] PROVE t \in Tag /\ Less(t, tag)
  <2>1. t \in Tag /\ Leq(t, max)
    BY <1>1, <1>2, <1>5, FoundIsFresh
  <2> HIDE DEF max
  <2> QED  BY <1>6, <2>1 DEF Leq, Less, Tag
<1>8. pair.tag = tag /\ pair.value = <<c, ops[c]>> /\ tag.integer > 0
  BY <1>5, <1>6 DEF Tag
<1>9. /\ written' = written \cup {pair} /\ op' = op /\ ops' = ops /\ result' = result
      /\ settled' = settled /\ floor' = floor /\ missed' = missed /\ known' = known
      /\ before' = before /\ stale' = stale
  BY <1>4 DEF StartsWriting
<1>10. /\ pc'[c] = "write" /\ op[c] = "Put"
       /\ \A d \in Clients \ {c} : pc'[d] = pc[d] /\ req'[d] = req[d]
  BY <1>1, <1>2, <1>4, OthersKeep
<1> HIDE DEF max, tag, pair
<1>11. OnlyWrittenSpreads'
  BY <1>1, <1>4, WriteSpreads
<1>12. OneTagPerValue'
  <2>1. ASSUME NEW p \in written'
        PROVE  p.value # NoValue /\ p.value[2] <= ops[p.value[1]] /\ p.tag.integer > 0
    <3>1. CASE p \in written
      BY <1>1, <3>1 DEF OneTagPerValue
    <3>2. CASE p = pair
      BY <1>5, <1>8, <3>2 DEF NoValue
    <3> QED  BY <1>9, <3>1, <3>2
  <2>2. \A p, q \in written' : p.value = q.value => p.tag = q.tag
    <3>1. \A p, q \in written : p.value = q.value => p.tag = q.tag
      BY <1>1 DEF OneTagPerValue
    <3>2. pair.value = req[c].value
      BY <1>5, <1>8
    <3> QED  BY <1>5, <1>9, <3>1, <3>2
  <2>3. ASSUME NEW d \in Clients, pc'[d] = "query" /\ op[d] = "Put"
        PROVE  /\ req'[d].value = <<d, ops[d]>> /\ d \notin missed
               /\ \A p \in written' : p.value # req'[d].value
    <3>1. d # c
      BY <1>3, <1>10, <2>3
    <3>2. /\ req[d].value = <<d, ops[d]>> /\ d \notin missed /\ req'[d] = req[d]
          /\ \A p \in written : p.value # req[d].value
      BY <1>1, <1>10, <2>3, <3>1 DEF OneTagPerValue
    <3>3. pair.value # req[d].value
      BY <1>8, <3>1, <3>2
    <3> QED  BY <1>9, <3>2, <3>3
  <2> QED  BY <1>9, <2>1, <2>2, <2>3 DEF OneTagPerValue
<1>13. TagsFollowTime'
  <2>1. ASSUME NEW u, NEW tags, WrittenUnder(u, tags)
        PROVE  \E p \in written' : p.value = u /\ p.tag \in tags
    BY <1>9, <2>1 DEF WrittenUnder
  <2>2. ASSUME NEW x \in before, NEW p \in written', NEW q \in written',
               p.value = x[1], q.value = x[2]
        PROVE  Less(p.tag, q.tag)
    <3>1. x[1] \in known /\ WrittenUnder(x[1], settled)
      BY <1>1 DEF TagsFollowTime
    <3>2. p \in written
      BY <1>5, <1>8, <1>9, <2>2, <3>1 DEF WrittenUnder
    <3>3. CASE q \in written
      BY <1>1, <2>2, <3>2, <3>3 DEF TagsFollowTime
    <3>4. CASE q = pair
      <4>1. WrittenUnder(p.value, floor[c])
        BY <1>1, <1>2, <1>5, <1>8, <2>2, <3>4 DEF TagsFollowTime
      <4>2. p.tag \in floor[c]
        BY <1>1, <3>2, <4>1, TagOfWritten
      <4> QED  BY <1>7, <1>8, <3>4, <4>2
    <3> QED  BY <1>9, <3>3, <3>4
  <2>3. ASSUME NEW x \in before, NEW d \in Clients, pc'[d] = "query", op[d] = "Put",
               x[2] = req'[d].value
        PROVE  WrittenUnder(x[1], floor[d])
    <3>1. d # c
      BY <1>3, <1>10, <2>3
    <3> QED  BY <1>1, <1>10, <2>3, <3>1 DEF TagsFollowTime
  <2> QED  BY <1>1, <1>9, <2>1, <2>2, <2>3 DEF TagsFollowTime, WrittenUnder
<1>14. GetsAvoidStale'
  <2>1. ASSUME NEW d \in Clients, op[d] = "Get"
        PROVE  /\ pc'[d] = "query" => \A u \in stale[d] : \E t \in floor[d] :
                    IF u = NoValue THEN Less(ZeroTag, t)
                    ELSE \E p \in written' : p.value = u /\ Less(p.tag, t)
               /\ pc'[d] = "write" /\ d \notin missed => req'[d].value \notin stale[d]
               /\ pc'[d] = "idle" /\ d \notin missed => result[d] \notin stale[d]
    <3>1. d # c
      BY <1>3, <1>10, <2>1
    <3>2. pc'[d] = pc[d] /\ req'[d] = req[d]
      BY <1>10, <3>1
    <3> QED  BY <1>1, <1>9, <2>1, <3>2 DEF GetsAvoidStale
  <2> QED  BY <1>9, <2>1 DEF GetsAvoidStale
<1> QED  BY <1>11, <1>12, <1>13, <1>14

\* A get that has discarded nothing greater has not found what it must avoid.
LEMMA FoundIsNotStale ==
  ASSUME IInv, HistoryInv, ~ discarded, NEW c \in Clients, pc[c] = "query", op[c] = "Get",
         HasMajority(c), c \notin missed, ~ DiscardsGreater(vec_resp[c])
  PROVE  FindMajorityTag(vec_resp[c]).value \notin stale[c]
<1> DEFINE max == FindMajorityTag(vec_resp[c])
<1> SUFFICES ASSUME max.value \in stale[c] PROVE FALSE
  OBVIOUS
<1>1. /\ OnlyWrittenSpreads /\ OneTagPerValue /\ GetsAvoidStale /\ TypeOK /\ HTypeOK
  BY DEF HistoryInv, IInv
<1>2. PICK t \in floor[c] : IF max.value = NoValue THEN Less(ZeroTag, t)
                            ELSE \E p \in written : p.value = max.value /\ Less(p.tag, t)
  BY <1>1 DEF GetsAvoidStale
<1>3. t \in Tag /\ Leq(t, max.tag)
  BY FoundIsFresh
<1>4. PairOf(max) \in written \cup {Absent}
  BY <1>1, FoundIsWritten
<1>5. PairOf(max).tag = max.tag /\ PairOf(max).value = max.value
  BY DEF PairOf
<1> HIDE DEF max
<1>6. CASE max.value = NoValue
  <2>1. PairOf(max) = Absent
    BY <1>1, <1>4, <1>5, <1>6 DEF OneTagPerValue
  <2>2. max.tag = ZeroTag
    BY <1>5, <2>1 DEF Absent
  <2> QED  BY <1>2, <1>3, <1>6, <2>2 DEF Leq, Less, ZeroTag, Tag
<1>7. CASE max.value # NoValue
  <2>1. PICK p \in written : p.value = max.value /\ Less(p.tag, t)
    BY <1>2, <1>7
  <2>2. PairOf(max) \in written
    BY <1>4, <1>5, <1>7 DEF Absent
  <2>3. p.tag = max.tag
    BY <1>1, <1>5, <2>1, <2>2 DEF OneTagPerValue
  <2>4. p.tag \in Tag
    BY <1>1, WrittenIsOld
  <2> QED  BY <1>3, <2>1, <2>3, <2>4 DEF Leq, Less, Tag
<1> QED  BY <1>6, <1>7

\* A get writes back what was written, and not what it must avoid.
LEMMA WriteBackStep ==
  ASSUME IInv, HistoryInv, NEW c \in Clients, HChoose(c), GetWriteBack(c), ~ discarded'
  PROVE  OnlyWrittenSpreads' /\ OneTagPerValue' /\ TagsFollowTime' /\ GetsAvoidStale'
<1> DEFINE max  == FindMajorityTag(vec_resp[c])
           pair == PairOf(max)
<1>1. /\ OnlyWrittenSpreads /\ OneTagPerValue /\ TagsFollowTime /\ GetsAvoidStale
      /\ HTypeOK /\ TypeOK /\ ~ discarded /\ ~ DiscardsGreater(vec_resp[c])
  BY DEF HChoose, HistoryInv, IInv
<1>2. /\ pc[c] = "query" /\ op[c] = "Get" /\ HasMajority(c) /\ max.value # NoValue
      /\ req' = [req EXCEPT ![c] = pair] /\ pc' = [pc EXCEPT ![c] = "write"]
      /\ replied' = [replied EXCEPT ![c] = {}] /\ vec_resp' = [vec_resp EXCEPT ![c] = <<>>]
      /\ UNCHANGED <<abd_ks_map, late, op, ops, result, settled, floor, missed>>
  BY DEF GetWriteBack, StartWrite, Broadcast, serverVars, history, PairOf
<1>3. "Put" # "Get" /\ "query" # "write" /\ "query" # "idle" /\ "write" # "idle"
  OBVIOUS
<1>4. pair \in written /\ pair.value = max.value
  <2>1. pair \in written \cup {Absent}
    BY <1>1, <1>2, FoundIsWritten
  <2>2. pair.value = max.value
    BY DEF PairOf
  <2> QED  BY <1>2, <2>1, <2>2 DEF Absent
<1>5. StartsWriting(c, pair)
  <2>1. req'[c] = pair
    BY <1>1, <1>2 DEF TypeOK
  <2>2. written' = written \cup {req'[c]} /\ UNCHANGED <<known, before, stale>>
    <3>1. ~ PutWrite(c) /\ ~ GetEmpty(c)
      BY <1>2, <1>3 DEF PutWrite, GetEmpty
    <3> QED  BY <3>1 DEF HChoose
  <2> HIDE DEF pair
  <2> QED  BY <1>2, <2>1, <2>2 DEF StartsWriting
<1>6. c \notin missed => max.value \notin stale[c]
  BY <1>1, <1>2, FoundIsNotStale
<1> HIDE DEF max, pair
<1>7. /\ written' = written /\ op' = op /\ ops' = ops /\ result' = result
      /\ settled' = settled /\ floor' = floor /\ missed' = missed /\ known' = known
      /\ before' = before /\ stale' = stale
  BY <1>4, <1>5 DEF StartsWriting
<1>8. /\ pc'[c] = "write" /\ req'[c] = pair
      /\ \A d \in Clients \ {c} : pc'[d] = pc[d] /\ req'[d] = req[d]
  BY <1>1, <1>5, OthersKeep
<1>9. OnlyWrittenSpreads'
  BY <1>1, <1>5, WriteSpreads
<1>10. ASSUME NEW d \in Clients, pc'[d] = "query" PROVE pc[d] = "query" /\ req'[d] = req[d]
  BY <1>3, <1>8, <1>10
<1>11. OneTagPerValue'
  BY <1>1, <1>7, <1>10 DEF OneTagPerValue
<1>12. TagsFollowTime'
  BY <1>1, <1>7, <1>10 DEF TagsFollowTime, WrittenUnder
<1>13. GetsAvoidStale'
  <2>1. ASSUME NEW d \in Clients, op[d] = "Get"
        PROVE  /\ pc'[d] = "query" => \A u \in stale[d] : \E t \in floor[d] :
                    IF u = NoValue THEN Less(ZeroTag, t)
                    ELSE \E p \in written : p.value = u /\ Less(p.tag, t)
               /\ pc'[d] = "write" /\ d \notin missed => req'[d].value \notin stale[d]
               /\ pc'[d] = "idle" /\ d \notin missed => result[d] \notin stale[d]
    <3>1. CASE d = c
      BY <1>3, <1>4, <1>6, <1>8, <3>1
    <3>2. CASE d # c
      BY <1>1, <1>8, <2>1, <3>2 DEF GetsAvoidStale
    <3> QED  BY <3>1, <3>2
  <2> QED  BY <1>7, <2>1 DEF GetsAvoidStale
<1> QED  BY <1>9, <1>11, <1>12, <1>13

\* The end of an operation: what a client and the history change by that.
Returns(c) ==
  /\ pc' = [pc EXCEPT ![c] = "idle"]
  /\ replied' = [replied EXCEPT ![c] = {}] /\ vec_resp' = [vec_resp EXCEPT ![c] = <<>>]
  /\ settled \subseteq settled' /\ known \subseteq known'
  /\ UNCHANGED <<abd_ks_map, op, ops, req, floor, missed, before, stale, written>>

\* An operation ends well when what it leaves behind was written, when what has
\* become known has settled, and when a get does not return what it must avoid.
LEMMA EndStep ==
  ASSUME TypeOK, OnlyWrittenSpreads, OneTagPerValue, TagsFollowTime, GetsAvoidStale,
         NEW c \in Clients, Returns(c),
         \A w \in late' : PairOf(w) \in written,
         \A u \in known' : WrittenUnder(u, settled'),
         op[c] = "Get" /\ c \notin missed => result'[c] \notin stale[c],
         \A d \in Clients \ {c} : result'[d] = result[d]
  PROVE  OnlyWrittenSpreads' /\ OneTagPerValue' /\ TagsFollowTime' /\ GetsAvoidStale'
<1>1. /\ op' = op /\ ops' = ops /\ req' = req /\ floor' = floor /\ missed' = missed
      /\ before' = before /\ stale' = stale /\ written' = written /\ abd_ks_map' = abd_ks_map
  BY DEF Returns
<1>2. /\ pc'[c] = "idle"
      /\ \A d \in Clients \ {c} : /\ pc'[d] = pc[d] /\ replied'[d] = replied[d]
                                  /\ vec_resp'[d] = vec_resp[d]
  BY DEF Returns, TypeOK
<1>3. "idle" # "query" /\ "idle" # "write"
  OBVIOUS
<1>4. OnlyWrittenSpreads'
  <2>1. ASSUME NEW d \in Clients
        PROVE  /\ pc'[d] = "write" => req[d] \in written
               /\ pc'[d] = "query" /\ op[d] = "Get" =>
                    /\ result'[d] = NoValue
                    /\ \A r \in replied'[d] : PairOf(r) \in written \cup {Absent}
                    /\ \A i \in DOMAIN vec_resp'[d] :
                         PairOf(vec_resp'[d][i]) \in written \cup {Absent}
    <3>1. CASE d = c
      BY <1>2, <1>3, <3>1
    <3>2. CASE d # c
      BY <1>2, <3>2 DEF OnlyWrittenSpreads
    <3> QED  BY <3>1, <3>2
  <2>2. \A s \in Server : abd_ks_map[s] \in written \cup {Absent}
    BY DEF OnlyWrittenSpreads
  <2> QED  BY <1>1, <2>1, <2>2 DEF OnlyWrittenSpreads, PairOf
<1>5. ASSUME NEW d \in Clients, pc'[d] = "query" PROVE pc[d] = "query"
  BY <1>2, <1>3, <1>5
<1>6. OneTagPerValue'
  BY <1>1, <1>5 DEF OneTagPerValue
<1>7. TagsFollowTime'
  <2>1. \A x \in before : x[1] \in known'
    BY DEF TagsFollowTime, Returns
  <2> QED  BY <1>1, <1>5, <2>1 DEF TagsFollowTime, WrittenUnder
<1>8. GetsAvoidStale'
  <2>1. ASSUME NEW d \in Clients, op[d] = "Get"
        PROVE  /\ pc'[d] = "query" => \A u \in stale[d] : \E t \in floor[d] :
                    IF u = NoValue THEN Less(ZeroTag, t)
                    ELSE \E p \in written : p.value = u /\ Less(p.tag, t)
               /\ pc'[d] = "write" /\ d \notin missed => req[d].value \notin stale[d]
               /\ pc'[d] = "idle" /\ d \notin missed => result'[d] \notin stale[d]
    <3>1. CASE d = c
      BY <1>2, <1>3, <2>1, <3>1
    <3>2. CASE d # c
      BY <1>2, <2>1, <3>2 DEF GetsAvoidStale
    <3> QED  BY <3>1, <3>2
  <2> QED  BY <1>1, <2>1 DEF GetsAvoidStale
<1> QED  BY <1>4, <1>6, <1>7, <1>8

\* A get that found nothing did not have to find anything.
LEMMA GetEmptyStep ==
  ASSUME IInv, HistoryInv, NEW c \in Clients, HChoose(c), GetEmpty(c), ~ discarded'
  PROVE  OnlyWrittenSpreads' /\ OneTagPerValue' /\ TagsFollowTime' /\ GetsAvoidStale'
<1>1. /\ OnlyWrittenSpreads /\ OneTagPerValue /\ TagsFollowTime /\ GetsAvoidStale
      /\ TypeOK /\ ~ discarded /\ ~ DiscardsGreater(vec_resp[c])
  BY DEF HChoose, HistoryInv, IInv
<1>2. /\ pc[c] = "query" /\ op[c] = "Get" /\ HasMajority(c)
      /\ FindMajorityTag(vec_resp[c]).value = NoValue
      /\ UNCHANGED <<late, result>> /\ settled' = settled
  BY DEF GetEmpty, history
<1>3. Returns(c) /\ known' = known
  <2>1. written' = written /\ UNCHANGED <<known, before, stale>>
    <3>1. "Get" # "Put"
      OBVIOUS
    <3>2. ~ PutWrite(c) /\ ~ GetWriteBack(c)
      BY <1>2, <3>1 DEF PutWrite, GetWriteBack
    <3> QED  BY <3>2 DEF HChoose
  <2> QED  BY <2>1 DEF GetEmpty, EndOperation, Returns, serverVars, history
<1>4. result[c] = NoValue
  BY <1>1, <1>2 DEF OnlyWrittenSpreads
<1>5. c \notin missed => result'[c] \notin stale[c]
  BY <1>1, <1>2, <1>4, FoundIsNotStale
<1>6. \A w \in late' : PairOf(w) \in written
  BY <1>1, <1>2 DEF OnlyWrittenSpreads
<1>7. \A u \in known' : WrittenUnder(u, settled')
  BY <1>1, <1>2, <1>3 DEF TagsFollowTime
<1> QED  BY <1>1, <1>2, <1>3, <1>5, <1>6, <1>7, EndStep

\* put and get return: their value was written under the tag that has settled.
LEMMA ReturnStep ==
  ASSUME TypeOK, HistoryInv, NEW c \in Clients, HReturn(c), ~ discarded'
  PROVE  OnlyWrittenSpreads' /\ OneTagPerValue' /\ TagsFollowTime' /\ GetsAvoidStale'
<1>1. /\ OnlyWrittenSpreads /\ OneTagPerValue /\ TagsFollowTime /\ GetsAvoidStale
      /\ ~ discarded /\ known' = known \cup {req[c].value}
      /\ UNCHANGED <<before, stale, written>>
  BY DEF HReturn, HistoryInv
<1>2. /\ pc[c] = "write" /\ EndOperation(c)
      /\ late' = late \cup
           {[server |-> s, tag |-> req[c].tag, value |-> req[c].value] : s \in asked[c]}
      /\ settled' = settled \cup {req[c].tag}
      /\ UNCHANGED <<req, floor, missed>>
  BY DEF HReturn, PutReturn, GetReturn, EndWrite
<1>3. req[c] \in written /\ PairOf(req[c]) = req[c]
  BY <1>1, <1>2, PairOfPair DEF OnlyWrittenSpreads, TypeOK
<1>4. Returns(c)
  BY <1>1, <1>2 DEF Returns, EndOperation, serverVars
<1>5. \A w \in late' : PairOf(w) \in written
  <2>1. \A s \in asked[c] :
          PairOf([server |-> s, tag |-> req[c].tag, value |-> req[c].value]) = PairOf(req[c])
    BY DEF PairOf
  <2> QED  BY <1>1, <1>2, <1>3, <2>1 DEF OnlyWrittenSpreads
<1>6. \A u \in known' : WrittenUnder(u, settled')
  BY <1>1, <1>2, <1>3 DEF TagsFollowTime, WrittenUnder
<1>7. /\ op[c] = "Get" /\ c \notin missed => result'[c] \notin stale[c]
      /\ \A d \in Clients \ {c} : result'[d] = result[d]
  <2>1. "Get" # "Put"
    OBVIOUS
  <2>2. op[c] = "Get" => result' = [result EXCEPT ![c] = req[c].value]
    BY <2>1 DEF HReturn, PutReturn, GetReturn
  <2>3. op[c] # "Get" => result' = result
    BY DEF HReturn, PutReturn, GetReturn
  <2>4. result \in [Clients -> Value]
    BY DEF TypeOK
  <2>5. op[c] = "Get" /\ c \notin missed => req[c].value \notin stale[c]
    BY <1>1, <1>2 DEF GetsAvoidStale
  <2> QED  BY <2>2, <2>3, <2>4, <2>5
<1> QED  BY <1>1, <1>4, <1>5, <1>6, <1>7, EndStep

-----------------------------------------------------------------------------
(* The theorem.                                                             *)

\* The history takes the steps of ABD.
LEMMA HistorySteps == (HInit => Init) /\ ([HNext]_hvars => [Next]_vars)
<1>1. HInit => Init
  BY DEF HInit
<1>2. ASSUME HNext PROVE Next
  BY <1>2 DEF HNext, HOther, HStartPut, HStartGet, HChoose, HReturn, Next, ClientStep
<1>3. UNCHANGED hvars => UNCHANGED vars
  BY DEF hvars
<1> QED  BY <1>1, <1>2, <1>3

\* The history keeps its types.
LEMMA HistoryTypeStep ==
  ASSUME TypeOK, TypeOK', HTypeOK, HNext
  PROVE  HTypeOK'
<1>1. \A c \in Clients : req[c].value \in Value /\ req'[c].value \in Value /\ req'[c] \in Pair
  BY DEF TypeOK, Pair
<1>2. Overwritten \subseteq Value
  BY DEF Overwritten, HTypeOK, Value
<1>3. CASE HOther
  BY <1>3 DEF HOther, HTypeOK
<1>4. ASSUME NEW c \in Clients, HStartPut(c) PROVE HTypeOK'
  BY <1>1, <1>4 DEF HStartPut, HTypeOK
<1>5. ASSUME NEW c \in Clients, HStartGet(c) PROVE HTypeOK'
  BY <1>2, <1>5 DEF HStartGet, HTypeOK
<1>6. ASSUME NEW c \in Clients, HChoose(c) PROVE HTypeOK'
  <2>1. written' \subseteq Pair
    BY <1>1, <1>6 DEF HChoose, HTypeOK
  <2>2. discarded' \in BOOLEAN /\ UNCHANGED <<known, before, stale>>
    BY <1>6 DEF HChoose, HTypeOK, DiscardsGreater
  <2> QED  BY <2>1, <2>2 DEF HTypeOK
<1>7. ASSUME NEW c \in Clients, HReturn(c) PROVE HTypeOK'
  BY <1>1, <1>7 DEF HReturn, HTypeOK
<1> QED  BY <1>3, <1>4, <1>5, <1>6, <1>7 DEF HNext

LEMMA HistoryInit == HInit => HistoryInv
<1> SUFFICES ASSUME HInit PROVE HistoryInv
  OBVIOUS
<1>1. HTypeOK
  BY DEF HInit, HTypeOK
<1>2. OnlyWrittenSpreads
  <2>1. "idle" # "query" /\ "idle" # "write"
    OBVIOUS
  <2> QED  BY <2>1 DEF HInit, Init, OnlyWrittenSpreads
<1>3. OneTagPerValue
  <2>1. "idle" # "query"
    OBVIOUS
  <2> QED  BY <2>1 DEF HInit, Init, OneTagPerValue
<1>4. TagsFollowTime
  BY DEF HInit, TagsFollowTime
<1>5. GetsAvoidStale
  BY DEF HInit, Init, GetsAvoidStale
<1> QED  BY <1>1, <1>2, <1>3, <1>4, <1>5 DEF HistoryInv

LEMMA HistoryStep ==
  ASSUME IInv, IInv', HistoryInv, [HNext]_hvars
  PROVE  HistoryInv'
<1>1. CASE HNext
  <2>1. TypeOK /\ TypeOK' /\ HTypeOK
    BY DEF IInv, HistoryInv
  <2>2. HTypeOK'
    BY <1>1, <2>1, HistoryTypeStep
  <2>3. ASSUME ~ discarded'
        PROVE  OnlyWrittenSpreads' /\ OneTagPerValue' /\ TagsFollowTime' /\ GetsAvoidStale'
    <3>1. CASE HOther
      BY <2>1, <2>3, <3>1, OtherStep
    <3>2. ASSUME NEW c \in Clients, HStartPut(c) \/ HStartGet(c) \/ HReturn(c)
          PROVE  OnlyWrittenSpreads' /\ OneTagPerValue' /\ TagsFollowTime' /\ GetsAvoidStale'
      BY <2>1, <2>3, <3>2, StartPutStep, StartGetStep, ReturnStep
    <3>3. ASSUME NEW c \in Clients, HChoose(c)
          PROVE  OnlyWrittenSpreads' /\ OneTagPerValue' /\ TagsFollowTime' /\ GetsAvoidStale'
      <4>1. PutWrite(c) \/ GetWriteBack(c) \/ GetEmpty(c)
        BY <3>3 DEF HChoose
      <4> QED  BY <2>3, <3>3, <4>1, PutWriteStep, WriteBackStep, GetEmptyStep
    <3> QED  BY <1>1, <3>1, <3>2, <3>3 DEF HNext
  <2> QED  BY <2>2, <2>3 DEF HistoryInv
<1>2. CASE UNCHANGED hvars
  BY <1>2 DEF hvars, vars, serverVars, clientVars, history, HistoryInv, HTypeOK,
     OnlyWrittenSpreads, OneTagPerValue, TagsFollowTime, GetsAvoidStale, WrittenUnder, PairOf
<1> QED  BY <1>1, <1>2

\* The invariant about tags and the order of calls and returns always holds.
THEOREM HistoryCorrect == HSpec => [](IInv /\ HistoryInv)
<1>1. HInit => IInv /\ HistoryInv
  BY HistorySteps, IInvInit, HistoryInit
<1>2. IInv /\ HistoryInv /\ [HNext]_hvars => (IInv /\ HistoryInv)'
  BY HistorySteps, IInvStep, HistoryStep
<1> QED  BY <1>1, <1>2, PTL DEF HSpec

\* For any number of servers and clients, any number of operations, stops and
\* racing insertions: a get returns nothing that was overwritten before it
\* began, unless find_majority_tag has thrown away a greater integer (268-281) or
\* the find of a READ_QUERY it made has missed the key.
THEOREM ReadsAreFresh == HSpec => []OnlyDiscardsMakeReadsStale
<1>1. IInv /\ HistoryInv => OnlyDiscardsMakeReadsStale
  BY DEF HistoryInv, GetsAvoidStale, OnlyDiscardsMakeReadsStale, ReadIsFresh
<1> QED  BY <1>1, HistoryCorrect, PTL
=============================================================================
