-------------------------------- MODULE ABD --------------------------------
(***************************************************************************)
(* The ABD register: the client library (client_lib.cpp, put and get with   *)
(* protocol "ABD") and the request handler of the servers (server.cpp,      *)
(* branch ABD), for one key.                                                *)
(*                                                                         *)
(* Servers are numbered in the order in which the client polls them (the    *)
(* order of the map server_connections::connections).  The value a put      *)
(* writes is identified by the put itself, <<client, number of the put>>.   *)
(* A WRITE that has not been handled when its phase ends stays in flight    *)
(* and may be handled at any later time; a reply to a finished phase goes   *)
(* to a future nobody reads and is dropped.                                 *)
(***************************************************************************)
EXTENDS Tags, FiniteSets

CONSTANTS N,            \* number of servers
          Clients,      \* client ids
          MaxOps,       \* bound: operations each client starts
          Inserters,    \* bound: servers where other keys are inserted
          MaxInserts,   \* bound: insertions of other keys, over these servers
          MaxCrashes    \* bound: servers that stop

ASSUME NAssumption       == N \in Nat \ {0}
ASSUME ClientsAssumption == Clients \subseteq Nat
ASSUME BoundsAssumption  == MaxOps \in [Clients -> Nat] /\ MaxInserts \in Nat /\ MaxCrashes \in Nat

Server   == 1 .. N
Majority == N \div 2 + 1

NoValue  == <<>>                             \* value_sz = 0
Value    == (Clients \X Nat) \cup {NoValue}
Pair     == [tag : Tag, value : Value]

\* Deliberately wrong, for the mutation runs: the sentinel "00000" starts below every tag.
SentinelBelowZero == [tag |-> [integer |-> -1, client_id |-> 0], value |-> NoValue]

\* The pair of a key the server does not have: the sentinel "00000".
Absent == [tag |-> ZeroTag, value |-> NoValue]
Response == [server : Server, tag : Tag, value : Value]
Write    == [server : Server, tag : Tag, value : Value]

VARIABLES
  abd_ks_map,   \* abd_ks_map[s]: the pair server s keeps for the key
  up,           \* servers that run
  inserting,    \* servers with a handler inside an insertion of another key
  inserts,      \* insertions started (bound MaxInserts)
  pc,           \* pc[c]: "idle", "query" or "write", the phase of c's operation
  op,           \* op[c]: "Put" or "Get"
  ops,          \* ops[c]: operations c has started
  req,          \* req[c]: tag and value of c's WRITE (value is the put's own from its start)
  asked,        \* asked[c]: servers that have not handled the request of c's phase
  replied,      \* replied[c]: replies to c's phase that c has not collected
  vec_resp,     \* vec_resp[c]: the replies c has collected, in that order
  late,         \* WRITEs of finished phases still in flight
  result,       \* result[c]: the value the last get of c returned
  settled,      \* history: tags of the writes whose phase has finished
  floor,        \* history: settled when c's query phase began
  missed        \* history: clients whose query was answered by a racing find

serverVars == <<abd_ks_map, up, inserting, inserts>>
clientVars == <<pc, op, ops, req, asked, replied, vec_resp, late, result>>
history    == <<settled, floor, missed>>
vars       == <<serverVars, clientVars, history>>

TypeOK ==
  /\ abd_ks_map \in [Server -> Pair]
  /\ up \subseteq Server
  /\ inserting \subseteq Server
  /\ inserts \in 0 .. MaxInserts
  /\ pc \in [Clients -> {"idle", "query", "write"}]
  /\ op \in [Clients -> {"Put", "Get"}]
  /\ ops \in [Clients -> Nat]
  /\ \A c \in Clients : ops[c] <= MaxOps[c]
  /\ req \in [Clients -> Pair]
  /\ asked \in [Clients -> SUBSET Server]
  /\ replied \in [Clients -> SUBSET Response]
  /\ vec_resp \in [Clients -> Seq(Response)]
  /\ late \subseteq Write
  /\ result \in [Clients -> Value]
  /\ settled \subseteq Tag
  /\ floor \in [Clients -> SUBSET Tag]
  /\ missed \subseteq Clients

Init ==
  /\ abd_ks_map = [s \in Server |-> Absent]
  /\ up = Server
  /\ inserting = {}
  /\ inserts = 0
  /\ pc = [c \in Clients |-> "idle"]
  /\ op = [c \in Clients |-> "Get"]
  /\ ops = [c \in Clients |-> 0]
  /\ req = [c \in Clients |-> Absent]
  /\ asked = [c \in Clients |-> {}]
  /\ replied = [c \in Clients |-> {}]
  /\ vec_resp = [c \in Clients |-> <<>>]
  /\ late = {}
  /\ result = [c \in Clients |-> NoValue]
  /\ settled = {}
  /\ floor = [c \in Clients |-> {}]
  /\ missed = {}

-----------------------------------------------------------------------------
(* The servers.                                                             *)

\* The server answers the request of client c's phase.
Reply(c, s, tag, value) ==
  /\ asked' = [asked EXCEPT ![c] = @ \ {s}]
  /\ replied' = [replied EXCEPT ![c] = @ \cup {[server |-> s, tag |-> tag, value |-> value]}]

\* A handler that takes abd_ks_map_mutex waits for an insertion to end.
CanLock(s) == s \in up /\ s \notin inserting

\* Deliberately wrong, for the mutation runs: equal integers are not told apart by client id.
AfterWriteAnyClient(pair, w) ==
  IF pair.tag.integer <= w.tag.integer THEN [tag |-> w.tag, value |-> w.value] ELSE pair

\* The pair the server keeps after a WRITE.
AfterWrite(pair, w) ==
  IF pair = Absent \/ Less(pair.tag, w.tag)
  THEN [tag |-> w.tag, value |-> w.value]
  ELSE pair

HandleReadQuery(c, s) ==
  /\ pc[c] = "query" /\ op[c] = "Get" /\ s \in asked[c]
  /\ CanLock(s)
  /\ Reply(c, s, abd_ks_map[s].tag, abd_ks_map[s].value)
  /\ UNCHANGED <<serverVars, pc, op, ops, req, vec_resp, late, result, history>>

\* The find of READ_QUERY takes no lock: while another handler inserts a key
\* into the tree it may miss a key that is there.
HandleReadQueryMiss(c, s) ==
  /\ pc[c] = "query" /\ op[c] = "Get" /\ s \in asked[c]
  /\ s \in up \cap inserting
  /\ Reply(c, s, ZeroTag, NoValue)
  /\ missed' = missed \cup {c}
  /\ UNCHANGED <<serverVars, pc, op, ops, req, vec_resp, late, result, settled, floor>>

HandleWriteQuery(c, s) ==
  /\ pc[c] = "query" /\ op[c] = "Put" /\ s \in asked[c]
  /\ CanLock(s)
  /\ Reply(c, s, abd_ks_map[s].tag, NoValue)
  /\ UNCHANGED <<serverVars, pc, op, ops, req, vec_resp, late, result, history>>

HandleWrite(c, s) ==
  /\ pc[c] = "write" /\ s \in asked[c]
  /\ CanLock(s)
  /\ abd_ks_map' = [abd_ks_map EXCEPT ![s] = AfterWrite(@, req[c])]
  /\ Reply(c, s, ZeroTag, NoValue)
  /\ UNCHANGED <<up, inserting, inserts, pc, op, ops, req, vec_resp, late, result, history>>

HandleLateWrite(w) ==
  /\ CanLock(w.server)
  /\ abd_ks_map' = [abd_ks_map EXCEPT ![w.server] = AfterWrite(@, w)]
  /\ late' = late \ {w}
  /\ UNCHANGED <<up, inserting, inserts, pc, op, ops, req, asked, replied, vec_resp, result,
                 history>>

\* A WRITE of another key holds the mutex while it inserts the key.
BeginInsert(s) ==
  /\ s \in Inserters /\ CanLock(s) /\ inserts < MaxInserts
  /\ inserting' = inserting \cup {s}
  /\ inserts' = inserts + 1
  /\ UNCHANGED <<abd_ks_map, up, clientVars, history>>

EndInsert(s) ==
  /\ s \in up \cap inserting
  /\ inserting' = inserting \ {s}
  /\ UNCHANGED <<abd_ks_map, up, inserts, clientVars, history>>

\* A server stops for good; its memory is all the state it had.
Crash(s) ==
  /\ s \in up /\ Cardinality(Server \ up) < MaxCrashes
  /\ up' = up \ {s}
  /\ UNCHANGED <<abd_ks_map, inserting, inserts, clientVars, history>>

-----------------------------------------------------------------------------
(* The client library.                                                      *)

\* Deliberately wrong, for the mutation runs: the replies of the first phase count in the second.
BroadcastKeepingReplies(c) ==
  /\ asked' = [asked EXCEPT ![c] = Server]
  /\ replied' = [replied EXCEPT ![c] = {}]
  /\ vec_resp' = vec_resp

\* send_message_to_all_server: one request to every server.
Broadcast(c) ==
  /\ asked' = [asked EXCEPT ![c] = Server]
  /\ replied' = [replied EXCEPT ![c] = {}]
  /\ vec_resp' = [vec_resp EXCEPT ![c] = <<>>]

StartQuery(c, kind) ==
  /\ pc[c] = "idle" /\ ops[c] < MaxOps[c]
  /\ pc' = [pc EXCEPT ![c] = "query"]
  /\ op' = [op EXCEPT ![c] = kind]
  /\ ops' = [ops EXCEPT ![c] = @ + 1]
  /\ Broadcast(c)
  /\ floor' = [floor EXCEPT ![c] = settled]
  /\ missed' = missed \ {c}
  /\ UNCHANGED <<serverVars, late, settled>>

StartPut(c) ==
  /\ StartQuery(c, "Put")
  /\ req' = [req EXCEPT ![c] = [tag |-> ZeroTag, value |-> <<c, ops[c] + 1>>]]
  /\ UNCHANGED result

StartGet(c) ==
  /\ StartQuery(c, "Get")
  /\ req' = [req EXCEPT ![c] = Absent]
  /\ result' = [result EXCEPT ![c] = NoValue]

\* Deliberately wrong, for the mutation runs: the future stays valid after its reply was taken.
CollectAgain(c, r) ==
  /\ pc[c] # "idle" /\ r \in replied[c]
  /\ Len(vec_resp[c]) < N
  /\ vec_resp' = [vec_resp EXCEPT ![c] = Append(@, r)]
  /\ UNCHANGED <<serverVars, pc, op, ops, req, asked, replied, late, result, history>>

\* The polling loop takes one reply.  A sweep visits the servers in order and
\* the count is tested when it ends: with a majority collected only servers
\* further on in the same sweep can still be added.
Collect(c, r) ==
  /\ pc[c] # "idle" /\ r \in replied[c]
  /\ Len(vec_resp[c]) >= Majority => r.server > vec_resp[c][Len(vec_resp[c])].server
  /\ vec_resp' = [vec_resp EXCEPT ![c] = Append(@, r)]
  /\ replied' = [replied EXCEPT ![c] = @ \ {r}]
  /\ UNCHANGED <<serverVars, pc, op, ops, req, asked, late, result, history>>

\* Deliberately wrong, for the mutation runs: one reply short of a majority is enough.
HasHalf(c) == Len(vec_resp[c]) >= Majority - 1

\* Deliberately wrong, for the mutation runs: the loop waits for every server.
HasAll(c) == Len(vec_resp[c]) >= N

HasMajority(c) == Len(vec_resp[c]) >= Majority

\* The second phase: WRITE(tag, value) to every server.
StartWrite(c, tag, value) ==
  /\ pc' = [pc EXCEPT ![c] = "write"]
  /\ req' = [req EXCEPT ![c] = [tag |-> tag, value |-> value]]
  /\ Broadcast(c)
  /\ UNCHANGED <<serverVars, op, ops, late, result, history>>

\* Deliberately wrong, for the mutation runs: put reuses the integer it found.
PutWriteSameInteger(c) ==
  LET max_resp == FindMajorityTag(vec_resp[c])
  IN  /\ pc[c] = "query" /\ op[c] = "Put" /\ HasMajority(c)
      /\ StartWrite(c, [integer |-> max_resp.tag.integer, client_id |-> c], req[c].value)

PutWrite(c) ==
  LET max_resp == FindMajorityTag(vec_resp[c])
  IN  /\ pc[c] = "query" /\ op[c] = "Put" /\ HasMajority(c)
      /\ StartWrite(c, [integer |-> max_resp.tag.integer + 1, client_id |-> c], req[c].value)

\* Deliberately wrong, for the mutation runs: get writes back under its own client id.
GetWriteBackAsWriter(c) ==
  LET max_resp == FindMajorityTag(vec_resp[c])
  IN  /\ pc[c] = "query" /\ op[c] = "Get" /\ HasMajority(c)
      /\ max_resp.value # NoValue
      /\ StartWrite(c, [integer |-> max_resp.tag.integer, client_id |-> c], max_resp.value)

GetWriteBack(c) ==
  LET max_resp == FindMajorityTag(vec_resp[c])
  IN  /\ pc[c] = "query" /\ op[c] = "Get" /\ HasMajority(c)
      /\ max_resp.value # NoValue
      /\ StartWrite(c, max_resp.tag, max_resp.value)

\* The phase is over: its requests are forgotten, its replies dropped.
EndOperation(c) ==
  /\ pc' = [pc EXCEPT ![c] = "idle"]
  /\ asked' = [asked EXCEPT ![c] = {}]
  /\ replied' = [replied EXCEPT ![c] = {}]
  /\ vec_resp' = [vec_resp EXCEPT ![c] = <<>>]
  /\ UNCHANGED <<serverVars, op, ops>>

GetEmpty(c) ==
  /\ pc[c] = "query" /\ op[c] = "Get" /\ HasMajority(c)
  /\ FindMajorityTag(vec_resp[c]).value = NoValue
  /\ EndOperation(c)
  /\ UNCHANGED <<req, late, result, history>>

\* put and get return after a majority acknowledged the WRITE; the WRITEs not
\* yet handled stay in flight.
EndWrite(c) ==
  /\ pc[c] = "write" /\ HasMajority(c)
  /\ late' = late \cup
       {[server |-> s, tag |-> req[c].tag, value |-> req[c].value] : s \in asked[c]}
  /\ settled' = settled \cup {req[c].tag}
  /\ EndOperation(c)
  /\ UNCHANGED <<req, floor, missed>>

PutReturn(c) == op[c] = "Put" /\ EndWrite(c) /\ UNCHANGED result

GetReturn(c) ==
  /\ op[c] = "Get" /\ EndWrite(c)
  /\ result' = [result EXCEPT ![c] = req[c].value]

-----------------------------------------------------------------------------

ServerStep ==
  \E s \in Server :
    \/ \E c \in Clients : \/ HandleReadQuery(c, s) \/ HandleReadQueryMiss(c, s)
                          \/ HandleWriteQuery(c, s) \/ HandleWrite(c, s)
    \/ BeginInsert(s) \/ EndInsert(s) \/ Crash(s)

ClientStep ==
  \E c \in Clients :
    \/ StartPut(c) \/ StartGet(c)
    \/ \E r \in replied[c] : Collect(c, r)
    \/ PutWrite(c) \/ GetWriteBack(c) \/ GetEmpty(c)
    \/ PutReturn(c) \/ GetReturn(c)

LateStep == \E w \in late : HandleLateWrite(w)

Next == ServerStep \/ ClientStep \/ LateStep

Spec == Init /\ [][Next]_vars

\* What happens by itself: the polling loop runs; a server that is up handles
\* every request it was sent, its replies arrive, and it finishes its insertions.
Progress ==
  \/ \E c \in Clients :
       \/ \E r \in replied[c] : r.server \in up /\ Collect(c, r)
       \/ PutWrite(c) \/ GetWriteBack(c) \/ GetEmpty(c) \/ PutReturn(c) \/ GetReturn(c)
       \/ \E s \in Server : HandleReadQuery(c, s) \/ HandleWriteQuery(c, s) \/ HandleWrite(c, s)
  \/ \E s \in Server : EndInsert(s)

\* As long as something of this can happen, something does.  Nothing is assumed
\* of a server that stopped (its last replies may be lost) or of the WRITEs of
\* finished phases, and no client has to start an operation.
Fairness == WF_vars(Progress)

FairSpec == Spec /\ Fairness

-----------------------------------------------------------------------------
(* Properties.                                                              *)

Holders(tag) == {s \in Server : Leq(tag, abd_ks_map[s].tag)}

\* Durability of a finished operation: when put or get has returned, the tag
\* it wrote, or a greater one, is kept by a majority of the servers, however
\* the WRITEs that arrived in the meantime and those still in flight are
\* ordered (WRITE handler, 297-359; majority wait, 233-249).
SettledTagsHeld == \A t \in settled : Cardinality(Holders(t)) >= Majority

\* Quorum intersection: when a query phase has its majority, one of the collected
\* replies is as recent as every operation that had returned before the phase
\* began, unless an unlocked find missed the key (READ_QUERY, 248).  What
\* find_majority_tag then makes of the replies is another matter.
FreshResponseCollected ==
  \A c \in Clients :
    pc[c] = "query" /\ HasMajority(c) /\ c \notin missed =>
      \A t \in floor[c] : \E i \in DOMAIN vec_resp[c] : Leq(t, vec_resp[c][i].tag)

\* The client id in a tag names the client whose put made the value, also for
\* values that reached the server by the write-back of another client's get
\* (client_lib.cpp, 517-518) or by a late WRITE.
Owned(pair) == pair.value # NoValue => pair.tag.client_id = pair.value[1]

WriterOwnsTag ==
  /\ \A s \in Server : Owned(abd_ks_map[s])
  /\ \A w \in late : Owned(w)

\* A server never goes back to a smaller tag, whatever the order in which the
\* WRITEs of concurrent and of finished operations reach it.
TagsNeverRegress ==
  [][\A s \in Server : Leq(abd_ks_map[s].tag, abd_ks_map'[s].tag)]_vars

\* Every put and get returns although a minority of the servers stops.
OperationsReturn == \A c \in Clients : pc[c] # "idle" ~> pc[c] = "idle"

-----------------------------------------------------------------------------
(* The inductive invariant behind SettledTagsHeld and                       *)
(* FreshResponseCollected.                                                  *)

Collected(c) == {vec_resp[c][i].server : i \in DOMAIN vec_resp[c]}

\* Each server contributes one reply to a phase: it is still to be asked, or
\* its reply is on the way, or the reply has been collected.
OneReplyPerServer ==
  \A c \in Clients :
    /\ Cardinality(Collected(c)) = Len(vec_resp[c])
    /\ Collected(c) \cap asked[c] = {}
    /\ \A r \in replied[c] : r.server \notin asked[c] \cup Collected(c)
    /\ \A r1, r2 \in replied[c] : r1.server = r2.server => r1 = r2

\* A server that has answered a WRITE keeps its tag or a greater one.
AnsweredWritesHeld ==
  \A c \in Clients : pc[c] = "write" =>
    \A s \in Server \ asked[c] : Leq(req[c].tag, abd_ks_map[s].tag)

\* Every operation that had returned before a query began is covered by a
\* majority, each of which keeps its tag or a greater one and has answered, or
\* will answer, the query with such a tag.
CoveredBy(c, t, Q) ==
  /\ Cardinality(Q) >= Majority
  /\ \A s \in Q : Leq(t, abd_ks_map[s].tag)
  /\ c \notin missed =>
       /\ \A r \in replied[c] : r.server \in Q => Leq(t, r.tag)
       /\ \A i \in DOMAIN vec_resp[c] : vec_resp[c][i].server \in Q => Leq(t, vec_resp[c][i].tag)

FloorCovered ==
  \A c \in Clients : pc[c] = "query" =>
    \A t \in floor[c] : \E Q \in SUBSET Server : CoveredBy(c, t, Q)

IInv ==
  /\ TypeOK
  /\ OneReplyPerServer
  /\ AnsweredWritesHeld
  /\ SettledTagsHeld
  /\ FloorCovered

\* The inductive invariant behind WriterOwnsTag: whatever is on the way from a
\* put to a server, through other clients' gets and late WRITEs, has its owner.
OwnersInv ==
  /\ WriterOwnsTag
  /\ \A c \in Clients :
       /\ pc[c] = "write" => Owned(req[c])
       /\ pc[c] = "query" /\ op[c] = "Put" => req[c].value[1] = c
       /\ \A r \in replied[c] : Owned(r)
       /\ \A i \in DOMAIN vec_resp[c] : Owned(vec_resp[c][i])
=============================================================================
