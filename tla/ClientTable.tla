----------------------------- MODULE ClientTable -----------------------------
(***************************************************************************)
(* The client library's table of clients (client_lib.cpp 6-47, 319-631):    *)
(* client_instance and client_delete change client_list under               *)
(* client_list_mutex, put and get look their client up in it without the    *)
(* mutex, and the calls of an operation use the connections found there,    *)
(* some of them after the operation has returned.                           *)
(*                                                                         *)
(* Everything client_instance allocates for one client (the Client given to *)
(* the program, its wrapper, its connections) has one name here, its        *)
(* handle.  The program that calls the library is free but correct: it uses *)
(* a client only between its client_instance and its client_delete, and     *)
(* deletes it only when none of its operations is running.  Nothing forbids *)
(* it to give two clients one id.                                           *)
(***************************************************************************)
EXTENDS Integers, FiniteSets

CONSTANTS Threads,      \* threads of the program
          Ids,          \* client ids
          Protocols,    \* protocols of the clients; MP behaves like CM here
          N,            \* servers given to client_instance
          Nobody,       \* the holder of a free mutex
          MaxClients,   \* bound: calls of client_instance
          MaxLate       \* bound: calls left over from one client's finished operations

ASSUME ThreadsAssumption == Nobody \notin Threads
ASSUME IdsAssumption     == Ids \subseteq Nat /\ Protocols \subseteq {"ABD", "CM", "MP"}
ASSUME NAssumption       == N \in Nat \ {0}
ASSUME BoundsAssumption  == MaxClients \in Nat /\ MaxLate \in Nat

Handle   == 1 .. MaxClients
NoHandle == 0
NoId     == -1
Majority == N \div 2 + 1

VARIABLES
  created,            \* clients built so far: handles 1 .. created
  id, protocol,       \* the fields of each client
  owned,              \* clients the program may use
  freed,              \* clients whose memory was given back
  client_list,        \* client_list[i]: the client under id i
  client_list_mutex,  \* the thread that locked it
  pc,                 \* pc[t]: where thread t is in the library
  c,                  \* c[t]: the client its call is about
  conn,               \* conn[t]: the client whose connections its operation uses
  phase,              \* phase[t]: requests its operation has sent to the servers
  todo,               \* todo[t]: calls of this phase that have not begun
  late,               \* late[h]: calls of ended phases that have yet to use h's connections
  crashed,            \* the process was killed by a null pointer
  misuse              \* history: what went wrong under the table

table  == <<client_list, client_list_mutex>>
fields == <<created, id, protocol>>
vars   == <<fields, owned, freed, table, pc, c, conn, phase, todo, late, crashed, misuse>>

TypeOK ==
  /\ created \in 0 .. MaxClients
  /\ id \in [Handle -> Ids \cup {NoId}]
  /\ protocol \in [Handle -> Protocols \cup {"none"}]
  /\ owned \subseteq Handle /\ freed \subseteq Handle
  /\ client_list \in [Ids -> Handle \cup {NoHandle}]
  /\ client_list_mutex \in Threads \cup {Nobody}
  /\ pc \in [Threads -> {"idle", "insert", "inserting", "lookup", "calls", "delete", "erasing"}]
  /\ c \in [Threads -> Handle \cup {NoHandle}]
  /\ conn \in [Threads -> Handle \cup {NoHandle}]
  /\ phase \in [Threads -> 0 .. 2]
  /\ todo \in [Threads -> 0 .. N]
  /\ late \in [Handle -> 0 .. MaxLate]
  /\ crashed \in BOOLEAN
  /\ misuse \subseteq {"shared", "raced", "early"}

Init ==
  /\ created = 0
  /\ id = [h \in Handle |-> NoId] /\ protocol = [h \in Handle |-> "none"]
  /\ owned = {} /\ freed = {}
  /\ client_list = [i \in Ids |-> NoHandle] /\ client_list_mutex = Nobody
  /\ pc = [t \in Threads |-> "idle"]
  /\ c = [t \in Threads |-> NoHandle] /\ conn = [t \in Threads |-> NoHandle]
  /\ phase = [t \in Threads |-> 0] /\ todo = [t \in Threads |-> 0]
  /\ late = [h \in Handle |-> 0]
  /\ crashed = FALSE /\ misuse = {}

Goto(t, where) == pc' = [pc EXCEPT ![t] = where]

\* The call returns; its local variables are gone.
Return(t) ==
  /\ Goto(t, "idle")
  /\ c' = [c EXCEPT ![t] = NoHandle]

\* Clients that have, or are about to have or to lose, an entry of their own.
Registering == {c[t] : t \in {u \in Threads : pc[u] \in {"insert", "inserting"}}}
Deleting    == {c[t] : t \in {u \in Threads : pc[u] \in {"delete", "erasing"}}}
InUse       == owned \cup Registering \cup Deleting

Record(kind, happens) == misuse' = IF happens THEN misuse \cup {kind} ELSE misuse

-----------------------------------------------------------------------------
(* client_instance.                                                         *)

\* The client and its connections are built before the mutex is asked for.
NewClient(t, i, proto) ==
  /\ pc[t] = "idle" /\ created < MaxClients
  /\ created' = created + 1
  /\ id' = [id EXCEPT ![created'] = i]
  /\ protocol' = [protocol EXCEPT ![created'] = proto]
  /\ c' = [c EXCEPT ![t] = created']
  /\ Goto(t, "insert")
  /\ Record("shared", \E h \in InUse : id[h] = i)
  /\ UNCHANGED <<owned, freed, table, conn, phase, todo, late, crashed>>

\* Deliberately wrong, for the mutation runs: client_instance does not wait for the mutex.
LockForInsertAnyway(t) ==
  /\ pc[t] = "insert"
  /\ client_list_mutex' = t
  /\ Goto(t, "inserting")
  /\ UNCHANGED <<fields, owned, freed, client_list, c, conn, phase, todo, late, crashed, misuse>>

LockForInsert(t) ==
  /\ pc[t] = "insert" /\ client_list_mutex = Nobody
  /\ client_list_mutex' = t
  /\ Goto(t, "inserting")
  /\ UNCHANGED <<fields, owned, freed, client_list, c, conn, phase, todo, late, crashed, misuse>>

\* An entry that was there is replaced.
Insert(t) ==
  /\ pc[t] = "inserting"
  /\ client_list' = [client_list EXCEPT ![id[c[t]]] = c[t]]
  /\ client_list_mutex' = Nobody
  /\ owned' = owned \cup {c[t]}
  /\ Return(t)
  /\ UNCHANGED <<fields, freed, conn, phase, todo, late, crashed, misuse>>

-----------------------------------------------------------------------------
(* put and get.                                                             *)

StartOperation(t, h) ==
  /\ pc[t] = "idle" /\ h \in owned
  /\ c' = [c EXCEPT ![t] = h]
  /\ Goto(t, "lookup")
  /\ UNCHANGED <<fields, owned, freed, table, conn, phase, todo, late, crashed, misuse>>

\* What c->id may hold: anything once the client was freed.
IdRead(h) == IF h \in freed THEN Ids \cup {NoId} ELSE {id[h]}

Holds(i) == i \in Ids /\ client_list[i] # NoHandle

\* Deliberately wrong, for the mutation runs: the first client of the table is taken.
LookupAny(t) ==
  /\ pc[t] = "lookup"
  /\ \E i \in Ids :
       /\ Holds(i)
       /\ conn' = [conn EXCEPT ![t] = client_list[i]]
  /\ phase' = [phase EXCEPT ![t] = @ + 1]
  /\ todo' = [todo EXCEPT ![t] = IF protocol[c[t]] = "ABD" THEN N ELSE 1]
  /\ Goto(t, "calls")
  /\ UNCHANGED <<fields, owned, freed, table, c, late, crashed, misuse>>

\* client_list[c->id], without the mutex, at the start of each phase: the calls
\* are given the connections found.
Lookup(t) ==
  /\ pc[t] = "lookup"
  /\ \E i \in IdRead(c[t]) :
       /\ Holds(i)
       /\ conn' = [conn EXCEPT ![t] = client_list[i]]
  /\ phase' = [phase EXCEPT ![t] = @ + 1]
  /\ todo' = [todo EXCEPT ![t] = IF protocol[c[t]] = "ABD" THEN N ELSE 1]
  /\ Goto(t, "calls")
  /\ UNCHANGED <<fields, owned, freed, table, c, late, crashed, misuse>>

\* A miss: operator[] adds a null entry, which send_message_to_* dereferences.
\* While the mutex holder restructures the tree, an entry can be missed.
LookupMiss(t) ==
  LET racing == \E u \in Threads : pc[u] \in {"inserting", "erasing"}
  IN  /\ pc[t] = "lookup"
      /\ racing \/ \E i \in IdRead(c[t]) : ~ Holds(i)
      /\ crashed' = TRUE
      /\ Record("raced", \A i \in IdRead(c[t]) : Holds(i))
      /\ UNCHANGED <<fields, owned, freed, table, pc, c, conn, phase, todo, late>>

\* Deliberately wrong, for the mutation runs: no server is the one of a CM or MP client.
CallAllOnly(t) ==
  /\ pc[t] = "calls" /\ todo[t] > 0 /\ protocol[c[t]] = "ABD"
  /\ todo' = [todo EXCEPT ![t] = @ - 1]
  /\ UNCHANGED <<fields, owned, freed, table, pc, c, conn, phase, late, crashed, misuse>>

\* One of the calls begins, and ends: from here on grpc keeps the channel alive.
Call(t) ==
  /\ pc[t] = "calls" /\ todo[t] > 0
  /\ todo' = [todo EXCEPT ![t] = @ - 1]
  /\ UNCHANGED <<fields, owned, freed, table, pc, c, conn, phase, late, crashed, misuse>>

\* A call whose operation no longer waits for it begins.
LateCall(h) ==
  /\ late[h] > 0
  /\ late' = [late EXCEPT ![h] = @ - 1]
  /\ UNCHANGED <<fields, owned, freed, table, pc, c, conn, phase, todo, crashed, misuse>>

\* Deliberately wrong, for the mutation runs: the phase is not reset when the operation returns.
EndPhaseKeepingPhase(t) ==
  /\ pc[t] = "calls"
  /\ IF protocol[c[t]] = "ABD" THEN N - todo[t] >= Majority ELSE todo[t] = 0
  /\ late[conn[t]] + todo[t] <= MaxLate
  /\ late' = [late EXCEPT ![conn[t]] = @ + todo[t]]
  /\ todo' = [todo EXCEPT ![t] = 0]
  /\ conn' = [conn EXCEPT ![t] = NoHandle]
  /\ \/ Return(t)
     \/ /\ protocol[c[t]] = "ABD" /\ phase[t] = 1
        /\ Goto(t, "lookup") /\ UNCHANGED c
  /\ UNCHANGED <<fields, owned, freed, table, phase, crashed, misuse>>

\* Enough servers answered: a majority for ABD, the only one for CM and MP.  The
\* operation returns or, with ABD, goes on to its second phase.
EndPhase(t) ==
  /\ pc[t] = "calls"
  /\ IF protocol[c[t]] = "ABD" THEN N - todo[t] >= Majority ELSE todo[t] = 0
  /\ late[conn[t]] + todo[t] <= MaxLate
  /\ late' = [late EXCEPT ![conn[t]] = @ + todo[t]]
  /\ todo' = [todo EXCEPT ![t] = 0]
  /\ conn' = [conn EXCEPT ![t] = NoHandle]
  /\ \/ Return(t) /\ phase' = [phase EXCEPT ![t] = 0]
     \/ /\ protocol[c[t]] = "ABD" /\ phase[t] = 1
        /\ Goto(t, "lookup") /\ UNCHANGED <<c, phase>>
  /\ UNCHANGED <<fields, owned, freed, table, crashed, misuse>>

-----------------------------------------------------------------------------
(* client_delete.                                                           *)

StartDelete(t, h) ==
  /\ pc[t] = "idle" /\ h \in owned
  /\ \A u \in Threads : pc[u] \in {"lookup", "calls"} => c[u] # h
  /\ owned' = owned \ {h}
  /\ c' = [c EXCEPT ![t] = h]
  /\ Goto(t, "delete")
  /\ UNCHANGED <<fields, freed, table, conn, phase, todo, late, crashed, misuse>>

LockForErase(t) ==
  /\ pc[t] = "delete" /\ client_list_mutex = Nobody
  /\ client_list_mutex' = t
  /\ Goto(t, "erasing")
  /\ UNCHANGED <<fields, owned, freed, client_list, c, conn, phase, todo, late, crashed, misuse>>

\* Deliberately wrong, for the mutation runs: the entry stays in the table.
EraseKeepingEntry(t) ==
  /\ pc[t] = "erasing"
  /\ \E i \in IdRead(c[t]) :
       /\ Holds(i)
       /\ freed' = freed \cup {client_list[i]}
       /\ Record("early", late[client_list[i]] > 0)
  /\ client_list_mutex' = Nobody
  /\ Return(t)
  /\ UNCHANGED <<fields, owned, client_list, conn, phase, todo, late, crashed>>

\* The client found under the id is freed, whichever it is.
Erase(t) ==
  /\ pc[t] = "erasing"
  /\ \E i \in IdRead(c[t]) :
       /\ Holds(i)
       /\ freed' = freed \cup {client_list[i]}
       /\ client_list' = [client_list EXCEPT ![i] = NoHandle]
       /\ Record("early", late[client_list[i]] > 0)
  /\ client_list_mutex' = Nobody
  /\ Return(t)
  /\ UNCHANGED <<fields, owned, conn, phase, todo, late, crashed>>

\* Nothing under the id: client_delete returns 0, and does not unlock the mutex.
EraseNothing(t) ==
  /\ pc[t] = "erasing"
  /\ \E i \in IdRead(c[t]) : ~ Holds(i)
  /\ Return(t)
  /\ UNCHANGED <<fields, owned, freed, table, conn, phase, todo, late, crashed, misuse>>

-----------------------------------------------------------------------------

\* What the library does by itself once it was called.
Continue(t) ==
  \/ LockForInsert(t) \/ Insert(t)
  \/ Lookup(t) \/ LookupMiss(t) \/ Call(t) \/ EndPhase(t)
  \/ LockForErase(t) \/ Erase(t) \/ EraseNothing(t)

Begin(t) ==
  \/ \E i \in Ids, proto \in Protocols : NewClient(t, i, proto)
  \/ \E h \in Handle : StartOperation(t, h) \/ StartDelete(t, h)

Next ==
  /\ ~ crashed
  /\ \/ \E t \in Threads : Begin(t) \/ Continue(t)
     \/ \E h \in Handle : LateCall(h)

Spec == Init /\ [][Next]_vars

\* Threads run, and the calls they wait for are answered.
FairSpec == Spec /\ \A t \in Threads : WF_vars(~ crashed /\ Continue(t))

-----------------------------------------------------------------------------
(* Properties.                                                              *)

\* The calls of an operation go through connections of its own client, which
\* are not deleted under it, and no operation finds its entry gone (349-590):
\* only two clients with one id, or a lookup during a change of the table, can
\* break this.  Calls of an operation that has returned are not covered: with
\* "early" in misuse, such a call finds its connection deleted.
OperationsUseOwnConnections ==
  misuse \subseteq {"early"} =>
    /\ ~ crashed
    /\ \A t \in Threads : pc[t] = "calls" => conn[t] = c[t] /\ c[t] \notin freed

\* Outside the critical sections the table holds the clients that exist, each
\* under its id, and none that was freed (42-45, 597-626).
TableHoldsLiveClients ==
  "shared" \notin misuse /\ client_list_mutex = Nobody =>
    /\ {client_list[i] : i \in Ids} \ {NoHandle} = owned \cup Deleting
    /\ \A h \in owned : client_list[id[h]] = h /\ h \notin freed

\* While ids are not shared, the mutex is held exactly by a thread in one of the
\* two critical sections: at most one is in them, and none leaves without
\* unlocking, which client_delete does when it finds nothing (628).
MutexHeldInside ==
  "shared" \notin misuse =>
    \A t \in Threads : pc[t] \in {"inserting", "erasing"} <=> client_list_mutex = t

\* Every call of the library returns, unless ids are shared or a lookup missed.
EveryCallReturns ==
  \A t \in Threads : pc[t] # "idle" ~> (pc[t] = "idle" \/ ~ misuse \subseteq {"early"})

-----------------------------------------------------------------------------
(* The inductive invariant behind the three safety properties.              *)

Registers(t) == pc[t] \in {"insert", "inserting"}
Deletes(t)   == pc[t] \in {"delete", "erasing"}
Operates(t)  == pc[t] \in {"lookup", "calls"}

\* A client belongs to the program or to the one thread that creates or deletes it.
OneOwner ==
  /\ owned \subseteq 1 .. created
  /\ \A t \in Threads : Registers(t) \/ Deletes(t) =>
       /\ c[t] \in 1 .. created /\ c[t] \notin owned
       /\ \A u \in Threads \ {t} : Registers(u) \/ Deletes(u) => c[u] # c[t]
  /\ \A t \in Threads : Operates(t) => c[t] \in owned

PhasesInStep ==
  \A t \in Threads :
    /\ ~ Operates(t) => phase[t] = 0
    /\ pc[t] = "lookup" => phase[t] < 2
    /\ pc[t] = "calls" => phase[t] > 0

\* Only clients that were built are freed or in the table.
BuiltBefore ==
  /\ freed \subseteq 1 .. created
  /\ \A i \in Ids : client_list[i] <= created

\* As long as no id is shared, the table is exactly the clients that exist.
TableIsInUse ==
  "shared" \notin misuse =>
    /\ \A h \in InUse : id[h] \in Ids /\ h \notin freed
    /\ \A g, h \in InUse : g # h => id[g] # id[h]
    /\ \A h \in owned \cup Deleting : client_list[id[h]] = h
    /\ \A i \in Ids : Holds(i) =>
         client_list[i] \in owned \cup Deleting /\ id[client_list[i]] = i

\* An operation has found its own client, unless it crashed.
OwnConnections ==
  misuse \subseteq {"early"} =>
    ~ crashed /\ \A t \in Threads : pc[t] = "calls" => conn[t] = c[t]

IInv ==
  /\ TypeOK
  /\ OneOwner
  /\ PhasesInStep
  /\ BuiltBefore
  /\ TableIsInUse
  /\ MutexHeldInside
  /\ OwnConnections
=============================================================================
