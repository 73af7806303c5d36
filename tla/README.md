# A verification project for Distributed_key_value_store

The repository is a replicated key-value store in C++ over gRPC. A client library offers `put` and
`get`; a server is started with one of three protocols: `ABD` (a linearizable register with tags and
majorities), `CM` (causal memory with vector clocks) and `MP` (a log per key, agreed on slot by slot
with Paxos). `README.md:2` of the repository states the aim: "Distributed key value strore with 2
consistency model, namely Linearizable and Causal Consistency model".

This directory holds TLA+ modules translated from that code, TLC configurations that check them on
small instances, and TLAPS proofs of theorems about them for every value of their constants.
`PROJECT.json` lists the components, runs, mutations, hazards and theorems, and names for every
definition the lines of source it stands for. File names below without a directory are files of `src/`.

    tlc -workers 2 -config MCABDTwoOps.cfg MCABDHistory     # a run: <run>.cfg and its module
    tlapm ABDProofs.tla                                     # the proofs of a module

## 1. Inventory

| component | state it keeps | operations | talks to |
|---|---|---|---|
| ABD client (`client_lib.cpp`) | per call: the request, the futures, the vector of replies | `put`, `get`, two phases each; `send_message_to_all_server`; `find_majority_tag` | all servers |
| ABD handler (`server.cpp` 233-371) | `abd_ks_map`: key to value and tag | READ_QUERY, WRITE_QUERY, WRITE | answers clients |
| CM handler (`server.cpp` 144-231) | `cm_ks_map`, clock `t` | READ, WRITE | answers clients; fills `cm_message_outqueue` |
| CM sending thread (`server.cpp` 810-842, `cm_client.cpp`) | `cm_message_outqueue` | sends the front to every other server, waits for all calls, pops it | other servers |
| CM receiving handler (`cm_server.cpp`) | `cm_message_pq` | pushes a message | called by other servers |
| CM processing thread (`server.cpp` 860-957) | `cm_message_pq`, `cm_ks_map`, `t` | takes the root, applies it when it is ready, pops it, advances the clock | - |
| CM client (`client_lib.cpp` 338-365, 450-488) | - | `put`, `get` at server id mod N | one server |
| MP proposer (`server.cpp` 372-788) | `mp_mutex`, `log_map`, `mp_ks_map` | `insert_command`, `propose`, `update_local_values`, `apply_last_write` | all other servers |
| MP acceptor (`paxos_server.cpp`) | `log_map`: promise, accepted proposal and command of each slot; the free slots | PREPARE, ACCEPT | called by proposers |
| MP client (`client_lib.cpp` 410-437, 552-590) | - | `put`, `get` at server id mod N | one server |
| Client table (`client_lib.cpp` 6-47, 594-631) | `client_list`, `client_list_mutex` | `client_instance`, `client_delete`, the lookups of `put` and `get` | threads of the program |
| User programs (`userprogram_*.cpp`) | clients, threads, the array `value`, the log file | rounds of `_put` and `_get`, joins | the client library |
| Start-up, conversions, gRPC definitions | - | - | - |

The components interact by synchronous gRPC calls made in threads of their own; a caller that has its
majority leaves the other calls running. Within a server, handlers and threads share the maps, queues
and clock, each under a mutex on some of the paths and without it on others. Nothing is persisted and no
call is repeated.

The hard behaviours: requests of a phase that has ended are handled later, among those of other
operations; replies are collected in an order the client does not choose; in CM a message may arrive
before what it depends on and the root of a heap decides what is looked at; between the value and the
clock of an applied message, and between `top()` and `pop()`, other threads run; in MP a server is
proposer and acceptor at once and its proposer does not go through its acceptor; a failed call leaves its
future unset for ever.

What makes each component correct:

* ABD: a value written by a finished `put` or `get` stays on a majority and every later query meets it;
  a server never goes back; reads are not stale; operations return while a minority is down.
* CM: writes are applied once, in each server's order, after what they depend on; what is popped is what
  was applied; a message that is ready is not kept waiting by one that is not; reads are causal.
* MP: two finished commands never share a slot; a proposal stands for one command; an inserted command
  was accepted by a majority; a get returns the last put of the log.
* Client table: an operation uses connections of its own client while they exist, a deleted client is gone,
  every other one stays, and the mutex is free after every call.
* User programs: the log is one a checker can read and is linearizable whenever the store is; a client
  outlives its operations.

## 2. Modules

| module | models | lines of source |
|---|---|---|
| `Tags` | tags, their order, the reply `find_majority_tag` chooses | `commons.h` 76, `client_lib.cpp` 265-285 |
| `FindMajorityTag` | its loop, with each `erase` and `delete` | `client_lib.cpp` 265-285 |
| `ABD` | clients and servers of ABD for one key | `client_lib.cpp` 48-252, 366-409, 489-551; `server.cpp` 233-371 |
| `ABDHistory` | `ABD` with the order of calls and returns, for what reads promise | the same |
| `CausalDelivery` | abstract: what CM servers promise one another | - |
| `CMServer` | handlers and threads of the CM servers | `server.cpp` 46-67, 183-231, 810-957; `cm_server.cpp`; `cm_client.cpp` 73-134 |
| `CMHeap` | `CMServer` with the binary heap under `cm_message_pq` | `cm_server.cpp` 34-128; libstdc++'s `push_heap` and `pop_heap` |
| `CMClients` | `CMServer` with clients and what happened before what | `client_lib.cpp` 302-365, 450-488; `server.cpp` 153-181 |
| `MultiPaxos` | proposers and acceptors of MP for one key | `server.cpp` 69-125, 372-788; `paxos_server.cpp` 55-303; `paxos_client.cpp` 38-200 |
| `MPHistory` | `MultiPaxos` with what clients are given back | the same; `client_lib.cpp` 410-437, 552-590 |
| `ClientTable` | the table of clients, used by several threads | `client_lib.cpp` 6-47, 172-252, 287-404, 594-631; `client.h`; `key_store_client.h` 33-54 |
| `UserProgram` | the four user programs over an atomic register | `userprogram_knoss.cpp`, `userprogram_knoss_MP.cpp`, `userprogram_multipaxos_testing.cpp`, `userprogram_latency_checker.cpp` |
| `ABDProofs`, `FindMajorityTagProofs`, `CausalDeliveryProofs`, `CMProofs`, `MultiPaxosProofs`, `MPHistoryProofs`, `ClientTableProofs`, `UserProgramProofs` | theorems and proofs; `ABDProofs` is about `ABD` and `ABDHistory`, `CMProofs` about `CMServer` and `CMClients` | - |
| `MC...` | instances for TLC | - |

How they build on one another: `ABDHistory` adds history variables to `ABD`, `CMHeap` and `CMClients` add
variables to `CMServer`, `MPHistory` to `MultiPaxos`. `ClientTable` and `UserProgram` stand beside them: the
first is what `put` and `get` do before and after the protocol, the second takes the store for the register
it promises to be. `CMServer` implements `CausalDelivery` (its property `DeliversInOrder` is
`CausalDelivery!Spec` under a mapping); `CMHeap` implements `CMServer` (`HeapIsQueue`). So CM is three
levels: what servers promise, threads over an arbitrary queue whose root may be any message that can be
on top, threads over the real heap.

### ABD

A server is a number in the order in which the client polls the connections. `abd_ks_map[s]` is the pair
the server keeps for the key; a key it lacks is answered with the sentinel entry, so the initial pair is
`Absent`. A client goes from `idle` to `query` to `write` and back (`pc`); `asked` are the servers that
have not handled the request of its phase, `replied` the replies not yet looked at, `vec_resp` the
collected ones in their order. `Collect` takes a reply as the polling loop does: any order before the
majority, and after it only servers further on in the same sweep. `PutWrite` and `GetWriteBack` use the
reply that `FindMajorityTag` chooses. When a phase ends, WRITEs not yet handled go to `late` and are
handled at any later time. `BeginInsert` and `EndInsert` are a WRITE of another key that changes the map's
tree while `READ_QUERY` looks the key up without the lock (248): such a find may miss (`HandleReadQueryMiss`).
`Inserters` are the servers where this happens.
`Crash` stops a server. `ABDHistory` records what is known when a call begins (`known`, `before`, `stale`), every
pair that was ever sent in a WRITE (`written`), and whether `find_majority_tag` has thrown away a greater integer
(`discarded`).

### CM

`ClientWrite` is the whole WRITE handler: store, clock, copy of the clock, message in the outgoing queue.
`StartSend`, `Deliver`, `FailCall`, `FinishSend` are the sending thread and the calls it makes, `TakeTop`,
`Apply`, `Pop`, `Clock` the four parts of the processing thread that other threads can come between. A
write is identified by its server and its number there. `top` is the root of the queue: `Push` may put a
message there unless the comparison forbids it, `Pop` may leave any message there; `CMHeap` replaces both
by the heap's own operations. `CMClients` adds `Put` and `Get`, and `GetMiss`: the READ handler looks the key
up at 159 before it takes the mutex, so it may miss it while another key is inserted (`Inserting`).

### MP

`log[n][i]` holds a slot's promise (`min`), accepted proposal (`acc`) and command. One request is served
at a time by a server (`mp_mutex`): `StartRequest` chooses the first free slot, `UpdateLocalValues` sets
the own promise and sends the PREPAREs, `PreparePromised` sends the ACCEPTs for the own command or the one
found, `Inserted`, `Defeated` and `Overtaken` are the three ends of `insert_command`'s loop body,
`PrepareRefused`, `AcceptRefused` and `AcceptMixed` the retries in `propose`. `Promise`, `Accept` and
`Nack` are the acceptor. `Collected` are the vectors a phase's polling loop can return. A proposal with
uninitialised fields, which can reach the log through `AcceptMixed`, is `Garbage`: the fields lie where the
allocator writes a free-list pointer, so the number is half an address (`Address`, above every number in use), and
a proposer that meets it goes on from there. `AcceptMixed` has both outcomes of reading the unset `command_id`
(the deleted command's, or another one); a command put in the log on that path has its id but neither its type nor
its value. `deviations` records how a step departed from Paxos: `overwritten`, `tie`, `discarded`, `replaced`,
`unset`. `accepts` keeps every ACCEPT that was taken, by an acceptor or by a proposer into its own log, also
when it gives the slot up: these are the votes the proofs count.

`MPHistory` follows the values: `known` are those whose put has returned or that a get has returned, `before`
says which of them were known when a put was called, and `stale` what the running get of a client may no longer
return. `causes` records the two things besides `deviations` that make a get stale: `relabelled` (a proposer
takes over a put's command as a READ or a get's as a WRITE, because the PREPARE reply carries the type of the
request) and `unlearned` (a request ends although a slot before its own holds a command no majority has
accepted: nothing makes the server finish it).

### Client table

A client, its wrapper and its connections have one name, a handle. `NewClient`, `LockForInsert`, `Insert` are
`client_instance`; `StartDelete`, `LockForErase`, `Erase`, `EraseNothing` are `client_delete`; `StartOperation`,
`Lookup`, `Call`, `EndPhase` are an operation, two phases for ABD and one otherwise, with `LateCall` for the calls
it leaves behind. `client_list[c->id]` is read without the mutex: `LookupMiss` when the id has no entry or a
thread is changing the tree; the null entry is dereferenced and the process is `crashed`. After `EraseNothing`
the mutex stays locked. The program is free but keeps to `client.h`: it uses a client between its
`client_instance` and its `client_delete` and does not delete it under a running operation. It may give two
clients one id, which nothing forbids. `misuse` records `shared` (two clients in use with one id), `raced` (a
lookup missed an entry that is there) and `early` (a client was deleted before all calls of an ended operation
had used its connections).

### User programs

A program is the list of its rounds, with what their threads do (`kinds`) and whether a round is joined before the
next (`joinEach`). The main thread creates the clients, starts a thread per client, joins, deletes. The array a
put is given (`value`) belongs to the main thread and is cleared and filled again for the next put (`ClearValue`,
`StartPut`); the thread reads it for the two log entries (`LogInvoke`, `LogOk`) and `put` copies it in between
(`CopyValue`). `Linearizable` is what Knossos is asked about the log: an order of the operations that respects
the entries and in which each get returns the last put.

## 3. Runs

| run | question | instance | states |
|---|---|---|---|
| `MCABDFailures` | do finished operations survive a crash, late WRITEs and a find that misses, and does every operation return? | 3 servers, 2 clients with 1 operation, 1 insertion at server 1, 1 crash | all |
| `MCABDTwoOps` | are tags monotone and owned; are reads fresh while no greater reply is discarded; do the invariants of the proofs hold (`IInv`, `OwnersInv`, `HistoryInv`)? | 3 servers, 2 clients with 2 and 1 operations | all |
| `MCABDStaleRead` | are reads fresh? | 3 servers, 2 clients | **violated** |
| `FindMajorityTag` | does the loop compute the operator, and never touch a deleted reply; does the invariant of the proofs hold? | every vector of up to 4 replies, 3 integers, 2 client ids | all |
| `MCCMHeap` | does the heap behave as the queue; is delivery in order although the heap is not; when is a ready message hidden, and does anything else stop a server? | 3 servers, 5 and 1 writes; servers 0 and 1 process at once | all |
| `MCCMHeapOrder` | is the smallest time at the root? | 3 servers, 5 and 1 writes | **violated** |
| `MCCMCausal` | are reads causal? | 3 servers, 3 clients, 1 key | **violated** |
| `MCCMCounted` | do the CM servers, over any queue, implement `CausalDelivery`, pop what they applied, keep no overwritten value; are reads causal while every vector counts what its client had read; do the invariants of the proofs hold (`IInv`, `ClientsInv`)? | 3 servers, 2 of them with a write, 3 clients, 2 keys, 1 failed call | all |
| `MCMPReads` | are the gets of MP fresh? | 3 servers, 2 clients, 2 slots | **violated** |
| `MCMPProposals` | are proposals unambiguous, had inserted commands a majority, what do agreement and fresh gets depend on; does the invariant of the proofs hold? | the same; one retry each, 1 late message; also `HistoryInv` | all |
| `ClientTable` | what does the table promise to a correct program of several threads; does the invariant of the proofs hold? | 2 threads, 2 ids, 2 clients, 5 servers, 2 late calls | all |
| `MCUserProgram` | do the programs test the store fairly; does the invariant of the proofs hold (`LogInv`)? | 3 clients in one round, 2 in two rounds | all |

Properties that hold, by what they are for:

* `SettledTagsHeld`, `FreshResponseCollected`: the two halves of the quorum argument. The first must hold
  under any order of late WRITEs and write-backs, the second says that a query with a majority has *met*
  every earlier operation. What the client then does with the replies is `OnlyDiscardsMakeReadsStale`.
* `WriterOwnsTag`, `TagsNeverRegress`: a write-back carries the tag of the writer, not of the reader, and
  no order of arrival makes a server go back.
* `DeliversInOrder`, `QueuedAreUncounted`, `TopStaysUntilPopped`: FIFO and causal application, once each,
  although the root is read and popped under two separate locks. `KeepsNewest` is what that is for: the value a
  server keeps for a key was not overwritten by another write it has applied.
* `HeapIsQueue`, `OnlyLongQueuesHide`, `OnlyHiddenMessagesStall`: the comparison is not a strict weak order, so
  the library promises nothing, and indeed the heap loses its order (`MCCMHeapOrder`, below). What is left with the
  deployed three servers (`server_info.txt`): a ready message can only be hidden in a queue of four or more, and
  a hidden message is the only reason for which a server that misses no call stops applying. `DeliversInOrder`
  also holds over the disordered heap, because 886-894 test each message that comes to the root.
* `OneCommandPerProposal`, `InsertedByMajority`: what of Paxos is intact. `OnlyDeviationsBreakAgreement`
  names the five departures that are not: a proposer that ignores its own acceptor, an ACCEPT taken below the
  promise, a greater acceptance discarded, an entry replaced although its promise was overtaken, an entry whose
  proposal was never set.
  `OnlyKnownCausesMakeReadsStale` adds the two causes above and says that there is no third.
* `OperationsUseOwnConnections`, `TableHoldsLiveClients`, `MutexHeldInside`, `EveryCallReturns`: what the table
  promises, each under the least that must not have happened. With `shared`, the deletion of one client frees
  the other and the second deletion leaves the mutex locked; with `raced` an operation crashes; with `early` a
  call that nobody waits for any more uses a deleted connection, and only such a call.
* `LogAlternates`, `OnlyRebuiltValueMisleads`, `OperationsHaveClients`, `Ends`: a test program must not blame a
  store that is right. It does when a put is slower than the 10 ms pause (`userprogram_knoss.cpp:156`): the array
  is rebuilt under it and the log shows a value nobody put. The repository's logs have such entries
  (`abd_file.edn:1-4`: invoked with 399, completed with 705).

### What the violated runs show

1. `MCABDStaleRead` (`client_lib.cpp:268`). `find_majority_tag` drops a reply with a *greater* integer than
   the first one: the test at 268 lets it in, the test at 269 does not match, and it falls to the `delete`
   at 280. A `get` whose first reply comes from a server that missed a WRITE returns the older value.
2. `MCCMCausal` (`server.cpp:929`). A received value is readable from 920 on, the clock counts it at 929. A
   client that reads it and writes in between makes a message that does not count what it read, and a
   third server applies the two the other way round.
3. `MCMPReads` (`paxos_server.cpp:187`). A put has been accepted by one other server, inserted and acknowledged.
   A get at the third server proposes a READ for the same slot, the acceptor answers with the put's command but
   the type of the request, and the get's proposer has it accepted as a READ. `apply_last_write` passes over it:
   the get returns "no such key".
4. `MCCMHeapOrder` (`cm_server.cpp:34`). The comparison must keep messages "in order of smaller time ahead" (39).
   It calls concurrent messages equivalent, which is not transitive. Server 0 writes `a1` to `a5`, server 1 `b1`
   before it has any of them; server 2 receives `a1 b1 a2 a3 a4 a5` and pops `a1` and `a2`. The array under its queue
   is then `[a4, b1, a5, a3]`: `a4` waits for `a3`, and `a3` and `b1`, which are ready, lie below it. Server 2
   stalls for ever: nothing that can still arrive is smaller than `a4`. The state is one of those that
   `OnlyHiddenMessagesStall` allows; without its second disjunct that property is violated by the same messages.

Another disagreement can be seen by changing a configuration. `MCMPProposals.cfg` with `Agreement` as its
invariant: a proposer overwrites its own acceptor's promise and does not ask what it has accepted
(`server.cpp:591`), and two servers insert different commands in one slot, against "This function implements
multipaxos" (681).

### Bounds

Three servers are the deployment and the least number with a majority that is not everybody and a server
outside it. ABD needs two clients (writer and reader) and a second operation of one of them, to meet its
own late WRITE and its own earlier tag. CM needs two writers, whose writes are concurrent or dependent, and
a third server that gets both (`MCCMCounted`). A heap of libstdc++ needs four elements for a child of the root to have a
child of its own, and hiding a message takes six: with 4 and 1 or 3 and 2 writes `TopIsMinimal` still holds in
`MCCMHeap.cfg`, with 5 and 1 (or 4 and 2) it does not. Five writes also give FIFO something to violate. In
`MCCMHeap` the processing threads of servers 0 and 1 do at once what they can (`QuickNext`): only server 2 gets
messages of two senders, and b1 may still count any of the a's; `MCCMHeapOrder` has no such restriction. MP needs two proposers, a number above the first for
each of them, so that either can refuse the other in each phase, and a message that arrives when its phase is over; two
slots let a defeated command move on. (All invariants of `MCMPProposals` hold as well when the get retries twice,
1.8 million states; those that are not about the proofs with three slots, two puts of one client and fewer retries, 1.7
million states, where gets must avoid older values and not only "no such key".) The table needs two threads for every race and two clients for a
shared id; five servers leave two calls behind after a majority. Two clients over two rounds give a user program
a second operation of a client; three clients in one round an array that is rebuilt twice.
`MaxOps`, `MaxWrites`, `MaxReads`, `MaxNum`, `MaxLate`, `MaxLost`, `MaxInserts`, `MaxCrashes`, `MaxClients`,
`Inserters`, `NumClients` and `Slots` are guards: a step that would exceed one is not taken. Every action and every disjunct of the next-state
relations is taken in some passing run. `Address` is not a bound but a parameter, any number above those in use. Deadlock checking is off everywhere because the clients stop when
their operations are used up.

### Fairness

`MCABDFailures`: one weak fairness condition, on `Progress`: as long as a polling loop (233-249) can go on, a
server that is up can handle a request it was sent, or can finish an insertion, some such step happens. That is
less than fairness of each thread: it holds on a machine that runs at all. It is enough because no
operation can loop. Nothing is assumed of crashes, of new operations or of late WRITEs. `ClientTable`: every
thread that is in the library and is not blocked goes on, and the calls it waits for are answered.
`MCUserProgram`: every thread is scheduled. `MCCMHeap`: both threads
of a CM server are endless loops; weak fairness for each. Client writes are not fair. `OnlyHiddenMessagesStall` says
that the clocks catch up with what was written or a ready message stays hidden; with a failed call they need not
(the messages of that server then wait for ever), so the run has none.

## 4. Theorems

All theorems hold for every value of the constants that satisfies the assumptions stated with them (`N` a positive
number, for `MultiPaxos` greater than 1; client ids natural numbers; bounds of the right type; `Address` above the
proposal numbers in use). TLC evaluates the assumptions in the runs. Tags, clocks and proposal numbers are unbounded
integers.

`ABDProofs` (any number of servers and clients, any bounds):

* `TypeCorrect`, `TagsNeverRegressThm`.
* `IInvCorrect`: the invariant `IInv`, and from it `Durability` (`SettledTagsHeld`) and `FreshReplies`
  (`FreshResponseCollected`). `SettledTagsHeld` alone is not inductive: the phase that ends has `Majority`
  *collected replies*, so the invariant must say that each reply is of another server
  (`OneReplyPerServer`) and that a server that has answered a WRITE keeps its tag (`AnsweredWritesHeld`).
  `FreshResponseCollected` needs to follow a majority that covers an earlier operation through the query:
  each of its servers has answered with a tag that is not smaller, or will (`FloorCovered`). Two majorities
  meet (`MajoritiesMeet`), so the collected majority contains one of them. All steps rest on
  `AfterWriteGrows`: no WRITE lowers a tag.
* `ValuesKeepTheirWriter` (`WriterOwnsTag`): a reply is copied into a write-back, a write-back into a server, a
  server into a reply, so `OwnersInv` (`PairsHaveOwners`) follows the pair of a put through all of them.
* `HistoryCorrect` (`HistoryInv` of `ABDHistory`) and from it `ReadsAreFresh` (`OnlyDiscardsMakeReadsStale`). Whatever is kept or
  carried was written (`OnlyWrittenSpreads`); a value was written under one tag, and not before its WRITE was sent
  (`OneTagPerValue`); if u was known when the put of v was called, v's tag is greater (`TagsFollowTime`). The last
  one is the freshness of the query phase again, at the step where a put derives its tag: as long as no greater
  integer was discarded, the reply it uses is the greatest of its vector (`FoundIsGreatest`). A get that starts
  when v is known collects a tag that is not smaller than v's, hence none of an overwritten u (`GetsAvoidStale`).

`FindMajorityTagProofs` (vectors of any length):

* `LoopInvariant` (`IInv`), `LoopIsOperator` (`LoopComputesOperator`) and `DeletedAreNotUsed` (`NoUseAfterDelete`).
  The response kept is the best of the peers passed so far (`BestSoFar`); at the end all were passed, and no two
  responses beat one another, so the operator's choice is that response. What was deleted was passed, once, and is
  not the response kept (`DeletedOnce`).

`CausalDeliveryProofs` (the abstract level, any number of copies and keys):

* `CausalCorrect`: a copy has applied all that the writes it has applied count (`SeenIsClosed`), so the write it
  keeps for a key is counted by no other applied write of the key.

`CMProofs` (any number of servers, clients and keys, any bounds):

* `TypeCorrect`; `IInvCorrect`, and from it `TopStays` and `QueueAndClockDisjoint`.
* `ImplementsCausalDelivery`: `Spec => DeliversInOrder`, step by step: `ClientWrite` and `Apply` are the
  abstract `Write` and `Receive`, the other steps stutter.

  What must be strengthened: a message in a queue must be the one its server made (`AllGenuine`), clocks may
  count only what was issued (`ClockInRange`), the outgoing queue is in order and its front is being sent
  (`SendingInOrder`), hence what has not arrived comes after all that has (`ArrivesInOrder`), and the
  processing thread works on a message that is ready and stays so (`WorksOnReady`). Then a push cannot
  overtake the root: a message that compares below a ready one would have to be counted already
  (`ReadyIsNotOvertaken`).
* `NewestIsKept` (`KeepsNewest`): the theorems of `CausalDeliveryProofs`, instantiated with the refinement mapping,
  hold of the servers because every step of theirs maps to an abstract step or a stutter.
* `ClientsCorrect` (`ClientsInv`) and `ReadsAreCausal` (`OnlyUncountedBreakCausality`): while every vector counts
  what its client had read, all a client has seen was applied by its server (`PastIsApplied`) and a write counts all
  that happened before it (`BeforeIsCounted`). A read that were behind its causal past would be one of a value that
  another applied write counts, which `KeepsNewest` excludes.

`MultiPaxosProofs` (any number of servers, clients and slots, any bounds on retries and messages in flight):

* `Invariance` (`IInv`), `TypeCorrectness`.
* `ProposalsAreUsedOnce` (`OneCommandPerProposal`). Proposals of a client are made by one server
  (`ServesOwnClients`); a refusal names a number not smaller than the one refused, so a retry is greater
  (`RefusalsAreHigher`); and every ACCEPT, taken or in flight, is for a slot its proposer has used up, or under a
  number it has left behind or is sending now (`ProposalsAreFresh`). This holds whatever goes wrong elsewhere: it
  has no premise about `deviations`.
* `MajorityAccepted` (`InsertedByMajority`): every server has one reply in a phase (`OneReplyPerServer`), and the
  acknowledgements held in the accept phase are acceptances of what was sent (`AcceptedAsSent`), which has the value
  of the own command because an id stands for one value (`OneValuePerId`).
* `AgreementWithoutDeviation` (`OnlyDeviationsBreakAgreement`): Paxos' own argument for this program. As long as no
  deviation happened, an entry holds the last vote (`VotesAreRecorded`), an acknowledged PREPARE is a promise not to
  vote in between (`PromisesAreKept`; the proposer makes the same promise to itself, having accepted nothing), and
  for every ACCEPT and every smaller proposal there is a quorum that voted for the same command or never will
  (`SentIsSafe`). Two inserted commands each had a quorum; quorums meet. The proof is where the five deviations
  come from: each is a step that does not go through without its name.

`MPHistoryProofs` (the same, with what clients are given back):

* `HistoryIsChosen` (`HistoryInv`, with `IInv` of `MultiPaxos`), and from it `HistoryTyped` (`HTypeOK`) and
  `ReadsAreFresh` (`OnlyKnownCausesMakeReadsStale`). A command is *chosen* when a majority, counting its proposer,
  took it under one proposal; that is more than `AgreementWithoutDeviation` speaks of, which compares the commands
  their proposers inserted. The steps of the argument:
  * In a slot one command is chosen (`OneChoice`), what was inserted is chosen, and a proposer that gives a slot up
    does so to a command that is chosen there (`DefeatedIsTaken`): the reply that defeats it was acknowledged by a
    majority.
  * A command has one place (`OnePlace`): it is at a slot because its proposer is there, inserted it there, or has
    lost the slot to another command. So it is chosen in one slot only (`ChosenOnce`), although its proposer goes
    from slot to slot with it and leaves its ACCEPTs in flight.
  * A known value is chosen, and so is some command in every slot before it (`KnownIsChosen`); this is where
    `unlearned` is needed. Hence a put that is called now gets a later slot than every value that is known now
    (`BeforeIsEarlier`), a get is behind a put that has a later slot than all it may not return (`StaleIsEarlier`).
  * A get returns the last put that is chosen before its own slot (`GetReturnsLast`), since a command keeps the type
    it was given while `relabelled` does not happen (`TypesAreKept`).

`ClientTableProofs` (any number of threads, ids, clients and servers):

* `TypeCorrect`; `InvariantCorrect`, and from it `MutexCorrect`, `TableCorrect` and `ConnectionsCorrect`
  (`MutexHeldInside`, `TableHoldsLiveClients`, `OperationsUseOwnConnections`).

  The invariant covers more than `TableHoldsLiveClients` says, which speaks of the moments when nobody holds the
  mutex: a client belongs to the program or to the one thread that creates or deletes it (`OneOwner`), what was
  freed was built before (`BuiltBefore`), and at every moment the table is exactly the clients in use, whose ids
  differ (`TableIsInUse`). So `client_delete` finds the client it was given (`DeletesItsOwn`), the path that does
  not unlock is not taken, and an operation finds its own client at each phase (`FindsItsOwn`).

`UserProgramProofs` (any number of clients in each round):

* `InvariantCorrect` (`IInv`), `LogIsPaired` (`LogAlternates`), `ClientsAreThere` (`OperationsHaveClients`). Which
  threads exist follows from where the main thread is (`MainInOrder`); with a join after each round only threads of
  one round run (`RoundsAreJoined`), so a client has one operation at a time (`OneAtATime`), and its entries in the
  log are odd in number while it is open (`LogFollowsThreads`).
* `LogIsExplained` (`LogInv`) and `FairTest` (`OnlyRebuiltValueMisleads`). The order that linearizes the log is built
  along the run: `LogInv` says that there is a permutation of the invocations so far in which those that have taken
  effect come first and which explains what the register holds and what the gets have read (`Explains`). An operation
  that is invoked is last; one that takes effect changes its place with the first that has not (`CanComeFirst`), so
  nothing that was explained moves. An open operation is the last entry of its client (`EntriesHaveThreads`), and an
  array that was not rebuilt under a put holds its value until the put is logged (`PutsKeepValue`): so a completion
  is logged with the value that took effect.

Only model-checked:

* The heap (`HeapIsQueue`, `OnlyLongQueuesHide`): its operations are recursive over the tree, which the
  prover has no induction for. That the CM servers are right over *any* queue `CMServer` allows is proved.
* Liveness (`OperationsReturn`, `OnlyHiddenMessagesStall`, `EveryCallReturns`, `Ends`), which is out of the prover's reach.

## 5. What is abstracted or left out

* One key in `ABD` and `MultiPaxos`: requests of other keys share only the map (see `BeginInsert`) and, in
  MP, the mutexes.
* A value is identified by the put that wrote it; `put` of an empty value, which `get` cannot tell from
  an absent key, is left out. Copies of keys and values, sizes, printing and memory that is never freed are
  left out; `delete` only in `FindMajorityTag`, where it decides what is returned.
* Counters are unbounded: the wrap of the `uint32_t` integer of a tag and of `int` clocks is not modelled.
* The reads of `empty()` without the mutex are atomic, and so are the two words of a promise that
  `update_local_values` writes without it; the walk of the log in a READ of MP is one step; an unset
  `command_type` is never WRITE; two commands never have the same `command_id`.
* A call either is handled and answered, or fails (CM), or is handled arbitrarily late or never (ABD and MP).
  The single call of a CM or MP client is taken not to fail: its caller would hang and do nothing more.
* Crash without restart: nothing is persisted, and a server that starts again is a new, empty one.
* `put` and `get` are documented to return -1 on an error (`client.h` 39, 49); no path does, an operation
  without a majority polls for ever.
* In `ClientTable` the memory of a freed client may hold any id; an operation that looks up another client's
  entry goes on with its connections. The contents of requests, a protocol name without terminating zero
  (`client_lib.cpp:31`) and failed calls are left out. In `UserProgram` the log is a sequence of entries, the file
  and its format are left out, and so are latencies; the array of a put keeps its content until the next put clears
  it, although its block in the program ends before that.
* Not modelled: start-up and argument handling beyond the initial state, the gRPC definitions, the conversions in
  `utils.cpp` (each is a one-to-one table of names) and the printing functions.

## 6. Plan

Done, in the order of importance: the register (`ABD`, `ABDHistory`, the loop of `find_majority_tag`) with its proofs;
the CM servers with abstract specification, heap, clients and proofs; the log of MP with its proofs, and the values
its clients read; the client table and the user programs with their proofs.

Next, extending the models, as far as TLC reaches: an abstract register that `ABDHistory` implements while no
greater reply is discarded, a Paxos abstraction that `MultiPaxos` implements while it has not deviated, several
clients per CM server.

What the proofs leave to TLC is listed at the end of section 4.
