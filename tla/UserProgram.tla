----------------------------- MODULE UserProgram -----------------------------
(***************************************************************************)
(* The programs that drive the store: userprogram_knoss.cpp,                *)
(* userprogram_knoss_MP.cpp, userprogram_multipaxos_testing.cpp and         *)
(* userprogram_latency_checker.cpp.  All of them create their clients,      *)
(* start one thread per client in each round, join the threads and delete   *)
(* the clients.  The first two write the log that Knossos checks for        *)
(* linearizability (abd_file.edn, mp_file.edn); for the others log is a     *)
(* history variable.                                                        *)
(*                                                                         *)
(* Here the store is a register whose operations take effect at once, so    *)
(* that what is asked is whether the programs test it fairly.  A put is     *)
(* given a pointer to the one array `value' of the main thread, which is    *)
(* built anew for the next put.                                             *)
(***************************************************************************)
EXTENDS Integers, Sequences, FiniteSets, FiniteSetsExt

CONSTANT NumClients   \* bound: NumClients[r] clients in a program of r rounds

ASSUME NumClientsAssumption == NumClients \in [1 .. 2 -> Nat \ {0}]

\* What the threads of each round may do, and whether it is joined before the next.
Kind         == {"put", "get"}
Knoss        == [kinds |-> <<Kind>>,                joinEach |-> FALSE]
KnossMP      == [kinds |-> <<Kind, Kind>>,           joinEach |-> TRUE]
PaxosTesting == [kinds |-> <<{"put"}, {"get"}>>,   joinEach |-> TRUE]

\* Each executer of the latency checker: one round, num_secs is 1 there too.
LatencyChecker == [kinds |-> <<Kind>>, joinEach |-> FALSE]
Programs       == {Knoss, KnossMP, PaxosTesting, LatencyChecker}

Client == 0 .. Max({NumClients[1], NumClients[2]}) - 1
Thread == (1 .. 2) \X Client       \* the thread of a round and a client

\* The contents of the array: the random value of a put, named for its thread.
Torn     == <<0, 0>>               \* neither the old value nor the new one
NoValue  == <<>>                   \* nothing was ever put
Value    == Thread \cup {Torn, NoValue}

VARIABLES
  program,     \* which of the programs this is
  main,        \* what the main thread does next
  next,        \* the thread it is about to start, or to join
  live,        \* clients created and not deleted
  value,       \* the array
  pc,          \* pc[t]: where thread t is
  kind,        \* kind[t]: whether t puts or gets
  buffer,      \* buffer[t]: the value t's call carries, or has read
  register,    \* the store
  log,         \* the log
  rebuilt      \* history: the array was built anew under a put

vars == <<program, main, next, live, value, pc, kind, buffer, register, log, rebuilt>>

Entry == [process : Client, type : {"invoke", "ok"}, f : Kind, value : Value]

TypeOK ==
  /\ program \in Programs
  /\ main \in {"create", "run", "fill", "join", "delete", "done"}
  /\ next \in (1 .. 3) \X (Client \cup {Max(Client) + 1})
  /\ live \subseteq Client
  /\ value \in Value
  /\ pc \in [Thread -> {"none", "invoke", "copy", "effect", "ok", "done"}]
  /\ kind \in [Thread -> Kind]
  /\ buffer \in [Thread -> Value]
  /\ register \in Value
  /\ log \in Seq(Entry)
  /\ rebuilt \in BOOLEAN

Init ==
  /\ program \in Programs
  /\ main = "create" /\ next = <<1, 0>>
  /\ live = {} /\ value = Torn
  /\ pc = [t \in Thread |-> "none"]
  /\ kind = [t \in Thread |-> "get"]
  /\ buffer = [t \in Thread |-> NoValue]
  /\ register = NoValue /\ log = <<>> /\ rebuilt = FALSE

-----------------------------------------------------------------------------
(* The main thread: the executers and main of userprogram_multipaxos_testing. *)

Rounds   == Len(program.kinds)
NClients == NumClients[Rounds]
Running  == {t \in Thread : pc[t] \notin {"none", "done"}}

CreateClients ==
  /\ main = "create"
  /\ live' = 0 .. NClients - 1
  /\ main' = "run"
  /\ UNCHANGED <<program, next, value, pc, kind, buffer, register, log, rebuilt>>

\* The loop over the clients of a round is not done.
Starting == main = "run" /\ next[1] <= Rounds /\ next[2] < NClients

StartThread(t, k) ==
  /\ pc' = [pc EXCEPT ![t] = "invoke"]
  /\ kind' = [kind EXCEPT ![t] = k]
  /\ next' = <<t[1], t[2] + 1>>

StartGet ==
  /\ Starting /\ "get" \in program.kinds[next[1]]
  /\ StartThread(next, "get")
  /\ UNCHANGED <<program, main, live, value, buffer, register, log, rebuilt>>

\* A thread that still has to read the array.
Reading(t) == kind[t] = "put" /\ pc[t] \in {"invoke", "copy", "effect", "ok"}

\* char value[] = {0} and the loop that fills it are seen apart.
ClearValue ==
  /\ Starting /\ "put" \in program.kinds[next[1]]
  /\ value' = Torn
  /\ rebuilt' = (rebuilt \/ \E t \in Thread : Reading(t))
  /\ main' = "fill"
  /\ UNCHANGED <<program, next, live, pc, kind, buffer, register, log>>

StartPut ==
  /\ main = "fill"
  /\ value' = next
  /\ StartThread(next, "put")
  /\ main' = "run"
  /\ UNCHANGED <<program, live, buffer, register, log, rebuilt>>

\* Deliberately wrong, for the mutation runs: no round is joined before the next.
RoundEndsUnjoined ==
  /\ main = "run" /\ next[1] <= Rounds /\ next[2] = NClients
  /\ next' = <<next[1] + 1, 0>>
  /\ main' = IF next[1] = Rounds THEN "join" ELSE "run"
  /\ UNCHANGED <<program, live, value, pc, kind, buffer, register, log, rebuilt>>

\* All threads of the round were started; join them, or go on to the next round.
RoundEnds ==
  /\ main = "run" /\ next[1] <= Rounds /\ next[2] = NClients
  /\ program.joinEach => Running = {}
  /\ next' = <<next[1] + 1, 0>>
  /\ main' = IF next[1] = Rounds THEN "join" ELSE "run"
  /\ UNCHANGED <<program, live, value, pc, kind, buffer, register, log, rebuilt>>

\* Deliberately wrong, for the mutation runs: the last thread is not joined.
JoinedAllButOne ==
  /\ main = "join" /\ Cardinality(Running) <= 1
  /\ main' = "delete"
  /\ UNCHANGED <<program, next, live, value, pc, kind, buffer, register, log, rebuilt>>

Joined ==
  /\ main = "join" /\ Running = {}
  /\ main' = "delete"
  /\ UNCHANGED <<program, next, live, value, pc, kind, buffer, register, log, rebuilt>>

DeleteClient ==
  /\ main = "delete"
  /\ live' = live \ {NClients - Cardinality(live)}
  /\ main' = IF live' = {} THEN "done" ELSE "delete"
  /\ UNCHANGED <<program, next, value, pc, kind, buffer, register, log, rebuilt>>

Main ==
  \/ CreateClients \/ StartGet \/ ClearValue \/ StartPut \/ RoundEnds \/ Joined \/ DeleteClient

-----------------------------------------------------------------------------
(* The other threads: _put and _get.                                        *)

Goto(t, where) == pc' = [pc EXCEPT ![t] = where]

\* Under file_lock; the text of a put is made from the array at that time.
LogEntry(t, type, v) ==
  log' = Append(log, [process |-> t[2], type |-> type, f |-> kind[t], value |-> v])

LogInvoke(t) ==
  /\ pc[t] = "invoke"
  /\ LogEntry(t, "invoke", IF kind[t] = "put" THEN value ELSE NoValue)
  /\ Goto(t, IF kind[t] = "put" THEN "copy" ELSE "effect")
  /\ UNCHANGED <<program, main, next, live, value, kind, buffer, register, rebuilt>>

\* put copies its argument into the request, for ABD after its first phase.
CopyValue(t) ==
  /\ pc[t] = "copy"
  /\ buffer' = [buffer EXCEPT ![t] = value]
  /\ Goto(t, "effect")
  /\ UNCHANGED <<program, main, next, live, value, kind, register, log, rebuilt>>

\* Deliberately wrong, for the mutation runs: a get waits until something was put.
TakeEffectIfThere(t) ==
  /\ pc[t] = "effect"
  /\ IF kind[t] = "put"
     THEN register' = buffer[t] /\ UNCHANGED buffer
     ELSE /\ register # NoValue
          /\ buffer' = [buffer EXCEPT ![t] = register] /\ UNCHANGED register
  /\ Goto(t, "ok")
  /\ UNCHANGED <<program, main, next, live, value, kind, log, rebuilt>>

TakeEffect(t) ==
  /\ pc[t] = "effect"
  /\ IF kind[t] = "put"
     THEN register' = buffer[t] /\ UNCHANGED buffer
     ELSE buffer' = [buffer EXCEPT ![t] = register] /\ UNCHANGED register
  /\ Goto(t, "ok")
  /\ UNCHANGED <<program, main, next, live, value, kind, log, rebuilt>>

\* Deliberately wrong, for the mutation runs: the result of the first round is logged in every round.
LogOkFirst(t) ==
  /\ pc[t] = "ok"
  /\ LogEntry(t, "ok", IF kind[t] = "put" THEN value ELSE buffer[<<1, t[2]>>])
  /\ Goto(t, "done")
  /\ UNCHANGED <<program, main, next, live, value, kind, buffer, register, rebuilt>>

\* Again under file_lock, and again from the array.
LogOk(t) ==
  /\ pc[t] = "ok"
  /\ LogEntry(t, "ok", IF kind[t] = "put" THEN value ELSE buffer[t])
  /\ Goto(t, "done")
  /\ UNCHANGED <<program, main, next, live, value, kind, buffer, register, rebuilt>>

Step(t) == LogInvoke(t) \/ CopyValue(t) \/ TakeEffect(t) \/ LogOk(t)

Next == Main \/ \E t \in Thread : Step(t)

Spec     == Init /\ [][Next]_vars
\* Every thread is scheduled.
FairSpec == Spec /\ WF_vars(Main) /\ \A t \in Thread : WF_vars(Step(t))

-----------------------------------------------------------------------------
(* Linearizability of the log, as a checker would find it.                  *)

\* The index of the completion of the invocation at i.
CompletionOf(i) ==
  CHOOSE j \in i + 1 .. Len(log) :
    /\ log[j].process = log[i].process
    /\ \A m \in i + 1 .. j - 1 : log[m].process # log[i].process

Invocations == {i \in 1 .. Len(log) : log[i].type = "invoke"}

\* The value read or written is the one in the completion.
ValueOf(i) == log[CompletionOf(i)].value

\* The value a register holds before the operation at i, with operations in this order.
Before(order, i) ==
  LET puts == {j \in Invocations : log[j].f = "put" /\ order[j] < order[i]}
  IN  IF puts = {} THEN NoValue
      ELSE ValueOf(CHOOSE j \in puts : \A m \in puts : order[m] <= order[j])

\* An order of the operations in which each takes effect between its two entries.
Linearizes(order) ==
  \A i \in Invocations :
    /\ \A j \in Invocations : CompletionOf(i) < j => order[i] < order[j]
    /\ log[i].f = "get" => ValueOf(i) = Before(order, i)

Linearizable == \E order \in Bijection(Invocations, Invocations) : Linearizes(order)

-----------------------------------------------------------------------------
(* Properties.                                                              *)

\* A process of the log is sequential: its entries are invoke and ok in turn, so
\* that a checker can pair them (44-58, 75-97; the joins at 161, in the MP
\* version at 159).
LogAlternates ==
  \A c \in Client :
    LET mine == {i \in 1 .. Len(log) : log[i].process = c}
    IN  \A i \in mine :
          log[i].type = "invoke" <=> Cardinality({j \in mine : j < i}) % 2 = 0

\* The log of a run over a linearizable store is linearizable: the test raises no
\* false alarm, unless the array was rebuilt while a put was using it (139-147).
OnlyRebuiltValueMisleads == main = "done" /\ ~ rebuilt => Linearizable

\* No client is deleted while one of its operations is running (161-171).
OperationsHaveClients == \A t \in Running : t[2] \in live

\* The program ends.
Ends == <>(main = "done")

-----------------------------------------------------------------------------
(* The inductive invariant behind LogAlternates and OperationsHaveClients.  *)

\* The threads the main thread has started by now: those of the earlier rounds
\* and, of this one, those of the first clients.
Started(t) == \/ t[1] < next[1] /\ t[2] < NClients
              \/ t[1] = next[1] /\ t[2] < next[2]

\* Where the main thread is, and which threads there are.
MainInOrder ==
  /\ next \in (1 .. Rounds + 1) \X (0 .. NClients)
  /\ main = "create" => next = <<1, 0>>
  /\ main = "run" => next[1] <= Rounds
  /\ main = "fill" => next[1] <= Rounds /\ next[2] < NClients
  /\ main \in {"join", "delete", "done"} => next = <<Rounds + 1, 0>>
  /\ \A t \in Thread : pc[t] # "none" <=> Started(t)

\* In the programs that join each round only threads of this round are running.
RoundsAreJoined == program.joinEach => \A t \in Running : t[1] = next[1]

\* The clients are there from the first thread on, and until all are joined.
ClientsOutlive ==
  /\ main \in {"run", "fill", "join"} => live = 0 .. NClients - 1
  /\ main \in {"delete", "done"} => Running = {}

\* The entries of a client in the log, and whether one of its operations is open.
Mine(c) == {i \in 1 .. Len(log) : log[i].process = c}
Open(c) == \E t \in Thread : t[2] = c /\ pc[t] \in {"copy", "effect", "ok"}

LogFollowsThreads ==
  /\ LogAlternates
  /\ \A c \in Client : Cardinality(Mine(c)) % 2 = IF Open(c) THEN 1 ELSE 0

IInv == TypeOK /\ MainInOrder /\ RoundsAreJoined /\ ClientsOutlive /\ LogFollowsThreads

-----------------------------------------------------------------------------
(* The inductive invariant behind OnlyRebuiltValueMisleads.                 *)

\* As long as the array was not rebuilt under a put, it holds the value of the one
\* put that still reads it, and is nobody's while it is filled.
PutsKeepValue ==
  \A t \in Thread : Reading(t) =>
    /\ main # "fill" /\ value = t
    /\ pc[t] \in {"effect", "ok"} => buffer[t] = t

\* The entry at j is the first one of its process after the invocation at i.
Completes(j, i) ==
  /\ j > i /\ log[j].process = log[i].process
  /\ \A m \in i + 1 .. j - 1 : log[m].process # log[i].process

Ended == {i \in Invocations : \E j \in i + 1 .. Len(log) : Completes(j, i)}

\* The invocation at i is that of thread t, and the last entry of its client.
InvokedBy(i, t) ==
  /\ pc[t] \in {"copy", "effect", "ok"}
  /\ log[i].process = t[2] /\ log[i].f = kind[t]
  /\ \A j \in i + 1 .. Len(log) : log[j].process # t[2]

\* The operations of running threads are in the log, and all others have ended.
EntriesHaveThreads ==
  /\ \A t \in Thread : pc[t] \in {"copy", "effect", "ok"} => \E i \in Invocations : InvokedBy(i, t)
  /\ \A i \in Invocations \ Ended : \E t \in Thread : InvokedBy(i, t)

\* The operations that have taken effect, and the value each of them yields.
Effective   == Ended \cup {i \in Invocations : \E t \in Thread : InvokedBy(i, t) /\ pc[t] = "ok"}
Yields(i, v) == \/ i \in Ended /\ ValueOf(i) = v
                \/ \E t \in Thread : InvokedBy(i, t) /\ pc[t] = "ok" /\ buffer[t] = v

\* What the last put among some operations has written, in this order.
LastWritten(order, ops, v) ==
  \/ v = NoValue /\ \A j \in ops : log[j].f # "put"
  \/ \E j \in ops : /\ log[j].f = "put" /\ Yields(j, v)
                    /\ \A m \in ops : log[m].f = "put" => order[m] <= order[j]

\* Each get among some operations yields what the last put before it has written.
GetsRead(order, ops) ==
  \A i \in ops : log[i].f = "get" =>
    \E v \in Value : Yields(i, v) /\ LastWritten(order, {j \in ops : order[j] < order[i]}, v)

\* An order of the operations so far that explains the store and what gets have read:
\* those that have taken effect come first.
Explains(order) ==
  /\ \A i \in Effective, j \in Invocations \ Effective : order[i] < order[j]
  /\ \A i \in Ended, j \in Invocations : CompletionOf(i) < j => order[i] < order[j]
  /\ LastWritten(order, Effective, register) /\ GetsRead(order, Effective)

LogInv ==
  /\ IInv /\ EntriesHaveThreads
  /\ ~ rebuilt => /\ PutsKeepValue
                  /\ \E order \in Bijection(Invocations, Invocations) : Explains(order)
=============================================================================
