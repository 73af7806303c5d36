-------------------------- MODULE UserProgramProofs --------------------------
(***************************************************************************)
(* Theorems about the user programs, for any number of clients: the log     *)
(* they write can be paired by a checker, no client is deleted under an     *)
(* operation, and a store that is linearizable is not blamed unless a value *)
(* was rebuilt while a put was using it.                                    *)
(***************************************************************************)
EXTENDS UserProgram, FiniteSetTheorems, FunctionTheorems, NaturalsInduction, WellFoundedInduction, TLAPS

-----------------------------------------------------------------------------
(* The numbers of clients and rounds.                                       *)

\* The clients are numbered from 0 to the greater number of clients.
LEMMA ClientNumbers ==
  /\ Max({NumClients[1], NumClients[2]}) \in {NumClients[1], NumClients[2]}
  /\ \A r \in 1 .. 2 : NumClients[r] \in Nat \ {0} /\ NumClients[r] <= Max({NumClients[1], NumClients[2]})
  /\ Max(Client) = Max({NumClients[1], NumClients[2]}) - 1
<1> DEFINE M == Max({NumClients[1], NumClients[2]})
<1>1. \A r \in 1 .. 2 : NumClients[r] \in Nat \ {0}
  BY NumClientsAssumption
<1>2. NumClients[1] \in Nat /\ NumClients[2] \in Nat
  BY <1>1
<1>3. \E x \in {NumClients[1], NumClients[2]} : \A y \in {NumClients[1], NumClients[2]} : x >= y
  BY <1>2
<1>4. M \in {NumClients[1], NumClients[2]} /\ \A y \in {NumClients[1], NumClients[2]} : M >= y
  BY <1>3 DEF Max
<1>5. M \in Nat \ {0}
  BY <1>4, <1>1
<1>6. \A r \in 1 .. 2 : NumClients[r] <= M
  BY <1>4, <1>2, <1>5
<1>7. Max(Client) = M - 1
  <2> HIDE DEF M
  <2>1. Client = 0 .. M - 1
    BY DEF Client, M
  <2>2. M - 1 \in Client /\ \A y \in Client : M - 1 >= y
    BY <1>5, <2>1
  <2>3. \A x \in Client : (\A y \in Client : x >= y) => x = M - 1
    BY <1>5, <2>1, <2>2
  <2> QED BY <2>2, <2>3 DEF Max
<1> QED BY <1>1, <1>4, <1>6, <1>7

\* What a program is, as far as its rounds go.
LEMMA ProgramShape ==
  ASSUME program \in Programs
  PROVE  /\ Rounds \in 1 .. 2
         /\ Rounds = 2 => program.joinEach
         /\ NClients \in Nat \ {0} /\ 0 .. NClients - 1 \subseteq Client
         /\ Max(Client) \in Nat /\ Client = 0 .. Max(Client) /\ NClients <= Max(Client) + 1
         /\ \A r \in 1 .. Rounds : program.kinds[r] \subseteq Kind
<1>1. /\ Rounds \in 1 .. 2
      /\ Rounds = 2 => program.joinEach
      /\ \A r \in 1 .. Rounds : program.kinds[r] \subseteq Kind
  BY DEF Programs, Rounds, Knoss, KnossMP, PaxosTesting, LatencyChecker, Kind
<1>2. /\ NClients \in Nat \ {0} /\ NClients <= Max({NumClients[1], NumClients[2]})
      /\ Max({NumClients[1], NumClients[2]}) \in Nat
  BY <1>1, ClientNumbers DEF NClients
<1>3. 0 .. NClients - 1 \subseteq Client
  BY <1>2 DEF Client
<1>4. Max(Client) \in Nat /\ Client = 0 .. Max(Client) /\ NClients <= Max(Client) + 1
  <2>1. Max({NumClients[1], NumClients[2]}) \in Nat \ {0}
    BY <1>2
  <2> QED BY <1>2, <2>1, ClientNumbers DEF Client
<1> QED BY <1>1, <1>2, <1>3, <1>4

-----------------------------------------------------------------------------
(* What the invariant says of the threads that are running.                 *)

\* A running thread was started, and is one of a round and a client.
LEMMA RunningIsStarted ==
  ASSUME IInv, NEW t \in Running
  PROVE  /\ t \in Thread /\ Started(t) /\ t = <<t[1], t[2]>> /\ t[1] \in 1 .. 2 /\ t[2] \in Client
         /\ t[2] \in 0 .. NClients - 1
<1>1. t \in Thread /\ Started(t)
  BY DEF Running, IInv, MainInOrder
<1>2. t = <<t[1], t[2]>> /\ t[1] \in 1 .. 2 /\ t[2] \in Client /\ t[2] \in Nat
  BY <1>1 DEF Thread, Client
<1>3. NClients \in Nat /\ next[2] \in 0 .. NClients
  BY ProgramShape DEF IInv, TypeOK, MainInOrder
<1> QED BY <1>1, <1>2, <1>3 DEF Started

\* A client has one operation at a time.
LEMMA OneAtATime ==
  ASSUME IInv, NEW t \in Running, NEW u \in Running, t[2] = u[2]
  PROVE  t = u
<1>1. /\ Started(t) /\ t = <<t[1], t[2]>> /\ t[1] \in 1 .. 2 /\ t[2] \in Nat
      /\ Started(u) /\ u = <<u[1], u[2]>> /\ u[1] \in 1 .. 2
  BY RunningIsStarted DEF Client
<1>2. Rounds \in 1 .. 2 /\ (Rounds = 2 => program.joinEach)
  BY ProgramShape DEF IInv, TypeOK
<1>3. next[1] \in 1 .. Rounds + 1 /\ (next[1] = Rounds + 1 => next[2] = 0)
  <2>1. /\ next[1] \in 1 .. Rounds + 1
        /\ main \in {"create", "run", "fill", "join", "delete", "done"}
        /\ main = "create" => next[2] = 0
        /\ main \in {"run", "fill"} => next[1] <= Rounds
        /\ main \in {"join", "delete", "done"} => next[2] = 0
    BY DEF IInv, MainInOrder, TypeOK
  <2> QED BY <2>1, <1>2
<1>4. CASE program.joinEach
  BY <1>1, <1>4 DEF IInv, RoundsAreJoined
<1>5. CASE ~ program.joinEach
  <2>1. Rounds = 1
    BY <1>2, <1>5
  <2>2. t[1] = 1 /\ u[1] = 1
    BY <1>1, <1>3, <2>1 DEF Started
  <2> QED BY <1>1, <2>2
<1> QED BY <1>4, <1>5

\* The client of a running operation exists.
LEMMA RunningHaveClients ==
  ASSUME IInv, NEW t \in Running
  PROVE  t[2] \in live
<1>1. t \in Thread /\ Started(t) /\ t[1] \in 1 .. 2 /\ t[2] \in 0 .. NClients - 1
  BY RunningIsStarted
<1>2. CASE main = "create"
  <2>1. next[1] = 1 /\ next[2] = 0
    BY <1>2 DEF IInv, MainInOrder
  <2> QED BY <1>1, <2>1 DEF Started
<1>3. CASE main \in {"delete", "done"}
  BY <1>3 DEF IInv, ClientsOutlive
<1>4. CASE main \in {"run", "fill", "join"}
  BY <1>4, <1>1 DEF IInv, ClientsOutlive
<1> QED BY <1>2, <1>3, <1>4 DEF IInv, TypeOK

-----------------------------------------------------------------------------
(* The log grows by one entry at a time.                                    *)

LEMMA MineIsFinite ==
  ASSUME log \in Seq(Entry), NEW c
  PROVE  /\ IsFiniteSet(Mine(c)) /\ Cardinality(Mine(c)) \in Nat
         /\ Len(log) \in Nat /\ \A i \in Mine(c) : i \in 1 .. Len(log)
<1>1. Len(log) \in Nat /\ Mine(c) \subseteq 1 .. Len(log)
  BY DEF Mine
<1>2. IsFiniteSet(1 .. Len(log))
  BY <1>1, FS_Interval
<1>3. IsFiniteSet(Mine(c))
  BY <1>1, <1>2, FS_Subset
<1> QED BY <1>1, <1>3, FS_CardinalityType

\* An entry belongs to its process; the entries before it stay as they were.
LEMMA MineGrows ==
  ASSUME log \in Seq(Entry), NEW e \in Entry, log' = Append(log, e), NEW c \in Client
  PROVE  /\ Mine(c)' = Mine(c) \cup {i \in {Len(log) + 1} : e.process = c}
         /\ \A i \in Mine(c) : log'[i] = log[i] /\ i <= Len(log)
         /\ log'[Len(log) + 1] = e
         /\ Cardinality(Mine(c))' = Cardinality(Mine(c)) + IF e.process = c THEN 1 ELSE 0
<1>1. Len(log) \in Nat /\ log' \in Seq(Entry) /\ Len(log') = Len(log) + 1
  OBVIOUS
<1>2. \A i \in 1 .. Len(log) : log'[i] = log[i]
  OBVIOUS
<1>3. log'[Len(log) + 1] = e
  OBVIOUS
<1>4. 1 .. Len(log') = (1 .. Len(log)) \cup {Len(log) + 1}
  BY <1>1
<1>5. Mine(c)' = Mine(c) \cup {i \in {Len(log) + 1} : e.process = c}
  BY <1>2, <1>3, <1>4 DEF Mine
<1>6. \A i \in Mine(c) : i \in 1 .. Len(log)
  BY DEF Mine
<1>7. Cardinality(Mine(c)') = Cardinality(Mine(c)) + IF e.process = c THEN 1 ELSE 0
  <2>1. IsFiniteSet(Mine(c)) /\ Cardinality(Mine(c)) \in Nat
    BY MineIsFinite
  <2>2. CASE e.process = c
    <3>1. Mine(c)' = Mine(c) \cup {Len(log) + 1}
      BY <1>5, <2>2
    <3>2. Len(log) + 1 \notin Mine(c)
      BY <1>1, <1>6
    <3> QED BY <2>1, <2>2, <3>1, <3>2, FS_AddElement
  <2>3. CASE e.process # c
    <3>1. Mine(c)' = Mine(c)
      BY <1>5, <2>3
    <3> QED BY <2>1, <2>3, <3>1
  <2> QED BY <2>2, <2>3
<1> QED BY <1>1, <1>2, <1>3, <1>5, <1>6, <1>7

\* An entry that is an invocation exactly when its process has an even number of
\* entries keeps them in turn.
LEMMA AppendAlternates ==
  ASSUME log \in Seq(Entry), LogAlternates, NEW e \in Entry, log' = Append(log, e),
         e.type = "invoke" <=> Cardinality(Mine(e.process)) % 2 = 0
  PROVE  LogAlternates'
<1> SUFFICES ASSUME NEW c \in Client, NEW i \in Mine(c)'
             PROVE  log'[i].type = "invoke" <=> Cardinality({j \in Mine(c)' : j < i}) % 2 = 0
  BY DEF LogAlternates, Mine
<1>1. /\ Mine(c)' = Mine(c) \cup {k \in {Len(log) + 1} : e.process = c}
      /\ \A k \in Mine(c) : log'[k] = log[k] /\ k <= Len(log)
      /\ log'[Len(log) + 1] = e
  BY MineGrows
<1>2. Len(log) \in Nat /\ \A k \in Mine(c) : k \in 1 .. Len(log)
  BY MineIsFinite
<1>3. CASE i \in Mine(c)
  <2>1. \A j \in Mine(c)' : j < i => j \in Mine(c)
    BY <1>1, <1>2, <1>3
  <2>2. {j \in Mine(c)' : j < i} = {j \in Mine(c) : j < i}
    BY <1>1, <2>1
  <2>3. log[i].type = "invoke" <=> Cardinality({j \in Mine(c) : j < i}) % 2 = 0
    BY <1>3 DEF LogAlternates, Mine
  <2> QED BY <1>1, <1>3, <2>2, <2>3
<1>4. CASE i \notin Mine(c)
  <2>1. i = Len(log) + 1 /\ e.process = c
    BY <1>1, <1>4
  <2>2. {j \in Mine(c)' : j < i} = Mine(c)
    BY <1>1, <1>2, <2>1
  <2> QED BY <1>1, <2>1, <2>2
<1> QED BY <1>3, <1>4

-----------------------------------------------------------------------------
(* The program starts in the invariant.                                     *)

LEMMA InitIInv == Init => IInv
<1> SUFFICES ASSUME Init PROVE IInv
  OBVIOUS
<1>1. Rounds \in 1 .. 2 /\ NClients \in Nat \ {0} /\ 0 .. NClients - 1 \subseteq Client
  BY ProgramShape DEF Init
<1>2. 0 \in Client
  BY <1>1
<1>3. TypeOK
  <2>1. /\ pc \in [Thread -> {"none", "invoke", "copy", "effect", "ok", "done"}]
        /\ kind \in [Thread -> Kind] /\ buffer \in [Thread -> Value]
    BY DEF Init, Value, Kind
  <2>2. next \in (1 .. 3) \X (Client \cup {Max(Client) + 1})
    BY <1>2 DEF Init
  <2>3. log \in Seq(Entry)
    BY DEF Init
  <2>4. /\ program \in Programs /\ main = "create" /\ live \subseteq Client
        /\ value \in Value /\ register \in Value /\ rebuilt \in BOOLEAN
    BY Zenon DEF Init, Value
  <2> QED BY <2>1, <2>2, <2>3, <2>4 DEF TypeOK
<1>4. MainInOrder
  <2>1. \A t \in Thread : t[1] \in 1 .. 2 /\ t[2] \in Nat
    BY DEF Thread, Client
  <2>2. \A t \in Thread : pc[t] = "none" /\ ~ Started(t)
    BY <2>1 DEF Init, Started
  <2>3. next \in (1 .. Rounds + 1) \X (0 .. NClients)
    BY <1>1 DEF Init
  <2> QED BY <2>2, <2>3 DEF Init, MainInOrder
<1>5. Running = {}
  BY DEF Init, Running
<1>6. \A c \in Client : Mine(c) = {} /\ ~ Open(c)
  <2>1. Len(log) = 0
    BY DEF Init
  <2> QED BY <2>1 DEF Init, Mine, Open
<1>7. LogFollowsThreads
  <2>1. Cardinality({}) = 0
    BY FS_EmptySet
  <2>2. LogAlternates
    BY <1>6 DEF LogAlternates, Mine
  <2> QED BY <1>6, <2>1, <2>2 DEF LogFollowsThreads
<1>8. RoundsAreJoined /\ ClientsOutlive
  BY <1>5 DEF RoundsAreJoined, ClientsOutlive, Init
<1> QED BY <1>3, <1>4, <1>7, <1>8 DEF IInv

-----------------------------------------------------------------------------
(* The steps of the main thread.                                            *)

\* A step that starts no thread and leaves the log alone keeps what the log says.
LEMMA LogUntouched ==
  ASSUME LogFollowsThreads, UNCHANGED <<pc, log>>
  PROVE  LogFollowsThreads'
BY DEF LogFollowsThreads, LogAlternates, Mine, Open

LEMMA CreateClientsIInv == IInv /\ CreateClients => IInv'
<1> SUFFICES ASSUME IInv, CreateClients PROVE IInv'
  OBVIOUS
<1>1. Rounds \in 1 .. 2 /\ NClients \in Nat \ {0} /\ 0 .. NClients - 1 \subseteq Client
  BY ProgramShape DEF IInv, TypeOK
<1>2. TypeOK'
  BY <1>1 DEF IInv, TypeOK, CreateClients
<1>3. MainInOrder'
  <2>1. main' = "run" /\ UNCHANGED <<program, next, pc>> /\ next = <<1, 0>>
    BY DEF IInv, MainInOrder, CreateClients
  <2>2. Rounds' = Rounds /\ NClients' = NClients
    BY <2>1 DEF Rounds, NClients
  <2>3. next[1] <= Rounds
    BY <1>1, <2>1
  <2>4. \A t \in Thread : Started(t)' <=> Started(t)
    BY <2>1, <2>2 DEF Started
  <2> QED BY <2>1, <2>2, <2>3, <2>4 DEF IInv, MainInOrder
<1>4. RoundsAreJoined' /\ ClientsOutlive'
  BY DEF IInv, RoundsAreJoined, ClientsOutlive, CreateClients, Running, NClients, Rounds
<1> QED BY <1>2, <1>3, <1>4, LogUntouched DEF IInv, CreateClients

\* Starting the next thread of the round.
LEMMA StartThreadIInv ==
  ASSUME IInv, next[1] <= Rounds, next[2] < NClients, main' = "run", NEW k \in Kind,
         StartThread(next, k), value' \in Value, rebuilt' \in BOOLEAN,
         main \in {"run", "fill"}, UNCHANGED <<program, live, buffer, register, log>>
  PROVE  IInv'
<1>1. /\ Rounds \in 1 .. 2 /\ NClients \in Nat \ {0} /\ 0 .. NClients - 1 \subseteq Client
      /\ Rounds' = Rounds /\ NClients' = NClients
  BY ProgramShape DEF IInv, TypeOK, Rounds, NClients
<1>2. /\ next \in Thread /\ next[1] \in 1 .. 2 /\ next[2] \in 0 .. NClients - 1 /\ next = <<next[1], next[2]>>
      /\ next' = <<next[1], next[2] + 1>>
  <2>1. next[1] \in 1 .. 2 /\ next[2] \in 0 .. NClients - 1 /\ next = <<next[1], next[2]>>
    BY <1>1 DEF IInv, MainInOrder
  <2> QED BY <1>1, <2>1 DEF Thread, StartThread
<1>3. pc \in [Thread -> {"none", "invoke", "copy", "effect", "ok", "done"}] /\ kind \in [Thread -> Kind]
  BY DEF IInv, TypeOK
<1>4. pc' = [pc EXCEPT ![next] = "invoke"] /\ kind' = [kind EXCEPT ![next] = k]
  BY DEF StartThread
<1>5. pc[next] = "none"
  <2>1. ~ Started(next)
    BY <1>2 DEF Started
  <2> QED BY <1>2, <2>1 DEF IInv, MainInOrder
<1>6. TypeOK'
  <2>1. next' \in (1 .. 3) \X (Client \cup {Max(Client) + 1})
    <3>1. next[2] + 1 \in Client \cup {Max(Client) + 1}
      <4>1. Max(Client) \in Nat /\ Client = 0 .. Max(Client) /\ NClients <= Max(Client) + 1
        BY ProgramShape DEF IInv, TypeOK
      <4> QED BY <1>1, <1>2, <4>1
    <3> QED BY <1>2, <3>1
  <2>2. /\ pc' \in [Thread -> {"none", "invoke", "copy", "effect", "ok", "done"}]
        /\ kind' \in [Thread -> Kind]
    BY <1>3, <1>4
  <2> QED BY <2>1, <2>2 DEF IInv, TypeOK
<1>7. MainInOrder'
  <2>1. ASSUME NEW t \in Thread PROVE (pc[t] # "none" <=> Started(t))'
    <3>1. t[1] \in 1 .. 2 /\ t[2] \in Nat /\ t = <<t[1], t[2]>>
      BY DEF Thread, Client
    <3>2. Started(t)' <=> Started(t) \/ t = next
      BY <1>1, <1>2, <3>1 DEF Started
    <3>3. pc'[t] # "none" <=> pc[t] # "none" \/ t = next
      BY <1>3, <1>4, <1>2
    <3> QED BY <3>2, <3>3 DEF IInv, MainInOrder
  <2>2. next' \in (1 .. Rounds + 1) \X (0 .. NClients) /\ next'[1] <= Rounds
    BY <1>1, <1>2
  <2> QED BY <1>1, <2>1, <2>2 DEF MainInOrder
<1>8. RoundsAreJoined'
  <2>1. \A t \in Running' : t \in Running \/ t = next
    BY <1>3, <1>4 DEF Running
  <2> QED BY <1>2, <2>1 DEF IInv, RoundsAreJoined
<1>9. ClientsOutlive'
  BY <1>1 DEF IInv, ClientsOutlive
<1>10. LogFollowsThreads'
  <2>1. \A c \in Client : Open(c)' <=> Open(c)
    BY <1>2, <1>3, <1>4, <1>5 DEF Open
  <2>2. \A c \in Client : Mine(c)' = Mine(c)
    BY DEF Mine
  <2>3. LogAlternates'
    BY DEF IInv, LogFollowsThreads, LogAlternates
  <2> QED BY <2>1, <2>2, <2>3 DEF IInv, LogFollowsThreads
<1> QED BY <1>6, <1>7, <1>8, <1>9, <1>10 DEF IInv

LEMMA StartGetIInv == IInv /\ StartGet => IInv'
BY StartThreadIInv DEF IInv, TypeOK, StartGet, Starting, Kind

LEMMA StartPutIInv == IInv /\ StartPut => IInv'
<1> SUFFICES ASSUME IInv, StartPut PROVE IInv'
  OBVIOUS
<1>1. next[1] <= Rounds /\ next[2] < NClients
  BY DEF IInv, MainInOrder, StartPut
<1>2. next \in Thread
  <2>1. /\ Rounds \in 1 .. 2 /\ NClients \in Nat \ {0} /\ 0 .. NClients - 1 \subseteq Client
        /\ next \in (1 .. Rounds + 1) \X (0 .. NClients)
    BY ProgramShape DEF IInv, TypeOK, MainInOrder
  <2> QED BY <1>1, <2>1 DEF Thread
<1>3. value' \in Value
  BY <1>2 DEF StartPut, Value
<1>4. rebuilt' \in BOOLEAN /\ UNCHANGED <<program, live, buffer, register, log>>
  BY DEF StartPut, IInv, TypeOK
<1> QED BY <1>1, <1>3, <1>4, StartThreadIInv DEF StartPut, Kind

LEMMA ClearValueIInv == IInv /\ ClearValue => IInv'
<1> SUFFICES ASSUME IInv, ClearValue PROVE IInv'
  OBVIOUS
<1>1. TypeOK'
  BY DEF IInv, TypeOK, ClearValue, Value
<1>2. MainInOrder'
  BY DEF IInv, MainInOrder, ClearValue, Starting, Started, Rounds, NClients
<1>3. RoundsAreJoined' /\ ClientsOutlive'
  BY DEF IInv, RoundsAreJoined, ClientsOutlive, ClearValue, Starting, Running, NClients, Rounds
<1> QED BY <1>1, <1>2, <1>3, LogUntouched DEF IInv, ClearValue

\* When all clients of a round were served, and joined where the program does,
\* no thread of the next one has been started.
LEMMA RoundEndsIInv == IInv /\ RoundEnds => IInv'
<1> SUFFICES ASSUME IInv, RoundEnds PROVE IInv'
  OBVIOUS
<1>1. /\ Rounds \in 1 .. 2 /\ NClients \in Nat \ {0} /\ 0 .. NClients - 1 \subseteq Client
      /\ Rounds' = Rounds /\ NClients' = NClients
  BY ProgramShape DEF IInv, TypeOK, RoundEnds, Rounds, NClients
<1>2. /\ next[1] \in 1 .. Rounds /\ next[2] = NClients
      /\ next' = <<next[1] + 1, 0>> /\ pc' = pc /\ program' = program
      /\ main' = IF next[1] = Rounds THEN "join" ELSE "run"
  BY <1>1 DEF IInv, MainInOrder, RoundEnds
<1>3. TypeOK'
  <2>1. next' \in (1 .. 3) \X (Client \cup {Max(Client) + 1})
    BY <1>1, <1>2
  <2> QED BY <2>1 DEF IInv, TypeOK, RoundEnds
<1>4. MainInOrder'
  <2>1. ASSUME NEW t \in Thread PROVE Started(t)' <=> Started(t)
    <3>1. t[1] \in 1 .. 2 /\ t[2] \in Nat
      BY DEF Thread, Client
    <3> QED BY <1>1, <1>2, <3>1 DEF Started
  <2>2. next' \in (1 .. Rounds + 1) \X (0 .. NClients)
    BY <1>1, <1>2
  <2>3. next[1] # Rounds => next[1] + 1 <= Rounds
    BY <1>1, <1>2
  <2> QED BY <1>1, <1>2, <2>1, <2>2, <2>3 DEF IInv, MainInOrder
<1>5. RoundsAreJoined'
  BY <1>2 DEF RoundsAreJoined, RoundEnds, Running
<1>6. ClientsOutlive'
  BY <1>1, <1>2 DEF IInv, ClientsOutlive, RoundEnds
<1> QED BY <1>3, <1>4, <1>5, <1>6, LogUntouched DEF IInv, RoundEnds

LEMMA JoinedIInv == IInv /\ Joined => IInv'
<1> SUFFICES ASSUME IInv, Joined PROVE IInv'
  OBVIOUS
<1>1. TypeOK'
  BY DEF IInv, TypeOK, Joined
<1>2. MainInOrder'
  BY DEF IInv, MainInOrder, Joined, Started, Rounds, NClients
<1>3. RoundsAreJoined' /\ ClientsOutlive'
  BY DEF IInv, RoundsAreJoined, ClientsOutlive, Joined, Running
<1> QED BY <1>1, <1>2, <1>3, LogUntouched DEF IInv, Joined

LEMMA DeleteClientIInv == IInv /\ DeleteClient => IInv'
<1> SUFFICES ASSUME IInv, DeleteClient PROVE IInv'
  OBVIOUS
<1>0. main = "delete" /\ main' \in {"delete", "done"} /\ live' \subseteq live
      /\ UNCHANGED <<program, next, value, pc, kind, buffer, register, log, rebuilt>>
  BY DEF DeleteClient
<1>1. TypeOK'
  BY <1>0 DEF IInv, TypeOK
<1>2. MainInOrder'
  BY <1>0 DEF IInv, MainInOrder, Started, Rounds, NClients
<1>3. RoundsAreJoined' /\ ClientsOutlive'
  BY <1>0 DEF IInv, RoundsAreJoined, ClientsOutlive, Running
<1> QED BY <1>0, <1>1, <1>2, <1>3, LogUntouched DEF IInv

-----------------------------------------------------------------------------
(* The steps of the other threads.                                          *)

\* A running thread goes on: nothing changes for the main thread, and only the
\* client of the thread may begin or end an operation.
LEMMA ThreadGoesOn ==
  ASSUME IInv, NEW t \in Running, NEW w \in {"copy", "effect", "ok", "done"}, Goto(t, w),
         UNCHANGED <<program, main, next, live>>
  PROVE  /\ pc' \in [Thread -> {"none", "invoke", "copy", "effect", "ok", "done"}]
         /\ MainInOrder' /\ RoundsAreJoined' /\ ClientsOutlive'
         /\ Open(t[2]) <=> pc[t] # "invoke"
         /\ \A c \in Client : Open(c)' <=> IF c = t[2] THEN w # "done" ELSE Open(c)
<1>1. /\ pc \in [Thread -> {"none", "invoke", "copy", "effect", "ok", "done"}]
      /\ t \in Thread /\ pc[t] \notin {"none", "done"} /\ pc' = [pc EXCEPT ![t] = w]
  BY DEF IInv, TypeOK, Running, Goto
<1>2. pc' \in [Thread -> {"none", "invoke", "copy", "effect", "ok", "done"}]
  BY <1>1
<1>3. Rounds' = Rounds /\ NClients' = NClients
  BY DEF Rounds, NClients
<1>4. MainInOrder'
  <2>1. \A u \in Thread : Started(u)' <=> Started(u)
    BY <1>3 DEF Started
  <2>2. \A u \in Thread : pc'[u] # "none" <=> pc[u] # "none"
    BY <1>1
  <2> QED BY <1>3, <2>1, <2>2 DEF IInv, MainInOrder
<1>5. Running' \subseteq Running
  BY <1>1 DEF Running
<1>6. RoundsAreJoined' /\ ClientsOutlive'
  BY <1>3, <1>5 DEF IInv, RoundsAreJoined, ClientsOutlive
<1>7. \A u \in Thread : u[2] = t[2] /\ pc[u] \in {"copy", "effect", "ok"} => u = t
  <2>1. \A u \in Thread : pc[u] \in {"copy", "effect", "ok"} => u \in Running
    BY DEF Running
  <2> QED BY <2>1, OneAtATime
<1>8. Open(t[2]) <=> pc[t] # "invoke"
  BY <1>1, <1>7 DEF Open
<1>9. \A c \in Client : Open(c)' <=> IF c = t[2] THEN w # "done" ELSE Open(c)
  <2> SUFFICES ASSUME NEW c \in Client PROVE Open(c)' <=> IF c = t[2] THEN w # "done" ELSE Open(c)
    OBVIOUS
  <2>1. CASE c = t[2]
    BY <2>1, <1>1, <1>7 DEF Open
  <2>2. CASE c # t[2]
    BY <2>2, <1>1 DEF Open
  <2> QED BY <2>1, <2>2
<1> QED BY <1>2, <1>4, <1>6, <1>8, <1>9

\* An invocation opens an operation of its client, a completion ends it.
LEMMA EntryFollowsThread ==
  ASSUME IInv, NEW t \in Running, NEW w \in {"copy", "effect", "done"}, Goto(t, w),
         UNCHANGED <<program, main, next, live>>,
         NEW type \in {"invoke", "ok"}, NEW v \in Value, LogEntry(t, type, v),
         type = "invoke" <=> pc[t] = "invoke",
         type = "invoke" <=> w # "done"
  PROVE  log' \in Seq(Entry) /\ LogFollowsThreads'
<1> DEFINE e == [process |-> t[2], type |-> type, f |-> kind[t], value |-> v]
<1>1. log \in Seq(Entry) /\ kind \in [Thread -> Kind] /\ LogAlternates
  BY DEF IInv, TypeOK, LogFollowsThreads
<1>2. t \in Thread /\ t[2] \in Client
  BY RunningIsStarted
<1>3. e \in Entry /\ log' = Append(log, e)
  BY <1>1, <1>2 DEF Entry, LogEntry
<1>4. /\ Open(t[2]) <=> pc[t] # "invoke"
      /\ \A c \in Client : Open(c)' <=> IF c = t[2] THEN w # "done" ELSE Open(c)
  BY ThreadGoesOn
<1>5. \A c \in Client : Cardinality(Mine(c)) % 2 = IF Open(c) THEN 1 ELSE 0
  BY DEF IInv, LogFollowsThreads
<1>6. e.process = t[2] /\ e.type = type
  OBVIOUS
<1> HIDE DEF e
<1>7. e.type = "invoke" <=> Cardinality(Mine(e.process)) % 2 = 0
  BY <1>2, <1>4, <1>5, <1>6
<1>8. LogAlternates'
  BY <1>1, <1>3, <1>7, AppendAlternates
<1>9. ASSUME NEW c \in Client
      PROVE  Cardinality(Mine(c))' % 2 = IF Open(c)' THEN 1 ELSE 0
  <2>1. Cardinality(Mine(c))' = Cardinality(Mine(c)) + IF c = t[2] THEN 1 ELSE 0
    BY <1>1, <1>3, <1>6, MineGrows
  <2>2. Cardinality(Mine(c)) \in Nat
    BY <1>1, MineIsFinite
  <2>3. Cardinality(Mine(c)) % 2 = IF Open(c) THEN 1 ELSE 0
    BY <1>5
  <2>4. CASE c = t[2]
    <3>1. Open(c) <=> ~ Open(c)'
      BY <2>4, <1>4
    <3>2. Cardinality(Mine(c))' = Cardinality(Mine(c)) + 1
      BY <2>1, <2>4
    <3> DEFINE n == Cardinality(Mine(c))
    <3> HIDE DEF n
    <3>3. (n + 1) % 2 = 1 - (n % 2)
      BY <2>2 DEF n
    <3>4. n % 2 = IF Open(c) THEN 1 ELSE 0
      BY <2>3 DEF n
    <3>5. (n + 1) % 2 = IF Open(c) THEN 0 ELSE 1
      BY <3>3, <3>4
    <3> QED BY <3>1, <3>2, <3>5 DEF n
  <2>5. CASE c # t[2]
    <3>1. Open(c) <=> Open(c)'
      BY <2>5, <1>4
    <3>2. Cardinality(Mine(c))' = Cardinality(Mine(c))
      BY <2>1, <2>2, <2>5
    <3> QED BY <3>1, <3>2, <2>3
  <2> QED BY <2>4, <2>5
<1>10. log' \in Seq(Entry)
  BY <1>1, <1>3
<1> QED BY <1>8, <1>9, <1>10 DEF LogFollowsThreads

LEMMA LogInvokeIInv == \A t \in Thread : IInv /\ LogInvoke(t) => IInv'
<1> SUFFICES ASSUME NEW t \in Thread, IInv, LogInvoke(t) PROVE IInv'
  OBVIOUS
<1>1. t \in Running /\ pc[t] = "invoke"
  BY DEF Running, LogInvoke
<1> DEFINE v == IF kind[t] = "put" THEN value ELSE NoValue
           w == IF kind[t] = "put" THEN "copy" ELSE "effect"
<1>2. v \in Value /\ w \in {"copy", "effect"}
  BY DEF IInv, TypeOK, Value
<1>3. /\ LogEntry(t, "invoke", v) /\ Goto(t, w)
      /\ UNCHANGED <<program, main, next, live, value, kind, buffer, register, rebuilt>>
  BY DEF LogInvoke
<1> HIDE DEF v, w
<1>4. log' \in Seq(Entry) /\ LogFollowsThreads'
  BY <1>1, <1>2, <1>3, EntryFollowsThread
<1>5. /\ pc' \in [Thread -> {"none", "invoke", "copy", "effect", "ok", "done"}]
      /\ MainInOrder' /\ RoundsAreJoined' /\ ClientsOutlive'
  BY <1>1, <1>2, <1>3, ThreadGoesOn
<1> QED BY <1>3, <1>4, <1>5 DEF IInv, TypeOK

LEMMA LogOkIInv == \A t \in Thread : IInv /\ LogOk(t) => IInv'
<1> SUFFICES ASSUME NEW t \in Thread, IInv, LogOk(t) PROVE IInv'
  OBVIOUS
<1>1. t \in Running /\ pc[t] = "ok"
  BY DEF Running, LogOk
<1> DEFINE v == IF kind[t] = "put" THEN value ELSE buffer[t]
<1>2. v \in Value
  BY DEF IInv, TypeOK
<1>3. /\ LogEntry(t, "ok", v) /\ Goto(t, "done")
      /\ UNCHANGED <<program, main, next, live, value, kind, buffer, register, rebuilt>>
  BY DEF LogOk
<1> HIDE DEF v
<1>4. log' \in Seq(Entry) /\ LogFollowsThreads'
  BY <1>1, <1>2, <1>3, EntryFollowsThread
<1>5. /\ pc' \in [Thread -> {"none", "invoke", "copy", "effect", "ok", "done"}]
      /\ MainInOrder' /\ RoundsAreJoined' /\ ClientsOutlive'
  BY <1>1, <1>3, ThreadGoesOn
<1> QED BY <1>3, <1>4, <1>5 DEF IInv, TypeOK

\* A thread that only goes on, with a value more in its buffer or in the store.
LEMMA QuietStepIInv ==
  ASSUME IInv, NEW t \in Running, NEW w \in {"effect", "ok"}, Goto(t, w), pc[t] # "invoke",
         UNCHANGED <<program, main, next, live, value, kind, log, rebuilt>>,
         buffer' \in [Thread -> Value], register' \in Value
  PROVE  IInv'
<1>1. /\ pc' \in [Thread -> {"none", "invoke", "copy", "effect", "ok", "done"}]
      /\ MainInOrder' /\ RoundsAreJoined' /\ ClientsOutlive'
      /\ \A c \in Client : Open(c)' <=> Open(c)
  BY ThreadGoesOn
<1>2. \A c \in Client : Mine(c)' = Mine(c)
  BY DEF Mine
<1>3. LogAlternates'
  BY DEF IInv, LogFollowsThreads, LogAlternates
<1>4. LogFollowsThreads'
  BY <1>1, <1>2, <1>3 DEF IInv, LogFollowsThreads
<1>5. TypeOK'
  BY <1>1 DEF IInv, TypeOK
<1> QED BY <1>1, <1>4, <1>5 DEF IInv

LEMMA CopyValueIInv == \A t \in Thread : IInv /\ CopyValue(t) => IInv'
<1> SUFFICES ASSUME NEW t \in Thread, IInv, CopyValue(t) PROVE IInv'
  OBVIOUS
<1>1. t \in Running /\ pc[t] = "copy"
  BY DEF Running, CopyValue
<1>2. buffer' \in [Thread -> Value] /\ register' \in Value
  BY DEF IInv, TypeOK, CopyValue
<1> QED BY <1>1, <1>2, QuietStepIInv DEF CopyValue

LEMMA TakeEffectIInv == \A t \in Thread : IInv /\ TakeEffect(t) => IInv'
<1> SUFFICES ASSUME NEW t \in Thread, IInv, TakeEffect(t) PROVE IInv'
  OBVIOUS
<1>1. t \in Running /\ pc[t] = "effect"
  BY DEF Running, TakeEffect
<1>2. buffer' \in [Thread -> Value] /\ register' \in Value
  BY DEF IInv, TypeOK, TakeEffect
<1> QED BY <1>1, <1>2, QuietStepIInv DEF TakeEffect

LEMMA StepIInv == IInv /\ [Next]_vars => IInv'
<1> SUFFICES ASSUME IInv, [Next]_vars PROVE IInv'
  OBVIOUS
<1>1. CASE Main
  BY <1>1, CreateClientsIInv, StartGetIInv, ClearValueIInv, StartPutIInv, RoundEndsIInv,
     JoinedIInv, DeleteClientIInv DEF Main
<1>2. CASE \E t \in Thread : Step(t)
  BY <1>2, LogInvokeIInv, CopyValueIInv, TakeEffectIInv, LogOkIInv DEF Step
<1>3. CASE UNCHANGED vars
  <2>1. TypeOK' /\ MainInOrder' /\ RoundsAreJoined' /\ ClientsOutlive'
    BY <1>3 DEF vars, IInv, TypeOK, MainInOrder, Started, Rounds, NClients, RoundsAreJoined, Running, ClientsOutlive
  <2>2. LogFollowsThreads'
    BY <1>3, LogUntouched DEF vars, IInv
  <2> QED BY <2>1, <2>2 DEF IInv
<1> QED BY <1>1, <1>2, <1>3 DEF Next

\* The invariant of the user programs, for any number of clients.
THEOREM InvariantCorrect == Spec => []IInv
<1> QED BY InitIInv, StepIInv, PTL DEF Spec

-----------------------------------------------------------------------------
(* What the programs promise.                                               *)

\* The log of a program (44-58, 75-97) can be paired: every process in it invokes
\* and completes in turn, because a client never has two threads at a time.
THEOREM LogIsPaired == Spec => []LogAlternates
<1>1. IInv => LogAlternates
  BY DEF IInv, LogFollowsThreads
<1> QED BY <1>1, InvariantCorrect, PTL

\* client_delete (161-171) is called when no thread of the program is running.
THEOREM ClientsAreThere == Spec => []OperationsHaveClients
<1>1. IInv => OperationsHaveClients
  BY RunningHaveClients DEF OperationsHaveClients
<1> QED BY <1>1, InvariantCorrect, PTL

-----------------------------------------------------------------------------
(* The entries of the log and the threads they are of.                      *)

\* A set of naturals that is not empty has a least element.
LEMMA LeastExists ==
  ASSUME NEW S \in SUBSET Nat, S # {}
  PROVE  \E m \in S : \A x \in S : m <= x
<1>1. PICK m \in S : \A x \in S : ~ (<<x, m>> \in OpToRel(<, Nat))
  BY NatLessThanWellFounded, WFMin
<1>2. \A x \in S : m <= x
  <2> SUFFICES ASSUME NEW x \in S PROVE m <= x
    OBVIOUS
  <2>1. x \in Nat /\ m \in Nat /\ ~ (x < m)
    BY <1>1 DEF OpToRel
  <2> QED BY <2>1
<1> QED BY <1>2

\* The log keeps its entries.
LogGrows ==
  /\ log' \in Seq(Entry) /\ Len(log) <= Len(log')
  /\ \A i \in 1 .. Len(log) : log'[i] = log[i]

\* Only one entry completes an invocation.
LEMMA CompletionIs ==
  log \in Seq(Entry) =>
    \A i \in Invocations : \A j \in i + 1 .. Len(log) : Completes(j, i) => CompletionOf(i) = j
<1> SUFFICES ASSUME log \in Seq(Entry), NEW i \in Invocations, NEW j \in i + 1 .. Len(log), Completes(j, i)
             PROVE  CompletionOf(i) = j
  OBVIOUS
<1>1. i \in Nat /\ Len(log) \in Nat
  BY DEF Invocations
<1>2. \A k \in i + 1 .. Len(log) :
        (/\ log[k].process = log[i].process
         /\ \A m \in i + 1 .. k - 1 : log[m].process # log[i].process) => k = j
  BY <1>1 DEF Completes
<1> QED BY <1>2 DEF CompletionOf, Completes

LEMMA CompletionIsNext ==
  (log \in Seq(Entry) =>
    \A i \in Invocations : \A j \in i + 1 .. Len(log) : Completes(j, i) => CompletionOf(i) = j)'
BY CompletionIs, PTL

\* What has ended stays as it was when the log grows.
LEMMA EndedStay ==
  ASSUME log \in Seq(Entry), LogGrows
  PROVE  /\ Invocations \subseteq Invocations' /\ Ended \subseteq Ended'
         /\ \A i \in Invocations : i \in 1 .. Len(log) /\ log'[i] = log[i]
         /\ \A i \in Ended : /\ CompletionOf(i) \in i + 1 .. Len(log) /\ Completes(CompletionOf(i), i)
                             /\ CompletionOf(i)' = CompletionOf(i) /\ ValueOf(i)' = ValueOf(i)
<1>1. /\ Len(log) \in Nat /\ Len(log') \in Nat /\ Len(log) <= Len(log') /\ log' \in Seq(Entry)
      /\ \A i \in 1 .. Len(log) : log'[i] = log[i]
  BY DEF LogGrows
<1>2. \A i \in Invocations : i \in 1 .. Len(log) /\ log'[i] = log[i] /\ i \in Invocations'
  BY <1>1 DEF Invocations
<1>3. ASSUME NEW i \in Ended
      PROVE  /\ i \in Ended' /\ CompletionOf(i) \in i + 1 .. Len(log) /\ Completes(CompletionOf(i), i)
             /\ CompletionOf(i)' = CompletionOf(i) /\ ValueOf(i)' = ValueOf(i)
  <2>1. PICK j \in i + 1 .. Len(log) : Completes(j, i)
    BY DEF Ended
  <2>2. i \in Invocations
    BY DEF Ended
  <2>3. Completes(j, i)'
    BY <1>1, <1>2, <2>1, <2>2 DEF Completes
  <2>4. CompletionOf(i) = j
    BY <2>1, <2>2, CompletionIs
  <2>5. j \in i + 1 .. Len(log')
    BY <1>1, <1>2, <2>1, <2>2
  <2>6. CompletionOf(i)' = j
    BY CompletionIsNext, <1>1, <1>2, <2>2, <2>3, <2>5
  <2>7. ValueOf(i)' = ValueOf(i)
    BY <1>1, <1>2, <2>1, <2>2, <2>4, <2>6 DEF ValueOf
  <2> QED BY <1>2, <2>1, <2>2, <2>3, <2>4, <2>5, <2>6, <2>7 DEF Ended
<1> QED BY <1>2, <1>3

\* An invocation that is the last entry of its client has not ended.
LEMMA InvokedIsOpen ==
  ASSUME NEW i \in Invocations, NEW t \in Thread, InvokedBy(i, t)
  PROVE  i \notin Ended
BY DEF InvokedBy, Ended, Completes

\* It is that of one thread.
LEMMA OneInvoker ==
  ASSUME IInv, NEW i, NEW t \in Thread, NEW u \in Thread, InvokedBy(i, t), InvokedBy(i, u)
  PROVE  t = u
BY OneAtATime DEF InvokedBy, Running

\* A thread has invoked one operation.
LEMMA OneInvocation ==
  ASSUME log \in Seq(Entry), NEW t \in Thread, NEW i \in Invocations, NEW k \in Invocations,
         InvokedBy(i, t), InvokedBy(k, t)
  PROVE  i = k
<1>1. i \in 1 .. Len(log) /\ k \in 1 .. Len(log) /\ Len(log) \in Nat
  BY DEF Invocations
<1> QED BY <1>1 DEF InvokedBy

\* What a new entry changes: it ends the operation its thread has open, if it has one.
LEMMA EntryAdded ==
  ASSUME IInv, EntriesHaveThreads, NEW t \in Running, NEW w, Goto(t, w), UNCHANGED kind,
         NEW e \in Entry, e.process = t[2], log' = Append(log, e), NEW n, n = Len(log) + 1
  PROVE  /\ LogGrows /\ Len(log) \in Nat /\ Len(log') = n /\ log'[n] = e
         /\ Invocations' = Invocations \cup {i \in {n} : e.type = "invoke"}
         /\ n \notin Ended'
         /\ \A i \in Invocations : i \in Ended' <=> i \in Ended \/ InvokedBy(i, t)
         /\ \A u \in Thread \ {t} : /\ ~ InvokedBy(n, u)'
                                    /\ \A i \in Invocations : InvokedBy(i, u)' <=> InvokedBy(i, u)
<1>1. /\ log \in Seq(Entry) /\ t \in Thread
      /\ pc \in [Thread -> {"none", "invoke", "copy", "effect", "ok", "done"}]
  BY DEF IInv, TypeOK, Running
<1>2. /\ Len(log) \in Nat /\ log' \in Seq(Entry) /\ Len(log') = Len(log) + 1 /\ log'[Len(log) + 1] = e
      /\ \A i \in 1 .. Len(log) : log'[i] = log[i]
  BY <1>1
<1>3. LogGrows
  BY <1>2 DEF LogGrows
<1>4. Invocations' = Invocations \cup {i \in {n} : e.type = "invoke"}
  <2>1. 1 .. Len(log') = (1 .. Len(log)) \cup {n}
    BY <1>2
  <2> QED BY <1>2, <2>1 DEF Invocations
<1>5. \A i \in Invocations : i \in 1 .. Len(log)
  BY DEF Invocations
<1>6. n \notin Ended'
  BY <1>2 DEF Ended
<1>7. \A u \in Thread \ {t} : pc'[u] = pc[u] /\ (pc[u] \in {"copy", "effect", "ok"} => u[2] # t[2])
  <2>1. \A u \in Thread : pc[u] \in {"copy", "effect", "ok"} => u \in Running
    BY DEF Running
  <2> QED BY <1>1, <2>1, OneAtATime DEF Goto
<1>8. ASSUME NEW u \in Thread \ {t}
      PROVE  /\ ~ InvokedBy(n, u)'
             /\ \A i \in Invocations : InvokedBy(i, u)' <=> InvokedBy(i, u)
  <2>1. ~ InvokedBy(n, u)'
    BY <1>2, <1>7 DEF InvokedBy
  <2>2. ASSUME NEW i \in Invocations PROVE InvokedBy(i, u)' <=> InvokedBy(i, u)
    <3>1. i \in Nat /\ log'[i] = log[i]
      BY <1>2, <1>5
    <3>2. i + 1 .. Len(log') = (i + 1 .. Len(log)) \cup {n}
      BY <1>2, <1>5
    <3>3. \A j \in i + 1 .. Len(log) : log'[j] = log[j]
      BY <1>2, <3>1
    <3> QED BY <1>2, <1>7, <3>1, <3>2, <3>3 DEF InvokedBy
  <2> QED BY <2>1, <2>2
<1>9. ASSUME NEW i \in Invocations PROVE i \in Ended' <=> i \in Ended \/ InvokedBy(i, t)
  <2>1. i \in Ended => i \in Ended'
    BY <1>1, <1>3, EndedStay
  <2>2. ASSUME InvokedBy(i, t) PROVE i \in Ended'
    <3>1. Completes(n, i)'
      BY <1>2, <1>5, <2>2 DEF InvokedBy, Completes
    <3>2. n \in i + 1 .. Len(log')
      BY <1>2, <1>5
    <3> QED BY <1>4, <3>1, <3>2 DEF Ended
  <2>3. ASSUME i \in Ended', i \notin Ended PROVE InvokedBy(i, t)
    <3>1. PICK u \in Thread : InvokedBy(i, u)
      BY <2>3 DEF EntriesHaveThreads
    <3>2. PICK j \in i + 1 .. Len(log') : Completes(j, i)'
      BY <2>3 DEF Ended
    <3>3. j \in i + 1 .. Len(log) => Completes(j, i)
      BY <1>2, <1>5, <3>2 DEF Completes
    <3>4. j = n
      BY <1>2, <1>5, <2>3, <3>3 DEF Ended
    <3>5. log[i].process = t[2]
      BY <1>2, <1>5, <3>2, <3>4 DEF Completes
    <3>6. u = t
      BY <1>7, <3>1, <3>5 DEF InvokedBy
    <3> QED BY <3>1, <3>6
  <2> QED BY <2>1, <2>2, <2>3
<1> QED BY <1>2, <1>3, <1>4, <1>6, <1>8, <1>9

\* No operation begins, ends or takes effect.
OperationsStay ==
  /\ UNCHANGED log
  /\ \A t \in Thread : /\ pc'[t] \in {"copy", "effect", "ok"} <=> pc[t] \in {"copy", "effect", "ok"}
                       /\ pc[t] \in {"copy", "effect", "ok"} => kind'[t] = kind[t]

LEMMA InvokedStay ==
  ASSUME OperationsStay
  PROVE  /\ Invocations' = Invocations /\ Ended' = Ended
         /\ \A i \in Invocations : \A t \in Thread : InvokedBy(i, t)' <=> InvokedBy(i, t)
         /\ \A i \in Invocations : ValueOf(i)' = ValueOf(i) /\ CompletionOf(i)' = CompletionOf(i)
<1>1. Invocations' = Invocations
  BY DEF OperationsStay, Invocations
<1>2. Ended' = Ended
  BY <1>1 DEF OperationsStay, Ended, Completes
<1>3. \A i \in Invocations : \A t \in Thread : InvokedBy(i, t)' <=> InvokedBy(i, t)
  BY DEF OperationsStay, InvokedBy
<1>4. \A i \in Invocations : CompletionOf(i)' = CompletionOf(i)
  BY DEF OperationsStay, CompletionOf
<1>5. \A i \in Invocations : ValueOf(i)' = ValueOf(i)
  BY <1>4 DEF OperationsStay, ValueOf
<1> QED BY <1>1, <1>2, <1>3, <1>4, <1>5

\* The steps that are of this kind.
LEMMA MainIsQuiet ==
  ASSUME IInv, Main
  PROVE  /\ OperationsStay /\ UNCHANGED <<buffer, register>>
         /\ \A t \in Thread : pc'[t] = "ok" <=> pc[t] = "ok"
<1>1. ASSUME main \in {"run", "fill"}, next[1] <= Rounds, next[2] < NClients, NEW k, StartThread(next, k), UNCHANGED log
      PROVE  OperationsStay /\ \A t \in Thread : pc'[t] = "ok" <=> pc[t] = "ok"
  <2>1. next \in Thread /\ ~ Started(next)
    <3>1. /\ Rounds \in 1 .. 2 /\ NClients \in Nat \ {0} /\ 0 .. NClients - 1 \subseteq Client
          /\ next \in (1 .. Rounds + 1) \X (0 .. NClients)
      BY ProgramShape DEF IInv, TypeOK, MainInOrder
    <3> QED BY <1>1, <3>1 DEF Thread, Started
  <2>2. pc[next] = "none"
    BY <2>1 DEF IInv, MainInOrder
  <2>3. /\ pc \in [Thread -> {"none", "invoke", "copy", "effect", "ok", "done"}] /\ kind \in [Thread -> Kind]
        /\ pc' = [pc EXCEPT ![next] = "invoke"] /\ kind' = [kind EXCEPT ![next] = k]
    BY <1>1 DEF IInv, TypeOK, StartThread
  <2>4. \A t \in Thread : t # next => pc'[t] = pc[t] /\ kind'[t] = kind[t]
    BY <2>3
  <2>5. pc'[next] = "invoke"
    BY <2>1, <2>3
  <2> QED BY <1>1, <2>2, <2>4, <2>5 DEF OperationsStay
<1>2. CASE StartGet
  BY <1>1, <1>2 DEF StartGet, Starting
<1>3. CASE StartPut
  BY <1>1, <1>3 DEF StartPut, IInv, MainInOrder
<1>4. CASE UNCHANGED <<pc, kind, buffer, register, log>>
  BY <1>4 DEF OperationsStay
<1> QED BY <1>2, <1>3, <1>4 DEF Main, CreateClients, ClearValue, RoundEnds, Joined, DeleteClient

\* The entry a thread makes.
LEMMA ThreadEntry ==
  ASSUME IInv, NEW t \in Thread, NEW type \in {"invoke", "ok"}, NEW v \in Value, LogEntry(t, type, v)
  PROVE  \E e \in Entry : /\ log' = Append(log, e)
                          /\ e.process = t[2] /\ e.type = type /\ e.f = kind[t] /\ e.value = v
<1> DEFINE e == [process |-> t[2], type |-> type, f |-> kind[t], value |-> v]
<1>1. t[2] \in Client /\ kind[t] \in Kind
  BY DEF IInv, TypeOK, Thread
<1>2. e \in Entry /\ log' = Append(log, e)
  BY <1>1 DEF Entry, LogEntry
<1> QED BY <1>2

-----------------------------------------------------------------------------
(* Puts and entries, step by step.                                          *)

\* The array stays the value of the one put that reads it.
LEMMA MainKeepsValue ==
  ASSUME IInv, PutsKeepValue, Main, ~ rebuilt'
  PROVE  PutsKeepValue'
<1>1. CASE CreateClients \/ RoundEnds \/ Joined \/ DeleteClient
  BY <1>1 DEF PutsKeepValue, Reading, CreateClients, RoundEnds, Joined, DeleteClient
<1>2. CASE ClearValue
  BY <1>2 DEF PutsKeepValue, Reading, ClearValue
<1>3. CASE StartGet \/ StartPut
  <2>1. /\ pc \in [Thread -> {"none", "invoke", "copy", "effect", "ok", "done"}] /\ kind \in [Thread -> Kind]
        /\ main \in {"run", "fill"} /\ main' = "run"
    BY <1>3 DEF IInv, TypeOK, StartGet, Starting, StartPut
  <2>2. PICK k \in Kind : pc' = [pc EXCEPT ![next] = "invoke"] /\ kind' = [kind EXCEPT ![next] = k]
    BY <1>3 DEF StartGet, StartPut, StartThread, Kind
  <2>3. \A t \in Thread : t # next => (Reading(t)' <=> Reading(t)) /\ pc'[t] = pc[t]
    BY <2>1, <2>2 DEF Reading
  <2>4. CASE StartGet
    <3>1. \A t \in Thread : Reading(t)' => t # next /\ Reading(t)
      BY <2>1, <2>3, <2>4 DEF StartGet, StartThread, Reading
    <3> QED BY <2>1, <2>3, <2>4, <3>1 DEF PutsKeepValue, StartGet, Starting
  <2>5. CASE StartPut
    <3>1. \A t \in Thread : ~ Reading(t)
      BY <2>5 DEF PutsKeepValue, StartPut
    <3>2. \A t \in Thread : Reading(t)' => t = next
      BY <2>3, <3>1
    <3>3. next \in Thread => pc'[next] = "invoke"
      BY <2>1, <2>2
    <3> QED BY <2>1, <2>5, <3>2, <3>3 DEF PutsKeepValue, StartPut
  <2> QED BY <1>3, <2>4, <2>5
<1> QED BY <1>1, <1>2, <1>3 DEF Main

LEMMA StepKeepsValue ==
  ASSUME IInv, PutsKeepValue, NEW t \in Thread, Step(t)
  PROVE  PutsKeepValue'
<1>1. /\ pc \in [Thread -> {"none", "invoke", "copy", "effect", "ok", "done"}]
      /\ kind \in [Thread -> Kind] /\ buffer \in [Thread -> Value]
  BY DEF IInv, TypeOK
<1>2. /\ UNCHANGED <<main, value, kind>>
      /\ \A u \in Thread : u # t => pc'[u] = pc[u] /\ buffer'[u] = buffer[u]
      /\ pc[t] \in {"invoke", "copy", "effect", "ok"}
  BY <1>1 DEF Step, LogInvoke, CopyValue, TakeEffect, LogOk, Goto
<1>3. ASSUME NEW u \in Thread, Reading(u)' PROVE Reading(u)
  BY <1>2, <1>3 DEF Reading
<1>4. ASSUME Reading(t), pc'[t] \in {"effect", "ok"} PROVE buffer'[t] = t
  <2>1. kind[t] = "put" /\ value = t /\ (pc[t] \in {"effect", "ok"} => buffer[t] = t)
    BY <1>4 DEF PutsKeepValue, Reading
  <2>2. CASE LogInvoke(t)
    BY <1>1, <1>4, <2>1, <2>2 DEF LogInvoke, Goto
  <2>3. CASE CopyValue(t)
    BY <1>1, <2>1, <2>3 DEF CopyValue
  <2>4. CASE TakeEffect(t)
    BY <2>1, <2>4 DEF TakeEffect
  <2>5. CASE LogOk(t)
    BY <1>1, <1>4, <2>5 DEF LogOk, Goto
  <2> QED BY <2>2, <2>3, <2>4, <2>5 DEF Step
<1> QED BY <1>2, <1>3, <1>4 DEF PutsKeepValue

\* A step that is quiet for operations keeps their entries.
LEMMA QuietKeepsEntries ==
  ASSUME EntriesHaveThreads, OperationsStay
  PROVE  EntriesHaveThreads'
<1>1. /\ Invocations' = Invocations /\ Ended' = Ended
      /\ \A i \in Invocations : \A t \in Thread : InvokedBy(i, t)' <=> InvokedBy(i, t)
  BY InvokedStay
<1>2. \A t \in Thread : pc'[t] \in {"copy", "effect", "ok"} <=> pc[t] \in {"copy", "effect", "ok"}
  BY DEF OperationsStay
<1> QED BY <1>1, <1>2 DEF EntriesHaveThreads

LEMMA StepKeepsEntries ==
  ASSUME IInv, EntriesHaveThreads, NEW t \in Thread, Step(t)
  PROVE  EntriesHaveThreads'
<1>1. /\ pc \in [Thread -> {"none", "invoke", "copy", "effect", "ok", "done"}] /\ value \in Value
      /\ buffer \in [Thread -> Value] /\ log \in Seq(Entry)
  BY DEF IInv, TypeOK
<1>2. t \in Running
  BY DEF Running, Step, LogInvoke, CopyValue, TakeEffect, LogOk
<1>3. CASE CopyValue(t) \/ TakeEffect(t)
  <2>1. OperationsStay
    BY <1>1, <1>3 DEF OperationsStay, CopyValue, TakeEffect, Goto
  <2> QED BY <2>1, QuietKeepsEntries
<1>4. CASE LogInvoke(t)
  <2> DEFINE v == IF kind[t] = "put" THEN value ELSE NoValue
             w == IF kind[t] = "put" THEN "copy" ELSE "effect"
  <2>1. /\ pc[t] = "invoke" /\ LogEntry(t, "invoke", v) /\ v \in Value /\ Goto(t, w) /\ UNCHANGED kind
        /\ w \in {"copy", "effect"}
    BY <1>1, <1>4 DEF LogInvoke, Value
  <2> HIDE DEF v, w
  <2>2. PICK e \in Entry : log' = Append(log, e) /\ e.process = t[2] /\ e.type = "invoke" /\ e.f = kind[t]
    BY <2>1, ThreadEntry
  <2>3. PICK n : n = Len(log) + 1
    OBVIOUS
  <2>4. /\ LogGrows /\ Len(log') = n /\ log'[n] = e
        /\ Invocations' = Invocations \cup {n}
        /\ \A i \in Invocations : i \in Ended' <=> i \in Ended \/ InvokedBy(i, t)
        /\ \A u \in Thread \ {t} : \A i \in Invocations : InvokedBy(i, u)' <=> InvokedBy(i, u)
    BY <1>2, <2>1, <2>2, <2>3, EntryAdded
  <2>5. pc' = [pc EXCEPT ![t] = w]
    BY <2>1 DEF Goto
  <2>6. InvokedBy(n, t)'
    BY <1>1, <2>1, <2>2, <2>3, <2>4, <2>5 DEF InvokedBy
  <2>7. \A i \in Invocations : ~ InvokedBy(i, t)
    BY <2>1 DEF InvokedBy
  <2>8. ASSUME NEW u \in Thread, pc'[u] \in {"copy", "effect", "ok"}
        PROVE  \E i \in Invocations' : InvokedBy(i, u)'
    <3>1. CASE u = t
      BY <2>4, <2>6, <3>1
    <3>2. CASE u # t
      <4>1. PICK i \in Invocations : InvokedBy(i, u)
        BY <1>1, <2>5, <2>8, <3>2 DEF EntriesHaveThreads
      <4> QED BY <2>4, <3>2, <4>1
    <3> QED BY <3>1, <3>2
  <2>9. ASSUME NEW i \in Invocations', i \notin Ended' PROVE \E u \in Thread : InvokedBy(i, u)'
    <3>1. CASE i = n
      BY <2>6, <3>1
    <3>2. CASE i # n
      <4>1. PICK u \in Thread : InvokedBy(i, u)
        BY <2>4, <2>9, <3>2 DEF EntriesHaveThreads
      <4> QED BY <2>4, <2>7, <2>9, <3>2, <4>1
    <3> QED BY <3>1, <3>2
  <2> QED BY <2>8, <2>9 DEF EntriesHaveThreads
<1>5. CASE LogOk(t)
  <2> DEFINE v == IF kind[t] = "put" THEN value ELSE buffer[t]
  <2>1. pc[t] = "ok" /\ LogEntry(t, "ok", v) /\ v \in Value /\ Goto(t, "done") /\ UNCHANGED kind
    BY <1>1, <1>5 DEF LogOk
  <2> HIDE DEF v
  <2>2. PICK e \in Entry : log' = Append(log, e) /\ e.process = t[2] /\ e.type = "ok"
    BY <2>1, ThreadEntry
  <2>3. PICK n : n = Len(log) + 1
    OBVIOUS
  <2>4. /\ Invocations' = Invocations \cup {i \in {n} : e.type = "invoke"}
        /\ \A i \in Invocations : i \in Ended' <=> i \in Ended \/ InvokedBy(i, t)
        /\ \A u \in Thread \ {t} : \A i \in Invocations : InvokedBy(i, u)' <=> InvokedBy(i, u)
    BY <1>2, <2>1, <2>2, <2>3, EntryAdded
  <2>5. pc' = [pc EXCEPT ![t] = "done"]
    BY <2>1 DEF Goto
  <2>6. Invocations' = Invocations
    BY <2>2, <2>4
  <2>7. ASSUME NEW u \in Thread, pc'[u] \in {"copy", "effect", "ok"}
        PROVE  \E i \in Invocations' : InvokedBy(i, u)'
    BY <1>1, <2>4, <2>5, <2>7, <2>6 DEF EntriesHaveThreads
  <2>8. ASSUME NEW i \in Invocations', i \notin Ended' PROVE \E u \in Thread : InvokedBy(i, u)'
    <3>1. PICK u \in Thread : InvokedBy(i, u)
      BY <2>4, <2>8, <2>6 DEF EntriesHaveThreads
    <3> QED BY <2>4, <2>8, <2>6, <3>1
  <2> QED BY <2>7, <2>8 DEF EntriesHaveThreads
<1> QED BY <1>3, <1>4, <1>5 DEF Step

-----------------------------------------------------------------------------
(* The order that explains the log.                                         *)

\* What has taken effect keeps its value.
EffectsStay ==
  \A j \in Effective : log'[j].f = log[j].f /\ \A v \in Value : Yields(j, v) => Yields(j, v)'

LEMMA LastWrittenStays ==
  ASSUME NEW order, NEW order2, NEW ops, NEW v \in Value, LastWritten(order, ops, v),
         EffectsStay, ops \subseteq Effective, \A j \in ops : order2[j] = order[j]
  PROVE  LastWritten(order2, ops, v)'
<1>1. \A j \in ops : log'[j].f = log[j].f /\ (Yields(j, v) => Yields(j, v)')
  BY DEF EffectsStay
<1>2. CASE v = NoValue /\ \A j \in ops : log[j].f # "put"
  BY <1>1, <1>2 DEF LastWritten
<1>3. CASE \E j \in ops : /\ log[j].f = "put" /\ Yields(j, v)
                          /\ \A m \in ops : log[m].f = "put" => order[m] <= order[j]
  <2>1. PICK j \in ops : /\ log[j].f = "put" /\ Yields(j, v)
                         /\ \A m \in ops : log[m].f = "put" => order[m] <= order[j]
    BY <1>3
  <2>2. log'[j].f = "put" /\ Yields(j, v)'
    BY <1>1, <2>1
  <2>3. \A m \in ops : log'[m].f = "put" => order2[m] <= order2[j]
    BY <1>1, <2>1
  <2> QED BY <2>2, <2>3 DEF LastWritten
<1> QED BY <1>2, <1>3 DEF LastWritten

\* What the gets have read stays explained when what took effect keeps its place.
LEMMA GetsStay ==
  ASSUME NEW order, NEW order2, Explains(order), EffectsStay, NEW E, E = Effective,
         \A j \in E : order2[j] = order[j]
  PROVE  GetsRead(order2, E)'
<1> SUFFICES ASSUME NEW i \in E, log'[i].f = "get"
             PROVE  \E v \in Value : Yields(i, v)' /\ LastWritten(order2, {j \in E : order2[j] < order2[i]}, v)'
  BY DEF GetsRead
<1>1. PICK D : D = {j \in E : order2[j] < order2[i]}
  OBVIOUS
<1>2. D = {j \in Effective : order[j] < order[i]} /\ D \subseteq Effective
  BY <1>1
<1>3. log[i].f = "get"
  BY DEF EffectsStay
<1>4. PICK v \in Value : Yields(i, v) /\ LastWritten(order, D, v)
  BY <1>2, <1>3 DEF Explains, GetsRead
<1>5. Yields(i, v)'
  BY <1>4 DEF EffectsStay
<1>6. LastWritten(order2, D, v)'
  BY <1>1, <1>2, <1>4, LastWrittenStays
<1> QED BY <1>1, <1>5, <1>6

\* A step in which nothing takes effect.
LEMMA ExplainsStays ==
  ASSUME NEW order, NEW order2, Explains(order), EffectsStay, Effective' = Effective,
         register \in Value, register' = register,
         \A j \in Effective : order2[j] = order[j],
         \A i \in Effective, j \in Invocations' \ Effective : order2[i] < order2[j],
         \A i \in Ended', j \in Invocations' : CompletionOf(i)' < j => order2[i] < order2[j]
  PROVE  Explains(order2)'
<1>1. PICK E : E = Effective
  OBVIOUS
<1>2. PICK v \in Value : v = register
  OBVIOUS
<1>3. LastWritten(order2, E, v)'
  BY <1>1, <1>2, LastWrittenStays DEF Explains
<1>4. GetsRead(order2, E)'
  BY <1>1, GetsStay
<1> QED BY <1>1, <1>2, <1>3, <1>4 DEF Explains

\* Orders are permutations of the invocations, numbers up to the length of the log.
LEMMA OrderType ==
  ASSUME log \in Seq(Entry), NEW order \in Bijection(Invocations, Invocations)
  PROVE  /\ order \in [Invocations -> Invocations] /\ Invocations \subseteq 1 .. Len(log) /\ Len(log) \in Nat
         /\ \A i \in Invocations : order[i] \in Nat /\ order[i] <= Len(log)
         /\ \A i, j \in Invocations : order[i] = order[j] => i = j
         /\ \A k \in Invocations : \E i \in Invocations : order[i] = k
<1>1. Invocations \subseteq 1 .. Len(log) /\ Len(log) \in Nat
  BY DEF Invocations
<1>2. /\ order \in [Invocations -> Invocations]
      /\ \A i, j \in Invocations : order[i] = order[j] => i = j
      /\ \A k \in Invocations : \E i \in Invocations : order[i] = k
  BY Fun_BijectionProperties
<1>3. \A i \in Invocations : order[i] \in 1 .. Len(log)
  BY <1>1, <1>2
<1>4. \A k \in 1 .. Len(log) : k \in Nat /\ k <= Len(log)
  BY <1>1
<1> QED BY <1>1, <1>2, <1>3, <1>4

\* Steps that are quiet for operations, and for those that have taken effect.
LEMMA QuietIsExplained ==
  ASSUME IInv, NEW order, Explains(order), OperationsStay, register' = register,
         \A t \in Thread : /\ pc'[t] = "ok" <=> pc[t] = "ok"
                           /\ pc[t] = "ok" => buffer'[t] = buffer[t]
  PROVE  Explains(order)'
<1>1. /\ Invocations' = Invocations /\ Ended' = Ended
      /\ \A i \in Invocations : \A t \in Thread : InvokedBy(i, t)' <=> InvokedBy(i, t)
      /\ \A i \in Invocations : ValueOf(i)' = ValueOf(i) /\ CompletionOf(i)' = CompletionOf(i)
  BY InvokedStay
<1>2. Ended \subseteq Invocations /\ Effective \subseteq Invocations
  BY DEF Ended, Effective
<1>3. Effective' = Effective
  BY <1>1 DEF Effective
<1>4. EffectsStay
  <2> SUFFICES ASSUME NEW j \in Effective, NEW v \in Value, Yields(j, v) PROVE Yields(j, v)'
    BY DEF EffectsStay, OperationsStay
  <2> QED BY <1>1, <1>2 DEF Yields
<1>5. \A i \in Ended', j \in Invocations' : CompletionOf(i)' < j => order[i] < order[j]
  BY <1>1, <1>2 DEF Explains
<1>6. \A i \in Effective, j \in Invocations' \ Effective : order[i] < order[j]
  BY <1>1 DEF Explains
<1>7. register \in Value
  BY DEF IInv, TypeOK
<1> QED BY <1>3, <1>4, <1>5, <1>6, <1>7, ExplainsStays

\* An operation that begins comes last.
LEMMA InvokeIsExplained ==
  ASSUME IInv, EntriesHaveThreads, NEW order \in Bijection(Invocations, Invocations), Explains(order),
         NEW t \in Thread, LogInvoke(t)
  PROVE  \E order2 \in Bijection(Invocations, Invocations)' : Explains(order2)'
<1> DEFINE x == IF kind[t] = "put" THEN value ELSE NoValue
           w == IF kind[t] = "put" THEN "copy" ELSE "effect"
<1>1. /\ log \in Seq(Entry) /\ value \in Value /\ register \in Value
      /\ pc \in [Thread -> {"none", "invoke", "copy", "effect", "ok", "done"}]
  BY DEF IInv, TypeOK
<1>2. /\ pc[t] = "invoke" /\ LogEntry(t, "invoke", x) /\ x \in Value /\ Goto(t, w) /\ w \in {"copy", "effect"}
      /\ UNCHANGED <<kind, buffer, register>> /\ t \in Running
  BY <1>1 DEF LogInvoke, Value, Running
<1> HIDE DEF x, w
<1>3. PICK e \in Entry : log' = Append(log, e) /\ e.process = t[2] /\ e.type = "invoke"
  BY <1>2, ThreadEntry
<1>4. PICK n : n = Len(log) + 1
  OBVIOUS
<1>5. /\ LogGrows
      /\ Invocations' = Invocations \cup {n} /\ n \notin Ended'
      /\ \A i \in Invocations : i \in Ended' <=> i \in Ended \/ InvokedBy(i, t)
      /\ \A u \in Thread \ {t} : /\ ~ InvokedBy(n, u)'
                                 /\ \A i \in Invocations : InvokedBy(i, u)' <=> InvokedBy(i, u)
  BY <1>2, <1>3, <1>4, EntryAdded
<1>6. /\ order \in [Invocations -> Invocations] /\ Invocations \subseteq 1 .. Len(log) /\ Len(log) \in Nat
      /\ \A i \in Invocations : order[i] \in Nat /\ order[i] <= Len(log)
      /\ \A i, j \in Invocations : order[i] = order[j] => i = j
      /\ \A k \in Invocations : \E i \in Invocations : order[i] = k
  BY <1>1, OrderType
<1>7. n \notin Invocations
  BY <1>4, <1>6
<1>8. Ended \subseteq Invocations /\ Effective \subseteq Invocations /\ Ended \subseteq Effective
  BY DEF Ended, Effective
<1>9. Ended' = Ended
  <2>1. \A i \in Invocations : ~ InvokedBy(i, t)
    BY <1>2 DEF InvokedBy
  <2>2. Ended' \subseteq Invocations'
    BY DEF Ended
  <2> QED BY <1>5, <1>8, <2>1, <2>2
<1>10. \A u \in Thread : (pc'[u] = "ok" <=> pc[u] = "ok") /\ (pc[u] = "ok" => u # t)
  BY <1>1, <1>2 DEF Goto
<1>11. Effective' = Effective
  <2>1. ASSUME NEW i \in Invocations', NEW u \in Thread, InvokedBy(i, u)', pc'[u] = "ok"
        PROVE  i \in Effective
    BY <1>5, <1>10, <2>1 DEF Effective
  <2>2. ASSUME NEW i \in Invocations, NEW u \in Thread, InvokedBy(i, u), pc[u] = "ok"
        PROVE  i \in Effective'
    BY <1>5, <1>10, <2>2 DEF Effective
  <2> QED BY <1>8, <1>9, <2>1, <2>2 DEF Effective
<1>12. \A i \in Ended : CompletionOf(i)' = CompletionOf(i) /\ CompletionOf(i) \in i + 1 .. Len(log) /\ ValueOf(i)' = ValueOf(i)
  BY <1>1, <1>5, EndedStay
<1>13. EffectsStay
  <2> SUFFICES ASSUME NEW j \in Effective
               PROVE  log'[j].f = log[j].f /\ \A v \in Value : Yields(j, v) => Yields(j, v)'
    BY DEF EffectsStay
  <2>1. log'[j].f = log[j].f
    BY <1>5, <1>6, <1>8 DEF LogGrows
  <2>2. ASSUME NEW v \in Value, Yields(j, v) PROVE Yields(j, v)'
    BY <1>2, <1>5, <1>8, <1>9, <1>10, <1>12, <2>2 DEF Yields
  <2> QED BY <2>1, <2>2
<1> DEFINE S      == Invocations \cup {n}
           order2 == [i \in S |-> IF i = n THEN n ELSE order[i]]
<1>14. /\ order2[n] = n
       /\ \A i \in Invocations : order2[i] = order[i] /\ order2[i] < n /\ order2[i] # n
  BY <1>4, <1>6, <1>7
<1>15. order2 \in [S -> S]
  BY <1>6
<1> HIDE DEF order2
<1>16. order2 \in Bijection(S, S)
  <2>1. \A a, b \in S : order2[a] = order2[b] => a = b
    <3> SUFFICES ASSUME NEW a \in S, NEW b \in S, order2[a] = order2[b] PROVE a = b
      OBVIOUS
    <3>1. CASE a \in Invocations /\ b \in Invocations
      BY <1>6, <1>14, <3>1
    <3>2. CASE a = n \/ b = n
      BY <1>14, <3>2
    <3> QED BY <3>1, <3>2
  <2>2. \A k \in S : \E a \in S : order2[a] = k
    BY <1>6, <1>14
  <2> QED BY <1>15, <2>1, <2>2, Fun_IsBij
<1>17. PICK o : o = order2
  OBVIOUS
<1>18. \A j \in Effective : o[j] = order[j]
  BY <1>8, <1>14, <1>17
<1>19. \A i \in Effective, j \in Invocations' \ Effective : o[i] < o[j]
  BY <1>5, <1>8, <1>14, <1>17 DEF Explains
<1>20. \A i \in Ended', j \in Invocations' : CompletionOf(i)' < j => o[i] < o[j]
  BY <1>5, <1>8, <1>9, <1>12, <1>14, <1>17 DEF Explains
<1>21. Explains(o)'
  BY <1>1, <1>2, <1>11, <1>13, <1>18, <1>19, <1>20, ExplainsStays
<1> QED BY <1>5, <1>16, <1>17, <1>21

\* The entry of a completion has the value the operation has yielded already.
LEMMA OkIsExplained ==
  ASSUME IInv, EntriesHaveThreads, PutsKeepValue,
         NEW order \in Bijection(Invocations, Invocations), Explains(order), NEW t \in Thread, LogOk(t)
  PROVE  Invocations' = Invocations /\ Explains(order)'
<1> DEFINE x == IF kind[t] = "put" THEN value ELSE buffer[t]
<1>1. /\ log \in Seq(Entry) /\ value \in Value /\ register \in Value /\ buffer \in [Thread -> Value]
      /\ pc \in [Thread -> {"none", "invoke", "copy", "effect", "ok", "done"}]
  BY DEF IInv, TypeOK
<1>2. /\ pc[t] = "ok" /\ LogEntry(t, "ok", x) /\ x \in Value /\ Goto(t, "done")
      /\ UNCHANGED <<kind, buffer, register>> /\ t \in Running
  BY <1>1 DEF LogOk, Running
<1>3. x = buffer[t]
  BY <1>2 DEF PutsKeepValue, Reading
<1> HIDE DEF x
<1>4. PICK e \in Entry : log' = Append(log, e) /\ e.process = t[2] /\ e.type = "ok" /\ e.value = x
  BY <1>2, ThreadEntry
<1>5. PICK n : n = Len(log) + 1
  OBVIOUS
<1>6. /\ LogGrows /\ Len(log') = n /\ log'[n] = e
      /\ Invocations' = Invocations \cup {i \in {n} : e.type = "invoke"}
      /\ \A i \in Invocations : i \in Ended' <=> i \in Ended \/ InvokedBy(i, t)
      /\ \A u \in Thread \ {t} : \A i \in Invocations : InvokedBy(i, u)' <=> InvokedBy(i, u)
  BY <1>2, <1>4, <1>5, EntryAdded
<1>7. Invocations' = Invocations
  BY <1>4, <1>6
<1>8. /\ order \in [Invocations -> Invocations] /\ Invocations \subseteq 1 .. Len(log) /\ Len(log) \in Nat
  BY <1>1, OrderType
<1>9. Ended \subseteq Invocations /\ Ended' \subseteq Invocations /\ Effective \subseteq Invocations /\ Ended \subseteq Effective
  BY <1>7 DEF Ended, Effective
<1>10. \A u \in Thread : pc'[u] = IF u = t THEN "done" ELSE pc[u]
  BY <1>1, <1>2 DEF Goto
<1>11. Effective' = Effective
  <2>1. ASSUME NEW i \in Invocations, NEW u \in Thread, InvokedBy(i, u)', pc'[u] = "ok"
        PROVE  i \in Effective
    BY <1>6, <1>10, <2>1 DEF Effective
  <2>2. ASSUME NEW i \in Invocations, NEW u \in Thread, InvokedBy(i, u), pc[u] = "ok"
        PROVE  i \in Effective'
    BY <1>6, <1>7, <1>10, <2>2 DEF Effective
  <2>3. \A i \in Ended' : i \in Effective
    BY <1>2, <1>6, <1>9 DEF Effective
  <2>4. \A i \in Ended : i \in Effective'
    BY <1>6, <1>9 DEF Effective
  <2> QED BY <1>7, <2>1, <2>2, <2>3, <2>4 DEF Effective
<1>12. \A i \in Ended : CompletionOf(i)' = CompletionOf(i) /\ ValueOf(i)' = ValueOf(i)
  BY <1>1, <1>6, EndedStay
<1>13. ASSUME NEW i \in Invocations, InvokedBy(i, t)
       PROVE  CompletionOf(i)' = n /\ ValueOf(i)' = buffer[t]
  <2>1. i \in Nat /\ i <= Len(log) /\ log'[i] = log[i]
    BY <1>6, <1>8 DEF LogGrows
  <2>2. \A m \in i + 1 .. n - 1 : log'[m].process # log'[i].process
    BY <1>5, <1>6, <1>8, <1>13, <2>1 DEF InvokedBy, LogGrows
  <2>3. log'[n].process = log'[i].process
    BY <1>4, <1>6, <1>13, <2>1 DEF InvokedBy
  <2>4. n > i /\ n \in i + 1 .. Len(log')
    BY <1>5, <1>6, <1>8, <2>1
  <2>5. Completes(n, i)'
    BY <2>2, <2>3, <2>4 DEF Completes
  <2>6. CompletionOf(i)' = n
    BY <1>6, <1>7, <2>4, <2>5, CompletionIsNext DEF LogGrows
  <2> QED BY <1>3, <1>4, <1>6, <2>6 DEF ValueOf
<1>14. EffectsStay
  <2> SUFFICES ASSUME NEW j \in Effective
               PROVE  log'[j].f = log[j].f /\ \A v \in Value : Yields(j, v) => Yields(j, v)'
    BY DEF EffectsStay
  <2>1. log'[j].f = log[j].f
    BY <1>6, <1>8, <1>9 DEF LogGrows
  <2>2. ASSUME NEW v \in Value, Yields(j, v) PROVE Yields(j, v)'
    <3>1. CASE j \in Ended /\ ValueOf(j) = v
      BY <1>6, <1>9, <1>12, <3>1 DEF Yields
    <3>2. CASE \E u \in Thread : InvokedBy(j, u) /\ pc[u] = "ok" /\ buffer[u] = v
      <4>1. PICK u \in Thread : InvokedBy(j, u) /\ pc[u] = "ok" /\ buffer[u] = v
        BY <3>2
      <4>2. CASE u = t
        BY <1>6, <1>9, <1>13, <4>1, <4>2 DEF Yields
      <4>3. CASE u # t
        BY <1>2, <1>6, <1>9, <1>10, <4>1, <4>3 DEF Yields
      <4> QED BY <4>2, <4>3
    <3> QED BY <2>2, <3>1, <3>2 DEF Yields
  <2> QED BY <2>1, <2>2
<1>15. \A i \in Effective, j \in Invocations' \ Effective : order[i] < order[j]
  BY <1>7 DEF Explains
<1>16. ASSUME NEW i \in Ended', NEW j \in Invocations', CompletionOf(i)' < j PROVE order[i] < order[j]
  <2>1. ~ (n < j)
    BY <1>5, <1>7, <1>8
  <2>2. i \in Ended
    BY <1>6, <1>9, <1>13, <1>16, <2>1
  <2> QED BY <1>7, <1>12, <1>16, <2>2 DEF Explains
<1>17. Explains(order)'
  BY <1>1, <1>2, <1>11, <1>14, <1>15, <1>16, ExplainsStays
<1> QED BY <1>7, <1>17

\* A get among some operations does not change what the last put has written.
LEMMA GetsWriteNothing ==
  ASSUME NEW order, NEW ops, NEW v, NEW k, log[k].f # "put", LastWritten(order, ops, v)
  PROVE  LastWritten(order, ops \cup {k}, v)
<1>1. CASE v = NoValue /\ \A j \in ops : log[j].f # "put"
  BY <1>1 DEF LastWritten
<1>2. CASE \E j \in ops : /\ log[j].f = "put" /\ Yields(j, v)
                          /\ \A m \in ops : log[m].f = "put" => order[m] <= order[j]
  BY <1>2 DEF LastWritten
<1> QED BY <1>1, <1>2 DEF LastWritten

LEMMA GetsWriteNothingNext ==
  (\A order, ops, v, k : log[k].f # "put" /\ LastWritten(order, ops, v) => LastWritten(order, ops \cup {k}, v))'
<1>1. \A order, ops, v, k : log[k].f # "put" /\ LastWritten(order, ops, v) => LastWritten(order, ops \cup {k}, v)
  BY GetsWriteNothing
<1> QED BY <1>1, PTL

\* An order of the operations I that keeps those of E where they are, first, and has
\* k next.
HasNext(order2, order, I, E, k) ==
  /\ \A i \in E : order2[i] = order[i]
  /\ \A i \in E, j \in I \ E : order2[i] < order2[j]
  /\ \A j \in I \ E : j # k => order2[k] < order2[j]

\* An operation can be put before all others that have not taken effect: it changes
\* its place with the first of them.
LEMMA CanComeFirst ==
  ASSUME NEW I \in SUBSET Nat, NEW order \in Bijection(I, I), NEW E \in SUBSET I, NEW k \in I \ E,
         \A i \in E, j \in I \ E : order[i] < order[j]
  PROVE  \E order2 \in Bijection(I, I) : HasNext(order2, order, I, E, k)
<1>1. /\ order \in [I -> I]
      /\ \A i, j \in I : order[i] = order[j] => i = j
      /\ \A x \in I : \E i \in I : order[i] = x
  BY Fun_BijectionProperties
<1> DEFINE P == {order[j] : j \in I \ E}
<1>2. P \in SUBSET Nat /\ P # {}
  BY <1>1
<1>3. PICK p \in P : \A x \in P : p <= x
  <2> HIDE DEF P
  <2> QED BY <1>2, LeastExists
<1>4. PICK m \in I \ E : order[m] = p
  BY <1>3
<1>5. \A j \in I \ E : order[m] <= order[j]
  BY <1>3, <1>4
<1> DEFINE order2 == [i \in I |-> IF i = k THEN order[m] ELSE IF i = m THEN order[k] ELSE order[i]]
<1>6. /\ order2 \in [I -> I] /\ order2[k] = order[m] /\ (m # k => order2[m] = order[k])
      /\ \A i \in I : i # k /\ i # m => order2[i] = order[i]
  BY <1>1
<1> HIDE DEF order2, P
<1>7. order2 \in Bijection(I, I)
  <2>1. ASSUME NEW a \in I, NEW b \in I, order2[a] = order2[b] PROVE a = b
    BY <1>1, <1>6, <2>1
  <2>2. ASSUME NEW x \in I PROVE \E a \in I : order2[a] = x
    <3>1. PICK a \in I : order[a] = x
      BY <1>1
    <3>2. CASE a = k
      BY <1>6, <3>1, <3>2
    <3>3. CASE a = m
      BY <1>6, <3>1, <3>3
    <3>4. CASE a # k /\ a # m
      BY <1>6, <3>1, <3>4
    <3> QED BY <3>2, <3>3, <3>4
  <2> QED BY <1>6, <2>1, <2>2, Fun_IsBij
<1>8. \A i \in E : order2[i] = order[i]
  BY <1>6
<1>9. \A i \in E, j \in I \ E : order2[i] < order2[j]
  BY <1>6, <1>8
<1>10. ASSUME NEW j \in I \ E, j # k PROVE order2[k] < order2[j]
  <2>1. \A i \in I : order[i] \in Nat
    BY <1>1
  <2>2. CASE j = m
    <3>1. order[m] <= order[k] /\ order[m] # order[k]
      BY <1>1, <1>5, <1>10, <2>2
    <3> QED BY <1>6, <1>10, <2>1, <2>2, <3>1
  <2>3. CASE j # m
    <3>1. order[m] <= order[j] /\ order[m] # order[j]
      BY <1>1, <1>5, <2>3
    <3> QED BY <1>6, <1>10, <2>1, <2>3, <3>1
  <2> QED BY <2>2, <2>3
<1> QED BY <1>7, <1>8, <1>9, <1>10 DEF HasNext

\* An operation that takes effect comes after all that have and before all others.
LEMMA EffectIsExplained ==
  ASSUME IInv, EntriesHaveThreads, NEW order \in Bijection(Invocations, Invocations), Explains(order),
         NEW t \in Thread, TakeEffect(t)
  PROVE  \E order2 \in Bijection(Invocations, Invocations)' : Explains(order2)'
<1>1. /\ log \in Seq(Entry) /\ register \in Value /\ buffer \in [Thread -> Value] /\ kind \in [Thread -> Kind]
      /\ pc \in [Thread -> {"none", "invoke", "copy", "effect", "ok", "done"}]
  BY DEF IInv, TypeOK
<1>2. /\ pc[t] = "effect" /\ UNCHANGED <<log, kind>>
      /\ \A u \in Thread : pc'[u] = IF u = t THEN "ok" ELSE pc[u]
      /\ \A u \in Thread : u # t => buffer'[u] = buffer[u]
  BY <1>1 DEF TakeEffect, Goto
<1>3. OperationsStay
  BY <1>2 DEF OperationsStay
<1>4. /\ Invocations' = Invocations /\ Ended' = Ended
      /\ \A i \in Invocations : \A u \in Thread : InvokedBy(i, u)' <=> InvokedBy(i, u)
      /\ \A i \in Invocations : ValueOf(i)' = ValueOf(i) /\ CompletionOf(i)' = CompletionOf(i)
  BY <1>3, InvokedStay
<1>5. PICK k \in Invocations : InvokedBy(k, t)
  BY <1>2 DEF EntriesHaveThreads
<1>6. PICK E : E = Effective
  OBVIOUS
<1>7. PICK I : I = Invocations
  OBVIOUS
<1>8. I \in SUBSET Nat /\ E \in SUBSET I /\ Ended \subseteq E
  <2>1. I \subseteq 1 .. Len(log)
    BY <1>1, <1>7 DEF Invocations
  <2>2. Ended \subseteq Invocations
    BY DEF Ended
  <2>3. Ended \subseteq Effective /\ Effective \subseteq Invocations
    BY <2>2 DEF Effective
  <2> QED BY <1>6, <1>7, <2>1, <2>3
<1>9. k \in I \ E
  <2>1. k \notin Ended
    BY <1>5, InvokedIsOpen
  <2>2. \A u \in Thread : InvokedBy(k, u) => u = t
    BY <1>5, OneInvoker
  <2> QED BY <1>2, <1>6, <1>7, <2>1, <2>2 DEF Effective
<1>10. Effective' = E \cup {k}
  <2>1. ASSUME NEW i \in Invocations, NEW u \in Thread, InvokedBy(i, u), pc'[u] = "ok"
        PROVE  i \in E \cup {k}
    <3>1. CASE u = t
      BY <1>1, <1>5, <2>1, <3>1, OneInvocation
    <3>2. CASE u # t
      BY <1>2, <1>6, <2>1, <3>2 DEF Effective
    <3> QED BY <3>1, <3>2
  <2>2. k \in Effective'
    BY <1>2, <1>4, <1>5 DEF Effective
  <2>3. ASSUME NEW i \in E PROVE i \in Effective'
    BY <1>2, <1>4, <1>6 DEF Effective
  <2> QED BY <1>4, <1>8, <2>1, <2>2, <2>3 DEF Effective
<1>11. EffectsStay
  <2> SUFFICES ASSUME NEW j \in Effective, NEW v \in Value, Yields(j, v) PROVE Yields(j, v)'
    BY <1>2 DEF EffectsStay
  <2>1. j \in Invocations
    BY <1>6, <1>7, <1>8
  <2> QED BY <1>2, <1>4, <2>1 DEF Yields
<1>12. \A i \in E, j \in I \ E : order[i] < order[j]
  BY <1>6, <1>7 DEF Explains
<1>13. order \in Bijection(I, I)
  BY <1>7
<1>14. PICK o \in Bijection(I, I) :
         /\ \A i \in E : o[i] = order[i]
         /\ \A i \in E, j \in I \ E : o[i] < o[j]
         /\ \A j \in I \ E : j # k => o[k] < o[j]
  <2>1. PICK o \in Bijection(I, I) : HasNext(o, order, I, E, k)
    BY <1>8, <1>9, <1>12, <1>13, CanComeFirst
  <2> QED BY <2>1 DEF HasNext
<1>15. \A i \in I : o[i] \in Nat
  BY <1>8, <1>14, Fun_BijectionProperties
<1>16. \A i \in E \cup {k}, j \in I \ (E \cup {k}) : o[i] < o[j]
  BY <1>14
<1>17. \A i \in Ended', j \in Invocations' : CompletionOf(i)' < j => o[i] < o[j]
  <2> SUFFICES ASSUME NEW i \in Ended, NEW j \in Invocations, CompletionOf(i) < j PROVE o[i] < o[j]
    BY <1>4, <1>7, <1>8
  <2>1. CASE j \in E
    <3>1. order[i] < order[j]
      BY DEF Explains
    <3> QED BY <1>8, <1>14, <2>1, <3>1
  <2>2. CASE j \notin E
    BY <1>7, <1>8, <1>14, <2>2
  <2> QED BY <2>1, <2>2
<1>18. PICK r \in Value : r = register
  BY <1>1
<1>19. LastWritten(o, E, r)'
  BY <1>6, <1>11, <1>14, <1>18, LastWrittenStays DEF Explains
<1>20. GetsRead(o, E)'
  BY <1>6, <1>11, <1>14, GetsStay
<1>21. log'[k].f = kind[t] /\ InvokedBy(k, t)' /\ pc'[t] = "ok"
  BY <1>2, <1>4, <1>5 DEF InvokedBy
<1>22. PICK v \in Value : v = buffer'[t]
  BY <1>1 DEF TakeEffect
<1>23. Yields(k, v)'
  BY <1>21, <1>22 DEF Yields
<1>24. LastWritten(o, E \cup {k}, register)'
  <2>1. CASE kind[t] = "put"
    <3>1. register' = v
      BY <1>22, <2>1 DEF TakeEffect
    <3>2. \A m \in E \cup {k} : o[m] <= o[k]
      BY <1>8, <1>9, <1>14, <1>15
    <3>3. LastWritten(o, E \cup {k}, v)'
      BY <1>21, <1>23, <2>1, <3>2 DEF LastWritten
    <3> QED BY <3>1, <3>3
  <2>2. CASE kind[t] # "put"
    <3>1. register' = r
      BY <1>18, <2>2 DEF TakeEffect
    <3>2. LastWritten(o, E \cup {k}, r)'
      BY <1>19, <1>21, <2>2, GetsWriteNothingNext
    <3> QED BY <3>1, <3>2
  <2> QED BY <2>1, <2>2
<1>25. GetsRead(o, E \cup {k})'
  <2> SUFFICES ASSUME NEW i \in E \cup {k}, log'[i].f = "get"
               PROVE  \E x \in Value : Yields(i, x)' /\ LastWritten(o, {j \in E \cup {k} : o[j] < o[i]}, x)'
    BY DEF GetsRead
  <2>1. CASE i \in E
    <3>1. {j \in E \cup {k} : o[j] < o[i]} = {j \in E : o[j] < o[i]}
      <4>1. ~ (o[k] < o[i])
        <5>1. o[i] < o[k]
          BY <1>9, <1>14, <2>1
        <5>2. o[i] \in Nat /\ o[k] \in Nat
          BY <1>8, <1>9, <1>15, <2>1
        <5> QED BY <5>1, <5>2
      <4> QED BY <4>1
    <3>2. \E x \in Value : Yields(i, x)' /\ LastWritten(o, {j \in E : o[j] < o[i]}, x)'
      BY <1>20, <2>1 DEF GetsRead
    <3> QED BY <3>1, <3>2
  <2>2. CASE i = k
    <3>1. {j \in E \cup {k} : o[j] < o[i]} = E
      <4>1. \A j \in E : o[j] < o[k]
        BY <1>9, <1>14
      <4>2. ~ (o[k] < o[k])
        BY <1>9, <1>15
      <4> QED BY <2>2, <4>1, <4>2
    <3>2. v = r
      BY <1>1, <1>18, <1>21, <1>22, <2>2 DEF TakeEffect
    <3> QED BY <1>19, <1>23, <2>2, <3>1, <3>2
  <2> QED BY <2>1, <2>2
<1>26. Explains(o)'
  BY <1>4, <1>7, <1>10, <1>16, <1>17, <1>24, <1>25 DEF Explains
<1> QED BY <1>4, <1>7, <1>14, <1>26

-----------------------------------------------------------------------------
(* The invariant, and linearizability.                                      *)

LEMMA InitLogInv == Init => LogInv
<1> SUFFICES ASSUME Init PROVE LogInv
  OBVIOUS
<1>1. Invocations = {} /\ Ended = {} /\ Effective = {}
  <2>1. Len(log) = 0
    BY DEF Init
  <2> QED BY <2>1 DEF Invocations, Ended, Effective
<1>2. EntriesHaveThreads
  BY <1>1 DEF Init, EntriesHaveThreads
<1>3. PutsKeepValue
  BY DEF Init, PutsKeepValue, Reading
<1>4. \E order \in Bijection(Invocations, Invocations) : Explains(order)
  <2> DEFINE o == [i \in {} |-> i]
  <2>1. o \in [{} -> {}]
    OBVIOUS
  <2> HIDE DEF o
  <2>2. o \in Bijection({}, {})
    BY <2>1, Fun_IsBij
  <2>3. LastWritten(o, Effective, register) /\ GetsRead(o, Effective)
    BY <1>1 DEF Init, LastWritten, GetsRead
  <2>4. Explains(o)
    BY <1>1, <2>3 DEF Explains
  <2> QED BY <1>1, <2>2, <2>4
<1> QED BY <1>2, <1>3, <1>4, InitIInv DEF LogInv

\* Every step of the program keeps it, as long as no array is rebuilt under a put.
LEMMA StepLogInv == LogInv /\ [Next]_vars => LogInv'
<1> SUFFICES ASSUME LogInv, [Next]_vars PROVE LogInv'
  OBVIOUS
<1>1. IInv /\ EntriesHaveThreads /\ IInv'
  BY StepIInv DEF LogInv
<1>2. ~ rebuilt' => ~ rebuilt
  BY DEF Next, vars, Main, CreateClients, StartGet, ClearValue, StartPut, RoundEnds, Joined, DeleteClient,
         Step, LogInvoke, CopyValue, TakeEffect, LogOk
<1>3. CASE Main
  <2>1. /\ OperationsStay /\ UNCHANGED <<buffer, register>>
        /\ \A t \in Thread : pc'[t] = "ok" <=> pc[t] = "ok"
    BY <1>1, <1>3, MainIsQuiet
  <2>2. EntriesHaveThreads'
    BY <1>1, <2>1, QuietKeepsEntries
  <2>3. ASSUME ~ rebuilt'
        PROVE  PutsKeepValue' /\ \E order \in Bijection(Invocations, Invocations)' : Explains(order)'
    <3>1. PutsKeepValue'
      BY <1>1, <1>2, <1>3, <2>3, MainKeepsValue DEF LogInv
    <3>2. PICK order \in Bijection(Invocations, Invocations) : Explains(order)
      BY <1>2, <2>3 DEF LogInv
    <3>3. Explains(order)'
      BY <1>1, <2>1, <3>2, QuietIsExplained
    <3>4. Invocations' = Invocations
      BY <2>1, InvokedStay
    <3> QED BY <3>1, <3>2, <3>3, <3>4
  <2> QED BY <1>1, <2>2, <2>3 DEF LogInv
<1>4. CASE \E t \in Thread : Step(t)
  <2>1. PICK t \in Thread : Step(t)
    BY <1>4
  <2>2. EntriesHaveThreads'
    BY <1>1, <2>1, StepKeepsEntries
  <2>3. ASSUME ~ rebuilt'
        PROVE  PutsKeepValue' /\ \E order \in Bijection(Invocations, Invocations)' : Explains(order)'
    <3>1. PutsKeepValue /\ PutsKeepValue'
      BY <1>1, <1>2, <2>1, <2>3, StepKeepsValue DEF LogInv
    <3>2. PICK order \in Bijection(Invocations, Invocations) : Explains(order)
      BY <1>2, <2>3 DEF LogInv
    <3>3. CASE LogInvoke(t)
      BY <1>1, <3>1, <3>2, <3>3, InvokeIsExplained
    <3>4. CASE CopyValue(t)
      <4>1. /\ OperationsStay /\ register' = register
            /\ \A u \in Thread : /\ pc'[u] = "ok" <=> pc[u] = "ok"
                                 /\ pc[u] = "ok" => buffer'[u] = buffer[u]
        BY <1>1, <3>4 DEF IInv, TypeOK, CopyValue, Goto, OperationsStay
      <4>2. Explains(order)' /\ Invocations' = Invocations
        BY <1>1, <3>2, <4>1, QuietIsExplained, InvokedStay
      <4> QED BY <3>1, <3>2, <4>2
    <3>5. CASE TakeEffect(t)
      BY <1>1, <3>1, <3>2, <3>5, EffectIsExplained
    <3>6. CASE LogOk(t)
      <4>1. Invocations' = Invocations /\ Explains(order)'
        BY <1>1, <3>1, <3>2, <3>6, OkIsExplained
      <4> QED BY <3>1, <3>2, <4>1
    <3> QED BY <2>1, <3>3, <3>4, <3>5, <3>6 DEF Step
  <2> QED BY <1>1, <2>2, <2>3 DEF LogInv
<1>5. CASE UNCHANGED vars
  <2>1. OperationsStay /\ UNCHANGED <<pc, kind, main, value, buffer, register, rebuilt>>
    BY <1>5 DEF vars, OperationsStay
  <2>2. EntriesHaveThreads'
    BY <1>1, <2>1, QuietKeepsEntries
  <2>3. ASSUME ~ rebuilt'
        PROVE  PutsKeepValue' /\ \E order \in Bijection(Invocations, Invocations)' : Explains(order)'
    <3>1. PutsKeepValue'
      BY <1>2, <2>1, <2>3 DEF LogInv, PutsKeepValue, Reading
    <3>2. PICK order \in Bijection(Invocations, Invocations) : Explains(order)
      BY <1>2, <2>3 DEF LogInv
    <3>3. Explains(order)' /\ Invocations' = Invocations
      BY <1>1, <2>1, <3>2, QuietIsExplained, InvokedStay
    <3> QED BY <3>1, <3>2, <3>3
  <2> QED BY <1>1, <2>2, <2>3 DEF LogInv
<1> QED BY <1>3, <1>4, <1>5 DEF Next

\* What has been logged so far is explained by an order of the operations, for any
\* number of clients.
THEOREM LogIsExplained == Spec => []LogInv
<1> QED BY InitLogInv, StepLogInv, PTL DEF Spec

\* When all operations have ended, that order linearizes the log.
LEMMA ExplainedIsLinearizable ==
  ASSUME LogInv, NEW order \in Bijection(Invocations, Invocations), Explains(order), Running = {}
  PROVE  Linearizes(order)
<1>1. log \in Seq(Entry)
  BY DEF LogInv, IInv, TypeOK
<1>2. \A t \in Thread : pc[t] \notin {"copy", "effect", "ok"}
  BY DEF Running
<1>3. \A i \in Invocations : \A t \in Thread : ~ InvokedBy(i, t)
  BY <1>2 DEF InvokedBy
<1>4. Ended = Invocations /\ Effective = Invocations
  <2>1. \A i \in Invocations : i \in Ended
    BY <1>3 DEF LogInv, EntriesHaveThreads
  <2>2. Ended = Invocations
    BY <2>1 DEF Ended
  <2> QED BY <1>3, <2>2 DEF Effective
<1>5. /\ \A i \in Invocations : order[i] \in Nat
      /\ \A i, j \in Invocations : order[i] = order[j] => i = j
  BY <1>1, OrderType
<1>6. \A i, j \in Invocations : CompletionOf(i) < j => order[i] < order[j]
  BY <1>4 DEF Explains
<1>7. \A i \in Invocations, v \in Value : Yields(i, v) => ValueOf(i) = v
  BY <1>3 DEF Yields
<1>8. ASSUME NEW i \in Invocations, log[i].f = "get" PROVE ValueOf(i) = Before(order, i)
  <2> DEFINE puts == {j \in Invocations : log[j].f = "put" /\ order[j] < order[i]}
  <2>1. PICK D : D = {j \in Invocations : order[j] < order[i]}
    OBVIOUS
  <2>2. PICK v \in Value : Yields(i, v) /\ LastWritten(order, D, v)
    BY <1>4, <1>8, <2>1 DEF Explains, GetsRead
  <2>3. ValueOf(i) = v
    BY <1>7, <2>2
  <2>4. CASE v = NoValue /\ \A j \in D : log[j].f # "put"
    <3>1. puts = {}
      BY <2>1, <2>4
    <3> QED BY <2>3, <2>4, <3>1 DEF Before
  <2>5. CASE \E j \in D : /\ log[j].f = "put" /\ Yields(j, v)
                          /\ \A m \in D : log[m].f = "put" => order[m] <= order[j]
    <3>1. PICK j \in D : /\ log[j].f = "put" /\ Yields(j, v)
                         /\ \A m \in D : log[m].f = "put" => order[m] <= order[j]
      BY <2>5
    <3>2. j \in puts /\ \A m \in puts : order[m] <= order[j]
      BY <2>1, <3>1
    <3>3. ASSUME NEW k \in puts, \A m \in puts : order[m] <= order[k] PROVE k = j
      <4>1. order[k] <= order[j] /\ order[j] <= order[k]
        BY <3>2, <3>3
      <4>2. order[k] = order[j]
        BY <1>5, <3>2, <4>1
      <4> QED BY <1>5, <3>2, <4>2
    <3>4. ValueOf(j) = v
      BY <1>7, <3>1, <3>2
    <3> HIDE DEF puts
    <3>5. (CHOOSE k \in puts : \A m \in puts : order[m] <= order[k]) = j
      BY <3>2, <3>3
    <3>6. puts # {}
      BY <3>2
    <3> QED BY <2>3, <3>4, <3>5, <3>6 DEF Before, puts
  <2> QED BY <2>2, <2>4, <2>5 DEF LastWritten
<1> QED BY <1>6, <1>8 DEF Linearizes

\* A program whose array was not rebuilt under a put (139-147) leaves a log that is
\* linearizable: Knossos blames only a store that is not.
THEOREM FairTest == Spec => []OnlyRebuiltValueMisleads
<1>1. LogInv => OnlyRebuiltValueMisleads
  <2> SUFFICES ASSUME LogInv, main = "done", ~ rebuilt PROVE Linearizable
    BY DEF OnlyRebuiltValueMisleads
  <2>1. Running = {}
    BY DEF LogInv, IInv, ClientsOutlive
  <2>2. PICK order \in Bijection(Invocations, Invocations) : Explains(order)
    BY DEF LogInv
  <2>3. Linearizes(order)
    BY <2>1, <2>2, ExplainedIsLinearizable
  <2> QED BY <2>2, <2>3 DEF Linearizable
<1> QED BY <1>1, LogIsExplained, PTL
=============================================================================
