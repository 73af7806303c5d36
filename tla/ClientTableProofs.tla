------------------------- MODULE ClientTableProofs -------------------------
(***************************************************************************)
(* Theorems about ClientTable, for every set of threads and ids and every   *)
(* number of clients, servers and late calls.                               *)
(***************************************************************************)
EXTENDS ClientTable, TLAPS

-----------------------------------------------------------------------------
(* Types.                                                                   *)

LEMMA TypeInit == Init => TypeOK
<1> SUFFICES ASSUME Init PROVE TypeOK
  OBVIOUS
<1>1. 0 \in 0 .. MaxClients /\ 0 \in 0 .. N /\ 0 \in 0 .. MaxLate /\ 0 \in 0 .. 2
  BY NAssumption, BoundsAssumption
<1>2. crashed \in BOOLEAN
  BY DEF Init
<1>3. misuse \subseteq {"shared", "raced", "early"}
  BY DEF Init
<1> QED  BY <1>1, <1>2, <1>3 DEF Init, TypeOK

\* The steps of client_instance keep the types.
LEMMA InstanceType ==
  ASSUME TypeOK, OneOwner, NEW t \in Threads,
         \/ \E i \in Ids, proto \in Protocols : NewClient(t, i, proto)
         \/ LockForInsert(t) \/ Insert(t)
  PROVE  TypeOK'
<1>1. ASSUME NEW i \in Ids, NEW proto \in Protocols, NewClient(t, i, proto) PROVE TypeOK'
  <2>1. created' = created + 1 /\ created' \in Handle
    BY <1>1, BoundsAssumption DEF NewClient, TypeOK, Handle
  <2> QED  BY <1>1, <2>1, BoundsAssumption DEF NewClient, TypeOK, table, Goto, Record, Handle
<1>2. CASE LockForInsert(t)
  BY <1>2 DEF LockForInsert, TypeOK, fields, Goto
<1>3. CASE Insert(t)
  <2>1. c[t] \in Handle
    BY <1>3, BoundsAssumption DEF Insert, TypeOK, OneOwner, Registers, Handle
  <2>2. client_list' \in [Ids -> Handle \cup {NoHandle}]
    BY <1>3, <2>1 DEF Insert, TypeOK
  <2>3. owned' \subseteq Handle
    BY <1>3, <2>1 DEF Insert, TypeOK
  <2>4. pc' = [pc EXCEPT ![t] = "idle"] /\ c' = [c EXCEPT ![t] = NoHandle]
    BY <1>3 DEF Insert, Return, Goto
  <2> QED  BY <1>3, <2>2, <2>3, <2>4 DEF Insert, TypeOK, fields
<1> QED  BY <1>1, <1>2, <1>3

\* The steps of an operation keep the types.
LEMMA OperationType ==
  ASSUME TypeOK, OneOwner, PhasesInStep, NEW t \in Threads,
         \/ \E h \in Handle : StartOperation(t, h)
         \/ Lookup(t) \/ LookupMiss(t) \/ Call(t) \/ EndPhase(t)
         \/ \E h \in Handle : LateCall(h)
  PROVE  TypeOK'
<1>1. ASSUME NEW h \in Handle, StartOperation(t, h) PROVE TypeOK'
  BY <1>1 DEF StartOperation, TypeOK, fields, table, Goto
<1>2. CASE Lookup(t)
  <2>1. phase[t] + 1 \in 0 .. 2
    BY <1>2 DEF Lookup, TypeOK, PhasesInStep
  <2>2. PICK i \in IdRead(c[t]) : Holds(i) /\ conn' = [conn EXCEPT ![t] = client_list[i]]
    BY <1>2 DEF Lookup
  <2>3. client_list[i] \in Handle
    BY <2>2 DEF Holds, TypeOK
  <2> QED  BY <1>2, <2>1, <2>2, <2>3, NAssumption DEF Lookup, TypeOK, fields, table, Goto
<1>3. CASE LookupMiss(t)
  BY <1>3 DEF LookupMiss, TypeOK, fields, table, Record
<1>4. CASE Call(t)
  BY <1>4, NAssumption DEF Call, TypeOK, fields, table
<1>5. CASE EndPhase(t)
  <2>1. late' \in [Handle -> 0 .. MaxLate]
    <3>1. CASE conn[t] \in Handle
      <4>1. late[conn[t]] + todo[t] \in 0 .. MaxLate
        BY <1>5, <3>1, NAssumption, BoundsAssumption DEF EndPhase, TypeOK
      <4> QED  BY <1>5, <4>1 DEF EndPhase, TypeOK
    <3>2. CASE conn[t] \notin Handle
      <4>1. late' = late
        BY <1>5, <3>2 DEF EndPhase, TypeOK
      <4> QED  BY <4>1 DEF TypeOK
    <3> QED  BY <3>1, <3>2
  <2>2. todo' \in [Threads -> 0 .. N] /\ conn' \in [Threads -> Handle \cup {NoHandle}]
    BY <1>5, NAssumption DEF EndPhase, TypeOK
  <2>3. phase' \in [Threads -> 0 .. 2]
    BY <1>5 DEF EndPhase, TypeOK
  <2>4. /\ pc' = [pc EXCEPT ![t] = "idle"] \/ pc' = [pc EXCEPT ![t] = "lookup"]
        /\ c' = [c EXCEPT ![t] = NoHandle] \/ c' = c
    BY <1>5 DEF EndPhase, Goto, Return
  <2> QED  BY <1>5, <2>1, <2>2, <2>3, <2>4 DEF EndPhase, TypeOK, fields, table
<1>6. ASSUME NEW h \in Handle, LateCall(h) PROVE TypeOK'
  BY <1>6, BoundsAssumption DEF LateCall, TypeOK, fields, table
<1> QED  BY <1>1, <1>2, <1>3, <1>4, <1>5, <1>6

\* The steps of client_delete keep the types.
LEMMA DeleteType ==
  ASSUME TypeOK, NEW t \in Threads,
         \/ \E h \in Handle : StartDelete(t, h)
         \/ LockForErase(t) \/ Erase(t) \/ EraseNothing(t)
  PROVE  TypeOK'
<1>1. ASSUME NEW h \in Handle, StartDelete(t, h) PROVE TypeOK'
  BY <1>1 DEF StartDelete, TypeOK, fields, table, Goto
<1>2. CASE LockForErase(t)
  BY <1>2 DEF LockForErase, TypeOK, fields, Goto
<1>3. CASE Erase(t)
  BY <1>3 DEF Erase, TypeOK, Holds, fields, Goto, Return, Record
<1>4. CASE EraseNothing(t)
  BY <1>4 DEF EraseNothing, TypeOK, fields, table, Goto, Return
<1> QED  BY <1>1, <1>2, <1>3, <1>4

-----------------------------------------------------------------------------
(* The unconditional parts of the invariant.                                *)

\* Every step is one of these.
LEMMA Steps ==
  ASSUME [Next]_vars
  PROVE  \/ UNCHANGED vars
         \/ \E h \in Handle : LateCall(h)
         \/ \E t \in Threads :
              \/ \E i \in Ids, proto \in Protocols : NewClient(t, i, proto)
              \/ \E h \in Handle : StartOperation(t, h) \/ StartDelete(t, h)
              \/ LockForInsert(t) \/ Insert(t)
              \/ Lookup(t) \/ LookupMiss(t) \/ Call(t) \/ EndPhase(t)
              \/ LockForErase(t) \/ Erase(t) \/ EraseNothing(t)
BY DEF Next, Begin, Continue

\* A client keeps having one owner.
LEMMA OneOwnerStep ==
  ASSUME TypeOK, OneOwner, [Next]_vars
  PROVE  OneOwner'
<1>1. CASE UNCHANGED vars \/ \E h \in Handle : LateCall(h)
  BY <1>1 DEF LateCall, OneOwner, Registers, Deletes, Operates, vars, fields
<1>2. ASSUME NEW t \in Threads, NEW i \in Ids, NEW proto \in Protocols, NewClient(t, i, proto)
      PROVE  OneOwner'
  <2>1. created' = created + 1 /\ created \in Nat
    BY <1>2, BoundsAssumption DEF NewClient, TypeOK
  <2> QED
    BY <1>2, <2>1 DEF NewClient, TypeOK, OneOwner, Registers, Deletes, Operates, Goto
<1>3. ASSUME NEW t \in Threads, NEW h \in Handle, StartOperation(t, h) PROVE OneOwner'
  BY <1>3 DEF StartOperation, TypeOK, OneOwner, Registers, Deletes, Operates, Goto, fields
<1>4. ASSUME NEW t \in Threads, NEW h \in Handle, StartDelete(t, h) PROVE OneOwner'
  BY <1>4 DEF StartDelete, TypeOK, OneOwner, Registers, Deletes, Operates, Goto, fields
<1>5. ASSUME NEW t \in Threads, LockForInsert(t) PROVE OneOwner'
  BY <1>5 DEF LockForInsert, TypeOK, OneOwner, Registers, Deletes, Operates, Goto, fields
<1>6. ASSUME NEW t \in Threads, Insert(t) PROVE OneOwner'
  BY <1>6 DEF Insert, TypeOK, OneOwner, Registers, Deletes, Operates, Goto, Return, fields
<1>7. ASSUME NEW t \in Threads, Lookup(t) \/ LookupMiss(t) \/ Call(t) PROVE OneOwner'
  BY <1>7 DEF Lookup, LookupMiss, Call, TypeOK, OneOwner, Registers, Deletes, Operates, Goto, fields
<1>8. ASSUME NEW t \in Threads, EndPhase(t) PROVE OneOwner'
  BY <1>8 DEF EndPhase, TypeOK, OneOwner, Registers, Deletes, Operates, Goto, Return, fields
<1>9. ASSUME NEW t \in Threads, LockForErase(t) PROVE OneOwner'
  BY <1>9 DEF LockForErase, TypeOK, OneOwner, Registers, Deletes, Operates, Goto, fields
<1>10. ASSUME NEW t \in Threads, Erase(t) \/ EraseNothing(t) PROVE OneOwner'
  <2>1. /\ created' = created /\ owned' = owned
        /\ pc' = [pc EXCEPT ![t] = "idle"] /\ c' = [c EXCEPT ![t] = NoHandle]
    BY <1>10 DEF Erase, EraseNothing, Goto, Return, fields
  <2> QED  BY <2>1 DEF TypeOK, OneOwner, Registers, Deletes, Operates
<1> QED
  BY Steps, <1>1, <1>2, <1>3, <1>4, <1>5, <1>6, <1>7, <1>8, <1>9, <1>10

\* The phase counter belongs to a running operation.
LEMMA PhasesStep ==
  ASSUME TypeOK, PhasesInStep, [Next]_vars
  PROVE  PhasesInStep'
<1>1. CASE UNCHANGED vars \/ \E h \in Handle : LateCall(h)
  BY <1>1 DEF LateCall, PhasesInStep, Operates, vars
<1>2. ASSUME NEW t \in Threads, NEW i \in Ids, NEW proto \in Protocols, NewClient(t, i, proto)
      PROVE  PhasesInStep'
  BY <1>2 DEF NewClient, TypeOK, PhasesInStep, Operates, Goto
<1>3. ASSUME NEW t \in Threads, NEW h \in Handle, StartOperation(t, h) \/ StartDelete(t, h)
      PROVE  PhasesInStep'
  BY <1>3 DEF StartOperation, StartDelete, TypeOK, PhasesInStep, Operates, Goto
<1>4. ASSUME NEW t \in Threads, LockForInsert(t) \/ Insert(t) PROVE PhasesInStep'
  BY <1>4 DEF LockForInsert, Insert, TypeOK, PhasesInStep, Operates, Goto, Return
<1>5. ASSUME NEW t \in Threads, Lookup(t) \/ LookupMiss(t) \/ Call(t) PROVE PhasesInStep'
  <2>1. CASE Lookup(t)
    <3>1. \A u \in Threads \ {t} : pc'[u] = pc[u] /\ phase'[u] = phase[u]
      BY <2>1 DEF Lookup, TypeOK, Goto
    <3>2. pc[t] = "lookup" /\ pc'[t] = "calls" /\ phase[t] \in 0 .. 2 /\ phase'[t] = phase[t] + 1
      BY <2>1 DEF Lookup, TypeOK, Goto
    <3> QED  BY <3>1, <3>2 DEF PhasesInStep, Operates
  <2>2. CASE LookupMiss(t) \/ Call(t)
    BY <2>2 DEF LookupMiss, Call, PhasesInStep, Operates
  <2> QED  BY <1>5, <2>1, <2>2
<1>6. ASSUME NEW t \in Threads, EndPhase(t) PROVE PhasesInStep'
  <2>1. \A u \in Threads \ {t} : pc'[u] = pc[u] /\ phase'[u] = phase[u]
    BY <1>6 DEF EndPhase, TypeOK, Goto, Return
  <2>2. \/ pc'[t] = "idle" /\ phase'[t] = 0
        \/ pc'[t] = "lookup" /\ phase'[t] = 1
    BY <1>6 DEF EndPhase, TypeOK, Goto, Return
  <2> QED  BY <2>1, <2>2 DEF PhasesInStep, Operates
<1>7. ASSUME NEW t \in Threads, LockForErase(t) \/ Erase(t) \/ EraseNothing(t) PROVE PhasesInStep'
  BY <1>7 DEF LockForErase, Erase, EraseNothing, TypeOK, PhasesInStep, Operates, Goto, Return
<1> QED
  BY Steps, <1>1, <1>2, <1>3, <1>4, <1>5, <1>6, <1>7

\* What is freed or in the table was built before.
LEMMA BuiltBeforeStep ==
  ASSUME TypeOK, OneOwner, BuiltBefore, [Next]_vars
  PROVE  BuiltBefore'
<1>1. ASSUME NEW t \in Threads, Insert(t) PROVE BuiltBefore'
  <2>1. c[t] \in 1 .. created
    BY <1>1 DEF Insert, OneOwner, Registers
  <2>2. created' = created /\ freed' = freed /\ created \in Nat
    BY <1>1, BoundsAssumption DEF Insert, fields, TypeOK
  <2>3. \A i \in Ids : client_list'[i] = client_list[i] \/ client_list'[i] = c[t]
    BY <1>1 DEF Insert, TypeOK
  <2> QED  BY <2>1, <2>2, <2>3 DEF BuiltBefore
<1>2. ASSUME NEW t \in Threads, Erase(t) PROVE BuiltBefore'
  <2>1. PICK i \in IdRead(c[t]) : /\ Holds(i)
                                  /\ freed' = freed \cup {client_list[i]}
                                  /\ client_list' = [client_list EXCEPT ![i] = NoHandle]
    BY <1>2 DEF Erase
  <2>2. client_list[i] \in 1 .. created
    BY <2>1, BoundsAssumption DEF Holds, TypeOK, BuiltBefore, Handle, NoHandle
  <2>3. created' = created /\ created \in Nat
    BY <1>2, BoundsAssumption DEF Erase, fields, TypeOK
  <2>4. \A j \in Ids : client_list'[j] = client_list[j] \/ client_list'[j] = 0
    BY <2>1 DEF TypeOK, NoHandle
  <2>5. freed' \subseteq 1 .. created'
    BY <2>1, <2>2, <2>3 DEF BuiltBefore
  <2>6. \A j \in Ids : client_list'[j] <= created'
    BY <2>3, <2>4 DEF BuiltBefore
  <2> QED  BY <2>5, <2>6 DEF BuiltBefore
<1>3. ASSUME NEW t \in Threads, NEW i \in Ids, NEW proto \in Protocols, NewClient(t, i, proto)
      PROVE  BuiltBefore'
  <2>1. created' = created + 1 /\ freed' = freed /\ client_list' = client_list
    BY <1>3 DEF NewClient, table
  <2>2. created \in Nat /\ \A j \in Ids : client_list[j] \in Nat
    BY BoundsAssumption DEF TypeOK, Handle, NoHandle
  <2> QED  BY <2>1, <2>2 DEF BuiltBefore
<1>4. CASE UNCHANGED <<created, freed, client_list>>
  BY <1>4 DEF BuiltBefore
<1> QED
  BY Steps, <1>1, <1>2, <1>3, <1>4
  DEF vars, fields, table, LateCall, StartOperation, StartDelete, LockForInsert, Lookup, LookupMiss,
      Call, EndPhase, LockForErase, EraseNothing

-----------------------------------------------------------------------------
(* The table: as long as no id is shared, it is exactly the clients in use. *)

LEMMA InUseIs ==
  /\ \A h : h \in Registering <=> \E u \in Threads : Registers(u) /\ c[u] = h
  /\ \A h : h \in Deleting <=> \E u \in Threads : Deletes(u) /\ c[u] = h
BY DEF Registering, Deleting, Registers, Deletes

LEMMA InUsePrimeIs ==
  /\ \A h : h \in Registering' <=> \E u \in Threads : Registers(u)' /\ c'[u] = h
  /\ \A h : h \in Deleting' <=> \E u \in Threads : Deletes(u)' /\ c'[u] = h
BY DEF Registering, Deleting, Registers, Deletes

\* A step that neither begins nor ends client_instance or client_delete.
LEMMA TableUntouched ==
  ASSUME TableIsInUse, UNCHANGED <<id, owned, freed, client_list>>,
         "shared" \in misuse => "shared" \in misuse',
         \A u \in Threads : /\ Registers(u)' <=> Registers(u)
                            /\ Deletes(u)' <=> Deletes(u)
                            /\ Registers(u) \/ Deletes(u) => c'[u] = c[u]
  PROVE  TableIsInUse'
<1>1. Registering' = Registering /\ Deleting' = Deleting
  BY InUseIs, InUsePrimeIs
<1> QED  BY <1>1 DEF TableIsInUse, InUse, Holds

LEMMA TableNewClient ==
  ASSUME TypeOK, OneOwner, BuiltBefore, TableIsInUse,
         NEW t \in Threads, NEW i \in Ids, NEW proto \in Protocols, NewClient(t, i, proto)
  PROVE  TableIsInUse'
<1> SUFFICES ASSUME "shared" \notin misuse'
             PROVE  TableIsInUse'
  BY DEF TableIsInUse
<1> DEFINE new == created + 1
<1>1. /\ new \in Handle /\ id' = [id EXCEPT ![new] = i]
      /\ pc' = [pc EXCEPT ![t] = "insert"] /\ c' = [c EXCEPT ![t] = new]
      /\ pc[t] = "idle" /\ UNCHANGED <<owned, freed, client_list>>
  BY BoundsAssumption DEF NewClient, TypeOK, Handle, Goto, table
<1>2. "shared" \notin misuse /\ \A h \in InUse : id[h] # i
  BY DEF NewClient, Record
<1>3. new \notin InUse /\ new \notin freed
  BY BoundsAssumption, InUseIs DEF InUse, OneOwner, BuiltBefore, TypeOK
<1>4. Deleting' = Deleting /\ Registering' = Registering \cup {new}
  <2>1. /\ ~ Registers(t) /\ ~ Deletes(t) /\ Registers(t)' /\ ~ Deletes(t)' /\ c'[t] = new
        /\ \A u \in Threads \ {t} : /\ Registers(u)' <=> Registers(u)
                                    /\ Deletes(u)' <=> Deletes(u)
                                    /\ c'[u] = c[u]
    BY <1>1 DEF Registers, Deletes, TypeOK
  <2> QED  BY <2>1, InUseIs, InUsePrimeIs
<1>5. InUse' = InUse \cup {new}
  BY <1>1, <1>4 DEF InUse
<1>6. id'[new] = i /\ \A h \in InUse : id'[h] = id[h]
  BY <1>1, <1>3 DEF TypeOK
<1>7. \A h \in owned \cup Deleting : h \in InUse
  BY DEF InUse
<1>8. \A h \in InUse' : id'[h] \in Ids /\ h \notin freed'
  BY <1>1, <1>2, <1>3, <1>5, <1>6 DEF TableIsInUse
<1>9. \A g, h \in InUse' : g # h => id'[g] # id'[h]
  BY <1>2, <1>5, <1>6 DEF TableIsInUse
<1>10. \A h \in owned' \cup Deleting' : client_list'[id'[h]] = h
  BY <1>1, <1>2, <1>4, <1>6, <1>7 DEF TableIsInUse
<1>11. \A j \in Ids : Holds(j)' => client_list'[j] \in owned' \cup Deleting' /\ id'[client_list'[j]] = j
  BY <1>1, <1>2, <1>4, <1>6, <1>7 DEF TableIsInUse, Holds
<1> QED  BY <1>8, <1>9, <1>10, <1>11 DEF TableIsInUse

LEMMA TableInsert ==
  ASSUME TypeOK, OneOwner, TableIsInUse, NEW t \in Threads, Insert(t)
  PROVE  TableIsInUse'
<1> SUFFICES ASSUME "shared" \notin misuse'
             PROVE  TableIsInUse'
  BY DEF TableIsInUse
<1> DEFINE h0 == c[t]
<1>1. /\ pc' = [pc EXCEPT ![t] = "idle"] /\ c' = [c EXCEPT ![t] = NoHandle]
      /\ pc[t] = "inserting" /\ owned' = owned \cup {h0} /\ UNCHANGED <<id, freed>>
      /\ client_list' = [client_list EXCEPT ![id[h0]] = h0] /\ "shared" \notin misuse
  BY DEF Insert, Return, Goto, fields
<1>2. h0 \in Registering /\ h0 \notin owned /\ h0 \notin Deleting
  BY <1>1, InUseIs DEF OneOwner, Registers, Deletes
<1>3. Deleting' = Deleting /\ Registering' \subseteq Registering
  <2>1. /\ ~ Deletes(t) /\ ~ Registers(t)' /\ ~ Deletes(t)'
        /\ \A u \in Threads \ {t} : /\ Registers(u)' <=> Registers(u)
                                    /\ Deletes(u)' <=> Deletes(u)
                                    /\ c'[u] = c[u]
    BY <1>1 DEF Registers, Deletes, TypeOK
  <2> QED  BY <2>1, InUseIs, InUsePrimeIs
<1>4. InUse' \subseteq InUse /\ h0 \in InUse
  BY <1>1, <1>2, <1>3 DEF InUse
<1>5. id[h0] \in Ids /\ client_list'[id[h0]] = h0
  BY <1>1, <1>4 DEF TableIsInUse, TypeOK
<1>6. \A j \in Ids : j # id[h0] => client_list'[j] = client_list[j]
  BY <1>1 DEF TypeOK
<1>7. \A h \in InUse' : id'[h] \in Ids /\ h \notin freed'
  BY <1>1, <1>4 DEF TableIsInUse
<1>8. \A g, h \in InUse' : g # h => id'[g] # id'[h]
  BY <1>1, <1>4 DEF TableIsInUse
<1>9. \A h \in owned \cup Deleting : id[h] \in Ids /\ id[h] # id[h0]
  BY <1>1, <1>2, <1>4 DEF TableIsInUse, InUse
<1>10. \A h \in owned' \cup Deleting' : client_list'[id'[h]] = h
  BY <1>1, <1>3, <1>5, <1>6, <1>9 DEF TableIsInUse
<1>11. \A j \in Ids : Holds(j)' => client_list'[j] \in owned' \cup Deleting' /\ id'[client_list'[j]] = j
  BY <1>1, <1>3, <1>5, <1>6 DEF TableIsInUse, Holds
<1> QED  BY <1>7, <1>8, <1>10, <1>11 DEF TableIsInUse

LEMMA TableStartDelete ==
  ASSUME TypeOK, TableIsInUse, NEW t \in Threads, NEW h0 \in Handle, StartDelete(t, h0)
  PROVE  TableIsInUse'
<1>1. /\ pc' = [pc EXCEPT ![t] = "delete"] /\ c' = [c EXCEPT ![t] = h0] /\ pc[t] = "idle"
      /\ h0 \in owned /\ owned' = owned \ {h0} /\ UNCHANGED <<id, freed, client_list, misuse>>
  BY DEF StartDelete, Goto, fields, table
<1>2. Deleting' = Deleting \cup {h0} /\ Registering' = Registering
  <2>1. /\ ~ Registers(t) /\ ~ Deletes(t) /\ ~ Registers(t)' /\ Deletes(t)' /\ c'[t] = h0
        /\ \A u \in Threads \ {t} : /\ Registers(u)' <=> Registers(u)
                                    /\ Deletes(u)' <=> Deletes(u)
                                    /\ c'[u] = c[u]
    BY <1>1 DEF Registers, Deletes, TypeOK
  <2> QED  BY <2>1, InUseIs, InUsePrimeIs
<1>3. InUse' = InUse /\ owned' \cup Deleting' = owned \cup Deleting
  BY <1>1, <1>2 DEF InUse
<1> QED  BY <1>1, <1>3 DEF TableIsInUse, Holds

\* The client a thread deletes is the one it finds in the table.
LEMMA DeletesItsOwn ==
  ASSUME TableIsInUse, "shared" \notin misuse, NEW t \in Threads, pc[t] = "erasing"
  PROVE  /\ IdRead(c[t]) = {id[c[t]]} /\ c[t] \in InUse
         /\ id[c[t]] \in Ids /\ client_list[id[c[t]]] = c[t]
<1>1. c[t] \in Deleting
  BY InUseIs DEF Deletes
<1> QED  BY <1>1 DEF TableIsInUse, InUse, IdRead

LEMMA TableErase ==
  ASSUME TypeOK, OneOwner, TableIsInUse, NEW t \in Threads, Erase(t)
  PROVE  TableIsInUse'
<1> SUFFICES ASSUME "shared" \notin misuse'
             PROVE  TableIsInUse'
  BY DEF TableIsInUse
<1> DEFINE h0 == c[t]
<1>1. /\ pc' = [pc EXCEPT ![t] = "idle"] /\ c' = [c EXCEPT ![t] = NoHandle]
      /\ pc[t] = "erasing" /\ UNCHANGED <<id, owned>> /\ "shared" \notin misuse
  BY DEF Erase, Return, Goto, Record, fields
<1>2. /\ IdRead(h0) = {id[h0]} /\ h0 \in InUse /\ id[h0] \in Ids /\ client_list[id[h0]] = h0
  BY <1>1, DeletesItsOwn
<1>3. freed' = freed \cup {h0} /\ client_list' = [client_list EXCEPT ![id[h0]] = NoHandle]
  BY <1>2 DEF Erase
<1>4. Registering' \subseteq Registering \ {h0} /\ Deleting' = Deleting \ {h0} /\ h0 \notin owned
  BY <1>1, InUseIs, InUsePrimeIs DEF Registers, Deletes, TypeOK, OneOwner
<1>5. InUse' \subseteq InUse \ {h0}
  BY <1>1, <1>4 DEF InUse
<1>6. client_list'[id[h0]] = NoHandle /\ \A j \in Ids : j # id[h0] => client_list'[j] = client_list[j]
  BY <1>2, <1>3 DEF TypeOK
<1>7. \A h \in InUse' : id'[h] \in Ids /\ h \notin freed'
  BY <1>1, <1>3, <1>5 DEF TableIsInUse
<1>8. \A g, h \in InUse' : g # h => id'[g] # id'[h]
  BY <1>1, <1>5 DEF TableIsInUse
<1>9. \A h \in owned' \cup Deleting' : h \in owned \cup Deleting /\ id[h] \in Ids /\ id[h] # id[h0]
  BY <1>1, <1>2, <1>4 DEF TableIsInUse, InUse
<1>10. \A h \in owned' \cup Deleting' : client_list'[id'[h]] = h
  BY <1>1, <1>6, <1>9 DEF TableIsInUse
<1>11. \A j \in Ids : Holds(j)' => client_list'[j] \in owned' \cup Deleting' /\ id'[client_list'[j]] = j
  BY <1>1, <1>4, <1>6 DEF TableIsInUse, Holds
<1> QED  BY <1>7, <1>8, <1>10, <1>11 DEF TableIsInUse

LEMMA TableStep ==
  ASSUME TypeOK, OneOwner, BuiltBefore, TableIsInUse, [Next]_vars
  PROVE  TableIsInUse'
<1> DEFINE Still == /\ UNCHANGED <<id, owned, freed, client_list>>
                    /\ "shared" \in misuse => "shared" \in misuse'
                    /\ \A u \in Threads : /\ Registers(u)' <=> Registers(u)
                                          /\ Deletes(u)' <=> Deletes(u)
                                          /\ Registers(u) \/ Deletes(u) => c'[u] = c[u]
<1>1. CASE UNCHANGED vars \/ \E h \in Handle : LateCall(h)
  <2>1. Still
    BY <1>1 DEF LateCall, vars, fields, table, Registers, Deletes
  <2> QED  BY <2>1, TableUntouched
<1>2. ASSUME NEW t \in Threads, NEW h \in Handle, StartOperation(t, h) PROVE TableIsInUse'
  <2>1. Still
    BY <1>2 DEF StartOperation, Goto, fields, table, Registers, Deletes, TypeOK
  <2> QED  BY <2>1, TableUntouched
<1>3. ASSUME NEW t \in Threads, LockForInsert(t) \/ LockForErase(t) PROVE TableIsInUse'
  <2>1. Still
    BY <1>3 DEF LockForInsert, LockForErase, Goto, fields, Registers, Deletes, TypeOK
  <2> QED  BY <2>1, TableUntouched
<1>4. ASSUME NEW t \in Threads, Lookup(t) \/ LookupMiss(t) \/ Call(t) PROVE TableIsInUse'
  <2>1. Still
    BY <1>4 DEF Lookup, LookupMiss, Call, Goto, Record, fields, table, Registers, Deletes, TypeOK
  <2> QED  BY <2>1, TableUntouched
<1>5. ASSUME NEW t \in Threads, EndPhase(t) PROVE TableIsInUse'
  <2>1. Still
    BY <1>5 DEF EndPhase, Return, Goto, fields, table, Registers, Deletes, TypeOK
  <2> QED  BY <2>1, TableUntouched
<1>6. ASSUME NEW t \in Threads, EraseNothing(t) PROVE TableIsInUse'
  <2>1. "shared" \in misuse /\ misuse' = misuse
    BY <1>6, DeletesItsOwn DEF EraseNothing, Holds, TypeOK, OneOwner, Deletes, NoHandle
  <2> QED  BY <2>1 DEF TableIsInUse
<1> QED
  BY Steps, <1>1, <1>2, <1>3, <1>4, <1>5, <1>6,
     TableNewClient, TableInsert, TableStartDelete, TableErase

-----------------------------------------------------------------------------
(* The mutex and the connections.                                           *)

\* The holder of the mutex is the thread inside; EraseNothing, which leaves
\* without unlocking, does not happen while ids are not shared.
LEMMA MutexStep ==
  ASSUME TypeOK, OneOwner, TableIsInUse, MutexHeldInside, [Next]_vars
  PROVE  MutexHeldInside'
<1> USE DEF MutexHeldInside
<1>1. CASE UNCHANGED vars \/ \E h \in Handle : LateCall(h)
  BY <1>1 DEF LateCall, vars, table
<1>2. ASSUME NEW t \in Threads, NEW i \in Ids, NEW proto \in Protocols, NewClient(t, i, proto)
      PROVE  MutexHeldInside'
  <2>1. /\ pc[t] = "idle" /\ pc' = [pc EXCEPT ![t] = "insert"]
        /\ client_list_mutex' = client_list_mutex /\ misuse \subseteq misuse'
    BY <1>2 DEF NewClient, Record, Goto, table
  <2> QED  BY <2>1 DEF TypeOK
<1>3. ASSUME NEW t \in Threads, NEW h \in Handle, StartOperation(t, h) \/ StartDelete(t, h)
      PROVE  MutexHeldInside'
  BY <1>3 DEF StartOperation, StartDelete, Goto, table, TypeOK
<1>4. ASSUME NEW t \in Threads, LockForInsert(t) \/ LockForErase(t) PROVE MutexHeldInside'
  BY <1>4, ThreadsAssumption DEF LockForInsert, LockForErase, Goto, TypeOK
<1>5. ASSUME NEW t \in Threads, Insert(t) \/ Erase(t) PROVE MutexHeldInside'
  <2>1. /\ pc[t] \in {"inserting", "erasing"} /\ pc' = [pc EXCEPT ![t] = "idle"]
        /\ client_list_mutex' = Nobody /\ misuse \subseteq misuse'
    BY <1>5 DEF Insert, Erase, Return, Goto, Record
  <2> QED  BY <2>1, ThreadsAssumption DEF TypeOK
<1>6. ASSUME NEW t \in Threads, Lookup(t) \/ LookupMiss(t) \/ Call(t) PROVE MutexHeldInside'
  BY <1>6 DEF Lookup, LookupMiss, Call, Goto, Record, table, TypeOK
<1>7. ASSUME NEW t \in Threads, EndPhase(t) PROVE MutexHeldInside'
  BY <1>7 DEF EndPhase, Return, Goto, table, TypeOK
<1>8. ASSUME NEW t \in Threads, EraseNothing(t) PROVE MutexHeldInside'
  <2>1. "shared" \in misuse /\ misuse' = misuse
    BY <1>8, DeletesItsOwn DEF EraseNothing, Holds, TypeOK, OneOwner, Deletes, NoHandle
  <2> QED  BY <2>1
<1> QED
  BY Steps, <1>1, <1>2, <1>3, <1>4, <1>5, <1>6, <1>7, <1>8

\* An operation whose client is its own finds it in the table.
LEMMA FindsItsOwn ==
  ASSUME OneOwner, TableIsInUse, "shared" \notin misuse, NEW t \in Threads, Operates(t)
  PROVE  /\ IdRead(c[t]) = {id[c[t]]} /\ c[t] \in owned /\ c[t] \notin freed
         /\ id[c[t]] \in Ids /\ client_list[id[c[t]]] = c[t]
BY DEF OneOwner, TableIsInUse, InUse, IdRead

LEMMA OwnConnectionsStep ==
  ASSUME TypeOK, OneOwner, TableIsInUse, OwnConnections, [Next]_vars
  PROVE  OwnConnections'
<1>1. CASE UNCHANGED vars \/ \E h \in Handle : LateCall(h)
  BY <1>1 DEF LateCall, OwnConnections, vars
<1>2. ASSUME NEW t \in Threads, NEW i \in Ids, NEW proto \in Protocols, NewClient(t, i, proto)
      PROVE  OwnConnections'
  <2>1. /\ pc[t] = "idle" /\ pc' = [pc EXCEPT ![t] = "insert"] /\ misuse \subseteq misuse'
        /\ c' = [c EXCEPT ![t] = created'] /\ UNCHANGED <<conn, crashed>>
    BY <1>2 DEF NewClient, Record, Goto
  <2> QED  BY <2>1 DEF OwnConnections, TypeOK
<1>3. ASSUME NEW t \in Threads, NEW h \in Handle, StartOperation(t, h) \/ StartDelete(t, h)
      PROVE  OwnConnections'
  BY <1>3 DEF StartOperation, StartDelete, Goto, OwnConnections, TypeOK
<1>4. ASSUME NEW t \in Threads, LockForInsert(t) \/ LockForErase(t) PROVE OwnConnections'
  BY <1>4 DEF LockForInsert, LockForErase, Goto, OwnConnections, TypeOK
<1>5. ASSUME NEW t \in Threads, Insert(t) \/ Erase(t) \/ EraseNothing(t) PROVE OwnConnections'
  <2>1. /\ pc' = [pc EXCEPT ![t] = "idle"] /\ c' = [c EXCEPT ![t] = NoHandle]
        /\ misuse \subseteq misuse' /\ UNCHANGED <<conn, crashed>>
    BY <1>5 DEF Insert, Erase, EraseNothing, Return, Goto, Record
  <2> QED  BY <2>1 DEF OwnConnections, TypeOK
<1>6. ASSUME NEW t \in Threads, Lookup(t) PROVE OwnConnections'
  <2> SUFFICES ASSUME misuse \subseteq {"early"}
               PROVE  OwnConnections'
    BY <1>6 DEF Lookup, OwnConnections
  <2>1. conn' = [conn EXCEPT ![t] = c[t]]
    BY <1>6, FindsItsOwn DEF Lookup, Operates
  <2> QED  BY <1>6, <2>1 DEF Lookup, Goto, OwnConnections, TypeOK
<1>7. ASSUME NEW t \in Threads, LookupMiss(t) PROVE OwnConnections'
  <2> SUFFICES ASSUME misuse' \subseteq {"early"}
               PROVE  OwnConnections'
    BY DEF OwnConnections
  <2>1. misuse' = misuse /\ \E i \in IdRead(c[t]) : ~ Holds(i)
    BY <1>7 DEF LookupMiss, Record
  <2>2. c[t] # NoHandle
    BY <1>7, BoundsAssumption DEF LookupMiss, Operates, OneOwner, TypeOK, NoHandle
  <2> QED  BY <1>7, <2>1, <2>2, FindsItsOwn DEF LookupMiss, Operates, Holds
<1>8. ASSUME NEW t \in Threads, Call(t) PROVE OwnConnections'
  BY <1>8 DEF Call, OwnConnections
<1>9. ASSUME NEW t \in Threads, EndPhase(t) PROVE OwnConnections'
  <2>1. /\ pc'[t] # "calls" /\ UNCHANGED <<misuse, crashed>>
        /\ \A u \in Threads \ {t} : pc'[u] = pc[u] /\ c'[u] = c[u] /\ conn'[u] = conn[u]
    BY <1>9 DEF EndPhase, Return, Goto, TypeOK
  <2> QED  BY <2>1 DEF OwnConnections
<1> QED
  BY Steps, <1>1, <1>2, <1>3, <1>4, <1>5, <1>6, <1>7, <1>8, <1>9

-----------------------------------------------------------------------------
(* The theorems.                                                            *)

LEMMA TypeStep ==
  ASSUME TypeOK, OneOwner, PhasesInStep, [Next]_vars
  PROVE  TypeOK'
<1>1. CASE UNCHANGED vars
  BY <1>1 DEF vars, fields, table, TypeOK
<1>2. ASSUME NEW h \in Handle, LateCall(h) PROVE TypeOK'
  BY <1>2, BoundsAssumption DEF LateCall, TypeOK, fields, table
<1> QED  BY <1>1, <1>2, Steps, InstanceType, OperationType, DeleteType

LEMMA IInvInit == Init => IInv
<1> SUFFICES ASSUME Init PROVE IInv
  OBVIOUS
<1>1. OneOwner /\ PhasesInStep /\ BuiltBefore
  BY DEF Init, OneOwner, PhasesInStep, BuiltBefore, Registers, Deletes, Operates, NoHandle
<1>2. TableIsInUse
  <2>1. Registering = {} /\ Deleting = {}
    BY InUseIs DEF Init, Registers, Deletes
  <2> QED  BY <2>1 DEF Init, TableIsInUse, InUse, Holds
<1>3. MutexHeldInside /\ OwnConnections
  BY ThreadsAssumption DEF Init, MutexHeldInside, OwnConnections
<1> QED  BY TypeInit, <1>1, <1>2, <1>3 DEF IInv

LEMMA IInvStep == IInv /\ [Next]_vars => IInv'
BY TypeStep, OneOwnerStep, PhasesStep, BuiltBeforeStep, TableStep, MutexStep, OwnConnectionsStep
DEF IInv

\* The invariant behind the safety of the library's table of clients
\* (client_lib.cpp 6-47, 319-631) holds in every state.
THEOREM InvariantCorrect == Spec => []IInv
BY IInvInit, IInvStep, PTL DEF Spec

\* The variables keep their types.
THEOREM TypeCorrect == Spec => []TypeOK
<1>1. IInv => TypeOK
  BY DEF IInv
<1> QED  BY <1>1, InvariantCorrect, PTL

\* As long as no two clients share an id, client_list_mutex is held exactly by
\* the thread inside one of its critical sections (42-45, 597-626).
THEOREM MutexCorrect == Spec => []MutexHeldInside
<1>1. IInv => MutexHeldInside
  BY DEF IInv
<1> QED  BY <1>1, InvariantCorrect, PTL

\* As long as no two clients share an id, the table holds the clients that
\* exist, each under its id, and none that was freed.
THEOREM TableCorrect == Spec => []TableHoldsLiveClients
<1>1. IInv => TableHoldsLiveClients
  <2> SUFFICES ASSUME IInv, "shared" \notin misuse
               PROVE  /\ {client_list[i] : i \in Ids} \ {NoHandle} = owned \cup Deleting
                      /\ \A h \in owned : client_list[id[h]] = h /\ h \notin freed
    BY DEF TableHoldsLiveClients
  <2>1. \A h \in owned \cup Deleting : h \in InUse /\ h # NoHandle
    BY InUseIs, BoundsAssumption DEF IInv, TypeOK, InUse, OneOwner, NoHandle
  <2>2. {client_list[i] : i \in Ids} \ {NoHandle} \subseteq owned \cup Deleting
    BY DEF IInv, TableIsInUse, Holds
  <2>3. \A h \in owned \cup Deleting : id[h] \in Ids /\ client_list[id[h]] = h /\ h \notin freed
    BY <2>1 DEF IInv, TableIsInUse
  <2> QED  BY <2>1, <2>2, <2>3
<1> QED  BY <1>1, InvariantCorrect, PTL

\* As long as no two clients share an id and no lookup misses its entry during
\* a change of the table, operations use the connections of their own client,
\* which are not deleted under them (349-590).
THEOREM ConnectionsCorrect == Spec => []OperationsUseOwnConnections
<1>1. IInv => OperationsUseOwnConnections
  BY FindsItsOwn DEF IInv, OperationsUseOwnConnections, OwnConnections, Operates
<1> QED  BY <1>1, InvariantCorrect, PTL
=============================================================================
