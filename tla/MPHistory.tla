------------------------------ MODULE MPHistory ------------------------------
(***************************************************************************)
(* The MP store for one key with the history its users see: put returns     *)
(* when its command is in the log of its server, get returns the last WRITE *)
(* of that log up to its own READ (server.cpp 380-426, 69-120).             *)
(* README.md:2 promises that this store is linearizable.                    *)
(***************************************************************************)
EXTENDS MultiPaxos

VARIABLES result,      \* result[c]: the value c's last get returned
          known,       \* values whose put has returned or that a get has returned
          before,      \* <<u, v>>: u was known when the put of v was called
          stale,       \* stale[c]: values that c's last get may not return
          causes       \* what, besides deviations, can have made a read stale

hvars == <<vars, result, known, before, stale, causes>>

HTypeOK ==
  /\ TypeOK
  /\ result \in [Clients -> Id \cup {NoId}]
  /\ known \subseteq Id /\ before \subseteq Id \X Id
  /\ stale \in [Clients -> SUBSET (Id \cup {NoId})]
  /\ causes \subseteq {"relabelled", "unlearned"}

\* A value is overwritten for good when it was known before the put of some
\* known value was called.
Overwritten ==
  IF known = {} THEN {} ELSE {NoId} \cup {uv[1] : uv \in {x \in before : x[2] \in known}}

HInit ==
  /\ Init
  /\ result = [c \in Clients |-> NoId] /\ stale = [c \in Clients |-> {}]
  /\ known = {} /\ before = {} /\ causes = {}

HStartPut(n, c) ==
  /\ StartRequest(n, c, "WRITE")
  /\ before' = before \cup (known \X {orig'[n].cmd.id})
  /\ UNCHANGED <<result, known, stale, causes>>

HStartGet(n, c) ==
  /\ StartRequest(n, c, "READ")
  /\ stale' = [stale EXCEPT ![c] = Overwritten]
  /\ result' = [result EXCEPT ![c] = NoId]
  /\ UNCHANGED <<known, before, causes>>

Cause(kind, happens) == causes' = IF happens THEN causes \cup {kind} ELSE causes

\* The servers that have accepted a command in a slot under one proposal; the
\* proposer itself accepts it when it inserts it.
Acceptors(i, id, prop) ==
  {a.to : a \in {b \in accepts : b.index = i /\ b.cmd.id = id /\ b.prop = prop}}
    \cup {d.server : d \in {e \in done : e.index = i /\ e.cmd.id = id /\ e.prop = prop}}

Chosen(i, id) ==
  \E a \in accepts : Cardinality(Acceptors(i, id, a.prop)) > N \div 2

\* A request ends although a slot before its own holds a command that is not chosen.
Unlearned(n) == \E i \in 0 .. orig[n].index - 1 : ~ Chosen(i, log[n][i].cmd.id)

\* The type a command was given by its client: only a put has a value.
TypeOf(cmd) == IF cmd.value = NoId THEN "READ" ELSE "WRITE"

HChoose(n, resp) ==
  /\ PreparePromised(n, resp)
  /\ Cause("relabelled", sent'[n].type # TypeOf(sent'[n]))
  /\ UNCHANGED <<result, known, before, stale>>

HPutReturn(n, resp) ==
  /\ Inserted(n, resp)
  /\ known' = known \cup ({orig[n].cmd.value} \ {NoId})
  /\ Cause("unlearned", Unlearned(n))
  /\ UNCHANGED <<result, before, stale>>

HGetReturn(n) ==
  LET value == LastWrite(log[n], orig[n].index, NoId)
  IN  /\ ReadReturn(n)
      /\ result' = [result EXCEPT ![orig[n].prop.client] = value]
      /\ known' = known \cup ({value} \ {NoId})
      /\ Cause("unlearned", Unlearned(n))
      /\ UNCHANGED <<before, stale>>

HOther ==
  /\ \/ \E n \in Server :
          \/ \E s \in Server : Handle(n, s)
          \/ UpdateLocalValues(n)
          \/ \E resp \in Collected(n) :
               \/ PrepareRefused(n, resp) \/ Overtaken(n, resp) \/ Defeated(n, resp)
               \/ AcceptRefused(n, resp) \/ AcceptMixed(n, resp)
     \/ \E m \in late : HandleLate(m)
  /\ UNCHANGED <<result, known, before, stale, causes>>

HNext ==
  \/ HOther
  \/ \E n \in Server :
       \/ \E c \in Clients : \E type \in Types[c] :
            IF type = "WRITE" THEN HStartPut(n, c) ELSE HStartGet(n, c)
       \/ HGetReturn(n)
       \/ \E resp \in Collected(n) : HChoose(n, resp) \/ HPutReturn(n, resp)

HSpec == HInit /\ [][HNext]_hvars

Running(c) == \E n \in Server : pc[n] # "idle" /\ orig[n].prop.client = c

\* A get does not return a value whose write was over before the put of a value
\* v was called, when v was already known as the get was called; nor "no value"
\* once any value is known (README.md:2, "Linearizable").
NoStaleRead ==
  \A c \in Clients : ~ Running(c) => result[c] \notin stale[c]

\* What can make a read stale.
OnlyKnownCausesMakeReadsStale == deviations = {} /\ causes = {} => NoStaleRead

-----------------------------------------------------------------------------
(* The inductive invariant behind it.                                       *)

\* Only a put has a value, its own command_id.
OwnValues == \A x \in Commands : x.value \in {NoId, x.id}

\* A command has kept the type its client gave it.
TypesAreKept ==
  /\ \A m \in Accepting : m.cmd.type = TypeOf(m.cmd)
  /\ \A n \in Server :
       /\ pc[n] # "idle" => orig[n].cmd.type = TypeOf(orig[n].cmd)
       /\ pc[n] = "accept" => sent[n].type = TypeOf(sent[n])
       /\ \A i \in Slot : log[n][i].cmd = NoCommand \/ log[n][i].cmd.type = TypeOf(log[n][i].cmd)

\* A server serves the last request of its client, which was not inserted before.
ServesLastRequest ==
  \A n \in Server :
    /\ pc[n] # "idle" => orig[n].cmd.id = <<orig[n].prop.client, ops[orig[n].prop.client]>>
    /\ Proposing(n) => \A d \in done : d.cmd.id # orig[n].cmd.id
    /\ pc[n] = "apply" => /\ orig[n].cmd.type = "READ"
                          /\ \E d \in done : /\ d.server = n /\ d.index = orig[n].index
                                            /\ d.cmd = orig[n].cmd

\* Slot i is taken: a command is chosen in it, and none of those in a set.
Taken(i, but) == \E a \in accepts : a.index = i /\ a.cmd.id \notin but /\ Chosen(i, a.cmd.id)

\* A command is in a slot because its proposer is at that slot, has ended there, or
\* has lost it to another: it can be chosen in one slot only.
Placed(i, id) ==
  \/ \E n \in Server : Proposing(n) /\ orig[n].index = i /\ orig[n].cmd.id = id
  \/ \E d \in done : d.index = i /\ d.cmd.id = id
  \/ Taken(i, {id})

OnePlace ==
  /\ \A d, e \in done : d.cmd.id = e.cmd.id => d.index = e.index
  /\ \A m \in Accepting : Placed(m.index, m.cmd.id)
  /\ \A n \in Server : pc[n] = "accept" => Placed(orig[n].index, sent[n].id)

\* The put of value v is chosen in slot i.
PutChosen(i, v) ==
  /\ Chosen(i, v)
  /\ \E a \in accepts : a.index = i /\ a.cmd.id = v /\ a.cmd.value # NoId

\* Up to slot i nothing is left for the commands in a set.
Closed(i, but) == \A j \in 0 .. i : Taken(j, but)

\* The put of a known value is chosen, and so is a command in each slot before it.
KnownIsChosen == \A v \in known : \E i \in Slot : PutChosen(i, v) /\ Closed(i, {})

\* When the put of v began, u was chosen and no slot up to it was left for v.
BeforeIsEarlier ==
  \A uv \in before : \E i \in Slot : Chosen(i, uv[1]) /\ Closed(i, {uv[2]})

\* A put is chosen before the slot a running get can still be in, and a value the
\* get may not return has an earlier slot than that put.
StaleIsEarlier ==
  \A n \in Server : pc[n] # "idle" /\ orig[n].cmd.type = "READ" =>
    \A w \in stale[orig[n].prop.client] : \E k \in Slot :
      /\ \E a \in accepts : PutChosen(k, a.cmd.id)
      /\ Closed(k, {orig[n].cmd.id})
      /\ w # NoId => \E i \in 0 .. k - 1 : Chosen(i, w)

\* What a get has returned when its client does something else.
ReturnedIsFresh ==
  \A c \in Clients :
    \/ \E n \in Server : pc[n] # "idle" /\ orig[n].prop.client = c /\ orig[n].cmd.type = "READ"
    \/ result[c] \notin stale[c]

HistoryInv ==
  /\ HTypeOK
  /\ deviations = {} /\ causes = {} =>
       /\ OwnValues /\ TypesAreKept /\ ServesLastRequest /\ OnePlace
       /\ KnownIsChosen /\ BeforeIsEarlier /\ StaleIsEarlier /\ ReturnedIsFresh
=============================================================================
