----------------------------- MODULE MultiPaxos -----------------------------
(***************************************************************************)
(* The MP protocol for one key: the request handler of a server with its    *)
(* proposer (server.cpp 372-428 and 434-788), the acceptor                  *)
(* (paxos_server.cpp 102-303) and the calls between servers                 *)
(* (paxos_client.cpp).  A server serves one client request at a time        *)
(* (mp_mutex) and does not send to itself.  As in ABD, a request that has   *)
(* not been handled when its phase ends stays in flight.                    *)
(*                                                                         *)
(* The promise of a slot is two words, which update_local_values (585) sets  *)
(* without log_map_mutex while the acceptor compares and sets them under it. *)
(* Here each of the two is one step: a promise with the number of one        *)
(* proposal and the client id of another is left out.                        *)
(*                                                                         *)
(* command_id is drawn from a generator seeded with the clock; here it is   *)
(* <<client, number of the request>>, and two commands never share it.      *)
(***************************************************************************)
EXTENDS Integers, Sequences, FiniteSets, FiniteSetsExt

CONSTANTS N,          \* number of servers
          Clients,    \* client ids
          MaxOps,     \* bound: requests of each client
          Types,      \* bound: Types[c], the types of c's requests
          Slots,      \* bound: slots of the log, INIT_COMMAND_LENGTH in the code
          MaxNum,     \* bound: MaxNum[c], proposal numbers of client c
          Address,    \* half an address, read as a number
          MaxLate     \* bound: requests of finished phases in flight at a time

ASSUME NAssumption       == N \in Nat /\ N > 1
ASSUME ClientsAssumption == Clients \subseteq Nat
ASSUME BoundsAssumption  == 
  /\ MaxOps \in [Clients -> Nat] /\ Types \in [Clients -> SUBSET {"READ", "WRITE"}]
  /\ Slots \in Nat \ {0} /\ MaxNum \in [Clients -> Nat]
  /\ MaxLate \in Nat
ASSUME AddressAssumption == Address \in Nat /\ \A c \in Clients : MaxNum[c] < Address

Server   == 0 .. N - 1
Slot     == 0 .. Slots - 1
Majority == N \div 2          \* of the other servers: (connections.size() + 1) / 2

\* What an uninitialised proposal holds.  Its memory is that of a reply deleted just
\* before (539), in which the allocator has put the address of another freed part
\* of it: as a number or client id, neither half is one in use.
Garbage      == [num |-> Address, client |-> -2]
NoProposal   == [num |-> -1, client |-> -1]
Tried        == [num : -1 .. Address + 1, client : Clients \cup {-2, -1}]
Proposal     == [num : -1 .. Address + 2, client : Clients \cup {-2, -1}]
Less(p, q)   == p.num < q.num \/ (p.num = q.num /\ p.client < q.client)

NoId      == <<>>
Id        == Clients \X Nat
NoCommand == [id |-> NoId, type |-> "NONE", value |-> NoId]
Command   == [id : Id \cup {NoId}, type : {"READ", "WRITE", "NONE"}, value : Id \cup {NoId}]

EmptyEntry == [min |-> NoProposal, acc |-> NoProposal, cmd |-> NoCommand]
Entry      == [min : Tried, acc : Proposal, cmd : Command]
Message    == [to : Server, kind : {"PREPARE", "ACCEPT"}, index : Slot, prop : Tried,
               cmd : Command]
Response   == [server : Server, code : {"ACK"}, prop : Proposal, cmd : Command]
                \cup [server : Server, code : {"NACK"}, prop : Tried, cmd : Command]

VARIABLES
  log,        \* log[n][i]: promise, accepted proposal and command of slot i at server n
  free,       \* free[n]: next_available_slot
  mp_ks_map,  \* mp_ks_map[n]: the value server n keeps for the key
  pc,         \* pc[n]: what the request handler of server n does next
  orig,       \* orig[n]: its orig_cmd: command, slot and proposal
  sent,       \* sent[n]: the command of its ACCEPT
  asked,      \* asked[n]: servers that have not handled the request of its phase
  replied,    \* replied[n]: the replies to its phase
  late,       \* requests of finished phases still in flight
  ops,        \* ops[c]: requests of client c so far
  done,       \* history: slot, command and server of every insert_command that ended
  accepts,    \* history: every ACCEPT an acceptor took or a proposer put in its own log
  deviations  \* history: how Paxos was departed from

acceptor == <<log, free, mp_ks_map>>
phase    == <<asked, replied, late>>
history  == <<done, accepts, deviations>>
vars     == <<acceptor, pc, orig, sent, phase, ops, history>>

TypeOK ==
  /\ log \in [Server -> [Slot -> Entry]]
  /\ free \in [Server -> SUBSET Slot]
  /\ mp_ks_map \in [Server -> Id \cup {NoId}]
  /\ pc \in [Server -> {"idle", "update", "prepare", "accept", "apply"}]
  /\ orig \in [Server -> [cmd : Command, index : Slot, prop : Tried]]
  /\ sent \in [Server -> Command]
  /\ asked \in [Server -> SUBSET Server]
  /\ replied \in [Server -> SUBSET Response]
  /\ late \subseteq Message
  /\ ops \in [Clients -> Nat]
  /\ done \subseteq [server : Server, index : Slot, prop : Tried, cmd : Command]
  /\ accepts \subseteq Message
  /\ deviations \subseteq {"overwritten", "tie", "discarded", "replaced", "unset"}

Init ==
  /\ log = [n \in Server |-> [i \in Slot |-> EmptyEntry]]
  /\ free = [n \in Server |-> Slot]
  /\ mp_ks_map = [n \in Server |-> NoId]
  /\ pc = [n \in Server |-> "idle"]
  /\ orig = [n \in Server |-> [cmd |-> NoCommand, index |-> 0, prop |-> NoProposal]]
  /\ sent = [n \in Server |-> NoCommand]
  /\ asked = [n \in Server |-> {}]
  /\ replied = [n \in Server |-> {}]
  /\ late = {}
  /\ ops = [c \in Clients |-> 0]
  /\ done = {} /\ accepts = {} /\ deviations = {}

\* The departures from Paxos in a step are recorded.
When(happens, kind) == IF happens THEN {kind} ELSE {}
Deviate(kinds)    == deviations' = deviations \cup kinds

-----------------------------------------------------------------------------
(* The acceptor: PaxosRequestHandler, under log_map_mutex.                  *)

\* Deliberately wrong, for the mutation runs: slots are counted from one.
LastWriteFromOne(entries, index, value) ==
  LET writes == {i \in 1 .. index : entries[i].cmd.type = "WRITE"}
  IN  IF writes = {} THEN value ELSE entries[Max(writes)].cmd.value

\* apply_last_write: the value of the last WRITE up to a slot, if there is one.
LastWrite(entries, index, value) ==
  LET writes == {i \in 0 .. index : entries[i].cmd.type = "WRITE"}
  IN  IF writes = {} THEN value ELSE entries[Max(writes)].cmd.value

\* Deliberately wrong, for the mutation runs: equal numbers are not told apart by client id.
PromiseableAnyClient(m) == m.prop.num >= log[m.to][m.index].min.num

\* A PREPARE is promised when it is greater than the promise given.
Promiseable(m) == Less(log[m.to][m.index].min, m.prop)

\* An ACCEPT is taken when its number is not smaller; the client id is not looked at.
Acceptable(m) == m.prop.num >= log[m.to][m.index].min.num

\* The reply carries the accepted command, but with the type of the request's.
Promise(m) ==
  /\ m.kind = "PREPARE" /\ Promiseable(m)
  /\ log' = [log EXCEPT ![m.to][m.index].min = m.prop]
  /\ UNCHANGED <<free, mp_ks_map, accepts, deviations>>

Accept(m) ==
  /\ m.kind = "ACCEPT" /\ Acceptable(m)
  /\ log' = [log EXCEPT ![m.to][m.index] = [min |-> m.prop, acc |-> m.prop, cmd |-> m.cmd]]
  /\ free' = [free EXCEPT ![m.to] = @ \ {m.index}]
  /\ mp_ks_map' = [mp_ks_map EXCEPT ![m.to] =
       IF m.cmd.type = "WRITE" THEN LastWrite(log'[m.to], m.index, @) ELSE @]
  /\ accepts' = accepts \cup {m}
  /\ Deviate(When(Less(m.prop, log[m.to][m.index].min), "tie"))

\* The answer of the acceptor to m, by what it finds in the slot.
Answer(m) ==
  LET e == log[m.to][m.index]
  IN  CASE m.kind = "PREPARE" /\ Promiseable(m) ->
             [server |-> m.to, code |-> "ACK", prop |-> e.acc,
              cmd |-> [e.cmd EXCEPT !.type = m.cmd.type]]
        [] m.kind = "ACCEPT" /\ Acceptable(m) ->
             [server |-> m.to, code |-> "ACK", prop |-> m.prop, cmd |-> m.cmd]
        [] OTHER ->
             [server |-> m.to, code |-> "NACK", prop |-> e.min, cmd |-> NoCommand]

Nack(m) == Answer(m).code = "NACK" /\ UNCHANGED <<acceptor, accepts, deviations>>

PaxosRequestHandler(m) == Promise(m) \/ Accept(m) \/ Nack(m)

\* The message server n sends to server s in its phase.
Request(n, s) ==
  [to |-> s, kind |-> IF pc[n] = "prepare" THEN "PREPARE" ELSE "ACCEPT",
   index |-> orig[n].index, prop |-> orig[n].prop,
   cmd |-> IF pc[n] = "prepare" THEN orig[n].cmd ELSE sent[n]]

Handle(n, s) ==
  /\ s \in asked[n]
  /\ PaxosRequestHandler(Request(n, s))
  /\ asked' = [asked EXCEPT ![n] = @ \ {s}]
  /\ replied' = [replied EXCEPT ![n] = @ \cup {Answer(Request(n, s))}]
  /\ UNCHANGED <<pc, orig, sent, late, ops, done>>

HandleLate(m) ==
  /\ PaxosRequestHandler(m)
  /\ late' = late \ {m}
  /\ UNCHANGED <<pc, orig, sent, asked, replied, ops, done>>

-----------------------------------------------------------------------------
(* The phases of the proposer: send_message_to_all_mp_server.               *)

\* Deliberately wrong, for the mutation runs: the replies to PREPARE are kept.
NewPhaseKeepingReplies(n, servers) ==
  /\ asked' = [asked EXCEPT ![n] = servers]
  /\ replied' = [replied EXCEPT ![n] = IF servers = {} THEN {} ELSE @]
  /\ late' = late \cup {Request(n, s) : s \in asked[n]}
  /\ Cardinality(late') <= MaxLate

\* A phase ends and the next one asks servers: replies to the old one are
\* dropped, its requests that were not handled stay in flight.
NewPhase(n, servers) ==
  /\ asked' = [asked EXCEPT ![n] = servers]
  /\ replied' = [replied EXCEPT ![n] = {}]
  /\ late' = late \cup {Request(n, s) : s \in asked[n]}
  /\ Cardinality(late') <= MaxLate

\* A server has connections to the others only.
Peers(n)     == Server \ {n}
Broadcast(n) == NewPhase(n, Peers(n))
EndPhase(n)  == NewPhase(n, {}) /\ sent' = [sent EXCEPT ![n] = NoCommand]

\* The vectors of replies the polling loop can return with, which looks at a
\* reply only to pass it on: a majority in any order, and past it only servers
\* further on in the same sweep.
Collected(n) ==
  {resp \in UNION {[1 .. k -> replied[n]] : k \in Majority .. N - 1} :
     \A i, j \in DOMAIN resp : i < j =>
       /\ resp[i] # resp[j]
       /\ j > Majority /\ j = i + 1 => resp[i].server < resp[j].server}

(* get_highest_accepted_proposal.                                           *)

IsNack(r)     == r.code = "NACK"
Nacks(resp)   == {r.prop.num : r \in {resp[i] : i \in {j \in DOMAIN resp : IsNack(resp[j])}}}
Acks(resp)    == SelectSeq(resp, LAMBDA r : ~ IsNack(r))
NextNum(resp) == Max(Nacks(resp)) + 1

\* Only acknowledgements with the number of the first one are compared; the
\* last of those with the greatest client id is kept.
SameNum(acks) == {i \in DOMAIN acks : acks[i].prop.num = acks[1].prop.num}
Highest(acks) ==
  acks[Max({i \in SameNum(acks) :
              \A j \in SameNum(acks) : acks[j].prop.client <= acks[i].prop.client})]

DiscardsGreater(acks) == \E i \in DOMAIN acks : acks[i].prop.num > acks[1].prop.num

-----------------------------------------------------------------------------
(* The request handler of a server: insert_command and propose.             *)

\* The next round of propose, with a number; the one after an unset number is
\* tried as well.
Restart(n, num) ==
  /\ num <= MaxNum[orig[n].prop.client] \/ num = Address + 1
  /\ pc' = [pc EXCEPT ![n] = "update"]
  /\ orig' = [orig EXCEPT ![n].prop.num = num]
  /\ EndPhase(n)

\* A client's request; insert_command takes the first free slot.
StartRequest(n, c, type) ==
  LET id == <<c, ops[c] + 1>>
  IN  /\ pc[n] = "idle" /\ c % N = n /\ ops[c] < MaxOps[c] /\ free[n] # {}
      /\ ops' = [ops EXCEPT ![c] = @ + 1]
      /\ orig' = [orig EXCEPT ![n] =
           [cmd   |-> [id |-> id, type |-> type, value |-> IF type = "WRITE" THEN id ELSE NoId],
            index |-> Min(free[n]),
            prop  |-> [num |-> 0, client |-> c]]]
      /\ pc' = [pc EXCEPT ![n] = "update"]
      /\ UNCHANGED <<acceptor, sent, phase, history>>

\* What a proposer that were its own acceptor would have refused or adopted.
Overwrites(n) ==
  LET e == log[n][orig[n].index]
  IN  Less(orig[n].prop, e.min) \/ e.acc # NoProposal

\* update_local_values gives the promise to the own proposal, without a lock and
\* whatever it was; then the PREPAREs are sent.
UpdateLocalValues(n) ==
  /\ pc[n] = "update"
  /\ log' = [log EXCEPT ![n][orig[n].index].min = orig[n].prop]
  /\ pc' = [pc EXCEPT ![n] = "prepare"]
  /\ Broadcast(n)
  /\ Deviate(When(Overwrites(n), "overwritten"))
  /\ UNCHANGED <<free, mp_ks_map, orig, sent, ops, done, accepts>>

\* Some server refused: a greater number, from the start.
PrepareRefused(n, resp) ==
  /\ pc[n] = "prepare" /\ Nacks(resp) # {}
  /\ Restart(n, NextNum(resp))
  /\ UNCHANGED <<acceptor, ops, history>>

\* All promised: ACCEPT for the own command or for the one found.
PreparePromised(n, resp) ==
  /\ pc[n] = "prepare" /\ Nacks(resp) = {}
  /\ pc' = [pc EXCEPT ![n] = "accept"]
  /\ sent' = [sent EXCEPT ![n] =
       IF Highest(resp).prop.num = -1 THEN orig[n].cmd ELSE Highest(resp).cmd]
  /\ Broadcast(n)
  /\ Deviate(When(DiscardsGreater(resp), "discarded"))
  /\ UNCHANGED <<acceptor, orig, ops, done, accepts>>

\* The last test of insert_command, under log_map_mutex.
StillPromised(n) == log[n][orig[n].index].min = orig[n].prop

\* The slot gets an entry and is used up.
FillSlot(n, entry) ==
  /\ log' = [log EXCEPT ![n][orig[n].index] = entry]
  /\ free' = [free EXCEPT ![n] = @ \ {orig[n].index}]
  /\ UNCHANGED mp_ks_map

AllAccepted(n, resp) == pc[n] = "accept" /\ Nacks(resp) = {}

\* The own command was accepted: insert_command ends.
Inserted(n, resp) ==
  /\ AllAccepted(n, resp) /\ sent[n].id = orig[n].cmd.id /\ StillPromised(n)
  /\ FillSlot(n, [min |-> orig[n].prop, acc |-> orig[n].prop, cmd |-> orig[n].cmd])
  /\ done' = done \cup {[server |-> n, index |-> orig[n].index, prop |-> orig[n].prop,
                         cmd |-> orig[n].cmd]}
  /\ pc' = [pc EXCEPT ![n] = IF orig[n].cmd.type = "READ" THEN "apply" ELSE "idle"]
  /\ EndPhase(n)
  /\ UNCHANGED <<orig, ops, accepts, deviations>>

\* Deliberately wrong, for the mutation runs: the number is not raised.
OvertakenSameNum(n, resp) ==
  /\ AllAccepted(n, resp) /\ sent[n].id = orig[n].cmd.id /\ ~ StillPromised(n)
  /\ Restart(n, log[n][orig[n].index].min.num)
  /\ UNCHANGED <<acceptor, ops, history>>

\* It was accepted, but the own acceptor has moved on in the meantime.
Overtaken(n, resp) ==
  /\ AllAccepted(n, resp) /\ sent[n].id = orig[n].cmd.id /\ ~ StillPromised(n)
  /\ Restart(n, log[n][orig[n].index].min.num + 1)
  /\ UNCHANGED <<acceptor, ops, history>>

\* The slot goes to another command; the own one tries the next free slot.
NextSlot(n, entry) ==
  /\ FillSlot(n, entry)
  /\ free'[n] # {}
  /\ orig' = [orig EXCEPT ![n] = [@ EXCEPT !.index = Min(free'[n]), !.prop.num = 0]]
  /\ pc' = [pc EXCEPT ![n] = "update"]
  /\ EndPhase(n)
  /\ Deviate(When(~ StillPromised(n), "replaced") \cup When(entry.min = Garbage, "unset"))
  /\ UNCHANGED <<ops, done>>

Defeated(n, resp) ==
  /\ AllAccepted(n, resp) /\ sent[n].id # orig[n].cmd.id
  /\ NextSlot(n, [min |-> orig[n].prop, acc |-> orig[n].prop, cmd |-> sent[n]])
  /\ accepts' = accepts \cup {Request(n, n)}

AcceptRefused(n, resp) ==
  /\ pc[n] = "accept" /\ Nacks(resp) # {}
  /\ Restart(n, NextNum(resp))
  /\ UNCHANGED <<acceptor, ops, history>>

\* With both kinds of answers get_highest_accepted_proposal returns a fresh
\* command with an unset command_id.  The memory may be that of the command
\* deleted just before: it then counts as accepted, with an unset client id, and
\* as another client's command it is put in the log without its value.
AcceptMixed(n, resp) ==
  /\ pc[n] = "accept" /\ Nacks(resp) # {} /\ Acks(resp) # <<>>
  /\ \/ /\ sent[n].id = orig[n].cmd.id
        /\ Restart(n, log[n][orig[n].index].min.num + 1)
        /\ UNCHANGED <<acceptor, ops, history>>
     \/ /\ sent[n].id # orig[n].cmd.id
        /\ NextSlot(n, [min |-> Garbage, acc |-> [Garbage EXCEPT !.num = NextNum(resp)],
                        cmd |-> [sent[n] EXCEPT !.type = "NONE", !.value = NoId]])
        /\ UNCHANGED accepts

\* READ: with the command in the log, the last WRITE before it is applied and returned.
ReadReturn(n) ==
  /\ pc[n] = "apply"
  /\ mp_ks_map' = [mp_ks_map EXCEPT ![n] = LastWrite(log[n], orig[n].index, @)]
  /\ pc' = [pc EXCEPT ![n] = "idle"]
  /\ UNCHANGED <<log, free, orig, sent, phase, ops, history>>

-----------------------------------------------------------------------------

Propose(n) ==
  \/ UpdateLocalValues(n) \/ ReadReturn(n)
  \/ \E resp \in Collected(n) :
       \/ PrepareRefused(n, resp) \/ PreparePromised(n, resp)
       \/ Inserted(n, resp) \/ Overtaken(n, resp) \/ Defeated(n, resp)
       \/ AcceptRefused(n, resp) \/ AcceptMixed(n, resp)

Next ==
  \/ \E n \in Server :
       \/ \E c \in Clients : \E type \in Types[c] : StartRequest(n, c, type)
       \/ \E s \in Server : Handle(n, s)
       \/ Propose(n)
  \/ \E m \in late : HandleLate(m)

Spec == Init /\ [][Next]_vars

-----------------------------------------------------------------------------
(* Properties.                                                              *)

\* "This function implements multipaxos" (server.cpp:681): the commands of two
\* calls of insert_command that have ended are not in the same slot.
Agreement ==
  \A d, e \in done : d.index = e.index => d.cmd.id = e.cmd.id

\* A proposal is used for one command: no slot sees two commands under the same
\* number and client id, whatever rounds, slots and requests its proposer went
\* through (597-680, 734-786).  Everything Paxos promises rests on this.
OneCommandPerProposal ==
  \A a, b \in accepts : a.index = b.index /\ a.prop = b.prop => a.cmd = b.cmd

\* A command that was inserted had been accepted, under its last proposal, by a
\* majority of the servers, its own included, and with its value unless some
\* server lost it; replies of earlier rounds and of the PREPAREs are not mistaken
\* for acceptances.
InsertedByMajority ==
  \A d \in done :
    Cardinality({a \in accepts : /\ a.index = d.index /\ a.prop = d.prop /\ a.cmd.id = d.cmd.id
                                 /\ a.cmd = d.cmd \/ "unset" \in deviations}) >= Majority

\* The departures that can break agreement are these: a proposer overwrites or
\* ignores what its own acceptor has promised or accepted, an ACCEPT is taken
\* below the promise, a greater accepted proposal is discarded, an entry of the
\* log is replaced after its promise was overtaken, or by one that was never set.
OnlyDeviationsBreakAgreement == deviations = {} => Agreement

-----------------------------------------------------------------------------
(* The inductive invariant behind these properties.                         *)

Proposing(n) == pc[n] \in {"update", "prepare", "accept"}
Asking(n)    == pc[n] \in {"prepare", "accept"}

\* The server whose proposer uses the proposals of client c.
Home(c) == c % N

\* A server serves a client of its own.
ServesOwnClients ==
  \A n \in Server : pc[n] # "idle" =>
    /\ orig[n].prop.client \in Clients /\ Home(orig[n].prop.client) = n
    /\ orig[n].prop.num >= 0

\* Each other server is asked once in a phase, and has one reply to it.
OneReplyPerServer ==
  \A n \in Server :
    /\ ~ Asking(n) => asked[n] = {} /\ replied[n] = {}
    /\ n \notin asked[n]
    /\ \A r \in replied[n] : r.server # n /\ r.server \notin asked[n]
    /\ \A r1, r2 \in replied[n] : r1.server = r2.server => r1 = r2

\* A refusal, and the own acceptor, know a number no smaller than the own one.
RefusalsAreHigher ==
  \A n \in Server :
    /\ \A r \in replied[n] : IsNack(r) => r.prop.num >= orig[n].prop.num
    /\ Asking(n) => log[n][orig[n].index].min.num >= orig[n].prop.num

\* The ACCEPTs that are in flight from finished phases or that were taken.
Accepting == accepts \cup {m \in late : m.kind = "ACCEPT"}

\* An ACCEPT of the proposer of server n is for a slot that is used up there, or
\* for the slot it is at, under a number it has left behind or is sending.
Behind(n, m) ==
  IF Proposing(n) /\ orig[n].index = m.index
  THEN /\ orig[n].prop.client = m.prop.client
       /\ \/ m.prop.num < orig[n].prop.num
          \/ m.prop = orig[n].prop /\ pc[n] = "accept" /\ m.cmd = sent[n]
  ELSE m.index \notin free[n]

Fresh(m) ==
  m.prop.client \in Clients /\ m.prop.num >= 0 /\ Behind(Home(m.prop.client), m)

ProposalsAreFresh == \A m \in Accepting : Fresh(m)

OneCommandInFlight ==
  \A a, b \in Accepting : a.index = b.index /\ a.prop = b.prop => a.cmd = b.cmd

\* The commands that acceptors, proposers and messages hold.
Commands ==
  {log[n][i].cmd : n \in Server, i \in Slot} \cup {orig[n].cmd : n \in Server}
    \cup {sent[n] : n \in Server} \cup {m.cmd : m \in late \cup accepts}
    \cup UNION {{r.cmd : r \in replied[n]} : n \in Server}

\* A command_id stands for one value wherever it turns up.
OneValuePerId ==
  "unset" \notin deviations =>
    /\ \A x \in Commands : IF x.id \in Id THEN x.id[2] <= ops[x.id[1]] ELSE x.value = NoId
    /\ \A x, y \in Commands : x.id = y.id => x.value = y.value

\* A proposer that counts acceptances has sent a command with its own type, and
\* the acknowledgements it holds are for that command.
AcceptedAsSent ==
  \A n \in Server :
    /\ pc[n] = "prepare" => \A r \in replied[n] : IsNack(r) \/ r.cmd.type = orig[n].cmd.type
    /\ pc[n] = "accept" => /\ sent[n].type = orig[n].cmd.type
                           /\ \A r \in replied[n] : IsNack(r) \/ Request(n, r.server) \in accepts

\* The same as InsertedByMajority, told as a set of servers that does not
\* contain the proposer.
InsertedByQuorum ==
  \A d \in done : \E a \in accepts, Q \in SUBSET Peers(d.server) :
    /\ a.index = d.index /\ a.prop = d.prop /\ a.cmd.id = d.cmd.id
    /\ a.cmd = d.cmd \/ "unset" \in deviations
    /\ Cardinality(Q) >= Majority /\ \A s \in Q : [a EXCEPT !.to = s] \in accepts

\* The command_ids server s has voted for in slot i under proposal p: what its
\* acceptor accepted and what its proposer inserted.
Votes(s, i, p) ==
  {a.cmd.id : a \in {b \in accepts : b.to = s /\ b.index = i /\ b.prop = p}}
    \cup {d.cmd.id : d \in {e \in done : e.server = s /\ e.index = i /\ e.prop = p}}

\* Some ACCEPT for id under proposal p was taken.
Accepted(i, p, id) == \E a \in accepts : a.index = i /\ a.prop = p /\ a.cmd.id = id

\* An acceptor's entry holds the greatest proposal it has voted for.
VotesAreRecorded ==
  \A s \in Server, i \in Slot :
    /\ ~ Less(log[s][i].min, log[s][i].acc)
    /\ log[s][i].acc # NoProposal => Accepted(i, log[s][i].acc, log[s][i].cmd.id)
    /\ \A p \in Tried : Votes(s, i, p) # {} => ~ Less(log[s][i].acc, p)

\* Server s has promised p in slot i and has, below p, no vote above acc.
Promised(s, i, p, acc) ==
  /\ ~ Less(log[s][i].min, p)
  /\ \A q \in Tried : Less(acc, q) /\ Less(q, p) => Votes(s, i, q) = {}

\* An acknowledged PREPARE is such a promise, with the accepted proposal in the
\* reply; so is the promise a proposer gives itself, having accepted nothing.
PromisesAreKept ==
  \A n \in Server : pc[n] = "prepare" =>
    /\ Promised(n, orig[n].index, orig[n].prop, NoProposal)
    /\ \A r \in replied[n] : ~ IsNack(r) =>
         /\ Promised(r.server, orig[n].index, orig[n].prop, r.prop)
         /\ r.prop # NoProposal => Accepted(orig[n].index, r.prop, r.cmd.id)

\* Server s has voted for id under q, or never votes under q.
VotedOrWont(s, i, q, id) ==
  id \in Votes(s, i, q) \/ (Votes(s, i, q) = {} /\ Less(q, log[s][i].min))

\* No other command than id is or will be chosen in slot i below p.
SafeAt(i, p, id) ==
  \A q \in Tried : Less(q, p) =>
    \E Q \in SUBSET Server : /\ Cardinality(Q) > Majority
                             /\ \A s \in Q : VotedOrWont(s, i, q, id)

SentIsSafe ==
  /\ \A m \in Accepting : SafeAt(m.index, m.prop, m.cmd.id)
  /\ \A n \in Server : pc[n] = "accept" => SafeAt(orig[n].index, orig[n].prop, sent[n].id)

IInv ==
  /\ TypeOK /\ ServesOwnClients /\ OneReplyPerServer /\ RefusalsAreHigher
  /\ ProposalsAreFresh /\ OneCommandInFlight
  /\ OneValuePerId /\ AcceptedAsSent /\ InsertedByQuorum
  /\ deviations = {} => VotesAreRecorded /\ PromisesAreKept /\ SentIsSafe
=============================================================================
