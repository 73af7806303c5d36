------------------------------ MODULE CMClients ------------------------------
(***************************************************************************)
(* The CM servers with their clients.  A client is bound to one server      *)
(* (send_message_to_one_server, client_lib.cpp 302-318) and runs one        *)
(* operation at a time.  README.md:2 promises causal consistency: what a    *)
(* client has read or written happens before what it writes next, and no    *)
(* read goes back behind that order.                                        *)
(***************************************************************************)
EXTENDS CMServer

CONSTANTS Clients,    \* client ids
          MaxReads    \* bound: MaxReads[c] reads by client c

ASSUME ClientsAssumption == Clients \subseteq Nat /\ MaxReads \in [Clients -> Nat]

VARIABLES reads,      \* reads[c]: reads c has done
          value,      \* value[c]: the write whose value the last read of c returned
          past,       \* history: past[c], the writes that happened before c's next operation
          before,     \* history: <<u, w>>, write u happened before write w
          stale,      \* history: stale[c], what the last read of c had to avoid
          missed,     \* history: missed[c], the last read of c did not find a key that is there
          uncounted   \* history: some write does not count a write in its past

cvars == <<vars, reads, value, past, before, stale, missed, uncounted>>

\* The server a client talks to.
Home(c) == c % N

CInit ==
  /\ Init
  /\ reads = [c \in Clients |-> 0]
  /\ value = [c \in Clients |-> NoWrite]
  /\ past = [c \in Clients |-> {}]
  /\ before = {}
  /\ stale = [c \in Clients |-> {}]
  /\ missed = [c \in Clients |-> FALSE]
  /\ uncounted = FALSE

Put(c, k) ==
  LET w == WriteOf(NewMessage(Home(c), k))
  IN  /\ ClientWrite(Home(c), k)
      /\ before' = before \cup (past[c] \X {w})
      /\ past' = [past EXCEPT ![c] = @ \cup {w}]
      /\ uncounted' = (uncounted \/ \E u \in past[c] : u[2] > t'[Home(c)][u[1]])
      /\ UNCHANGED <<reads, value, stale, missed>>

KeyOf(w) == issued[w[1]][w[2]].key

\* A read of key k returns w: reads of k may no longer return what c knows to
\* be overwritten, and what happened before w has now happened before c.
Read(c, k, w) ==
  LET known == {u \in past[c] : KeyOf(u) = k}
  IN  /\ reads[c] < MaxReads[c]
      /\ reads' = [reads EXCEPT ![c] = @ + 1]
      /\ value' = [value EXCEPT ![c] = w]
      /\ stale' = [stale EXCEPT ![c] =
           IF known = {} THEN {}
           ELSE {NoWrite} \cup {uv[1] : uv \in {x \in before : x[2] \in known}}]
      /\ past' = [past EXCEPT ![c] = @ \cup ({w} \ {NoWrite})
                                       \cup {uv[1] : uv \in {x \in before : x[2] = w}}]
      /\ UNCHANGED <<vars, before, uncounted>>

Get(c, k) ==
  /\ Read(c, k, cm_ks_map[Home(c)][k])
  /\ missed' = [missed EXCEPT ![c] = FALSE]

\* A key that cm_ks_map of server n does not have is being inserted in it, by the
\* processing thread or by the WRITE of another client than c.
Inserting(n, c) ==
  \E k \in Key :
    /\ cm_ks_map[n][k] = NoWrite
    /\ \/ step[n] = "apply" /\ req[n].key = k
       \/ \E d \in Clients \ {c} : Home(d) = n /\ Len(issued[n]) < MaxWrites[n]

\* The find at 159 is made without cm_ks_map_mutex: while the tree is being
\* changed it may not find a key that is there.
GetMiss(c, k) ==
  /\ cm_ks_map[Home(c)][k] # NoWrite /\ Inserting(Home(c), c)
  /\ Read(c, k, NoWrite)
  /\ missed' = [missed EXCEPT ![c] = TRUE]

ThreadStep ==
  /\ \E n \in Node : SendingThread(n) \/ ProcessingThread(n)
  /\ UNCHANGED <<reads, value, past, before, stale, missed, uncounted>>

CNext ==
  \/ \E c \in Clients : \E k \in Key : Put(c, k) \/ Get(c, k) \/ GetMiss(c, k)
  \/ ThreadStep

CSpec == CInit /\ [][CNext]_cvars

\* No client reads a value that was overwritten in its past, nor "no such key"
\* once a write of the key is in its past (README.md:2, "Causal Consistency").
CausalReads == \A c \in Clients : value[c] \notin stale[c]

\* Two things can break it: a write whose vector does not count a write its
\* client had read, and a find that misses a key, which misleads that one read
\* and none after it.  While every vector is honest, the order of delivery and
\* the conditions at 886-894 keep all other reads causal.
OnlyUncountedBreakCausality ==
  \A c \in Clients : ~ uncounted /\ ~ missed[c] => value[c] \notin stale[c]

-----------------------------------------------------------------------------
(* The inductive invariant behind OnlyUncountedBreakCausality, over those   *)
(* of CMServer and CausalDelivery.                                          *)

CTypeOK ==
  /\ reads \in [Clients -> Nat]
  /\ value \in [Clients -> (Node \X Nat) \cup {NoWrite}]
  /\ past \in [Clients -> SUBSET (Node \X Nat)]
  /\ before \subseteq (Node \X Nat) \X (Node \X Nat)
  /\ stale \in [Clients -> SUBSET ((Node \X Nat) \cup {NoWrite})]
  /\ missed \in [Clients -> BOOLEAN]
  /\ uncounted \in BOOLEAN

\* What happened before a client's next operation was applied at its server.
PastIsApplied ==
  \A c \in Clients : past[c] \subseteq Abstract!SeenWrites(Home(c))

\* A write counts all that happened before it.
BeforeIsCounted ==
  \A x \in before :
    /\ x[2][2] \in 1 .. Len(issued[x[2][1]])
    /\ x[1] # x[2] /\ x[1][2] \in 1 .. Abstract!Clock(x[2])[x[1][1]]

ClientsInv ==
  /\ CTypeOK
  /\ ~ uncounted => PastIsApplied /\ BeforeIsCounted
  /\ OnlyUncountedBreakCausality
=============================================================================
