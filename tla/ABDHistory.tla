----------------------------- MODULE ABDHistory -----------------------------
(***************************************************************************)
(* The ABD register with the history its users see.  README.md:2 promises   *)
(* that this store is linearizable; NoStaleRead is a consequence of that    *)
(* which needs no search for a linearization.                               *)
(***************************************************************************)
EXTENDS ABD

VARIABLES known,     \* values whose put has returned or that a get has returned
          before,    \* <<u, v>>: u was known when the put of v was called
          stale,     \* stale[c]: values that c's last get may not return
          written,   \* the pairs that were ever sent in a WRITE
          discarded  \* find_majority_tag has thrown away a greater integer

hvars == <<vars, known, before, stale, written, discarded>>

\* A value is overwritten for good when it was known before the put of some
\* known value was called.
Overwritten ==
  IF known = {} THEN {} ELSE {NoValue} \cup {uv[1] : uv \in {x \in before : x[2] \in known}}

HInit ==
  /\ Init
  /\ known = {} /\ before = {} /\ stale = [c \in Clients |-> {}]
  /\ written = {} /\ discarded = FALSE

HStartPut(c) ==
  /\ StartPut(c)
  /\ before' = before \cup {<<u, req'[c].value>> : u \in known}
  /\ UNCHANGED <<known, stale, written, discarded>>

HStartGet(c) ==
  /\ StartGet(c)
  /\ stale' = [stale EXCEPT ![c] = Overwritten]
  /\ UNCHANGED <<known, before, written, discarded>>

HChoose(c) ==
  /\ \/ (PutWrite(c) \/ GetWriteBack(c)) /\ written' = written \cup {req'[c]}
     \/ GetEmpty(c) /\ UNCHANGED written
  /\ discarded' = (discarded \/ DiscardsGreater(vec_resp[c]))
  /\ UNCHANGED <<known, before, stale>>

HReturn(c) ==
  /\ PutReturn(c) \/ GetReturn(c)
  /\ known' = known \cup {req[c].value}
  /\ UNCHANGED <<before, stale, written, discarded>>

HOther ==
  /\ ServerStep \/ LateStep \/ \E c \in Clients : \E r \in replied[c] : Collect(c, r)
  /\ UNCHANGED <<known, before, stale, written, discarded>>

HNext == HOther \/ \E c \in Clients : HStartPut(c) \/ HStartGet(c) \/ HChoose(c) \/ HReturn(c)

HSpec == HInit /\ [][HNext]_hvars

ReadIsFresh(c) == pc[c] = "idle" /\ op[c] = "Get" => result[c] \notin stale[c]

\* A get does not return a value whose write was over before the put of a
\* value v was called, when v was already known as the get was called; nor
\* "no value" once any value is known (README.md:2, "Linearizable").
NoStaleRead == \A c \in Clients : ReadIsFresh(c)

\* The only causes of a stale read are find_majority_tag throwing away replies
\* with an integer greater than the first one's (client_lib.cpp, 268-281), and a
\* find that misses the key, for the get it answers: otherwise two rounds to a
\* majority, the write-back of a get and the order of tags keep every read fresh.
OnlyDiscardsMakeReadsStale ==
  ~ discarded => \A c \in Clients \ missed : ReadIsFresh(c)

-----------------------------------------------------------------------------
(* The inductive invariant behind OnlyDiscardsMakeReadsStale.               *)

HTypeOK ==
  /\ known \subseteq Value /\ before \subseteq Value \X Value
  /\ stale \in [Clients -> SUBSET Value]
  /\ written \subseteq Pair
  /\ discarded \in BOOLEAN

PairOf(m) == [tag |-> m.tag, value |-> m.value]

\* Whatever a server keeps, a message carries or a get is told was written, or
\* the key was absent.
OnlyWrittenSpreads ==
  /\ \A s \in Server : abd_ks_map[s] \in written \cup {Absent}
  /\ \A w \in late : PairOf(w) \in written
  /\ \A c \in Clients :
       /\ pc[c] = "write" => req[c] \in written
       /\ pc[c] = "query" /\ op[c] = "Get" =>
            /\ result[c] = NoValue
            /\ \A r \in replied[c] : PairOf(r) \in written \cup {Absent}
            /\ \A i \in DOMAIN vec_resp[c] : PairOf(vec_resp[c][i]) \in written \cup {Absent}

\* A value is written by its own put, under one tag, and not before its WRITE
\* phase begins; only finds of gets miss the key.
OneTagPerValue ==
  /\ \A p \in written :
       /\ p.value # NoValue /\ p.value[2] <= ops[p.value[1]] /\ p.tag.integer > 0
  /\ \A p, q \in written : p.value = q.value => p.tag = q.tag
  /\ \A c \in Clients : pc[c] = "query" /\ op[c] = "Put" =>
       /\ req[c].value = <<c, ops[c]>> /\ c \notin missed
       /\ \A p \in written : p.value # req[c].value

\* Value u was written under one of these tags.
WrittenUnder(u, tags) == \E p \in written : p.value = u /\ p.tag \in tags

\* What was known when a put was called was settled then, and gets a smaller tag.
TagsFollowTime ==
  /\ \A u \in known : WrittenUnder(u, settled)
  /\ \A x \in before :
       /\ x[1] \in known
       /\ \A p, q \in written : p.value = x[1] /\ q.value = x[2] => Less(p.tag, q.tag)
       /\ \A c \in Clients : pc[c] = "query" /\ op[c] = "Put" /\ x[2] = req[c].value =>
            WrittenUnder(x[1], floor[c])

\* A get has to avoid what is below a tag that was settled as it was called, and
\* does so in what it writes back and returns.
GetsAvoidStale ==
  \A c \in Clients : op[c] = "Get" =>
    /\ pc[c] = "query" => \A u \in stale[c] : \E t \in floor[c] :
         IF u = NoValue THEN Less(ZeroTag, t)
         ELSE \E p \in written : p.value = u /\ Less(p.tag, t)
    /\ pc[c] = "write" /\ c \notin missed => req[c].value \notin stale[c]
    /\ pc[c] = "idle" /\ c \notin missed => result[c] \notin stale[c]

HistoryInv ==
  /\ HTypeOK
  /\ ~ discarded => OnlyWrittenSpreads /\ OneTagPerValue /\ TagsFollowTime /\ GetsAvoidStale
=============================================================================
