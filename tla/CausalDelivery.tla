--------------------------- MODULE CausalDelivery ---------------------------
(***************************************************************************)
(* What the CM servers promise one another.  Each server keeps a copy of    *)
(* the store.  A write carries a vector that counts its server's own writes *)
(* exactly and of the others' at most those the server has seen; a server   *)
(* sees the writes of another one in the order they were made, one by one,  *)
(* and only after everything their vectors count.                           *)
(***************************************************************************)
EXTENDS Integers, Sequences

CONSTANTS Node, Key

NoWrite == <<>>

VARIABLES writes,   \* writes[i]: the writes made at server i, in order
          seen,     \* seen[n][i]: how many of them server n has applied
          store     \* store[n][k]: the write whose value server n keeps for k

vars == <<writes, seen, store>>

Init ==
  /\ writes = [i \in Node |-> <<>>]
  /\ seen = [n \in Node |-> [i \in Node |-> 0]]
  /\ store = [n \in Node |-> [k \in Key |-> NoWrite]]

\* The vectors a write at server n may carry.
Counts(n) ==
  {clk \in [Node -> UNION {0 .. seen[n][i] + 1 : i \in Node}] :
     clk[n] = seen[n][n] + 1 /\ \A i \in Node \ {n} : clk[i] <= seen[n][i]}

Write(n, k) ==
  /\ seen' = [seen EXCEPT ![n][n] = @ + 1]
  /\ store' = [store EXCEPT ![n][k] = <<n, seen[n][n] + 1>>]
  /\ \E clk \in Counts(n) :
       writes' = [writes EXCEPT ![n] = Append(@, [nodenum |-> n, key |-> k, vec_clk |-> clk])]

Receive(n, i) ==
  LET next == seen[n][i] + 1
      m    == writes[i][next]
  IN  /\ i # n /\ next <= Len(writes[i])
      /\ \A j \in Node \ {i} : m.vec_clk[j] <= seen[n][j]
      /\ seen' = [seen EXCEPT ![n][i] = next]
      /\ store' = [store EXCEPT ![n][m.key] = <<i, next>>]
      /\ UNCHANGED writes

Next ==
  \E n \in Node :
    \/ \E k \in Key : Write(n, k)
    \/ \E i \in Node : Receive(n, i)

Spec == Init /\ [][Next]_vars

-----------------------------------------------------------------------------
(* What follows from it.                                                    *)

WriteRecord == [nodenum : Node, key : Key, vec_clk : [Node -> Nat]]

TypeOK ==
  /\ writes \in [Node -> Seq(WriteRecord)]
  /\ seen \in [Node -> [Node -> Nat]]
  /\ store \in [Node -> [Key -> (Node \X Nat) \cup {NoWrite}]]

\* A write is named by its server and its number there.
Clock(v) == writes[v[1]][v[2]].vec_clk
KeyOf(v) == writes[v[1]][v[2]].key

SeenWrites(n)   == UNION {{<<i, j>> : j \in 1 .. seen[n][i]} : i \in Node}
SeenOfKey(n, k) == {v \in SeenWrites(n) : KeyOf(v) = k}

\* Server n has seen everything that the writes it has seen count.
SeenIsClosed ==
  \A n \in Node : \A v \in SeenWrites(n) : \A i \in Node : Clock(v)[i] <= seen[n][i]

\* A server keeps a write of the key, and none that another write of the key,
\* which it has seen as well, counts.
KeepsNewest ==
  \A n \in Node, k \in Key :
    LET kept == store[n][k]
    IN  IF SeenOfKey(n, k) = {} THEN kept = NoWrite
        ELSE /\ kept \in SeenOfKey(n, k)
             /\ \A v \in SeenOfKey(n, k) \ {kept} : Clock(v)[kept[1]] < kept[2]

\* Servers have seen what was made, and all of their own.
SeenInRange ==
  /\ \A n \in Node : seen[n][n] = Len(writes[n])
  /\ \A n, i \in Node : seen[n][i] <= Len(writes[i])

\* A vector counts the write that carries it.
CountsItself == \A i \in Node : \A j \in 1 .. Len(writes[i]) : Clock(<<i, j>>)[i] = j

CausalInv == TypeOK /\ SeenInRange /\ CountsItself /\ SeenIsClosed /\ KeepsNewest
=============================================================================
