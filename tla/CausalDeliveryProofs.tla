------------------------ MODULE CausalDeliveryProofs ------------------------
(***************************************************************************)
(* What delivery in causal order is worth: the servers' copies of the store *)
(* are closed under what the writes count, and keep no overwritten value.   *)
(***************************************************************************)
EXTENDS CausalDelivery, TLAPS

-----------------------------------------------------------------------------
(* Writes a server has seen.                                                *)

\* A write a server has seen, by its coordinates.
LEMMA SeenMembers ==
  ASSUME TypeOK, NEW n \in Node
  PROVE  \A v : v \in SeenWrites(n) <=>
                  \E i \in Node : \E j \in 1 .. seen[n][i] : v = <<i, j>>
BY DEF SeenWrites

\* It was made, under the number in its name, and its vector is one of counts.
LEMMA SeenWasMade ==
  ASSUME TypeOK, SeenInRange, CountsItself, NEW n \in Node, NEW v \in SeenWrites(n)
  PROVE  /\ v = <<v[1], v[2]>> /\ v[1] \in Node /\ v[2] \in Nat /\ v[2] >= 1
         /\ v[2] <= seen[n][v[1]] /\ v[2] <= Len(writes[v[1]])
         /\ Clock(v) \in [Node -> Nat] /\ Clock(v)[v[1]] = v[2] /\ KeyOf(v) \in Key
<1>1. PICK i \in Node : \E j \in 1 .. seen[n][i] : v = <<i, j>>
  BY SeenMembers
<1>2. PICK j \in 1 .. seen[n][i] : v = <<i, j>>
  BY <1>1
<1>3. /\ seen[n][i] \in Nat /\ Len(writes[i]) \in Nat
      /\ writes[i] \in Seq(WriteRecord)
  BY DEF TypeOK
<1>9. seen[n][i] <= Len(writes[i])
  BY DEF SeenInRange
<1>4. j \in 1 .. Len(writes[i]) /\ j \in Nat /\ j >= 1 /\ j <= seen[n][i]
  BY <1>3, <1>9
<1>5. v[1] = i /\ v[2] = j
  BY <1>2
<1>6. writes[i][j] \in WriteRecord
  BY <1>3, <1>4
<1>7. Clock(v) = Clock(<<i, j>>) /\ Clock(v) = writes[i][j].vec_clk /\ KeyOf(v) = writes[i][j].key
  BY <1>2, <1>5 DEF Clock, KeyOf
<1>8. Clock(<<i, j>>)[i] = j
  BY <1>4 DEF CountsItself
<1>10. /\ v = <<v[1], v[2]>> /\ v[1] \in Node /\ v[2] \in Nat /\ v[2] >= 1
       /\ v[2] <= seen[n][v[1]] /\ v[2] <= Len(writes[v[1]])
  BY <1>2, <1>3, <1>4, <1>5
<1>11. Clock(v) \in [Node -> Nat] /\ KeyOf(v) \in Key
  BY <1>6, <1>7 DEF WriteRecord
<1>12. Clock(v)[v[1]] = v[2]
  BY <1>5, <1>7, <1>8
<1> QED  BY <1>10, <1>11, <1>12

-----------------------------------------------------------------------------
(* The invariant.                                                           *)

LEMMA CausalInit == Init => CausalInv
<1> SUFFICES ASSUME Init PROVE CausalInv
  OBVIOUS
<1>1. TypeOK
  BY DEF Init, TypeOK
<1>2. ASSUME NEW n \in Node PROVE SeenWrites(n) = {}
  <2>1. \A i \in Node : seen[n][i] = 0
    BY DEF Init
  <2>2. 1 .. 0 = {}
    OBVIOUS
  <2> QED  BY <2>1, <2>2 DEF SeenWrites
<1>3. SeenInRange /\ CountsItself
  BY DEF Init, SeenInRange, CountsItself
<1> QED
  BY <1>1, <1>2, <1>3 DEF Init, CausalInv, SeenIsClosed, KeepsNewest, SeenOfKey

\* A vector a write may carry counts writes.
LEMMA CountsTyped ==
  ASSUME TypeOK, NEW n \in Node, NEW clk \in Counts(n)
  PROVE  clk \in [Node -> Nat]
<1>1. clk \in [Node -> UNION {0 .. seen[n][i] + 1 : i \in Node}]
  BY DEF Counts
<1>2. \A i \in Node : seen[n][i] \in Nat
  BY DEF TypeOK
<1>3. (UNION {0 .. seen[n][i] + 1 : i \in Node}) \subseteq Nat
  BY <1>2
<1> QED  BY <1>1, <1>3

\* A step on which server n applies the next write of server i, made before or
\* now, keeps it closed and its store new: nothing it had seen counts that write.
LEMMA ApplyNext ==
  ASSUME CausalInv, NEW n \in Node, NEW i \in Node, NEW k \in Key, NEW num, num = seen[n][i] + 1,
         seen' = [seen EXCEPT ![n] = [seen[n] EXCEPT ![i] = num]],
         store' = [store EXCEPT ![n] = [store[n] EXCEPT ![k] = <<i, num>>]],
         \A a \in Node : \A j \in 1 .. Len(writes[a]) : writes'[a][j] = writes[a][j],
         writes'[i][num].key = k, writes'[i][num].vec_clk[i] = num,
         \A j \in Node \ {i} : writes'[i][num].vec_clk[j] <= seen[n][j]
  PROVE  SeenIsClosed' /\ KeepsNewest'
<1>1. /\ TypeOK /\ SeenInRange /\ CountsItself /\ SeenIsClosed /\ KeepsNewest
  BY DEF CausalInv
<1>2. /\ seen \in [Node -> [Node -> Nat]] /\ store \in [Node -> [Key -> (Node \X Nat) \cup {NoWrite}]]
  BY <1>1 DEF TypeOK
<1>3. \A x, a \in Node : seen[x][a] \in Nat /\ Len(writes[a]) \in Nat /\ seen[x][a] <= Len(writes[a])
  BY <1>1 DEF TypeOK, SeenInRange
<1>4. num \in Nat /\ num >= 1 /\ seen[n][i] < num
  BY <1>3
<1>5. /\ \A x \in Node, a \in Node : x # n \/ a # i => seen'[x][a] = seen[x][a]
      /\ seen'[n][i] = num
      /\ \A x \in Node, q \in Key : x # n \/ q # k => store'[x][q] = store[x][q]
      /\ store'[n][k] = <<i, num>>
  BY <1>2
<1> DEFINE w == <<i, num>>
<1>6. w[1] = i /\ w[2] = num /\ Clock(w)' = writes'[i][num].vec_clk /\ KeyOf(w)' = k
  BY DEF Clock, KeyOf
<1>7. ASSUME NEW x \in Node, NEW v \in SeenWrites(x)
      PROVE  v \in SeenWrites(x)' /\ Clock(v)' = Clock(v) /\ KeyOf(v)' = KeyOf(v)
  <2>1. PICK a \in Node : \E j \in 1 .. seen[x][a] : v = <<a, j>>
    BY DEF SeenWrites
  <2>2. PICK j \in 1 .. seen[x][a] : v = <<a, j>>
    BY <2>1
  <2>3. v[1] = a /\ v[2] = j
    BY <2>2
  <2>4. j \in 1 .. seen'[x][a] /\ j \in 1 .. Len(writes[a])
    BY <1>3, <1>4, <1>5, <2>2
  <2>5. v \in SeenWrites(x)'
    BY <2>2, <2>4 DEF SeenWrites
  <2> QED  BY <2>3, <2>4, <2>5 DEF Clock, KeyOf
<1>8. ASSUME NEW x \in Node, NEW v \in SeenWrites(x)'
      PROVE  v \in SeenWrites(x) \/ (x = n /\ v = w)
  <2>1. PICK a \in Node : \E j \in 1 .. seen'[x][a] : v = <<a, j>>
    BY <1>8 DEF SeenWrites
  <2>2. PICK j \in 1 .. seen'[x][a] : v = <<a, j>>
    BY <2>1
  <2>3. CASE j \in 1 .. seen[x][a]
    BY <2>2, <2>3 DEF SeenWrites
  <2>4. CASE j \notin 1 .. seen[x][a]
    <3>1. x = n /\ a = i
      BY <1>5, <2>2, <2>4
    <3>2. j = num
      BY <1>3, <1>5, <2>2, <2>4, <3>1
    <3> QED  BY <2>2, <3>1, <3>2
  <2> QED  BY <2>3, <2>4
<1>9. w \in SeenWrites(n)'
  <2>1. num \in 1 .. seen'[n][i]
    BY <1>4, <1>5
  <2> QED  BY <2>1 DEF SeenWrites
<1> HIDE DEF w
<1>10. SeenIsClosed'
  <2>1. ASSUME NEW x \in Node, NEW v \in SeenWrites(x)', NEW a \in Node
        PROVE  Clock(v)'[a] <= seen'[x][a]
    <3>1. CASE v \in SeenWrites(x)
      <4>1. Clock(v)[a] <= seen[x][a] /\ Clock(v)[a] \in Nat
        BY <1>1, <3>1, SeenWasMade DEF SeenIsClosed
      <4>2. Clock(v)' = Clock(v)
        BY <1>7, <3>1
      <4> QED  BY <1>3, <1>4, <1>5, <4>1, <4>2
    <3>2. CASE x = n /\ v = w
      BY <1>4, <1>5, <1>6, <3>2
    <3> QED  BY <1>8, <3>1, <3>2
  <2> QED  BY <2>1 DEF SeenIsClosed
<1>11. KeepsNewest'
  <2>1. ASSUME NEW x \in Node, NEW q \in Key
        PROVE  LET kept == store'[x][q]
               IN  IF SeenOfKey(x, q)' = {} THEN kept = NoWrite
                   ELSE /\ kept \in SeenOfKey(x, q)'
                        /\ \A v \in SeenOfKey(x, q)' \ {kept} : Clock(v)'[kept[1]] < kept[2]
    <3>1. CASE x = n /\ q = k
      <4>1. store'[x][q] = w
        BY <1>5, <3>1 DEF w
      <4>2. w \in SeenOfKey(n, k)'
        BY <1>6, <1>9 DEF SeenOfKey
      <4>3. ASSUME NEW v \in SeenOfKey(n, k)' \ {w} PROVE Clock(v)'[i] < num
        <5>1. v \in SeenWrites(n)
          BY <1>8, <4>3 DEF SeenOfKey
        <5>2. Clock(v)[i] <= seen[n][i] /\ Clock(v)[i] \in Nat /\ Clock(v)' = Clock(v)
          BY <1>1, <1>7, <5>1, SeenWasMade DEF SeenIsClosed
        <5> QED  BY <1>3, <1>4, <5>2
      <4> QED  BY <1>6, <3>1, <4>1, <4>2, <4>3
    <3>2. CASE x # n \/ q # k
      <4>1. \A v : v \in SeenOfKey(x, q)' <=> v \in SeenOfKey(x, q)
        <5>1. ASSUME NEW v \in SeenOfKey(x, q)' PROVE v \in SeenOfKey(x, q)
          <6>1. v \in SeenWrites(x)' /\ KeyOf(v)' = q
            BY <5>1 DEF SeenOfKey
          <6>2. v \in SeenWrites(x)
            BY <1>6, <1>8, <3>2, <6>1
          <6> QED  BY <1>7, <6>1, <6>2 DEF SeenOfKey
        <5>2. ASSUME NEW v \in SeenOfKey(x, q) PROVE v \in SeenOfKey(x, q)'
          BY <1>7, <5>2 DEF SeenOfKey
        <5> QED  BY <5>1, <5>2
      <4>2. SeenOfKey(x, q)' = SeenOfKey(x, q)
        BY <4>1
      <4>3. store'[x][q] = store[x][q]
        BY <1>5, <3>2
      <4>4. \A v \in SeenOfKey(x, q) : Clock(v)' = Clock(v)
        BY <1>7 DEF SeenOfKey
      <4>5. LET kept == store[x][q]
            IN  IF SeenOfKey(x, q) = {} THEN kept = NoWrite
                ELSE /\ kept \in SeenOfKey(x, q)
                     /\ \A v \in SeenOfKey(x, q) \ {kept} : Clock(v)[kept[1]] < kept[2]
        BY <1>1 DEF KeepsNewest
      <4> QED  BY <4>2, <4>3, <4>4, <4>5
    <3> QED  BY <3>1, <3>2
  <2> QED  BY <2>1 DEF KeepsNewest
<1> QED  BY <1>10, <1>11

\* A server's own write is the next of its writes, and it counts no other unseen.
LEMMA WriteStep ==
  ASSUME CausalInv, NEW n \in Node, NEW k \in Key, Write(n, k)
  PROVE  CausalInv'
<1> DEFINE num == seen[n][n] + 1
<1>1. /\ TypeOK /\ SeenInRange /\ CountsItself /\ SeenIsClosed /\ KeepsNewest
  BY DEF CausalInv
<1>2. /\ seen \in [Node -> [Node -> Nat]]
      /\ writes \in [Node -> Seq(WriteRecord)]
      /\ store \in [Node -> [Key -> (Node \X Nat) \cup {NoWrite}]]
  BY <1>1 DEF TypeOK
<1>3. PICK clk \in Counts(n) :
        writes' = [writes EXCEPT ![n] = Append(@, [nodenum |-> n, key |-> k, vec_clk |-> clk])]
  BY DEF Write
<1> DEFINE m == [nodenum |-> n, key |-> k, vec_clk |-> clk]
<1>4. /\ num \in Nat /\ num >= 1 /\ num = Len(writes[n]) + 1 /\ Len(writes[n]) \in Nat
      /\ seen[n][n] \in Nat /\ seen[n][n] < num
  BY <1>1, <1>2 DEF SeenInRange
<1>5. /\ clk \in [Node -> Nat] /\ clk[n] = num
      /\ \A i \in Node \ {n} : clk[i] <= seen[n][i]
  <2>1. clk[n] = num /\ \A i \in Node \ {n} : clk[i] <= seen[n][i]
    BY DEF Counts
  <2> QED  BY <1>1, <2>1, CountsTyped
<1>6. m \in WriteRecord
  BY <1>5 DEF WriteRecord
<1> HIDE DEF num
<1>7. /\ seen' = [seen EXCEPT ![n] = [seen[n] EXCEPT ![n] = num]]
      /\ store' = [store EXCEPT ![n] = [store[n] EXCEPT ![k] = <<n, num>>]]
  BY DEF Write, num
<1>8. /\ \A x \in Node, i \in Node : x # n \/ i # n => seen'[x][i] = seen[x][i]
      /\ seen'[n][n] = num
      /\ \A x \in Node, q \in Key : x # n \/ q # k => store'[x][q] = store[x][q]
      /\ store'[n][k] = <<n, num>>
  BY <1>2, <1>7
<1>9. /\ \A i \in Node : i # n => writes'[i] = writes[i]
      /\ writes'[n] = Append(writes[n], m)
  BY <1>2, <1>3
<1>10. /\ Len(writes'[n]) = num /\ writes'[n][num] = m
       /\ \A j \in 1 .. Len(writes[n]) : writes'[n][j] = writes[n][j]
  <2>1. writes[n] \in Seq(WriteRecord)
    BY <1>2
  <2> HIDE DEF m
  <2>2. /\ Len(writes'[n]) = Len(writes[n]) + 1 /\ writes'[n][Len(writes[n]) + 1] = m
        /\ \A j \in 1 .. Len(writes[n]) : writes'[n][j] = writes[n][j]
    BY <1>6, <1>9, <2>1
  <2> QED  BY <1>4, <2>2
<1>11. TypeOK'
  <2>1. seen' \in [Node -> [Node -> Nat]]
    BY <1>2, <1>4, <1>7
  <2>2. store' \in [Node -> [Key -> (Node \X Nat) \cup {NoWrite}]]
    BY <1>2, <1>4, <1>7
  <2>3. writes' \in [Node -> Seq(WriteRecord)]
    <3> HIDE DEF m
    <3>1. Append(writes[n], m) \in Seq(WriteRecord)
      BY <1>2, <1>6
    <3> QED  BY <1>2, <1>3, <3>1 DEF m
  <2> QED  BY <2>1, <2>2, <2>3 DEF TypeOK
<1>12. SeenInRange'
  <2>1. ASSUME NEW x \in Node, NEW i \in Node
        PROVE  seen'[x][i] <= Len(writes'[i]) /\ seen'[x][x] = Len(writes'[x])
    <3>1. seen[x][i] \in Nat /\ seen[x][i] <= Len(writes[i]) /\ seen[x][x] = Len(writes[x])
      BY <1>1, <1>2 DEF SeenInRange
    <3>2. Len(writes'[i]) = IF i = n THEN num ELSE Len(writes[i])
      BY <1>9, <1>10
    <3>3. Len(writes'[x]) = IF x = n THEN num ELSE Len(writes[x])
      BY <1>9, <1>10
    <3> QED  BY <1>4, <1>8, <3>1, <3>2, <3>3
  <2> QED  BY <2>1 DEF SeenInRange
<1>13. ASSUME NEW i \in Node, NEW j \in 1 .. Len(writes[i])
       PROVE  writes'[i][j] = writes[i][j]
  BY <1>9, <1>10
<1>14. CountsItself'
  <2>1. ASSUME NEW i \in Node, NEW j \in 1 .. Len(writes'[i]) PROVE writes'[i][j].vec_clk[i] = j
    <3>1. CASE j \in 1 .. Len(writes[i])
      <4>1. Clock(<<i, j>>)[i] = j
        BY <1>1, <3>1 DEF CountsItself
      <4> QED  BY <1>13, <3>1, <4>1 DEF Clock
    <3>2. CASE j \notin 1 .. Len(writes[i])
      <4>1. i = n
        BY <1>9, <3>2
      <4>2. j = num
        BY <1>4, <1>10, <2>1, <3>2, <4>1
      <4> QED  BY <1>5, <1>10, <4>1, <4>2
    <3> QED  BY <3>1, <3>2
  <2> QED  BY <2>1 DEF CountsItself, Clock
<1>15. SeenIsClosed' /\ KeepsNewest'
  <2>1. /\ writes'[n][num].key = k /\ writes'[n][num].vec_clk[n] = num
        /\ \A j \in Node \ {n} : writes'[n][num].vec_clk[j] <= seen[n][j]
    BY <1>5, <1>10
  <2>2. \A a \in Node : \A j \in 1 .. Len(writes[a]) : writes'[a][j] = writes[a][j]
    BY <1>13
  <2>3. num = seen[n][n] + 1
    BY DEF num
  <2> QED  BY <1>7, <2>1, <2>2, <2>3, ApplyNext
<1> QED  BY <1>11, <1>12, <1>14, <1>15 DEF CausalInv

\* A server sees the next write of another one, after all that write counts.
LEMMA ReceiveStep ==
  ASSUME CausalInv, NEW n \in Node, NEW i \in Node, Receive(n, i)
  PROVE  CausalInv'
<1> DEFINE num == seen[n][i] + 1
           m   == writes[i][num]
<1>1. TypeOK /\ SeenInRange /\ CountsItself
  BY DEF CausalInv
<1>2. /\ seen \in [Node -> [Node -> Nat]]
      /\ writes[i] \in Seq(WriteRecord)
      /\ store \in [Node -> [Key -> (Node \X Nat) \cup {NoWrite}]]
      /\ seen[n][i] \in Nat /\ Len(writes[i]) \in Nat
  BY <1>1 DEF TypeOK
<1>3. /\ i # n /\ num <= Len(writes[i]) /\ writes' = writes
      /\ \A j \in Node \ {i} : m.vec_clk[j] <= seen[n][j]
      /\ seen' = [seen EXCEPT ![n] = [seen[n] EXCEPT ![i] = num]]
      /\ store' = [store EXCEPT ![n] = [store[n] EXCEPT ![m.key] = <<i, num>>]]
  BY DEF Receive
<1>4. num \in Nat /\ num \in 1 .. Len(writes[i])
  BY <1>2, <1>3
<1>5. m \in WriteRecord
  BY <1>2, <1>4
<1>6. m.vec_clk[i] = num
  <2>1. Clock(<<i, num>>)[i] = num
    BY <1>1, <1>4 DEF CountsItself
  <2> QED  BY <2>1 DEF Clock
<1>7. num = seen[n][i] + 1 /\ m = writes'[i][num]
  BY <1>3
<1>8. SeenInRange'
  <2>1. \A x, a \in Node : seen'[x][a] = IF x = n /\ a = i THEN num ELSE seen[x][a]
    BY <1>2, <1>3
  <2> QED  BY <1>1, <1>3, <2>1 DEF SeenInRange
<1> HIDE DEF num, m
<1>9. TypeOK'
  <2>1. seen' \in [Node -> [Node -> Nat]]
    BY <1>2, <1>3, <1>4
  <2>2. store' \in [Node -> [Key -> (Node \X Nat) \cup {NoWrite}]]
    <3>1. m.key \in Key
      BY <1>5 DEF WriteRecord
    <3> QED  BY <1>2, <1>3, <1>4, <3>1
  <2> QED  BY <1>1, <1>3, <2>1, <2>2 DEF TypeOK
<1>10. CountsItself'
  BY <1>1, <1>3 DEF CountsItself, Clock
<1>11. SeenIsClosed' /\ KeepsNewest'
  <2>1. \A a \in Node : \A j \in 1 .. Len(writes[a]) : writes'[a][j] = writes[a][j]
    BY <1>3
  <2>2. PICK k \in Key : k = m.key
    BY <1>5 DEF WriteRecord
  <2>3. /\ writes'[i][num].key = k /\ writes'[i][num].vec_clk[i] = num
        /\ \A j \in Node \ {i} : writes'[i][num].vec_clk[j] <= seen[n][j]
        /\ store' = [store EXCEPT ![n] = [store[n] EXCEPT ![k] = <<i, num>>]]
    BY <1>3, <1>6, <1>7, <2>2
  <2>4. /\ num = seen[n][i] + 1
        /\ seen' = [seen EXCEPT ![n] = [seen[n] EXCEPT ![i] = num]]
    BY <1>3, <1>7
  <2> QED  BY <2>1, <2>3, <2>4, ApplyNext
<1> QED  BY <1>8, <1>9, <1>10, <1>11 DEF CausalInv

\* Every step preserves the invariant.
LEMMA CausalStep ==
  ASSUME CausalInv, [Next]_vars
  PROVE  CausalInv'
<1>1. CASE Next
  BY <1>1, WriteStep, ReceiveStep DEF Next
<1>2. CASE UNCHANGED vars
  <2>1. writes' = writes /\ seen' = seen /\ store' = store
    BY <1>2 DEF vars
  <2>2. /\ \A v : Clock(v)' = Clock(v) /\ KeyOf(v)' = KeyOf(v)
        /\ \A n \in Node : SeenWrites(n)' = SeenWrites(n)
    BY <2>1 DEF Clock, KeyOf, SeenWrites
  <2>3. \A n \in Node : \A k \in Key : SeenOfKey(n, k)' = SeenOfKey(n, k)
    BY <2>2 DEF SeenOfKey
  <2>4. TypeOK' /\ SeenInRange' /\ CountsItself'
    BY <2>1, <2>2 DEF CausalInv, TypeOK, SeenInRange, CountsItself
  <2>5. SeenIsClosed'
    BY <2>1, <2>2 DEF CausalInv, SeenIsClosed
  <2>6. KeepsNewest'
    BY <2>1, <2>2, <2>3 DEF CausalInv, KeepsNewest
  <2> QED  BY <2>4, <2>5, <2>6 DEF CausalInv
<1> QED  BY <1>1, <1>2

\* A copy of the store in causal order has applied all that its writes count, and
\* keeps for every key a write that no other write it has applied counts.
THEOREM CausalCorrect == Spec => []CausalInv
<1> QED  BY CausalInit, CausalStep, PTL DEF Spec

-----------------------------------------------------------------------------
(* Nothing is undone.                                                       *)

\* A step changes no write that was made.
LEMMA WritesKept ==
  ASSUME TypeOK, [Next]_vars, NEW i \in Node, NEW j \in 1 .. Len(writes[i])
  PROVE  j \in 1 .. Len(writes'[i]) /\ writes'[i][j] = writes[i][j]
<1>1. writes[i] \in Seq(WriteRecord) /\ Len(writes[i]) \in Nat /\ writes \in [Node -> Seq(WriteRecord)]
  BY DEF TypeOK
<1>2. ASSUME NEW n \in Node, NEW k \in Key, Write(n, k)
      PROVE  j \in 1 .. Len(writes'[i]) /\ writes'[i][j] = writes[i][j]
  <2>1. PICK clk \in Counts(n) :
          writes' = [writes EXCEPT ![n] = Append(@, [nodenum |-> n, key |-> k, vec_clk |-> clk])]
    BY <1>2 DEF Write
  <2> DEFINE m == [nodenum |-> n, key |-> k, vec_clk |-> clk]
  <2>2. writes'[i] = IF i = n THEN Append(writes[i], m) ELSE writes[i]
    BY <1>1, <2>1
  <2>3. m \in WriteRecord
    BY CountsTyped DEF WriteRecord
  <2> HIDE DEF m
  <2>4. /\ Len(Append(writes[i], m)) = Len(writes[i]) + 1
        /\ Append(writes[i], m)[j] = writes[i][j]
    BY <1>1, <2>3
  <2> QED  BY <1>1, <2>2, <2>4
<1>3. CASE UNCHANGED writes
  BY <1>3
<1> QED  BY <1>2, <1>3 DEF Next, Receive, vars

\* Nor does a server forget what it has seen.
LEMMA SeenKept ==
  ASSUME CausalInv, [Next]_vars, NEW n \in Node, NEW v \in SeenWrites(n)
  PROVE  v \in SeenWrites(n)' /\ Clock(v)' = Clock(v) /\ KeyOf(v)' = KeyOf(v)
<1>1. TypeOK /\ SeenInRange /\ seen \in [Node -> [Node -> Nat]]
  BY DEF CausalInv, TypeOK
<1>2. PICK i \in Node : \E j \in 1 .. seen[n][i] : v = <<i, j>>
  BY DEF SeenWrites
<1>3. PICK j \in 1 .. seen[n][i] : v = <<i, j>>
  BY <1>2
<1>4. seen[n][i] \in Nat /\ Len(writes[i]) \in Nat /\ seen[n][i] <= Len(writes[i])
  BY <1>1 DEF TypeOK, SeenInRange
<1>5. seen'[n][i] = seen[n][i] \/ seen'[n][i] = seen[n][i] + 1
  <2>1. ASSUME NEW x \in Node, NEW k \in Key, Write(x, k)
        PROVE  seen'[n][i] = seen[n][i] \/ seen'[n][i] = seen[n][i] + 1
    <3>1. seen' = [seen EXCEPT ![x] = [seen[x] EXCEPT ![x] = seen[x][x] + 1]]
      BY <2>1 DEF Write
    <3> QED  BY <1>1, <3>1
  <2>2. ASSUME NEW x \in Node, NEW a \in Node, Receive(x, a)
        PROVE  seen'[n][i] = seen[n][i] \/ seen'[n][i] = seen[n][i] + 1
    <3>1. seen' = [seen EXCEPT ![x] = [seen[x] EXCEPT ![a] = seen[x][a] + 1]]
      BY <2>2 DEF Receive
    <3> QED  BY <1>1, <3>1
  <2> QED  BY <2>1, <2>2 DEF Next, vars
<1>6. j \in 1 .. seen'[n][i] /\ j \in 1 .. Len(writes[i])
  BY <1>3, <1>4, <1>5
<1>7. v \in SeenWrites(n)'
  BY <1>3, <1>6 DEF SeenWrites
<1>8. v[1] = i /\ v[2] = j /\ writes'[i][j] = writes[i][j]
  BY <1>1, <1>3, <1>6, WritesKept
<1> QED  BY <1>7, <1>8 DEF Clock, KeyOf
=============================================================================
