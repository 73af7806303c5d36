------------------------ MODULE FindMajorityTagProofs ------------------------
(***************************************************************************)
(* For a vector of any length the loop of find_majority_tag computes the    *)
(* operator FindMajorityTag, and uses no response it has deleted.           *)
(***************************************************************************)
EXTENDS FindMajorityTag, FiniteSetTheorems, TLAPS

Response == [server : Nat, tag : Tag]

-----------------------------------------------------------------------------
(* Sequences and the responses in them.                                     *)

\* The members of a sequence to which x is appended are x and those it had.
LEMMA MembersOfAppend ==
  ASSUME NEW S, NEW s \in Seq(S), NEW x \in S
  PROVE  {Append(s, x)[i] : i \in DOMAIN Append(s, x)} = {s[i] : i \in DOMAIN s} \cup {x}
<1>1. Append(s, x) \in Seq(S) /\ Len(Append(s, x)) = Len(s) + 1
  OBVIOUS
<1>2. DOMAIN Append(s, x) = DOMAIN s \cup {Len(s) + 1}
  <2>1. DOMAIN Append(s, x) = 1 .. (Len(s) + 1) /\ DOMAIN s = 1 .. Len(s) /\ Len(s) \in Nat
    BY <1>1
  <2> QED BY <2>1
<1>3. \A i \in DOMAIN s : Append(s, x)[i] = s[i]
  OBVIOUS
<1>4. Append(s, x)[Len(s) + 1] = x
  OBVIOUS
<1> QED BY <1>2, <1>3, <1>4, Zenon

\* The tail of a sequence, entry by entry.
LEMMA TailEntries ==
  ASSUME NEW S, NEW s \in Seq(S), s # <<>>
  PROVE  /\ Head(s) = s[1] /\ Head(s) \in S
         /\ Tail(s) \in Seq(S) /\ Len(Tail(s)) = Len(s) - 1 /\ Len(s) \in Nat \ {0}
         /\ \A i \in DOMAIN Tail(s) : i + 1 \in DOMAIN s /\ Tail(s)[i] = s[i + 1]
<1>1. Len(s) \in Nat \ {0}
  OBVIOUS
<1> QED BY <1>1

\* A response has a tag of two numbers.
LEMMA ResponseType ==
  ASSUME NEW vec \in Seq(Response), NEW i \in DOMAIN vec
  PROVE  vec[i].tag.integer \in Nat /\ vec[i].tag.client_id \in Nat /\ i \in Nat
<1>1. vec[i] \in Response
  OBVIOUS
<1>2. vec[i].tag \in Tag
  BY <1>1 DEF Response
<1> QED BY <1>2 DEF Tag

-----------------------------------------------------------------------------
(* The loop starts in the invariant and every iteration keeps it.           *)

LEMMA InitIInv == Init => IInv
<1> SUFFICES ASSUME Init PROVE IInv
  OBVIOUS
<1>1. PICK n \in 1 .. MaxLen : \E tags \in [1 .. n -> SmallTag] :
        vec_c_resp = [i \in 1 .. n |-> [server |-> i, tag |-> tags[i]]]
  BY DEF Init
<1>2. PICK tags \in [1 .. n -> SmallTag] :
        vec_c_resp = [i \in 1 .. n |-> [server |-> i, tag |-> tags[i]]]
  BY <1>1
<1>3. n \in Nat \ {0}
  BY BoundsAssumption
<1>4. \A i \in 1 .. n : [server |-> i, tag |-> tags[i]] \in Response
  BY BoundsAssumption DEF Response, SmallTag, Tag
<1>5. vec_c_resp \in Seq(Response) /\ DOMAIN vec_c_resp = 1 .. n /\ Len(vec_c_resp) = n /\ vec_c_resp # <<>>
  BY <1>2, <1>3, <1>4
<1>6. rest \in Seq(DOMAIN vec_c_resp) /\ DOMAIN rest = 1 .. n /\ Len(rest) = n /\ \A i \in 1 .. n : rest[i] = i
  BY <1>5, <1>3 DEF Init
<1>7. max_resp = 1 /\ deleted = <<>> /\ 1 \in DOMAIN vec_c_resp
  BY <1>5, <1>3 DEF Init
<1>8. Passed = 0
  BY <1>5, <1>6, <1>3 DEF Passed
<1>9. TypeOK
  BY <1>5, <1>6, <1>7 DEF TypeOK, Response
<1>10. RestFollows
  BY <1>6, <1>8 DEF RestFollows
<1>11. BestSoFar
  <2>1. \A j \in Peers(vec_c_resp) : ~ (j <= 0)
    BY <1>5, <1>3 DEF Peers
  <2> QED BY <2>1, <1>7, <1>8 DEF BestSoFar, Peers
<1>12. DeletedOnce
  <2>1. {deleted[i] : i \in DOMAIN deleted} = {} /\ Len(deleted) = 0 /\ DOMAIN deleted = {}
    BY <1>7
  <2> QED BY <2>1, FS_EmptySet DEF DeletedOnce
<1> QED BY <1>9, <1>10, <1>11, <1>12 DEF IInv

\* What every branch of the loop does: it takes the next response off the vector,
\* which is the one after those it has looked at.
LEMMA EraseStep ==
  ASSUME IInv, rest # <<>>, Erase
  PROVE  /\ Head(rest) \in DOMAIN vec_c_resp /\ Head(rest) = Passed + 1
         /\ Passed \in Nat /\ Passed' = Passed + 1
         /\ vec_c_resp' = vec_c_resp /\ rest' \in Seq(DOMAIN vec_c_resp)
         /\ RestFollows'
<1>1. /\ vec_c_resp \in Seq(Response) /\ rest \in Seq(DOMAIN vec_c_resp)
      /\ Passed >= 0 /\ \A i \in DOMAIN rest : rest[i] = Passed + i
  BY DEF IInv, TypeOK, RestFollows, Response
<1>2. /\ Head(rest) = rest[1] /\ Head(rest) \in DOMAIN vec_c_resp
      /\ Tail(rest) \in Seq(DOMAIN vec_c_resp) /\ Len(Tail(rest)) = Len(rest) - 1 /\ Len(rest) \in Nat \ {0}
      /\ \A i \in DOMAIN Tail(rest) : i + 1 \in DOMAIN rest /\ Tail(rest)[i] = rest[i + 1]
  BY <1>1, TailEntries
<1>3. vec_c_resp' = vec_c_resp /\ rest' = Tail(rest)
  BY DEF Erase
<1>4. Len(vec_c_resp) \in Nat
  BY <1>1
<1>5. Passed \in Nat /\ Passed' = Passed + 1
  BY <1>1, <1>2, <1>3, <1>4 DEF Passed
<1>6. 1 \in DOMAIN rest
  BY <1>1, <1>2
<1>7. \A i \in DOMAIN Tail(rest) : i \in Nat /\ Tail(rest)[i] = (Passed + 1) + i
  BY <1>1, <1>2, <1>5
<1>8. RestFollows'
  BY <1>3, <1>5, <1>7 DEF RestFollows
<1> QED BY <1>1, <1>2, <1>3, <1>5, <1>6, <1>8

\* A response that replaces or leaves the one kept, and what is given to
\* delete_response_t in either case.
LEMMA DeleteStep ==
  ASSUME IInv, rest # <<>>, Erase, NEW x \in DOMAIN vec_c_resp,
         deleted' = Append(deleted, x), x <= Passed', x # max_resp',
         max_resp' \in {max_resp, Head(rest)},
         x \in {max_resp, Head(rest)}
  PROVE  deleted' \in Seq(DOMAIN vec_c_resp) /\ DeletedOnce'
<1> DEFINE D == {deleted[i] : i \in DOMAIN deleted}
<1>1. /\ vec_c_resp \in Seq(Response) /\ deleted \in Seq(DOMAIN vec_c_resp) /\ max_resp \in DOMAIN vec_c_resp
      /\ IsFiniteSet(D) /\ Cardinality(D) = Len(deleted)
      /\ \A i \in DOMAIN deleted : deleted[i] <= Passed /\ deleted[i] # max_resp
  BY DEF IInv, TypeOK, DeletedOnce, Response
<1>2. Head(rest) = Passed + 1 /\ Passed \in Nat /\ Passed' = Passed + 1
  BY EraseStep
<1>3. \A i \in DOMAIN deleted : deleted[i] \in Nat
  BY <1>1
<1>4. \A i \in DOMAIN deleted : deleted[i] <= Passed' /\ deleted[i] # Head(rest) /\ deleted[i] # max_resp'
  BY <1>1, <1>2, <1>3
<1>5. x \notin D
  BY <1>1, <1>4
<1>6. {deleted'[i] : i \in DOMAIN deleted'} = D \cup {x}
  BY <1>1, MembersOfAppend
<1>7. Cardinality(D \cup {x}) = Cardinality(D) + 1 /\ IsFiniteSet(D \cup {x})
  BY <1>1, <1>5, FS_AddElement
<1>8. deleted' \in Seq(DOMAIN vec_c_resp) /\ Len(deleted') = Len(deleted) + 1
  BY <1>1
<1>9. \A i \in DOMAIN deleted' : deleted'[i] <= Passed' /\ deleted'[i] # max_resp'
  <2> SUFFICES ASSUME NEW i \in DOMAIN deleted' PROVE deleted'[i] <= Passed' /\ deleted'[i] # max_resp'
    OBVIOUS
  <2>1. deleted'[i] \in D \cup {x}
    BY <1>6
  <2> QED BY <2>1, <1>4
<1> QED BY <1>1, <1>6, <1>7, <1>8, <1>9 DEF DeletedOnce

LEMMA StepIInv == IInv /\ [Next]_vars => IInv'
<1> SUFFICES ASSUME IInv, [Next]_vars PROVE IInv'
  OBVIOUS
<1> DEFINE h == Head(rest)
           P == Peers(vec_c_resp)
<1>0. /\ vec_c_resp \in Seq(Response) /\ vec_c_resp # <<>> /\ max_resp \in DOMAIN vec_c_resp
      /\ deleted \in Seq(DOMAIN vec_c_resp)
      /\ max_resp \in P /\ P \subseteq DOMAIN vec_c_resp
      /\ max_resp <= Passed \/ (max_resp = 1 /\ Passed = 0)
      /\ \A j \in P : j <= Passed =>
           \/ vec_c_resp[j].tag.client_id < max.client_id
           \/ vec_c_resp[j].tag.client_id = max.client_id /\ max_resp <= j
  BY DEF IInv, TypeOK, BestSoFar, Response, Peers
<1>1. \A i \in DOMAIN vec_c_resp : vec_c_resp[i].tag.integer \in Nat /\ vec_c_resp[i].tag.client_id \in Nat /\ i \in Nat
  BY <1>0, ResponseType
<1>2. ASSUME rest # <<>>, Erase
      PROVE  /\ h \in DOMAIN vec_c_resp /\ h = Passed + 1 /\ Passed \in Nat /\ Passed' = Passed + 1
             /\ vec_c_resp' = vec_c_resp /\ rest' \in Seq(DOMAIN vec_c_resp) /\ RestFollows'
             /\ (it.integer = max.integer <=> h \in P)
             /\ \A j \in P : j <= Passed' => j <= Passed \/ j = h
             /\ max_resp <= Passed'
  <2>1. /\ h \in DOMAIN vec_c_resp /\ h = Passed + 1 /\ Passed \in Nat /\ Passed' = Passed + 1
        /\ vec_c_resp' = vec_c_resp /\ rest' \in Seq(DOMAIN vec_c_resp) /\ RestFollows'
    BY <1>2, EraseStep
  <2>2. it.integer = max.integer <=> h \in P
    BY <2>1, <1>0 DEF Peers, it, max
  <2>3. \A j \in P : j \in Nat
    BY <1>0, <1>1
  <2> QED BY <2>1, <2>2, <2>3, <1>0
<1>3. ASSUME NewMax PROVE IInv'
  <2>1. rest # <<>> /\ Erase /\ max_resp' = h /\ deleted' = Append(deleted, max_resp)
    BY <1>3 DEF NewMax
  <2>2. /\ vec_c_resp[h].tag.client_id > max.client_id /\ h \in P /\ vec_c_resp' = vec_c_resp
        /\ h = Passed + 1 /\ Passed \in Nat /\ Passed' = Passed + 1 /\ max_resp <= Passed' /\ max_resp # h
    BY <1>3, <1>2, <2>1, <1>1, <1>0 DEF NewMax, it, max
  <2>3. deleted' \in Seq(DOMAIN vec_c_resp) /\ DeletedOnce'
    BY <2>1, <2>2, <1>0, DeleteStep
  <2>4. BestSoFar'
    <3>1. max' = vec_c_resp[h].tag /\ P' = P
      BY <2>1, <2>2 DEF max
    <3>2. \A j \in P : j <= Passed' =>
            \/ vec_c_resp[j].tag.client_id < vec_c_resp[h].tag.client_id
            \/ vec_c_resp[j].tag.client_id = vec_c_resp[h].tag.client_id /\ h <= j
      <4> SUFFICES ASSUME NEW j \in P, j <= Passed', j # h
                   PROVE  vec_c_resp[j].tag.client_id < vec_c_resp[h].tag.client_id
        BY <2>2
      <4>1. j <= Passed
        BY <1>2, <2>1
      <4>2. /\ max.client_id \in Nat /\ vec_c_resp[j].tag.client_id \in Nat
            /\ vec_c_resp[h].tag.client_id \in Nat
        BY <1>0, <1>1, <2>2 DEF max
      <4>3. \/ vec_c_resp[j].tag.client_id < max.client_id
            \/ vec_c_resp[j].tag.client_id = max.client_id
        BY <4>1, Zenon DEF IInv, BestSoFar
      <4> QED BY <4>2, <4>3, <2>2
    <3> QED BY <3>1, <3>2, <2>1, <2>2 DEF BestSoFar
  <2>5. TypeOK'
    BY <1>0, <1>2, <2>1, <2>3 DEF TypeOK, Response
  <2> QED BY <1>2, <2>1, <2>3, <2>4, <2>5 DEF IInv
<1>4. ASSUME KeepMax PROVE IInv'
  <2>1. rest # <<>> /\ Erase /\ max_resp' = max_resp /\ deleted' = deleted
    BY <1>4 DEF KeepMax
  <2>2. /\ vec_c_resp[h].tag.client_id <= max.client_id /\ h \in P /\ vec_c_resp' = vec_c_resp
        /\ h = Passed + 1 /\ Passed \in Nat /\ Passed' = Passed + 1 /\ max_resp <= Passed'
    BY <1>4, <1>2, <2>1 DEF KeepMax, it
  <2>3. DeletedOnce'
    <3>1. \A i \in DOMAIN deleted : deleted[i] \in Nat
      BY <1>0
    <3>2. \A i \in DOMAIN deleted : deleted[i] <= Passed'
      BY <3>1, <2>2 DEF IInv, DeletedOnce
    <3> QED BY <3>2, <2>1 DEF IInv, DeletedOnce
  <2>4. BestSoFar'
    <3>1. max' = max /\ P' = P
      BY <2>1, <2>2 DEF max
    <3>2. max_resp <= h
      BY <2>2
    <3>3. \A j \in P : j <= Passed' =>
            \/ vec_c_resp[j].tag.client_id < max.client_id
            \/ vec_c_resp[j].tag.client_id = max.client_id /\ max_resp <= j
      BY <1>0, <1>1, <1>2, <2>1, <2>2, <3>2 DEF max
    <3> QED BY <3>1, <3>3, <2>1, <2>2, <1>0 DEF BestSoFar
  <2>5. TypeOK'
    BY <1>0, <1>2, <2>1, <2>3 DEF TypeOK, Response
  <2> QED BY <1>2, <2>1, <2>3, <2>4, <2>5 DEF IInv
<1>5. ASSUME DropOther PROVE IInv'
  <2>1. rest # <<>> /\ Erase /\ max_resp' = max_resp /\ deleted' = Append(deleted, h)
    BY <1>5 DEF DropOther
  <2>2. /\ h \notin P /\ h \in DOMAIN vec_c_resp /\ vec_c_resp' = vec_c_resp
        /\ h = Passed + 1 /\ Passed \in Nat /\ Passed' = Passed + 1 /\ max_resp <= Passed' /\ max_resp # h
    BY <1>5, <1>2, <2>1, <1>0 DEF DropOther
  <2>3. deleted' \in Seq(DOMAIN vec_c_resp) /\ DeletedOnce'
    BY <2>1, <2>2, <1>0, DeleteStep
  <2>4. BestSoFar'
    <3>1. max' = max /\ P' = P
      BY <2>1, <2>2 DEF max
    <3>2. \A j \in P : j <= Passed' => j <= Passed
      BY <1>2, <2>1, <2>2
    <3> QED BY <3>1, <3>2, <2>1, <2>2, <1>0 DEF BestSoFar
  <2>5. TypeOK'
    BY <1>0, <1>2, <2>1, <2>3 DEF TypeOK, Response
  <2> QED BY <1>2, <2>1, <2>3, <2>4, <2>5 DEF IInv
<1>6. ASSUME UNCHANGED vars PROVE IInv'
  BY <1>6 DEF vars, IInv, TypeOK, RestFollows, BestSoFar, DeletedOnce, Passed, max
<1> QED BY <1>3, <1>4, <1>5, <1>6 DEF Next

\* The invariant of the loop holds for vectors of any length.
THEOREM LoopInvariant == Spec => []IInv
<1> QED BY InitIInv, StepIInv, PTL DEF Spec

-----------------------------------------------------------------------------
(* What the loop returns, and what it does to the responses.                *)

\* find_majority_tag (client_lib.cpp, 265-285) returns, for every vector that is
\* not empty, the response the operator FindMajorityTag gives to the ABD client:
\* at the end every peer has been looked at, and only one of them beats all.
THEOREM LoopIsOperator == Spec => []LoopComputesOperator
<1>1. IInv => LoopComputesOperator
  <2> SUFFICES ASSUME IInv, rest = <<>>
               PROVE  vec_c_resp[max_resp] = FindMajorityTag(vec_c_resp)
    BY DEF LoopComputesOperator
  <2> DEFINE P == Peers(vec_c_resp)
             Beats(i, j) == \/ vec_c_resp[j].tag.client_id < vec_c_resp[i].tag.client_id
                            \/ vec_c_resp[j].tag.client_id = vec_c_resp[i].tag.client_id /\ i <= j
  <2>1. vec_c_resp \in Seq(Response) /\ P \subseteq DOMAIN vec_c_resp /\ max_resp \in P
    BY DEF IInv, TypeOK, BestSoFar, Response, Peers
  <2>2. \A j \in P : j <= Passed
    BY <2>1 DEF Passed
  <2>3. \A j \in P : Beats(max_resp, j)
    BY <2>2 DEF IInv, BestSoFar, max
  <2>4. \A j \in P : vec_c_resp[j].tag.client_id \in Nat /\ j \in Nat
    BY <2>1, ResponseType
  <2>5. \A i \in P : (\A j \in P : Beats(i, j)) => i = max_resp
    BY <2>1, <2>3, <2>4
  <2>6. FindMajorityTag(vec_c_resp) = vec_c_resp[CHOOSE i \in P : \A j \in P : Beats(i, j)]
    BY DEF FindMajorityTag
  <2>7. (CHOOSE i \in P : \A j \in P : Beats(i, j)) = max_resp
    <3> HIDE DEF P, Beats
    <3> QED BY <2>1, <2>3, <2>5
  <2> QED BY <2>6, <2>7
<1> QED BY <1>1, LoopInvariant, PTL

\* In the loop no response is deleted twice, none is deleted while it is still to
\* be looked at, and the one that is returned was never deleted.
THEOREM DeletedAreNotUsed == Spec => []NoUseAfterDelete
<1>1. IInv => NoUseAfterDelete
  <2> SUFFICES ASSUME IInv, NEW i \in DOMAIN deleted, NEW j \in DOMAIN rest
               PROVE  deleted[i] # rest[j]
    BY DEF IInv, DeletedOnce, NoUseAfterDelete
  <2>1. /\ vec_c_resp \in Seq(Response) /\ deleted[i] \in DOMAIN vec_c_resp
        /\ rest \in Seq(DOMAIN vec_c_resp)
        /\ deleted[i] <= Passed /\ rest[j] = Passed + j
    BY DEF IInv, TypeOK, DeletedOnce, RestFollows, Response
  <2>2. Passed \in Int /\ j \in Nat \ {0} /\ deleted[i] \in Nat
    BY <2>1 DEF Passed
  <2> QED BY <2>1, <2>2
<1> QED BY <1>1, LoopInvariant, PTL
=============================================================================
