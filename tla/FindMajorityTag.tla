-------------------------- MODULE FindMajorityTag --------------------------
(***************************************************************************)
(* The loop of find_majority_tag (client_lib.cpp, 265-285), one step per    *)
(* iteration.  Every branch erases the element at `it', so the iterator     *)
(* never moves and the loop eats the vector from its head.  A response is   *)
(* identified by its position in the vector the caller passed.              *)
(***************************************************************************)
EXTENDS Tags, FiniteSets

CONSTANTS MaxLen, MaxInteger, MaxClient    \* bounds on the vectors tried

ASSUME BoundsAssumption == MaxLen \in Nat \ {0} /\ MaxInteger \in Nat /\ MaxClient \in Nat

SmallTag == [integer : 0 .. MaxInteger, client_id : 0 .. MaxClient]

VARIABLES vec_c_resp,   \* the vector the caller passed (never changes)
          rest,         \* positions still in the vector
          max_resp,     \* position of the response max_resp points to
          deleted       \* positions given to delete_response_t, in order

vars == <<vec_c_resp, rest, max_resp, deleted>>

Init ==
  /\ \E n \in 1 .. MaxLen : \E tags \in [1 .. n -> SmallTag] :
       vec_c_resp = [i \in 1 .. n |-> [server |-> i, tag |-> tags[i]]]
  /\ rest = [i \in DOMAIN vec_c_resp |-> i]
  /\ max_resp = 1
  /\ deleted = <<>>

it == vec_c_resp[Head(rest)].tag
max == vec_c_resp[max_resp].tag

Erase == rest' = Tail(rest) /\ UNCHANGED vec_c_resp

\* Deliberately wrong, for the mutation runs: a later reply with an equal tag replaces the earlier one.
NewMaxOnEqual ==
  /\ rest # <<>> /\ it.integer = max.integer /\ it.client_id >= max.client_id
  /\ deleted' = Append(deleted, max_resp)
  /\ max_resp' = Head(rest)
  /\ Erase

\* Deliberately wrong, for the mutation runs: the response that becomes max_resp is deleted.
NewMaxDeleted ==
  /\ rest # <<>> /\ it.integer = max.integer /\ it.client_id > max.client_id
  /\ deleted' = Append(deleted, Head(rest))
  /\ max_resp' = Head(rest)
  /\ Erase

NewMax ==
  /\ rest # <<>> /\ it.integer = max.integer /\ it.client_id > max.client_id
  /\ deleted' = Append(deleted, max_resp)
  /\ max_resp' = Head(rest)
  /\ Erase

KeepMax ==
  /\ rest # <<>> /\ it.integer = max.integer /\ it.client_id <= max.client_id
  /\ UNCHANGED <<max_resp, deleted>>
  /\ Erase

DropOther ==
  /\ rest # <<>> /\ it.integer # max.integer
  /\ deleted' = Append(deleted, Head(rest))
  /\ UNCHANGED max_resp
  /\ Erase

Next == NewMax \/ KeepMax \/ DropOther

Spec == Init /\ [][Next]_vars /\ WF_vars(Next)

\* When the loop is done it has computed FindMajorityTag, the operator the
\* ABD client uses; so a reply with a greater integer than the first one never
\* wins, and among equals the first one does.
LoopComputesOperator ==
  rest = <<>> => vec_c_resp[max_resp] = FindMajorityTag(vec_c_resp)

\* No response is deleted twice, the one returned is not deleted, and none is
\* deleted while it is still in the vector.
NoUseAfterDelete ==
  /\ Cardinality({deleted[i] : i \in DOMAIN deleted}) = Len(deleted)
  /\ \A i \in DOMAIN deleted :
       deleted[i] # max_resp /\ \A j \in DOMAIN rest : deleted[i] # rest[j]

-----------------------------------------------------------------------------
(* The inductive invariant behind both.                                     *)

TypeOK ==
  /\ vec_c_resp \in Seq([server : Nat, tag : Tag]) /\ vec_c_resp # <<>>
  /\ rest \in Seq(DOMAIN vec_c_resp)
  /\ max_resp \in DOMAIN vec_c_resp
  /\ deleted \in Seq(DOMAIN vec_c_resp)

\* How many responses the loop has looked at: those before the rest.
Passed == Len(vec_c_resp) - Len(rest)

RestFollows == Passed >= 0 /\ \A i \in DOMAIN rest : rest[i] = Passed + i

\* The response kept is the best of the first one's peers so far, the earliest of
\* several; at the start it has not been looked at itself.
BestSoFar ==
  /\ max_resp \in Peers(vec_c_resp)
  /\ max_resp <= Passed \/ (max_resp = 1 /\ Passed = 0)
  /\ \A j \in Peers(vec_c_resp) : j <= Passed =>
       \/ vec_c_resp[j].tag.client_id < max.client_id
       \/ vec_c_resp[j].tag.client_id = max.client_id /\ max_resp <= j

DeletedOnce ==
  /\ IsFiniteSet({deleted[i] : i \in DOMAIN deleted})
  /\ Cardinality({deleted[i] : i \in DOMAIN deleted}) = Len(deleted)
  /\ \A i \in DOMAIN deleted : deleted[i] <= Passed /\ deleted[i] # max_resp

IInv == TypeOK /\ RestFollows /\ BestSoFar /\ DeletedOnce
=============================================================================
