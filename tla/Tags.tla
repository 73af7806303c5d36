-------------------------------- MODULE Tags --------------------------------
(***************************************************************************)
(* The tags of the ABD protocol and what find_majority_tag makes of them.   *)
(***************************************************************************)
EXTENDS Integers, Sequences

Tag     == [integer : Nat, client_id : Nat]
ZeroTag == [integer |-> 0, client_id |-> 0]

\* The order in which WRITE compares tags: integer first, client id second.
Less(a, b) == \/ a.integer < b.integer
              \/ a.integer = b.integer /\ a.client_id < b.client_id
Leq(a, b)  == Less(a, b) \/ a = b

\* find_majority_tag.  Of the collected replies only those with the integer of
\* the first one are compared; the greatest client id among them wins, the
\* earliest reply among equal ids.
Peers(vec) == {i \in DOMAIN vec : vec[i].tag.integer = vec[1].tag.integer}

FindMajorityTag(vec) ==
  LET Beats(i, j) == \/ vec[j].tag.client_id < vec[i].tag.client_id
                     \/ vec[j].tag.client_id = vec[i].tag.client_id /\ i <= j
  IN  vec[CHOOSE i \in Peers(vec) : \A j \in Peers(vec) : Beats(i, j)]

\* Some reply with a greater integer than the first one is thrown away.
DiscardsGreater(vec) == \E i \in DOMAIN vec : vec[i].tag.integer > vec[1].tag.integer
=============================================================================
