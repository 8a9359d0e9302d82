------------------------------ MODULE MC_Relay ------------------------------
(* Module Relay for TLC. The responsive peer announces all transactions, the     *)
(* other one the first or the second. *)
EXTENDS Relay

Line == <<{}, {1}, {2}>>     \* each spends from the one before it
Fork == <<{}, {1}, {1}>>     \* two spend from the first
Join == <<{}, {}, {1, 2}>>   \* the last spends from both others
Good == <<"good", "good", "good">>

OfCase(parents, kinds, firsts, limits) ==
  [parents : {parents}, kind : kinds, limit : limits,
   announces : {[p \in Peer |-> IF p \in Responsive THEN Tx ELSE {t}] : t \in firsts}]

MCCase ==
  OfCase(Line, {Good}, {1, 2}, {1, 2})
    \cup OfCase(Line, {<<"good", "large", "good">>, <<"good", "poor", "good">>}, {2}, {2})
    \cup OfCase(Fork, {Good, <<"good", "bad", "good">>, <<"good", "good", "bad">>}, {2}, {1, 2})
    \cup OfCase(Join, {Good, <<"good", "bad", "good">>}, {2}, {2})
=============================================================================
