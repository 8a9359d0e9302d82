----------------------------- MODULE MC_AddrMan -----------------------------
(***************************************************************************)
(* Three addresses, two sources, two new buckets of two slots and a tried  *)
(* table of two: two addresses share a tried slot, and in each new bucket  *)
(* another two share a position.                                           *)
(***************************************************************************)
EXTENDS AddrManDisk

\* One address is known with two ports.
MCService == {[ip |-> 1, port |-> 1], [ip |-> 1, port |-> 2], [ip |-> 2, port |-> 1], [ip |-> 3, port |-> 1]}

MCGetNewBucket == [x \in Ip \X Source |-> x[2] - 1]
MCGetNewPosition == [x \in Service \X NewBucket |->
                       IF x[2] = 0 THEN IF x[1].ip <= 2 THEN 0 ELSE 1
                       ELSE IF x[1].ip >= 2 THEN 0 ELSE 1]
MCGetTriedSlot == [svc \in Service |-> <<0, IF svc.ip <= 2 THEN 0 ELSE 1>>]
=============================================================================
