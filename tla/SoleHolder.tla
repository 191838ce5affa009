------------------------------ MODULE SoleHolder ------------------------------
(***************************************************************************)
(* What a lease is for: of several processes at most one at a time has the  *)
(* thing, and nobody takes it from one that has it.  The leased gateway is  *)
(* shown to implement this (LeasedGateway!Abstract).                        *)
(***************************************************************************)
CONSTANT Holders
VARIABLE having     \* who has it: {} or a singleton

Init == having = {}

Take(p) == having = {} /\ having' = {p}

LetGo(p) == having = {p} /\ having' = {}

Next == \E p \in Holders : Take(p) \/ LetGo(p)

Spec == Init /\ [][Next]_having
=============================================================================
