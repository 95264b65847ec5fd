---------------------------- MODULE MCRedisCache ----------------------------
(* RedisCache for TLC: two devices on one path, the ID of the second       *)
(* continuing that of the first.                                           *)
EXTENDS RedisCache, TLC

CONSTANTS gw, gwStream, address

MCKeys    == {[dev |-> gw, path |-> address], [dev |-> gwStream, path |-> address]}
MCExtends == {<<gw, gwStream>>}

Symmetry == Permutations(Callers) \cup Permutations(Invalidators)
=============================================================================
