---------------------------- MODULE MCCacheStore ----------------------------
(***************************************************************************)
(* CacheStore for TLC: a fleet of two devices, the ID of the second        *)
(* continuing that of the first, and a second path on one of them.         *)
(***************************************************************************)
EXTENDS CacheStore, TLC

CONSTANTS gw, gwStream, address, route

MCKeys    == {[dev |-> gw, path |-> address], [dev |-> gwStream, path |-> address],
              [dev |-> gw, path |-> route]}
MCExtends == {<<gw, gwStream>>}

Symmetry == Permutations(Callers)
=============================================================================
