---------------------------- MODULE MCProxyPool ----------------------------
(* ProxyPool for model checking: the maps that requests carry, and the     *)
(* symmetry of handlers.                                                   *)
EXTENDS ProxyPool, TLC

MCAllMaps == Map

MCSymmetry == Permutations(Handler)
=============================================================================
