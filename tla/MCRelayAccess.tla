--------------------------- MODULE MCRelayAccess ---------------------------
(* RelayAccess on small sets: devices, keys and calls are interchangeable, and no
   property distinguishes them. *)
EXTENDS RelayAccess, TLC

Symmetry == Permutations(Devices) \cup Permutations(Codes) \cup Permutations(Calls)
=============================================================================
