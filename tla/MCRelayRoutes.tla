--------------------------- MODULE MCRelayRoutes ---------------------------
(* RelayRoutes on small sets. *)
EXTENDS RelayRoutes, TLC

Symmetry == Permutations(Conns)

(* Two connections with every choice of server and name and a restart; or
   three connections that serve one server under one name. *)
Third == CHOOSE c \in Conns : TRUE
Server == CHOOSE s \in Servers : TRUE
Name == CHOOSE v \in Names : TRUE
Overlaps ==
    \/ conn[Third].at = "new"
    \/ /\ crashes = 0
       /\ \A c \in Conns :
             conn[c].share # None =>
                conn[c].share.server = Server /\ conn[c].share.vanity \in {None, Name}
=============================================================================
