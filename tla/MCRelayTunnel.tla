--------------------------- MODULE MCRelayTunnel ---------------------------
(* RelayTunnel on small sets.  Every player connects once and every data request is
   made once: the sets are the bounds.  Nothing distinguishes the players, nor the data
   requests: one player is the first to connect, and the numbered data requests are
   made in that order. *)
EXTENDS RelayTunnel

First == CHOOSE p \in Players : TRUE

InOrder ==
    /\ At(First, "away") => \A p \in Players : At(p, "away")
    /\ \A d, e \in Dials : d < e /\ dial[d].at = "idle" => dial[e].at = "idle"
=============================================================================
