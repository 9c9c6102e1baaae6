----------------------------- MODULE Redemption -----------------------------
(***************************************************************************)
(* What relay activation promises (relay/README.md): "a single-use         *)
(* activation code binds relay access to that installation public key".    *)
(* A code is issued, redeemed once by one device, and never issued or      *)
(* redeemed again; a device's right comes from one code and is revocable.  *)
(***************************************************************************)
CONSTANTS Devices, Codes, None, Unused

VARIABLES
    owner,   \* of each code: None before it is issued, Unused, or its device
    right    \* of each device: the code its access comes from, or None

vars == <<owner, right>>

Init ==
    /\ owner = [c \in Codes |-> None]
    /\ right = [d \in Devices |-> None]

Issue(S) ==
    /\ \A c \in S : owner[c] = None
    /\ owner' = [c \in Codes |-> IF c \in S THEN Unused ELSE owner[c]]
    /\ UNCHANGED right

Redeem(c, d) ==
    /\ owner[c] = Unused /\ right[d] = None
    /\ owner' = [owner EXCEPT ![c] = d]
    /\ right' = [right EXCEPT ![d] = c]

Revoke(d) ==
    /\ right[d] # None
    /\ right' = [right EXCEPT ![d] = None]
    /\ UNCHANGED owner

Next ==
    \/ \E S \in SUBSET Codes : Issue(S)
    \/ \E c \in Codes, d \in Devices : Redeem(c, d)
    \/ \E d \in Devices : Revoke(d)

Spec == Init /\ [][Next]_vars
=============================================================================
