---------------------------- MODULE RelayAccess ----------------------------
(***************************************************************************)
(* Activation of the relay: the store of codes and rights in the relay     *)
(* (relay/access.go) and the installations that redeem codes and keep a    *)
(* receipt (src-tauri/src/sharing.rs, activate).                           *)
(*                                                                         *)
(* The relay changes its maps and their file under one mutex, so a request *)
(* is one step; its file is replaced by a rename.  Requests and answers    *)
(* are lost or late, both programs die at any time, and an installation    *)
(* may run several activations at once.                                    *)
(***************************************************************************)
EXTENDS Naturals

CONSTANTS
    Devices,      \* installations, by their public key
    Codes,        \* activation codes
    Calls,        \* activations under way at a time
    None,         \* no device, code, receipt
    Unused,       \* a code that was issued and not redeemed
    MaxRequests,  \* bound: activations ever requested
    MaxRevokes,   \* bound: revocations of a device
    MaxLaunches   \* bound: launches of an installation

ASSUME CodesAssumption ==
    /\ None \notin Codes \cup Devices /\ Unused \notin Devices \cup {None}
    /\ Codes \cap {"used", "refused"} = {}
    /\ "used" # None /\ "refused" # None
ASSUME BoundsAssumption == MaxRequests \in Nat /\ MaxRevokes \in Nat /\ MaxLaunches \in Nat

VARIABLES
    data,      \* accessStore.data: codes and entitlements in memory
    file,      \* access.json of the relay
    call,      \* activate calls of the installations
    requests,  \* on their way to the relay
    answers,   \* on their way back
    access,    \* ShareManager.access of each installation: its receipt
    receipt,   \* access.json of each installation
    revokes,   \* how often each device was revoked
    count      \* requests and launches so far

vars == <<data, file, call, requests, answers, access, receipt, revokes, count>>
relay == <<data, file>>
network == <<requests, answers>>
receipts == <<access, receipt>>

(* A code's device, and a device's entitlement: the activation, which is named
   by the code it redeemed, and whether it was revoked. *)
Entitlement == [code : Codes, revoked : BOOLEAN]
Database == [codes : [Codes -> Devices \cup {None, Unused}],
             entitlements : [Devices -> Entitlement \cup {None}]]
Request == [call : Calls, device : Devices, code : Codes]
Answer == [call : Calls, device : Devices, code : Codes, says : Codes \cup {"used", "refused"}]
Call == [at : {"idle", "waiting", "replace", "rename", "publish"},
         device : Devices \cup {None}, code : Codes \cup {None}]
IdleCall == [at |-> "idle", device |-> None, code |-> None]

ASSUME EntitlementAssumption == None \notin Entitlement

TypeOK ==
    /\ data \in Database /\ file \in Database
    /\ call \in [Calls -> Call]
    /\ requests \subseteq Request /\ answers \subseteq Answer
    /\ access \in [Devices -> Codes \cup {None}]
    /\ receipt \in [Devices -> Codes \cup {None}]
    /\ revokes \in [Devices -> 0..MaxRevokes]
    /\ count \in [request : 0..MaxRequests, launch : 0..MaxLaunches]

Empty == [codes |-> [c \in Codes |-> None], entitlements |-> [d \in Devices |-> None]]
Init ==
    /\ data = Empty /\ file = Empty
    /\ call = [k \in Calls |-> IdleCall]
    /\ requests = {} /\ answers = {}
    /\ access = [d \in Devices |-> None]
    /\ receipt = [d \in Devices |-> None]
    /\ revokes = [d \in Devices |-> 0]
    /\ count = [request |-> 0, launch |-> 0]

Live(db, d) == db.entitlements[d] # None /\ ~ db.entitlements[d].revoked

-----------------------------------------------------------------------------
(* The relay. *)

CreateCodes(S) ==
    /\ S # {} /\ \A c \in S : data.codes[c] = None
    /\ data' = [data EXCEPT !.codes = [c \in Codes |-> IF c \in S THEN Unused ELSE @[c]]]
    /\ file' = data'
    /\ UNCHANGED <<call, network, receipts, revokes, count>>

(* The relay answers request r and keeps nothing else of it. *)
Replies(r, says) ==
    /\ requests' = requests \ {r}
    /\ answers' = answers \cup {[call |-> r.call, device |-> r.device, code |-> r.code,
                                 says |-> says]}
    /\ UNCHANGED <<call, receipts, revokes, count>>

(* A stale or badly signed request, a malformed code. *)
Reject(r) == Replies(r, "refused") /\ UNCHANGED relay

(* The device is activated: whatever code it sends, it gets its receipt. *)
ActivatedBefore(r) ==
    /\ Live(data, r.device)
    /\ Replies(r, data.entitlements[r.device].code)
    /\ UNCHANGED relay

\* Variant: the code is looked at before the device.
RefuseCodeFirst(r) ==
    /\ \/ data.codes[r.code] = None /\ Replies(r, "refused")
       \/ data.codes[r.code] \in Devices /\ Replies(r, "used")
    /\ UNCHANGED relay

RefuseCode(r) ==
    /\ ~ Live(data, r.device)
    /\ \/ data.codes[r.code] = None /\ Replies(r, "refused")
       \/ data.codes[r.code] \in Devices /\ Replies(r, "used")
    /\ UNCHANGED relay

Redeemed(r) ==
    [codes |-> [data.codes EXCEPT ![r.code] = r.device],
     entitlements |-> [data.entitlements EXCEPT ![r.device] =
                          [code |-> r.code, revoked |-> FALSE]]]

\* Variants: an active device redeems another code; a used code is redeemed again.
RedeemAnyway(r) ==
    /\ data.codes[r.code] = Unused
    /\ data' = Redeemed(r) /\ file' = data'
    /\ Replies(r, r.code)
RedeemUsed(r) ==
    /\ ~ Live(data, r.device) /\ data.codes[r.code] # None
    /\ data' = Redeemed(r) /\ file' = data'
    /\ Replies(r, r.code)

Redeem(r) ==
    /\ ~ Live(data, r.device) /\ data.codes[r.code] = Unused
    /\ data' = Redeemed(r) /\ file' = data'
    /\ Replies(r, r.code)

RedeemUnsaved(r) ==
    /\ ~ Live(data, r.device) /\ data.codes[r.code] = Unused
    /\ data' = Redeemed(r) /\ UNCHANGED file
    /\ Replies(r, r.code)

(* The file is not written: the code is given back, and the device loses its
   record, a revoked one as well. *)
RedeemNotSaved(r) ==
    /\ ~ Live(data, r.device) /\ data.codes[r.code] = Unused
    /\ data' = [data EXCEPT !.entitlements[r.device] = None]
    /\ UNCHANGED file
    /\ Replies(r, "refused")

Restart ==
    /\ data' = file /\ data # file
    /\ UNCHANGED <<file, call, network, receipts, revokes, count>>

(* Entitlements are revoked by hand, in the file of a relay that is restarted. *)
Revoke(d) ==
    /\ Live(file, d) /\ revokes[d] < MaxRevokes
    /\ file' = [file EXCEPT !.entitlements[d].revoked = TRUE]
    /\ data' = file'
    /\ revokes' = [revokes EXCEPT ![d] = @ + 1]
    /\ UNCHANGED <<call, network, receipts, count>>

-----------------------------------------------------------------------------
(* The network. *)

LoseRequest(r) ==
    /\ requests' = requests \ {r}
    /\ UNCHANGED <<relay, call, answers, receipts, revokes, count>>

LoseAnswer(a) ==
    /\ answers' = answers \ {a}
    /\ UNCHANGED <<relay, call, requests, receipts, revokes, count>>

-----------------------------------------------------------------------------
(* The installations. *)

Activate(k, d, c) ==
    /\ call[k].at = "idle" /\ count.request < MaxRequests
    /\ \A m \in requests \cup answers : m.call # k
    /\ call' = [call EXCEPT ![k] = [at |-> "waiting", device |-> d, code |-> None]]
    /\ requests' = requests \cup {[call |-> k, device |-> d, code |-> c]}
    /\ count' = [count EXCEPT !.request = @ + 1]
    /\ UNCHANGED <<relay, answers, receipts, revokes>>

Ends(k) == call' = [call EXCEPT ![k] = IdleCall]
Goto(k, l) == call' = [call EXCEPT ![k].at = l]

ActivateFails(k) ==
    /\ call[k].at \in {"waiting", "replace", "rename"}
    /\ Ends(k)
    /\ UNCHANGED <<relay, network, receipts, revokes, count>>

AnswerArrives(a) ==
    /\ call[a.call].at = "waiting"
    /\ answers' = answers \ {a}
    /\ IF a.says \in Codes
       THEN call' = [call EXCEPT ![a.call].at = "replace", ![a.call].code = a.says]
       ELSE Ends(a.call)
    /\ UNCHANGED <<relay, requests, receipts, revokes, count>>

(* save_access_receipt removes the old receipt, then renames the new one. *)
RemoveReceipt(k) ==
    /\ call[k].at = "replace"
    /\ receipt' = [receipt EXCEPT ![call[k].device] = None]
    /\ Goto(k, "rename")
    /\ UNCHANGED <<relay, network, access, revokes, count>>

RenameReceipt(k) ==
    /\ call[k].at = "rename"
    /\ receipt' = [receipt EXCEPT ![call[k].device] = call[k].code]
    /\ Goto(k, "publish")
    /\ UNCHANGED <<relay, network, access, revokes, count>>

Publish(k) ==
    /\ call[k].at = "publish"
    /\ access' = [access EXCEPT ![call[k].device] = call[k].code]
    /\ Ends(k)
    /\ UNCHANGED <<relay, network, receipt, revokes, count>>

(* The application dies; the next launch loads the receipt. *)
Launch(d) ==
    /\ count.launch < MaxLaunches
    /\ call' = [k \in Calls |-> IF call[k].device = d THEN IdleCall ELSE call[k]]
    /\ access' = [access EXCEPT ![d] = receipt[d]]
    /\ count' = [count EXCEPT !.launch = @ + 1]
    /\ UNCHANGED <<relay, network, receipt, revokes>>

-----------------------------------------------------------------------------
Next ==
    \/ \E S \in SUBSET Codes : CreateCodes(S)
    \/ \E r \in requests :
          \/ Reject(r) \/ ActivatedBefore(r) \/ RefuseCode(r) \/ Redeem(r) \/ RedeemNotSaved(r)
          \/ LoseRequest(r)
    \/ \E a \in answers : LoseAnswer(a) \/ AnswerArrives(a)
    \/ \E k \in Calls, d \in Devices, c \in Codes : Activate(k, d, c)
    \/ \E k \in Calls : ActivateFails(k) \/ RemoveReceipt(k) \/ RenameReceipt(k) \/ Publish(k)
    \/ \E d \in Devices : Revoke(d) \/ Launch(d)
    \/ Restart

Spec == Init /\ [][Next]_vars

-----------------------------------------------------------------------------
(* Properties.  The file decides what a restarted relay knows. *)

Owned(c, d) == c # None => file.codes[c] = d

(* A failed write is undone: what the relay grants is what its file grants, and all
   it may have forgotten is that a device had been revoked (access.go, activate). *)
GrantsAreSaved ==
    /\ data.codes = file.codes
    /\ \A d \in Devices : data.entitlements[d] # file.entitlements[d] =>
          data.entitlements[d] = None /\ ~ Live(file, d)

(* A device that holds a receipt has the right it names, across restarts of the
   relay, unless it was revoked: no installation believes it is activated when the
   relay does not know it (sharing.rs, activate; access.go, persistLocked). *)
Honoured(c, d) ==
    c # None => /\ Owned(c, d)
                /\ revokes[d] = 0 => Live(file, d) /\ file.entitlements[d].code = c
ReceiptsAreHonoured ==
    \A d \in Devices : Honoured(access[d], d) /\ Honoured(receipt[d], d)

(* Retrying with the key whose answer was lost, or whose receipt was lost in a crash,
   succeeds: only a revoked device hears that its own key was used. *)
RetrySucceeds ==
    \A a \in answers :
        a.says = "used" /\ file.codes[a.code] = a.device => revokes[a.device] > 0

(* Activations that overlap, or are repeated with another key, use up one key
   unless the device was revoked in between. *)
NoKeyIsWasted ==
    \A c1, c2 \in Codes, d \in Devices :
        file.codes[c1] = d /\ file.codes[c2] = d /\ c1 # c2 => revokes[d] > 0

(* The inductive invariant. *)
RightsHaveCodes ==
    \A d \in Devices :
        file.entitlements[d] # None => file.codes[file.entitlements[d].code] = d
UsedCodesGiveRights ==
    \A c \in Codes, d \in Devices : file.codes[c] = d => Honoured(c, d)
CallsAreOwned ==
    \A k \in Calls : call[k].device # None => Owned(call[k].code, call[k].device)
AnswersAreOwned ==
    \A a \in answers :
        /\ a.says \in Codes => Owned(a.says, a.device)
        /\ a.says = "used" => file.codes[a.code] \in Devices
MessagesAreTheirs ==
    \A m \in requests \cup answers :
        call[m.call].at = "waiting" => call[m.call].device = m.device
CallsHaveDevices == \A k \in Calls : call[k].at # "idle" => call[k].device # None

IInv ==
    /\ TypeOK
    /\ GrantsAreSaved
    /\ RightsHaveCodes /\ UsedCodesGiveRights
    /\ CallsAreOwned /\ AnswersAreOwned /\ MessagesAreTheirs /\ CallsHaveDevices
    /\ ReceiptsAreHonoured /\ RetrySucceeds

(* The relay implements single-use codes and revocable rights: a key is redeemed once,
   by one device without a right, and a revoked device comes back with a fresh key
   only (relay/README.md:9, 30), whatever is lost, retried or restarted. *)
Right(d) == IF Live(file, d) THEN file.entitlements[d].code ELSE None
A == INSTANCE Redemption WITH owner <- file.codes, right <- [d \in Devices |-> Right(d)]
RedemptionSpec == A!Spec
=============================================================================
