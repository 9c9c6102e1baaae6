------------------------- MODULE RelayAccess_proofs -------------------------
(***************************************************************************)
(* Proofs about relay activation.  Everything rests on what the steps of   *)
(* the relay preserve (RelayStep): a key's owner never changes, and a      *)
(* right is lost by revocation only.  What the messages, the calls and the *)
(* receipts say stays true because of that.                                *)
(***************************************************************************)
EXTENDS RelayAccess, TLAPS

RelayInv ==
    /\ data \in Database /\ file \in Database /\ revokes \in [Devices -> 0..MaxRevokes]
    /\ GrantsAreSaved /\ RightsHaveCodes /\ UsedCodesGiveRights

(* What was said about keys and rights is still true. *)
Lasting ==
    /\ \A c \in Codes : file.codes[c] \in Devices => file'.codes[c] = file.codes[c]
    /\ \A d \in Devices : revokes[d] > 0 => revokes'[d] > 0
    /\ \A c \in Codes, d \in Devices : Owned(c, d) => Owned(c, d)'
    /\ \A c \in Codes, d \in Devices : Honoured(c, d) => Honoured(c, d)'

(* A request that is answered with a refusal, and one that redeems a key. *)
LEMMA RedeemStep ==
    RelayInv => \A r \in Request :
        (Redeem(r) \/ RedeemNotSaved(r)) => RelayInv' /\ Lasting
<1> SUFFICES ASSUME RelayInv, NEW r \in Request, Redeem(r) \/ RedeemNotSaved(r)
             PROVE  RelayInv' /\ Lasting
  OBVIOUS
<1>t. r.device \in Devices /\ r.code \in Codes BY DEF Request
<1>u. revokes' = revokes BY DEF Redeem, RedeemNotSaved, Replies
<1>1. CASE Redeem(r)
  <2>1. file' = Redeemed(r) /\ data' = Redeemed(r) BY <1>1 DEF Redeem
  <2>2. ~ Live(file, r.device) /\ file.codes[r.code] = Unused
    BY <1>1, <1>t DEF Redeem, RelayInv, GrantsAreSaved, Live
  <2> DEFINE e == [code |-> r.code, revoked |-> FALSE]
  <2>e. e \in Entitlement /\ e # None
    <3>1. e \in Entitlement BY <1>t DEF Entitlement
    <3> QED BY <3>1, EntitlementAssumption
  <2>3. /\ file'.codes = [file.codes EXCEPT ![r.code] = r.device]
        /\ file'.entitlements = [data.entitlements EXCEPT ![r.device] = e]
    BY <2>1 DEF Redeemed, RelayInv, GrantsAreSaved
  <2>4. file' \in Database /\ data' \in Database
    BY <2>1, <2>e, <1>t DEF Redeemed, RelayInv, Database
  <2>c. file'.codes[r.code] = r.device /\ \A c \in Codes : c # r.code => file'.codes[c] = file.codes[c]
    BY <2>3, <1>t DEF RelayInv, Database
  <2>d. /\ file'.entitlements[r.device] = e
        /\ \A d \in Devices : d # r.device => file'.entitlements[d] = data.entitlements[d]
    BY <2>3, <1>t DEF RelayInv, Database
  <2>5. GrantsAreSaved' BY <2>1 DEF GrantsAreSaved
  <2>6. Unused \notin Devices BY CodesAssumption
  <2>7. RightsHaveCodes'
    <3> SUFFICES ASSUME NEW d \in Devices, file'.entitlements[d] # None
                 PROVE  file'.codes[file'.entitlements[d].code] = d
      BY DEF RightsHaveCodes
    <3>1. CASE d = r.device BY <3>1, <2>c, <2>d
    <3>2. CASE d # r.device
      <4>1. file'.entitlements[d] = data.entitlements[d] BY <3>2, <2>d
      <4>2. data.entitlements[d] = file.entitlements[d]
        BY <4>1 DEF RelayInv, GrantsAreSaved
      <4>3. file.codes[file.entitlements[d].code] = d
        BY <4>1, <4>2 DEF RelayInv, RightsHaveCodes
      <4>4. file.entitlements[d].code \in Codes
        BY <4>1, <4>2 DEF RelayInv, Database, Entitlement
      <4> QED BY <4>1, <4>2, <4>3, <4>4, <2>c, <2>2, <2>6
    <3> QED BY <3>1, <3>2
  <2>8. \A c \in Codes, d \in Devices : Owned(c, d) => Owned(c, d)'
    BY <2>c, <2>2, <2>6, CodesAssumption DEF Owned
  <2>9. \A c \in Codes, d \in Devices : Honoured(c, d) => Honoured(c, d)'
    <3> SUFFICES ASSUME NEW c \in Codes, NEW d \in Devices, Honoured(c, d)
                 PROVE  Honoured(c, d)'
      OBVIOUS
    <3>n. c # None BY CodesAssumption
    <3>1. Owned(c, d)' BY <2>8, <3>n DEF Honoured
    <3>2. CASE revokes[d] # 0 BY <3>1, <3>2, <1>u DEF Honoured
    <3>3. CASE revokes[d] = 0
      <4>1. Live(file, d) /\ file.entitlements[d].code = c BY <3>3, <3>n DEF Honoured
      <4>2. d # r.device BY <4>1, <2>2
      <4>3. data.entitlements[d] = file.entitlements[d]
        BY <4>1 DEF RelayInv, GrantsAreSaved
      <4>4. file'.entitlements[d] = file.entitlements[d] BY <4>2, <4>3, <2>d
      <4> QED BY <3>1, <4>1, <4>4 DEF Honoured, Live
    <3> QED BY <3>2, <3>3
  <2>10. UsedCodesGiveRights'
    <3> SUFFICES ASSUME NEW c \in Codes, NEW d \in Devices, file'.codes[c] = d
                 PROVE  Honoured(c, d)'
      BY DEF UsedCodesGiveRights
    <3>1. CASE c # r.code
      <4>1. Honoured(c, d) BY <3>1, <2>c DEF RelayInv, UsedCodesGiveRights
      <4> QED BY <4>1, <2>9
    <3>2. CASE c = r.code
      <4>1. d = r.device BY <3>2, <2>c
      <4>2. file'.entitlements[d] # None /\ ~ file'.entitlements[d].revoked
            /\ file'.entitlements[d].code = c
        BY <4>1, <3>2, <2>d, <2>e
      <4> QED BY <4>2 DEF Honoured, Owned, Live
    <3> QED BY <3>1, <3>2
  <2>11. \A c \in Codes : file.codes[c] \in Devices => file'.codes[c] = file.codes[c]
    BY <2>c, <2>2, <2>6
  <2> HIDE DEF e
  <2> QED BY <1>u, <2>4, <2>5, <2>7, <2>8, <2>9, <2>10, <2>11 DEF RelayInv, Lasting
<1>2. CASE RedeemNotSaved(r)
  <2>1. file' = file /\ data' = [data EXCEPT !.entitlements[r.device] = None]
    BY <1>2 DEF RedeemNotSaved
  <2>2. ~ Live(file, r.device)
    BY <1>2, <1>t DEF RedeemNotSaved, RelayInv, GrantsAreSaved, Live
  <2>3. /\ data'.codes = data.codes
        /\ data'.entitlements = [data.entitlements EXCEPT ![r.device] = None]
        /\ data' \in Database
    BY <2>1, <1>t DEF RelayInv, Database
  <2>4. \A d \in Devices : data'.entitlements[d] =
            IF d = r.device THEN None ELSE data.entitlements[d]
    BY <2>3, <1>t DEF RelayInv, Database
  <2>5. GrantsAreSaved'
    BY <2>1, <2>2, <2>3, <2>4 DEF RelayInv, GrantsAreSaved, Live
  <2> QED BY <1>u, <2>1, <2>3, <2>5
        DEF RelayInv, RightsHaveCodes, UsedCodesGiveRights, Lasting, Honoured, Owned, Live
<1> QED BY <1>1, <1>2

(* New keys. *)
LEMMA CreateStep ==
    RelayInv => \A S \in SUBSET Codes : CreateCodes(S) => RelayInv' /\ Lasting
<1> SUFFICES ASSUME RelayInv, NEW S \in SUBSET Codes, CreateCodes(S) PROVE RelayInv' /\ Lasting
  OBVIOUS
<1>u. revokes' = revokes /\ file' = data' BY DEF CreateCodes
<1>1. data' = [data EXCEPT !.codes = [c \in Codes |-> IF c \in S THEN Unused ELSE @[c]]]
  BY DEF CreateCodes
<1>2. data'.entitlements = data.entitlements
  BY <1>1 DEF RelayInv, Database
<1>3. \A c \in Codes : data'.codes[c] = IF c \in S THEN Unused ELSE data.codes[c]
  BY <1>1 DEF RelayInv, Database
<1>4. data' \in Database
  BY <1>1 DEF RelayInv, Database
<1>5. \A c \in S : file.codes[c] = None BY DEF CreateCodes, RelayInv, GrantsAreSaved
<1>6. \A c \in Codes, d \in Devices : file'.codes[c] = d <=> file.codes[c] = d
  BY <1>u, <1>3, <1>5, CodesAssumption DEF RelayInv, GrantsAreSaved
<1>7. \A d \in Devices : Live(file, d) => file'.entitlements[d] = file.entitlements[d]
  BY <1>u, <1>2 DEF RelayInv, GrantsAreSaved, Live
<1>8. \A d \in Devices : file'.entitlements[d] # None =>
          file'.entitlements[d] = file.entitlements[d]
  BY <1>u, <1>2 DEF RelayInv, GrantsAreSaved
<1>9. \A c \in Codes, d \in Devices : Honoured(c, d) => Honoured(c, d)'
  <2> SUFFICES ASSUME NEW c \in Codes, NEW d \in Devices, Honoured(c, d) PROVE Honoured(c, d)'
    OBVIOUS
  <2>1. Owned(c, d)' BY <1>6, CodesAssumption DEF Honoured, Owned
  <2>2. revokes[d] = 0 => Live(file, d)' /\ file'.entitlements[d].code = c
    BY <1>7, CodesAssumption DEF Honoured, Live
  <2> QED BY <2>1, <2>2, <1>u DEF Honoured
<1>10. RightsHaveCodes'
  <2> SUFFICES ASSUME NEW d \in Devices, file'.entitlements[d] # None
               PROVE  file'.codes[file'.entitlements[d].code] = d
    BY DEF RightsHaveCodes
  <2>1. file'.entitlements[d] = file.entitlements[d] BY <1>8
  <2>2. file.entitlements[d].code \in Codes BY <2>1 DEF RelayInv, Database, Entitlement
  <2> QED BY <2>1, <2>2, <1>6 DEF RelayInv, RightsHaveCodes
<1>11. UsedCodesGiveRights' BY <1>6, <1>9 DEF RelayInv, UsedCodesGiveRights
<1>12. GrantsAreSaved' BY <1>u DEF GrantsAreSaved
<1>13. \A c \in Codes, d \in Devices : Owned(c, d) => Owned(c, d)'
  BY <1>6, CodesAssumption DEF Owned
<1> QED BY <1>u, <1>4, <1>6, <1>9, <1>10, <1>11, <1>12, <1>13 DEF RelayInv, Lasting

(* Revocation, and a restart. *)
LEMMA RevokeStep ==
    RelayInv => \A d \in Devices : Revoke(d) => RelayInv' /\ Lasting
<1> SUFFICES ASSUME RelayInv, NEW x \in Devices, Revoke(x) PROVE RelayInv' /\ Lasting
  OBVIOUS
<1>1. /\ file' = [file EXCEPT !.entitlements[x].revoked = TRUE] /\ data' = file'
      /\ revokes' = [revokes EXCEPT ![x] = @ + 1] /\ revokes[x] < MaxRevokes
  BY DEF Revoke
<1>2. file.entitlements[x] \in Entitlement
  BY DEF Revoke, Live, RelayInv, Database
<1> DEFINE e == [file.entitlements[x] EXCEPT !.revoked = TRUE]
<1>3. e \in Entitlement /\ e.code = file.entitlements[x].code /\ e # None
  BY <1>2, EntitlementAssumption DEF Entitlement
<1>4. file'.codes = file.codes /\ file'.entitlements = [file.entitlements EXCEPT ![x] = e]
  BY <1>1 DEF RelayInv, Database
<1>5. file' \in Database BY <1>1, <1>3, <1>4 DEF RelayInv, Database
<1>6. \A d \in Devices : file'.entitlements[d] = IF d = x THEN e ELSE file.entitlements[d]
  BY <1>4 DEF RelayInv, Database
<1>7. /\ revokes' \in [Devices -> 0..MaxRevokes] /\ revokes'[x] > 0
      /\ \A d \in Devices : d # x => revokes'[d] = revokes[d]
  BY <1>1, BoundsAssumption DEF RelayInv
<1> HIDE DEF e
<1>8. RightsHaveCodes'
  BY <1>2, <1>3, <1>4, <1>6, EntitlementAssumption DEF RelayInv, RightsHaveCodes
<1>9. \A c \in Codes, d \in Devices : Owned(c, d) => Owned(c, d)' BY <1>4 DEF Owned
<1>10. \A c \in Codes, d \in Devices : Honoured(c, d) => Honoured(c, d)'
  <2> SUFFICES ASSUME NEW c \in Codes, NEW d \in Devices, Honoured(c, d) PROVE Honoured(c, d)'
    OBVIOUS
  <2>1. CASE d = x BY <2>1, <1>7, <1>9, CodesAssumption DEF Honoured
  <2>2. CASE d # x BY <2>2, <1>6, <1>7, <1>9, CodesAssumption DEF Honoured, Live
  <2> QED BY <2>1, <2>2
<1>11. UsedCodesGiveRights' BY <1>4, <1>10 DEF RelayInv, UsedCodesGiveRights
<1>12. GrantsAreSaved' BY <1>1 DEF GrantsAreSaved
<1>13. \A d \in Devices : revokes[d] > 0 => revokes'[d] > 0 BY <1>7
<1> QED BY <1>1, <1>4, <1>5, <1>7, <1>8, <1>9, <1>10, <1>11, <1>12, <1>13 DEF RelayInv, Lasting

LEMMA RestartStep == RelayInv /\ Restart => RelayInv' /\ Lasting
BY DEF RelayInv, Restart, GrantsAreSaved, RightsHaveCodes, UsedCodesGiveRights, Lasting,
       Honoured, Owned, Live

-----------------------------------------------------------------------------
LEMMA RelayUnchanged == RelayInv /\ UNCHANGED <<relay, revokes>> => RelayInv' /\ Lasting
BY DEF RelayInv, relay, GrantsAreSaved, RightsHaveCodes, UsedCodesGiveRights, Lasting,
       Honoured, Owned, Live

(* What an answer of the relay says is true when it is sent. *)
Says(d, c, says) ==
    /\ says \in Codes => Owned(says, d)
    /\ says = "used" => file.codes[c] \in Devices
    /\ says = "used" /\ file.codes[c] = d => revokes[d] > 0

LEMMA SaysLasts ==
    Lasting => \A d \in Devices, c \in Codes, w \in Codes \cup {"used", "refused"} :
        Says(d, c, w) => Says(d, c, w)'
<1> SUFFICES ASSUME Lasting, NEW d \in Devices, NEW c \in Codes,
                    NEW w \in Codes \cup {"used", "refused"}, Says(d, c, w)
             PROVE  Says(d, c, w)'
  OBVIOUS
<1>1. w \in Codes => Owned(w, d)' BY DEF Lasting, Says
<1>2. w = "used" => file'.codes[c] = file.codes[c] /\ file.codes[c] \in Devices
  BY DEF Lasting, Says
<1>3. w = "used" /\ file.codes[c] = d => revokes'[d] > 0 BY DEF Lasting, Says
<1> QED BY <1>1, <1>2, <1>3 DEF Says

(* The invariant, in the parts the proof handles. *)
CallsInv ==
    /\ call \in [Calls -> Call]
    /\ CallsAreOwned /\ CallsHaveDevices
MessagesInv ==
    /\ requests \subseteq Request /\ answers \subseteq Answer
    /\ \A a \in answers : Says(a.device, a.code, a.says)
CountInv == count \in [request : 0..MaxRequests, launch : 0..MaxLaunches]
ReceiptsInv ==
    /\ access \in [Devices -> Codes \cup {None}]
    /\ receipt \in [Devices -> Codes \cup {None}]
    /\ ReceiptsAreHonoured

LEMMA Parts ==
    IInv <=> RelayInv /\ CallsInv /\ MessagesInv /\ MessagesAreTheirs /\ CountInv /\ ReceiptsInv
BY DEF IInv, TypeOK, RelayInv, CallsInv, MessagesInv, CountInv, ReceiptsInv, AnswersAreOwned,
       RetrySucceeds, Says

LEMMA PartsNext ==
    RelayInv' /\ CallsInv' /\ MessagesInv' /\ MessagesAreTheirs' /\ CountInv' /\ ReceiptsInv'
        => IInv'
BY DEF IInv, TypeOK, RelayInv, CallsInv, MessagesInv, CountInv, ReceiptsInv, AnswersAreOwned,
       RetrySucceeds, Says

LEMMA CallsLast == CallsInv /\ Lasting /\ UNCHANGED call => CallsInv'
<1> SUFFICES ASSUME CallsInv, Lasting, call' = call PROVE CallsInv'
  OBVIOUS
<1>1. CallsAreOwned'
  <2> SUFFICES ASSUME NEW k \in Calls, call[k].device # None
               PROVE  Owned(call[k].code, call[k].device)'
    BY DEF CallsAreOwned
  <2>1. call[k].device \in Devices /\ call[k].code \in Codes \cup {None}
    BY DEF CallsInv, Call
  <2>2. Owned(call[k].code, call[k].device) BY DEF CallsInv, CallsAreOwned
  <2> QED BY <2>1, <2>2 DEF Lasting, Owned
<1> QED BY <1>1 DEF CallsInv, CallsHaveDevices

LEMMA ReceiptsLast == ReceiptsInv /\ Lasting /\ UNCHANGED receipts => ReceiptsInv'
<1> SUFFICES ASSUME ReceiptsInv, Lasting, access' = access, receipt' = receipt
             PROVE  ReceiptsInv'
  BY DEF receipts
<1>1. \A d \in Devices, c \in Codes \cup {None} : Honoured(c, d) => Honoured(c, d)'
  BY DEF Lasting, Honoured
<1> QED BY <1>1 DEF ReceiptsInv, ReceiptsAreHonoured

LEMMA MessagesLast ==
    /\ MessagesInv /\ Lasting
    /\ requests' \subseteq Request /\ answers' \subseteq answers
    => MessagesInv'
<1> SUFFICES ASSUME MessagesInv, Lasting, requests' \subseteq Request, answers' \subseteq answers
             PROVE  MessagesInv'
  OBVIOUS
<1>1. ASSUME NEW a \in answers' PROVE Says(a.device, a.code, a.says)'
  <2>1. a \in Answer /\ Says(a.device, a.code, a.says) BY DEF MessagesInv
  <2>2. a.device \in Devices /\ a.code \in Codes /\ a.says \in Codes \cup {"used", "refused"}
    BY <2>1 DEF Answer
  <2> QED BY <2>1, <2>2, SaysLasts
<1> QED BY <1>1 DEF MessagesInv

(* A request is answered. *)
LEMMA RepliesStep ==
    CallsInv /\ MessagesInv /\ MessagesAreTheirs /\ ReceiptsInv /\ CountInv /\ Lasting =>
        \A r \in requests, w \in Codes \cup {"used", "refused"} :
            Replies(r, w) /\ Says(r.device, r.code, w)' =>
                CallsInv' /\ MessagesInv' /\ MessagesAreTheirs' /\ CountInv' /\ ReceiptsInv'
<1> SUFFICES ASSUME CallsInv, MessagesInv, MessagesAreTheirs, ReceiptsInv, CountInv, Lasting,
                    NEW r \in requests, NEW w \in Codes \cup {"used", "refused"},
                    Replies(r, w), Says(r.device, r.code, w)'
             PROVE  CallsInv' /\ MessagesInv' /\ MessagesAreTheirs' /\ CountInv' /\ ReceiptsInv'
  OBVIOUS
<1> DEFINE n == [call |-> r.call, device |-> r.device, code |-> r.code, says |-> w]
<1>1. requests' = requests \ {r} /\ answers' = answers \cup {n} BY DEF Replies
<1>2. UNCHANGED call /\ UNCHANGED receipts /\ UNCHANGED count BY DEF Replies
<1>3. r \in Request BY DEF MessagesInv
<1>4. n \in Answer BY <1>3 DEF Request, Answer
<1>5. ASSUME NEW a \in answers' PROVE Says(a.device, a.code, a.says)'
  <2>1. CASE a = n BY <2>1
  <2>2. CASE a \in answers
    <3>1. a \in Answer /\ Says(a.device, a.code, a.says) BY <2>2 DEF MessagesInv
    <3>2. a.device \in Devices /\ a.code \in Codes /\ a.says \in Codes \cup {"used", "refused"}
      BY <3>1 DEF Answer
    <3> QED BY <3>1, <3>2, SaysLasts
  <2> QED BY <1>1, <2>1, <2>2
<1>6. MessagesInv' BY <1>1, <1>4, <1>5 DEF MessagesInv
<1>7. MessagesAreTheirs'
  <2>1. n.call = r.call /\ n.device = r.device OBVIOUS
  <2> HIDE DEF n
  <2> QED BY <1>1, <1>2, <2>1 DEF MessagesAreTheirs
<1> QED BY <1>2, <1>6, <1>7, CallsLast, ReceiptsLast DEF CountInv

-----------------------------------------------------------------------------
(* The steps of Next, by component. *)

LEMMA RequestStep ==
    IInv => \A r \in requests :
        (Reject(r) \/ ActivatedBefore(r) \/ RefuseCode(r) \/ Redeem(r) \/ RedeemNotSaved(r)
            \/ LoseRequest(r)) => IInv'
<1> SUFFICES ASSUME IInv, NEW r \in requests,
                    Reject(r) \/ ActivatedBefore(r) \/ RefuseCode(r) \/ Redeem(r)
                        \/ RedeemNotSaved(r) \/ LoseRequest(r)
             PROVE  IInv'
  OBVIOUS
<1>p. /\ RelayInv /\ CallsInv /\ MessagesInv /\ MessagesAreTheirs /\ CountInv /\ ReceiptsInv
  BY Parts
<1>r. r \in Request /\ r.device \in Devices /\ r.code \in Codes
  BY <1>p DEF MessagesInv, Request
<1>s. \A w \in Codes : w # "used" /\ w # "refused" BY CodesAssumption
<1>a. ASSUME NEW w \in Codes \cup {"used", "refused"}, RelayInv', Lasting, Replies(r, w),
             Says(r.device, r.code, w)'
      PROVE  IInv'
  BY <1>a, <1>p, RepliesStep, PartsNext
<1>1. CASE Reject(r)
  <2>1. RelayInv' /\ Lasting BY <1>1, <1>p, RelayUnchanged DEF Reject, Replies
  <2>2. Says(r.device, r.code, "refused")' BY <1>s DEF Says
  <2> QED BY <1>1, <1>a, <2>1, <2>2 DEF Reject
<1>2. CASE ActivatedBefore(r)
  <2>1. RelayInv' /\ Lasting BY <1>2, <1>p, RelayUnchanged DEF ActivatedBefore, Replies
  <2>2. data.entitlements[r.device] = file.entitlements[r.device]
        /\ data.entitlements[r.device] # None
    BY <1>2, <1>p, <1>r DEF ActivatedBefore, Live, RelayInv, GrantsAreSaved
  <2>3. PICK w \in Codes : w = data.entitlements[r.device].code
    BY <2>2, <1>p, <1>r DEF RelayInv, Database, Entitlement
  <2>4. Owned(w, r.device) BY <2>2, <2>3, <1>p, <1>r DEF RelayInv, RightsHaveCodes, Owned
  <2>5. Owned(w, r.device)' BY <2>1, <2>4, <1>r DEF Lasting
  <2>6. Replies(r, w) BY <1>2, <2>3 DEF ActivatedBefore
  <2>7. Says(r.device, r.code, w)' BY <2>5, <1>s DEF Says
  <2> QED BY <2>1, <2>6, <2>7, <1>a
<1>3. CASE RefuseCode(r)
  <2>1. RelayInv' /\ Lasting BY <1>3, <1>p, RelayUnchanged DEF RefuseCode, Replies
  <2>2. CASE Replies(r, "refused")
    <3>1. Says(r.device, r.code, "refused")' BY <1>s DEF Says
    <3> QED BY <2>1, <2>2, <3>1, <1>a
  <2>3. CASE data.codes[r.code] \in Devices /\ Replies(r, "used")
    <3>1. file.codes[r.code] \in Devices /\ ~ Live(file, r.device)
      BY <2>3, <1>3, <1>p, <1>r DEF RefuseCode, RelayInv, GrantsAreSaved, Live
    <3>2. file.codes[r.code] = r.device => revokes[r.device] # 0
      BY <3>1, <1>p, <1>r, CodesAssumption DEF RelayInv, UsedCodesGiveRights, Honoured
    <3>3. revokes[r.device] \in Nat BY <1>p, <1>r, BoundsAssumption DEF RelayInv
    <3>4. Says(r.device, r.code, "used") BY <3>1, <3>2, <3>3, <1>s DEF Says
    <3>5. Says(r.device, r.code, "used")'
      BY <3>4, <2>1, <1>r, SaysLasts
    <3> QED BY <2>1, <2>3, <3>5, <1>a
  <2> QED BY <1>3, <2>2, <2>3 DEF RefuseCode
<1>4. CASE Redeem(r)
  <2>1. RelayInv' /\ Lasting BY <1>4, <1>p, <1>r, RedeemStep
  <2>2. file'.codes[r.code] = r.device
    BY <1>4, <1>p, <1>r DEF Redeem, Redeemed, RelayInv, Database
  <2>3. Says(r.device, r.code, r.code)' BY <2>2, <1>r, <1>s DEF Says, Owned
  <2> QED BY <1>4, <1>a, <1>r, <2>1, <2>3 DEF Redeem
<1>5. CASE RedeemNotSaved(r)
  <2>1. RelayInv' /\ Lasting BY <1>5, <1>p, <1>r, RedeemStep
  <2>2. Says(r.device, r.code, "refused")' BY <1>s DEF Says
  <2> QED BY <1>5, <1>a, <2>1, <2>2 DEF RedeemNotSaved
<1>6. CASE LoseRequest(r)
  <2>1. RelayInv' /\ Lasting BY <1>6, <1>p, RelayUnchanged DEF LoseRequest
  <2>2. requests' = requests \ {r} /\ answers' = answers /\ call' = call /\ UNCHANGED receipts
        /\ count' = count
    BY <1>6 DEF LoseRequest
  <2>3. MessagesInv' BY <2>1, <2>2, <1>p, MessagesLast DEF MessagesInv
  <2>4. MessagesAreTheirs' BY <2>2, <1>p DEF MessagesAreTheirs
  <2>5. CallsInv' /\ ReceiptsInv' BY <2>1, <2>2, <1>p, CallsLast, ReceiptsLast
  <2> QED BY <2>1, <2>2, <2>3, <2>4, <2>5, <1>p, PartsNext DEF CountInv
<1> QED BY <1>1, <1>2, <1>3, <1>4, <1>5, <1>6

(* The relay alone: keys, revocations, restarts. *)
LEMMA RelayAloneStep ==
    IInv => /\ \A S \in SUBSET Codes : CreateCodes(S) => IInv'
            /\ \A d \in Devices : Revoke(d) => IInv'
            /\ Restart => IInv'
<1> SUFFICES ASSUME IInv PROVE /\ \A S \in SUBSET Codes : CreateCodes(S) => IInv'
                               /\ \A d \in Devices : Revoke(d) => IInv'
                               /\ Restart => IInv'
  OBVIOUS
<1>p. /\ RelayInv /\ CallsInv /\ MessagesInv /\ MessagesAreTheirs /\ CountInv /\ ReceiptsInv
  BY Parts
<1>a. ASSUME RelayInv', Lasting, UNCHANGED <<call, network, receipts, count>> PROVE IInv'
  <2>1. CallsInv' /\ ReceiptsInv' BY <1>a, <1>p, CallsLast, ReceiptsLast
  <2>2. requests' = requests /\ answers' = answers /\ call' = call /\ count' = count
    BY <1>a DEF network
  <2>3. MessagesInv' BY <1>a, <1>p, <2>2, MessagesLast DEF MessagesInv
  <2>4. MessagesAreTheirs' BY <2>2, <1>p DEF MessagesAreTheirs
  <2> QED BY <1>a, <2>1, <2>2, <2>3, <2>4, <1>p, PartsNext DEF CountInv
<1>1. ASSUME NEW S \in SUBSET Codes, CreateCodes(S) PROVE IInv'
  BY <1>1, <1>p, <1>a, CreateStep DEF CreateCodes
<1>2. ASSUME NEW d \in Devices, Revoke(d) PROVE IInv'
  BY <1>2, <1>p, <1>a, RevokeStep DEF Revoke
<1>3. CASE Restart BY <1>3, <1>p, <1>a, RestartStep DEF Restart
<1> QED BY <1>1, <1>2, <1>3

(* The installations, and answers that are lost. *)
LEMMA ClientStep ==
    IInv => /\ \A k \in Calls, d \in Devices, c \in Codes : Activate(k, d, c) => IInv'
            /\ \A a \in answers : LoseAnswer(a) \/ AnswerArrives(a) => IInv'
            /\ \A k \in Calls : ActivateFails(k) \/ RemoveReceipt(k) \/ RenameReceipt(k)
                                   \/ Publish(k) => IInv'
            /\ \A d \in Devices : Launch(d) => IInv'
<1> SUFFICES ASSUME IInv
             PROVE  /\ \A k \in Calls, d \in Devices, c \in Codes : Activate(k, d, c) => IInv'
                    /\ \A a \in answers : LoseAnswer(a) \/ AnswerArrives(a) => IInv'
                    /\ \A k \in Calls : ActivateFails(k) \/ RemoveReceipt(k) \/ RenameReceipt(k)
                                           \/ Publish(k) => IInv'
                    /\ \A d \in Devices : Launch(d) => IInv'
  OBVIOUS
<1>p. /\ RelayInv /\ CallsInv /\ MessagesInv /\ MessagesAreTheirs /\ CountInv /\ ReceiptsInv
  BY Parts
<1>c. call \in [Calls -> Call] BY <1>p DEF CallsInv
<1>a. ASSUME UNCHANGED <<relay, revokes>>, CallsInv', MessagesAreTheirs', CountInv', ReceiptsInv',
             requests' \subseteq Request, answers' \subseteq answers
      PROVE  IInv'
  BY <1>a, <1>p, RelayUnchanged, MessagesLast, PartsNext
<1>l. UNCHANGED <<relay, revokes>> => Lasting BY <1>p, RelayUnchanged
<1>o. UNCHANGED relay => \A c \in Codes \cup {None}, d \in Devices : Owned(c, d) => Owned(c, d)'
  BY DEF relay, Owned
(* A call that ends, or moves on with the code it has. *)
<1>i. IdleCall \in Call /\ IdleCall.at = "idle" /\ IdleCall.device = None
  BY DEF IdleCall, Call
<1>e. ASSUME NEW k \in Calls, Ends(k), UNCHANGED <<relay, requests>>, answers' \subseteq answers
      PROVE  CallsInv' /\ MessagesAreTheirs'
  <2>1. \A m \in Calls : call'[m] = IF m = k THEN IdleCall ELSE call[m]
    BY <1>e, <1>c DEF Ends
  <2>2. call' \in [Calls -> Call] BY <1>e, <1>c, <1>i DEF Ends
  <2>3. \A m \in Calls : call'[m].at # "idle" => call'[m] = call[m] BY <2>1, <1>i
  <2>4. CallsAreOwned' /\ CallsHaveDevices'
    BY <1>e, <2>1, <1>i, <1>p DEF CallsInv, CallsAreOwned, CallsHaveDevices, Owned, relay
  <2>5. \A m \in requests \cup answers : m.call \in Calls
    BY <1>p DEF MessagesInv, Request, Answer
  <2>6. MessagesAreTheirs' BY <1>e, <2>3, <2>5, <1>p DEF MessagesAreTheirs
  <2> QED BY <2>2, <2>4, <2>6 DEF CallsInv
<1>g. ASSUME NEW k \in Calls, NEW l \in {"rename", "publish"}, Goto(k, l), call[k].at # "idle",
             UNCHANGED <<relay, network>>
      PROVE  CallsInv' /\ MessagesAreTheirs'
  <2>1. call' \in [Calls -> Call]
    BY <1>g, <1>c DEF Goto, Call
  <2>2. \A m \in Calls : /\ call'[m].device = call[m].device /\ call'[m].code = call[m].code
                         /\ call'[m].at = IF m = k THEN l ELSE call[m].at
    BY <1>g, <1>c DEF Goto, Call
  <2>3. CallsAreOwned' /\ CallsHaveDevices'
    BY <1>g, <2>2, <1>p DEF CallsInv, CallsAreOwned, CallsHaveDevices, Owned, relay
  <2>4. \A m \in requests \cup answers : m.call \in Calls
    BY <1>p DEF MessagesInv, Request, Answer
  <2>5. MessagesAreTheirs'
    BY <1>g, <2>2, <2>4, <1>p DEF MessagesAreTheirs, network
  <2> QED BY <2>1, <2>3, <2>5 DEF CallsInv
<1>1. ASSUME NEW k \in Calls, NEW d \in Devices, NEW c \in Codes, Activate(k, d, c) PROVE IInv'
  <2> DEFINE n == [at |-> "waiting", device |-> d, code |-> None]
  <2> DEFINE r == [call |-> k, device |-> d, code |-> c]
  <2>1. /\ call' = [call EXCEPT ![k] = n] /\ requests' = requests \cup {r} /\ answers' = answers
        /\ \A m \in requests \cup answers : m.call # k
        /\ UNCHANGED <<relay, revokes>> /\ UNCHANGED receipts
    BY <1>1 DEF Activate
  <2>2. n \in Call /\ n.device = d /\ n.code = None BY DEF Call
  <2>3. r \in Request /\ r.call = k /\ r.device = d BY DEF Request
  <2>4. CountInv'
    BY <1>1, <1>p, BoundsAssumption DEF Activate, CountInv
  <2> HIDE DEF n, r
  <2>5. \A m \in Calls : call'[m] = IF m = k THEN n ELSE call[m] BY <2>1, <1>c
  <2>6. call' \in [Calls -> Call] BY <2>1, <2>2, <1>c
  <2>d. d # None BY CodesAssumption
  <2>7. CallsAreOwned'
    BY <2>1, <2>2, <2>5, <1>p DEF CallsInv, CallsAreOwned, Owned, relay
  <2>8. CallsHaveDevices'
    BY <2>2, <2>d, <2>5, <1>p DEF CallsInv, CallsHaveDevices
  <2>9. \A m \in requests \cup answers : m.call \in Calls
    BY <1>p DEF MessagesInv, Request, Answer
  <2>10. MessagesAreTheirs'
    BY <2>1, <2>2, <2>3, <2>5, <2>9, <1>p DEF MessagesAreTheirs
  <2>11. requests' \subseteq Request BY <2>1, <2>3, <1>p DEF MessagesInv
  <2>12. ReceiptsInv' BY <2>1, <1>l, <1>p, ReceiptsLast
  <2>13. CallsInv' BY <2>6, <2>7, <2>8 DEF CallsInv
  <2> QED BY <2>1, <2>4, <2>10, <2>11, <2>12, <2>13, <1>a
<1>2. ASSUME NEW a \in answers, LoseAnswer(a) PROVE IInv'
  <2>1. /\ UNCHANGED <<relay, revokes>> /\ UNCHANGED receipts /\ UNCHANGED call
        /\ answers' \subseteq answers /\ requests' = requests /\ count' = count
    BY <1>2 DEF LoseAnswer
  <2>2. CallsInv' /\ ReceiptsInv' BY <2>1, <1>l, <1>p, CallsLast, ReceiptsLast
  <2>3. MessagesAreTheirs' BY <2>1, <1>p DEF MessagesAreTheirs
  <2> QED BY <2>1, <2>2, <2>3, <1>p, <1>a DEF CountInv, MessagesInv
<1>3. ASSUME NEW a \in answers, AnswerArrives(a) PROVE IInv'
  <2> DEFINE k == a.call
  <2>a. a \in Answer /\ k \in Calls /\ a.device \in Devices
    BY <1>p DEF MessagesInv, Answer
  <2>1. /\ UNCHANGED <<relay, revokes>> /\ UNCHANGED receipts
        /\ answers' \subseteq answers /\ requests' = requests /\ count' = count
        /\ call[k].at = "waiting"
    BY <1>3 DEF AnswerArrives
  <2>2. CallsInv' /\ MessagesAreTheirs'
    <3>1. CASE a.says \notin Codes
      BY <3>1, <2>a, <2>1, <1>3, <1>e DEF AnswerArrives
    <3>2. CASE a.says \in Codes
      <4>1. call' = [call EXCEPT ![k].at = "replace", ![k].code = a.says]
        BY <3>2, <1>3 DEF AnswerArrives
      <4>2. call' \in [Calls -> Call] BY <4>1, <3>2, <2>a, <1>c DEF Call
      <4>3. /\ call'[k].at = "replace" /\ call'[k].code = a.says /\ call'[k].device = call[k].device
            /\ \A m \in Calls : m # k => call'[m] = call[m]
        BY <4>1, <2>a, <1>c DEF Call
      <4>4. call[k].device = a.device BY <2>1, <1>p DEF MessagesAreTheirs
      <4>5. Owned(a.says, a.device)' BY <2>1, <3>2, <1>p DEF MessagesInv, Says, Owned, relay
      <4>6. CallsAreOwned'
        BY <4>3, <4>4, <4>5, <2>1, <1>p DEF CallsInv, CallsAreOwned, Owned, relay
      <4>7. CallsHaveDevices' BY <4>3, <2>1, <2>a, <1>p DEF CallsInv, CallsHaveDevices
      <4>8. \A m \in requests \cup answers : m.call \in Calls
        BY <1>p DEF MessagesInv, Request, Answer
      <4>9. MessagesAreTheirs' BY <2>1, <4>3, <4>8, <1>p DEF MessagesAreTheirs
      <4> QED BY <4>2, <4>6, <4>7, <4>9 DEF CallsInv
    <3> QED BY <3>1, <3>2
  <2>4. ReceiptsInv' BY <2>1, <1>l, <1>p, ReceiptsLast
  <2>5. CountInv' /\ requests' \subseteq Request BY <2>1, <1>p DEF CountInv, MessagesInv
  <2> QED BY <2>1, <2>2, <2>4, <2>5, <1>a
<1>4. ASSUME NEW k \in Calls, ActivateFails(k) PROVE IInv'
  <2>1. /\ Ends(k) /\ UNCHANGED <<relay, revokes>> /\ UNCHANGED receipts
        /\ answers' = answers /\ requests' = requests /\ count' = count
    BY <1>4 DEF ActivateFails, network
  <2>2. CallsInv' /\ MessagesAreTheirs' BY <2>1, <1>e
  <2>3. ReceiptsInv' BY <2>1, <1>l, <1>p, ReceiptsLast
  <2> QED BY <2>1, <2>2, <2>3, <1>p, <1>a DEF CountInv, MessagesInv
<1>h. UNCHANGED <<relay, revokes>> =>
          \A d \in Devices, c \in Codes \cup {None} : Honoured(c, d) => Honoured(c, d)'
  BY DEF relay, Honoured, Owned, Live
<1>k. \A k \in Calls : /\ call[k].device \in Devices \cup {None} /\ call[k].code \in Codes \cup {None}
                       /\ call[k].at # "idle" => call[k].device \in Devices
                       /\ call[k].at # "idle" => Honoured(call[k].code, call[k].device)
  <2> SUFFICES ASSUME NEW k \in Calls
               PROVE  /\ call[k].device \in Devices \cup {None} /\ call[k].code \in Codes \cup {None}
                      /\ call[k].at # "idle" => call[k].device \in Devices
                      /\ call[k].at # "idle" => Honoured(call[k].code, call[k].device)
    OBVIOUS
  <2>1. call[k].device \in Devices \cup {None} /\ call[k].code \in Codes \cup {None}
    BY <1>c DEF Call
  <2>2. call[k].at # "idle" => call[k].device \in Devices
    BY <2>1, <1>p DEF CallsInv, CallsHaveDevices
  <2>3. ASSUME call[k].at # "idle" PROVE Honoured(call[k].code, call[k].device)
    <3>1. CASE call[k].code = None BY <3>1 DEF Honoured
    <3>2. CASE call[k].code # None
      <4>1. call[k].device \in Devices /\ call[k].device # None
        BY <2>2, <2>3, CodesAssumption
      <4>2. file.codes[call[k].code] = call[k].device
        BY <3>2, <4>1, <1>p DEF CallsInv, CallsAreOwned, Owned
      <4> QED BY <3>2, <2>1, <4>1, <4>2, <1>p DEF RelayInv, UsedCodesGiveRights
    <3> QED BY <3>1, <3>2
  <2> QED BY <2>1, <2>2, <2>3
<1>5. ASSUME NEW k \in Calls, RemoveReceipt(k) PROVE IInv'
  <2>1. /\ Goto(k, "rename") /\ UNCHANGED <<relay, revokes>> /\ UNCHANGED network
        /\ count' = count /\ access' = access /\ call[k].at # "idle"
        /\ receipt' = [receipt EXCEPT ![call[k].device] = None]
    BY <1>5 DEF RemoveReceipt
  <2>2. CallsInv' /\ MessagesAreTheirs' BY <2>1, <1>g
  <2>3. ReceiptsInv'
    <3>1. receipt' \in [Devices -> Codes \cup {None}] BY <2>1, <1>k, <1>p DEF ReceiptsInv
    <3>2. ASSUME NEW d \in Devices PROVE Honoured(access[d], d)' /\ Honoured(receipt[d], d)'
      <4>1. receipt'[d] \in {None, receipt[d]} BY <2>1, <1>k, <1>p DEF ReceiptsInv
      <4>2. Honoured(access[d], d)' BY <2>1, <1>h, <1>p DEF ReceiptsInv, ReceiptsAreHonoured
      <4>3. Honoured(receipt[d], d) => Honoured(receipt[d], d)'
        BY <2>1, <4>1, <1>h, <1>p DEF ReceiptsInv, Honoured, Owned, Live, relay
      <4> QED BY <4>2, <4>3, <1>p DEF ReceiptsInv, ReceiptsAreHonoured
    <3> QED BY <2>1, <3>1, <3>2, <1>p DEF ReceiptsInv, ReceiptsAreHonoured
  <2> QED BY <2>1, <2>2, <2>3, <1>p, <1>a DEF CountInv, MessagesInv, network
<1>6. ASSUME NEW k \in Calls, RenameReceipt(k) PROVE IInv'
  <2>1. /\ Goto(k, "publish") /\ UNCHANGED <<relay, revokes>> /\ UNCHANGED network
        /\ count' = count /\ access' = access /\ call[k].at # "idle"
        /\ receipt' = [receipt EXCEPT ![call[k].device] = call[k].code]
    BY <1>6 DEF RenameReceipt
  <2>2. CallsInv' /\ MessagesAreTheirs' BY <2>1, <1>g
  <2>3. ReceiptsInv'
    <3>1. receipt' \in [Devices -> Codes \cup {None}] BY <2>1, <1>k, <1>p DEF ReceiptsInv
    <3>2. ASSUME NEW d \in Devices PROVE Honoured(access[d], d)' /\ Honoured(receipt[d], d)'
      <4>1. receipt'[d] = IF d = call[k].device THEN call[k].code ELSE receipt[d]
        BY <2>1, <1>k, <1>p DEF ReceiptsInv
      <4>2. Honoured(access[d], d)' BY <2>1, <1>h, <1>p DEF ReceiptsInv, ReceiptsAreHonoured
      <4>3. Honoured(receipt'[d], d)
        BY <2>1, <4>1, <1>k, <1>p DEF ReceiptsInv, ReceiptsAreHonoured
      <4>4. Honoured(receipt[d], d)' BY <2>1, <4>3 DEF Honoured, Owned, Live, relay
      <4> QED BY <4>2, <4>4
    <3> QED BY <2>1, <3>1, <3>2, <1>p DEF ReceiptsInv, ReceiptsAreHonoured
  <2> QED BY <2>1, <2>2, <2>3, <1>p, <1>a DEF CountInv, MessagesInv, network
<1>7. ASSUME NEW k \in Calls, Publish(k) PROVE IInv'
  <2>1. /\ Ends(k) /\ UNCHANGED <<relay, revokes>> /\ UNCHANGED network
        /\ count' = count /\ receipt' = receipt /\ call[k].at # "idle"
        /\ access' = [access EXCEPT ![call[k].device] = call[k].code]
    BY <1>7 DEF Publish
  <2>2. CallsInv' /\ MessagesAreTheirs' BY <2>1, <1>e DEF network
  <2>3. ReceiptsInv'
    <3>1. access' \in [Devices -> Codes \cup {None}] BY <2>1, <1>k, <1>p DEF ReceiptsInv
    <3>2. ASSUME NEW d \in Devices PROVE Honoured(access[d], d)' /\ Honoured(receipt[d], d)'
      <4>1. access'[d] = IF d = call[k].device THEN call[k].code ELSE access[d]
        BY <2>1, <1>k, <1>p DEF ReceiptsInv
      <4>2. Honoured(receipt[d], d)' BY <2>1, <1>h, <1>p DEF ReceiptsInv, ReceiptsAreHonoured
      <4>3. Honoured(access'[d], d)
        BY <2>1, <4>1, <1>k, <1>p DEF ReceiptsInv, ReceiptsAreHonoured
      <4>4. Honoured(access[d], d)' BY <2>1, <4>3 DEF Honoured, Owned, Live, relay
      <4> QED BY <4>2, <4>4
    <3> QED BY <2>1, <3>1, <3>2, <1>p DEF ReceiptsInv, ReceiptsAreHonoured
  <2> QED BY <2>1, <2>2, <2>3, <1>p, <1>a DEF CountInv, MessagesInv, network
<1>8. ASSUME NEW d \in Devices, Launch(d) PROVE IInv'
  <2>1. /\ UNCHANGED <<relay, revokes>> /\ UNCHANGED network /\ receipt' = receipt
        /\ call' = [k \in Calls |-> IF call[k].device = d THEN IdleCall ELSE call[k]]
        /\ access' = [access EXCEPT ![d] = receipt[d]]
    BY <1>8 DEF Launch
  <2>2. \A k \in Calls : call'[k] \in {IdleCall, call[k]} BY <2>1
  <2>3. CallsAreOwned' /\ CallsHaveDevices'
    BY <2>1, <2>2, <1>i, <1>p DEF CallsInv, CallsAreOwned, CallsHaveDevices, Owned, relay
  <2>4. call' \in [Calls -> Call] BY <2>1, <1>c, <1>i
  <2>5. \A m \in requests \cup answers : m.call \in Calls
    BY <1>p DEF MessagesInv, Request, Answer
  <2>6. MessagesAreTheirs'
    BY <2>1, <2>2, <2>5, <1>i, <1>p DEF MessagesAreTheirs, network
  <2>7. CountInv' BY <1>8, <1>p, BoundsAssumption DEF Launch, CountInv
  <2>8. ReceiptsInv'
    <3>1. access' \in [Devices -> Codes \cup {None}] BY <2>1, <1>p DEF ReceiptsInv
    <3>2. ASSUME NEW x \in Devices PROVE Honoured(access[x], x)' /\ Honoured(receipt[x], x)'
      <4>1. access'[x] \in {access[x], receipt[x]} BY <2>1, <1>p DEF ReceiptsInv
      <4>2. Honoured(receipt[x], x)' BY <2>1, <1>h, <1>p DEF ReceiptsInv, ReceiptsAreHonoured
      <4>3. Honoured(access'[x], x)
        BY <4>1, <1>p DEF ReceiptsInv, ReceiptsAreHonoured
      <4>4. Honoured(access[x], x)' BY <2>1, <4>3 DEF Honoured, Owned, Live, relay
      <4> QED BY <4>2, <4>4
    <3> QED BY <2>1, <3>1, <3>2, <1>p DEF ReceiptsInv, ReceiptsAreHonoured
  <2> QED BY <2>1, <2>3, <2>4, <2>6, <2>7, <2>8, <1>p, <1>a DEF CallsInv, MessagesInv, network
<1> QED BY <1>1, <1>2, <1>3, <1>4, <1>5, <1>6, <1>7, <1>8

-----------------------------------------------------------------------------
LEMMA InitOK == Init => IInv
<1> SUFFICES ASSUME Init PROVE IInv
  OBVIOUS
<1>1. Empty \in Database /\ \A d \in Devices : Empty.entitlements[d] = None
  BY DEF Empty, Database
<1>2. \A c \in Codes : Empty.codes[c] = None BY DEF Empty
<1>3. data = Empty /\ file = Empty /\ revokes = [d \in Devices |-> 0] BY DEF Init
<1>4. None \notin Devices BY CodesAssumption
<1>5. RelayInv
  BY <1>1, <1>2, <1>3, <1>4, BoundsAssumption
     DEF RelayInv, GrantsAreSaved, RightsHaveCodes, UsedCodesGiveRights
<1>6. CallsInv /\ CountInv
  BY BoundsAssumption DEF Init, CallsInv, CountInv, CallsAreOwned, CallsHaveDevices, IdleCall, Call
<1>7. MessagesInv /\ MessagesAreTheirs BY DEF Init, MessagesInv, MessagesAreTheirs
<1>8. ReceiptsInv BY DEF Init, ReceiptsInv, ReceiptsAreHonoured, Honoured
<1> QED BY <1>5, <1>6, <1>7, <1>8, Parts

LEMMA StepOK == IInv /\ [Next]_vars => IInv'
<1>1. IInv /\ UNCHANGED vars => IInv'
  <2> SUFFICES ASSUME IInv, UNCHANGED vars PROVE IInv'
    OBVIOUS
  <2>p. RelayInv /\ CallsInv /\ MessagesInv /\ MessagesAreTheirs /\ CountInv /\ ReceiptsInv
    BY Parts
  <2>1. RelayInv' /\ Lasting BY <2>p, RelayUnchanged DEF vars, relay
  <2>2. CallsInv' /\ MessagesInv' /\ ReceiptsInv'
    BY <2>1, <2>p, CallsLast, MessagesLast, ReceiptsLast DEF vars, receipts, MessagesInv
  <2> QED BY <2>1, <2>2, <2>p, PartsNext DEF vars, MessagesAreTheirs, CountInv
<1> QED BY <1>1, RequestStep, RelayAloneStep, ClientStep DEF Next

(* Relay activation keeps its inductive invariant, for any number of devices, keys
   and overlapping activations. *)
THEOREM AccessInvariance == Spec => []IInv
BY InitOK, StepOK, PTL DEF Spec

(* accessStore.activate undoes what it could not save. *)
THEOREM SavedGrants == Spec => []GrantsAreSaved
BY AccessInvariance, PTL DEF IInv

(* ShareManager.activate never stores a receipt the relay does not stand by. *)
THEOREM HonouredReceipts == Spec => []ReceiptsAreHonoured
BY AccessInvariance, PTL DEF IInv

(* A device that repeats its activation is not told that its own key was used. *)
THEOREM RetriesSucceed == Spec => []RetrySucceeds
BY AccessInvariance, PTL DEF IInv

(* Overlapping activations of a device redeem one key. *)
THEOREM NoWaste == Spec => []NoKeyIsWasted
<1>1. IInv => NoKeyIsWasted
  <2> SUFFICES ASSUME IInv, NEW c1 \in Codes, NEW c2 \in Codes, NEW d \in Devices,
                      file.codes[c1] = d, file.codes[c2] = d, c1 # c2
               PROVE  revokes[d] > 0
    BY DEF NoKeyIsWasted
  <2>1. revokes[d] # 0
    BY CodesAssumption DEF IInv, UsedCodesGiveRights, Honoured
  <2>2. revokes[d] \in Nat BY BoundsAssumption DEF IInv, TypeOK
  <2> QED BY <2>1, <2>2
<1> QED BY <1>1, AccessInvariance, PTL

-----------------------------------------------------------------------------
(* Redemption is implemented. *)

LEMMA InitRefines == Init => A!Init
<1> SUFFICES ASSUME Init PROVE A!Init
  OBVIOUS
<1>1. file.codes = [c \in Codes |-> None] BY DEF Init, Empty
<1>2. [d \in Devices |-> Right(d)] = [d \in Devices |-> None]
  BY DEF Init, Empty, Right, Live
<1> QED BY <1>1, <1>2 DEF A!Init

LEMMA SameRelay ==
    IInv /\ UNCHANGED file => UNCHANGED A!vars
BY DEF A!vars, Right, Live

(* A step of the relay. *)
LEMMA IssueRefines == IInv => \A S \in SUBSET Codes : CreateCodes(S) => A!Issue(S)
<1> SUFFICES ASSUME IInv, NEW S \in SUBSET Codes, CreateCodes(S) PROVE A!Issue(S)
  OBVIOUS
<1>1. data.codes = file.codes BY DEF IInv, GrantsAreSaved
<1>2. file'.codes = [c \in Codes |-> IF c \in S THEN Unused ELSE file.codes[c]]
      /\ file'.entitlements = data.entitlements
  BY <1>1 DEF CreateCodes, IInv, TypeOK, Database
<1>3. \A d \in Devices : Right(d)' = Right(d)
  BY <1>2 DEF Right, Live, IInv, GrantsAreSaved
<1>4. [d \in Devices |-> Right(d)]' = [d \in Devices |-> Right(d)] BY <1>3
<1>5. \A c \in S : file.codes[c] = None BY <1>1 DEF CreateCodes
<1> QED BY <1>2, <1>4, <1>5 DEF A!Issue

LEMMA RedeemRefines == IInv => \A r \in requests : Redeem(r) => A!Redeem(r.code, r.device)
<1> SUFFICES ASSUME IInv, NEW r \in requests, Redeem(r) PROVE A!Redeem(r.code, r.device)
  OBVIOUS
<1>t. r.code \in Codes /\ r.device \in Devices BY DEF IInv, TypeOK, Request
<1>1. data.codes = file.codes BY DEF IInv, GrantsAreSaved
<1>2. ~ Live(file, r.device) BY <1>t DEF Redeem, IInv, GrantsAreSaved, Live
<1> DEFINE e == [code |-> r.code, revoked |-> FALSE]
<1>3. file'.codes = [file.codes EXCEPT ![r.code] = r.device]
      /\ file'.entitlements = [data.entitlements EXCEPT ![r.device] = e]
  BY <1>1 DEF Redeem, Redeemed
<1>4. e \in Entitlement BY <1>t DEF Entitlement
<1>5. e # None /\ ~ e.revoked /\ e.code = r.code BY <1>4, EntitlementAssumption
<1> HIDE DEF e
<1>6. \A d \in Devices : file'.entitlements[d] =
          IF d = r.device THEN e ELSE data.entitlements[d]
  BY <1>3, <1>t DEF IInv, TypeOK, Database
<1>7. \A d \in Devices : Right(d)' = IF d = r.device THEN r.code ELSE Right(d)
  BY <1>5, <1>6 DEF Right, Live, IInv, GrantsAreSaved
<1>8. [d \in Devices |-> Right(d)]' = [[d \in Devices |-> Right(d)] EXCEPT ![r.device] = r.code]
  BY <1>7
<1>9. Right(r.device) = None BY <1>2 DEF Right
<1>10. file.codes[r.code] = Unused BY <1>1 DEF Redeem
<1> QED BY <1>3, <1>8, <1>9, <1>10, <1>t DEF A!Redeem

LEMMA RevokeRefines == IInv => \A d \in Devices : Revoke(d) => A!Revoke(d)
<1> SUFFICES ASSUME IInv, NEW x \in Devices, Revoke(x) PROVE A!Revoke(x)
  OBVIOUS
<1>1. file.entitlements[x] \in Entitlement
  BY DEF Revoke, Live, IInv, TypeOK, Database
<1> DEFINE e == [file.entitlements[x] EXCEPT !.revoked = TRUE]
<1>2. e \in Entitlement /\ e.revoked BY <1>1 DEF Entitlement
<1>3. file' = [file EXCEPT !.entitlements[x].revoked = TRUE] BY DEF Revoke
<1>4. file'.codes = file.codes /\ file'.entitlements = [file.entitlements EXCEPT ![x] = e]
  BY <1>3 DEF IInv, TypeOK, Database
<1> HIDE DEF e
<1>5. \A d \in Devices : file'.entitlements[d] = IF d = x THEN e ELSE file.entitlements[d]
  BY <1>4 DEF IInv, TypeOK, Database
<1>6. \A d \in Devices : Right(d)' = IF d = x THEN None ELSE Right(d)
  BY <1>2, <1>5 DEF Right, Live
<1>7. [d \in Devices |-> Right(d)]' = [[d \in Devices |-> Right(d)] EXCEPT ![x] = None]
  BY <1>6
<1>8. file.entitlements[x].code \in Codes BY <1>1 DEF Entitlement
<1>9. Right(x) # None BY <1>8, CodesAssumption DEF Revoke, Right
<1> QED BY <1>4, <1>7, <1>9 DEF A!Revoke

LEMMA StepRefines == IInv /\ [Next]_vars => [A!Next]_(A!vars)
<1> SUFFICES ASSUME IInv, [Next]_vars PROVE A!Next \/ UNCHANGED A!vars
  OBVIOUS
<1>0. CASE UNCHANGED vars BY <1>0, SameRelay DEF vars
<1>1. CASE \E S \in SUBSET Codes : CreateCodes(S) BY <1>1, IssueRefines DEF A!Next
<1>2. CASE \E r \in requests : Redeem(r)
  <2>1. PICK r \in requests : Redeem(r) BY <1>2
  <2>2. r.code \in Codes /\ r.device \in Devices BY DEF IInv, TypeOK, Request
  <2> QED BY <2>1, <2>2, RedeemRefines DEF A!Next
<1>3. CASE \E d \in Devices : Revoke(d) BY <1>3, RevokeRefines DEF A!Next
<1>4. CASE \/ \E r \in requests : \/ Reject(r) \/ ActivatedBefore(r) \/ RefuseCode(r)
                                  \/ RedeemNotSaved(r) \/ LoseRequest(r)
           \/ \E a \in answers : LoseAnswer(a) \/ AnswerArrives(a)
           \/ \E k \in Calls, d \in Devices, c \in Codes : Activate(k, d, c)
           \/ \E k \in Calls : \/ ActivateFails(k) \/ RemoveReceipt(k)
                               \/ RenameReceipt(k) \/ Publish(k)
           \/ \E d \in Devices : Launch(d)
           \/ Restart
  <2>1. UNCHANGED file
    BY <1>4 DEF Reject, ActivatedBefore, RefuseCode, RedeemNotSaved, LoseRequest, LoseAnswer,
          AnswerArrives, Activate, ActivateFails, RemoveReceipt, RenameReceipt, Publish, Launch,
          Restart, relay
  <2> QED BY <2>1, SameRelay
<1> QED BY <1>0, <1>1, <1>2, <1>3, <1>4 DEF Next

(* The relay redeems each key once, for one device, and gives a right back only for
   a fresh key: loadAccessStore, activate and createCodes implement Redemption. *)
THEOREM ImplementsRedemption == Spec => RedemptionSpec
<1>1. Spec => A!Init BY InitRefines DEF Spec
<1>2. Spec => [][A!Next]_(A!vars) BY StepRefines, AccessInvariance, PTL DEF Spec
<1> QED BY <1>1, <1>2, PTL DEF RedemptionSpec, A!Spec
=============================================================================
