-------------------------- MODULE Commerce_proofs ---------------------------
(***************************************************************************)
(* Theorems about the parts of MCCommerce, for every value of their        *)
(* constants, and about their composition.  The theorems about the         *)
(* friends' groups are in FriendPackages_proofs.                           *)
(***************************************************************************)
EXTENDS MCCommerce, FriendPackages_proofs

-----------------------------------------------------------------------------
(* HybridBundles                                                           *)

(* A proof that was uploaded is of a purchase.                             *)
ProofsKnown == \A f \in Files : proof[f] # "none" => proof_of[f] \in Purchases

BundleTypeInv == BundleTypeOK /\ ProofsKnown

PaidFor(p) == \E f \in Files : proof_of[f] = p /\ proof[f] = "approved"

(* The item of component c that a child order of p took.                   *)
Ordered(p, c) ==
  \E i \in Items :
    i[1] = c /\ hold[i] = p /\ hold_status[i] = "consumed" /\ shelf[i] = "ordered"

(* What a purchase has: all shares and items after an approval, none       *)
(* before; one that was allocated had an approval.                         *)
ShareInv ==
  \A p \in Purchases :
    /\ purchase[p] = "fulfilling" => PaidFor(p)
    /\ \A c \in Components : shares[p][c] = IF PaidFor(p) THEN 1 ELSE 0
    /\ \A c \in Stocked : PaidFor(p) => Ordered(p, c)

LEMMA BundleInitially == BundleInit => BundleTypeInv /\ ShareInv
  BY BundleAssumption
  DEF BundleInit, BundleTypeInv, BundleTypeOK, ProofsKnown, ShareInv, PaidFor

LEMMA BundleTypeStep == BundleTypeInv /\ [BundleNext]_bundleVars => BundleTypeInv'
<1> SUFFICES ASSUME BundleTypeInv, [BundleNext]_bundleVars PROVE BundleTypeInv'
  OBVIOUS
<1> USE BundleAssumption DEF BundleTypeInv, BundleTypeOK, ProofsKnown
<1>1. ASSUME NEW p \in Purchases, Buy(p) PROVE BundleTypeInv'
  BY <1>1 DEF Buy, FirstItems
<1>2. ASSUME NEW p \in Purchases, DeadlinePasses(p) PROVE BundleTypeInv'
  BY <1>2 DEF DeadlinePasses
<1>3. ASSUME NEW p \in Purchases, SubmitLate(p) PROVE BundleTypeInv'
  BY <1>3 DEF SubmitLate, Fail, ReleaseHolds, HeldBy
<1>4. ASSUME NEW p \in Purchases, ExpirePurchases(p) PROVE BundleTypeInv'
  BY <1>4 DEF ExpirePurchases, Fail, ReleaseHolds, HeldBy
<1>5. ASSUME NEW f \in Files, ApproveProof(f) PROVE BundleTypeInv'
  BY <1>5 DEF ApproveProof, Allocated, AllocateNow, Consume, HeldBy
<1>6. ASSUME NEW f \in Files, RejectProof(f) PROVE BundleTypeInv'
  BY <1>6 DEF RejectProof, Fail, ReleaseHolds, HeldBy
<1>7. ASSUME NEW f \in Files, NEW p \in Purchases, SubmitBundleProof(f, p)
      PROVE BundleTypeInv'
  BY <1>7 DEF SubmitBundleProof
<1>8. ASSUME NEW i \in Items, ShopSells(i) PROVE BundleTypeInv'
  BY <1>8 DEF ShopSells
<1>9. CASE UNCHANGED bundleVars
  BY <1>9 DEF bundleVars
<1> QED BY <1>1, <1>2, <1>3, <1>4, <1>5, <1>6, <1>7, <1>8, <1>9 DEF BundleNext

(* A step that approves nothing, credits nothing and leaves the ordered    *)
(* items alone disturbs no purchase.                                       *)
LEMMA NothingApproved ==
  ASSUME BundleTypeInv, ShareInv,
         \A f \in Files : proof'[f] = "approved" <=> proof[f] = "approved",
         \A f \in Files : proof[f] = "approved" => proof_of'[f] = proof_of[f],
         UNCHANGED shares,
         \A p \in Purchases : purchase'[p] = "fulfilling" => purchase[p] = "fulfilling",
         \A i \in Items : hold_status[i] = "consumed" /\ shelf[i] = "ordered"
            => hold'[i] = hold[i] /\ hold_status'[i] = "consumed" /\ shelf'[i] = "ordered"
  PROVE  ShareInv'
<1>1. \A p \in Purchases : PaidFor(p)' <=> PaidFor(p)
  BY DEF PaidFor
<1>2. \A p \in Purchases, c \in Stocked : Ordered(p, c) => Ordered(p, c)'
  BY DEF Ordered, Items
<1> QED BY <1>1, <1>2 DEF ShareInv

(* The approval of a purchase that is not allocated credits what is not    *)
(* credited yet: every component, or none when another proof paid before.  *)
LEMMA ApprovalPosts ==
  ASSUME BundleTypeInv, ShareInv, NEW f \in Files, ApproveProof(f)
  PROVE  ShareInv'
<1> USE BundleAssumption DEF BundleTypeInv, BundleTypeOK, ProofsKnown
<1>1. PICK p \in Purchases : p = proof_of[f]
  BY DEF ApproveProof
<1>2. PaidFor(p)' /\ \A q \in Purchases \ {p} : PaidFor(q)' <=> PaidFor(q)
  BY <1>1 DEF ApproveProof, PaidFor
<1>3. CASE Allocated(p)
  <2>1. UNCHANGED <<purchase, shelf, hold, hold_status, shares>> /\ PaidFor(p)
    BY <1>1, <1>3 DEF ApproveProof, Allocated, ShareInv
  <2>2. \A q \in Purchases, c \in Stocked : Ordered(q, c) => Ordered(q, c)'
    BY <2>1 DEF Ordered, Items
  <2> QED BY <1>2, <2>1, <2>2 DEF ShareInv
<1>4. CASE ~Allocated(p)
  <2> DEFINE owed == {c \in Components : ~Posted(p, c)}
  <2>1. Consume(p, owed) /\ UNCHANGED hold
    BY <1>1, <1>4 DEF ApproveProof, AllocateNow
  <2>2. \A q \in Purchases, c \in Stocked : Ordered(q, c) => Ordered(q, c)'
    BY <2>1 DEF Consume, Ordered, HeldBy
  <2>3. \A c \in Stocked : Ordered(p, c)'
    <3> SUFFICES ASSUME NEW c \in Stocked PROVE Ordered(p, c)'
      OBVIOUS
    <3>1. CASE PaidFor(p)
      BY <1>1, <2>2, <3>1 DEF ShareInv
    <3>2. CASE ~PaidFor(p)
      <4>1. c \in owed
        BY <1>1, <3>2 DEF ShareInv, Posted
      <4>2. PICK i \in HeldBy(p) : i[1] = c
        BY <2>1, <4>1 DEF Consume
      <4> QED BY <2>1, <4>2 DEF Consume, Ordered, HeldBy
    <3> QED BY <3>1, <3>2
  <2>4. \A c \in Components : shares'[p][c] = 1
    BY <1>1, <2>1 DEF Consume, ShareInv, Posted
  <2>5. \A q \in Purchases \ {p} : shares'[q] = shares[q] /\ purchase'[q] = purchase[q]
    BY <1>1, <2>1 DEF Consume
  <2> QED BY <1>1, <1>2, <2>2, <2>3, <2>4, <2>5 DEF ShareInv
<1> QED BY <1>3, <1>4

LEMMA ShareStep ==
  BundleTypeInv /\ ShareInv /\ [BundleNext]_bundleVars => ShareInv'
<1> SUFFICES ASSUME BundleTypeInv, ShareInv, [BundleNext]_bundleVars PROVE ShareInv'
  OBVIOUS
<1> USE DEF BundleTypeInv, BundleTypeOK, ProofsKnown
<1>1. ASSUME NEW p \in Purchases, Buy(p) PROVE ShareInv'
  BY <1>1, NothingApproved DEF Buy, FirstItems
<1>2. ASSUME NEW p \in Purchases, DeadlinePasses(p) PROVE ShareInv'
  BY <1>2, NothingApproved DEF DeadlinePasses
<1>3. ASSUME NEW p \in Purchases, SubmitLate(p) PROVE ShareInv'
  BY <1>3, NothingApproved DEF SubmitLate, Fail, ReleaseHolds, HeldBy
<1>4. ASSUME NEW p \in Purchases, ExpirePurchases(p) PROVE ShareInv'
  BY <1>4, NothingApproved DEF ExpirePurchases, Fail, ReleaseHolds, HeldBy
<1>5. ASSUME NEW f \in Files, ApproveProof(f) PROVE ShareInv'
  BY <1>5, ApprovalPosts
(* Rejecting one more proof of an allocated purchase frees no item of it.  *)
<1>6. ASSUME NEW f \in Files, RejectProof(f) PROVE ShareInv'
  BY <1>6, NothingApproved DEF RejectProof, Fail, ReleaseHolds, HeldBy
<1>7. ASSUME NEW f \in Files, NEW p \in Purchases, SubmitBundleProof(f, p)
      PROVE ShareInv'
  BY <1>7, NothingApproved DEF SubmitBundleProof
<1>8. ASSUME NEW i \in Items, ShopSells(i) PROVE ShareInv'
  BY <1>8, NothingApproved DEF ShopSells, FirstItems
<1>9. CASE UNCHANGED bundleVars
  BY <1>9, NothingApproved DEF bundleVars
<1> QED BY <1>1, <1>2, <1>3, <1>4, <1>5, <1>6, <1>7, <1>8, <1>9 DEF BundleNext

(* Purchases, holds, items, proofs and shares keep their types.            *)
THEOREM BundleTypeCorrect == BundleSpec => []BundleTypeOK
<1>1. BundleTypeInv => BundleTypeOK
  BY DEF BundleTypeInv
<1> QED BY <1>1, BundleInitially, BundleTypeStep, PTL DEF BundleSpec

(* Whatever proofs of a purchase are approved, rejected or come too late,  *)
(* allocate_hybrid_purchase credits each provider its share once, after an *)
(* approval only, and the item the student paid for stays ordered.         *)
THEOREM SharesOnce == BundleSpec => []SharesPostedOnce
<1>1. ShareInv => SharesPostedOnce
  BY DEF ShareInv, PaidFor, Ordered, SharesPostedOnce
<1>2. BundleTypeInv /\ ShareInv /\ [BundleNext]_bundleVars => (BundleTypeInv /\ ShareInv)'
  BY BundleTypeStep, ShareStep
<1> QED BY <1>1, <1>2, BundleInitially, PTL DEF BundleSpec

-----------------------------------------------------------------------------
(* ProviderBilling                                                         *)

(* A review is of a proof that is pending for an invoice.                  *)
ReviewsKnown ==
  \A t \in Transfers :
    /\ transfer[t] # "none" => transfer_of[t] \in Invoices
    /\ review[t] # "closed" => transfer[t] = "pending"

BillingTypeInv == BillingTypeOK /\ ReviewsKnown

(* What the ledger holds for an invoice: nothing, one key, or the key of a *)
(* review and the one of the API call that overlapped it.                  *)
BookedBy(i) ==
  \/ ledger[i] = {}
  \/ \E k \in Transfers \cup {"api"} : ledger[i] = {k}
  \/ i \in raced /\ \E k \in Transfers \cup {"api"} : ledger[i] = {k, "api"}

LedgerInv ==
  \A i \in Invoices :
    /\ invoice[i] = "paid" <=> ledger[i] # {}
    /\ BookedBy(i)
    /\ \A t \in Transfers :
         transfer_of[t] = i /\ transfer[t] = "approved" => invoice[i] = "paid"

LEMMA BillingInitially == BillingInit => BillingTypeInv /\ LedgerInv
  BY BillingAssumption
  DEF BillingInit, BillingTypeInv, BillingTypeOK, ReviewsKnown, LedgerInv, BookedBy

LEMMA BillingTypeStep == BillingTypeInv /\ [BillingNext]_billingVars => BillingTypeInv'
<1> SUFFICES ASSUME BillingTypeInv, [BillingNext]_billingVars PROVE BillingTypeInv'
  OBVIOUS
<1> USE BillingAssumption DEF BillingTypeInv, BillingTypeOK, ReviewsKnown
<1>1. CASE EnforceOverdue
  BY <1>1 DEF EnforceOverdue, Suspend, Late
<1>2. ASSUME NEW i \in Invoices, IssueInvoice(i) PROVE BillingTypeInv'
  BY <1>2 DEF IssueInvoice
<1>3. ASSUME NEW i \in Invoices, DueDatePasses(i) PROVE BillingTypeInv'
  BY <1>3 DEF DueDatePasses
<1>4. ASSUME NEW i \in Invoices, ApiLoad(i) PROVE BillingTypeInv'
  BY <1>4 DEF ApiLoad
<1>5. ASSUME NEW i \in Invoices, ApiPaid(i) PROVE BillingTypeInv'
  BY <1>5 DEF ApiPaid
<1>6. ASSUME NEW t \in Transfers, OpenReview(t) PROVE BillingTypeInv'
  BY <1>6 DEF OpenReview
<1>7. ASSUME NEW t \in Transfers, ApproveTransfer(t) PROVE BillingTypeInv'
  BY <1>7 DEF ApproveTransfer, BookPayment
<1>8. ASSUME NEW t \in Transfers, RejectTransfer(t) PROVE BillingTypeInv'
  BY <1>8 DEF RejectTransfer, Locked
<1>9. ASSUME NEW t \in Transfers, NEW i \in Invoices, UploadTransfer(t, i)
      PROVE BillingTypeInv'
  BY <1>9 DEF UploadTransfer
<1>10. CASE UNCHANGED billingVars
  BY <1>10 DEF billingVars
<1> QED BY <1>1, <1>2, <1>3, <1>4, <1>5, <1>6, <1>7, <1>8, <1>9, <1>10 DEF BillingNext

(* A payment is booked once: only an unpaid invoice, which has no key yet, *)
(* gets one from a review.                                                 *)
LEMMA LedgerStep ==
  BillingTypeInv /\ LedgerInv /\ [BillingNext]_billingVars => LedgerInv'
<1> SUFFICES ASSUME BillingTypeInv, LedgerInv, [BillingNext]_billingVars PROVE LedgerInv'
  OBVIOUS
<1> USE BillingAssumption
      DEF BillingTypeInv, BillingTypeOK, ReviewsKnown, LedgerInv, BookedBy
<1>1. CASE EnforceOverdue
  BY <1>1 DEF EnforceOverdue, Suspend, Late
<1>2. ASSUME NEW i \in Invoices, IssueInvoice(i) PROVE LedgerInv'
  BY <1>2 DEF IssueInvoice
<1>3. ASSUME NEW i \in Invoices, DueDatePasses(i) PROVE LedgerInv'
  BY <1>3 DEF DueDatePasses
<1>4. ASSUME NEW i \in Invoices, ApiLoad(i) PROVE LedgerInv'
  BY <1>4 DEF ApiLoad
<1>5. ASSUME NEW i \in Invoices, ApiPaid(i) PROVE LedgerInv'
  BY <1>5 DEF ApiPaid
<1>6. ASSUME NEW t \in Transfers, OpenReview(t) PROVE LedgerInv'
  BY <1>6 DEF OpenReview
<1>7. ASSUME NEW t \in Transfers, ApproveTransfer(t) PROVE LedgerInv'
  BY <1>7 DEF ApproveTransfer, BookPayment
<1>8. ASSUME NEW t \in Transfers, RejectTransfer(t) PROVE LedgerInv'
  BY <1>8 DEF RejectTransfer
<1>9. ASSUME NEW t \in Transfers, NEW i \in Invoices, UploadTransfer(t, i)
      PROVE LedgerInv'
  BY <1>9 DEF UploadTransfer
<1>10. CASE UNCHANGED billingVars
  BY <1>10 DEF billingVars
<1> QED BY <1>1, <1>2, <1>3, <1>4, <1>5, <1>6, <1>7, <1>8, <1>9, <1>10 DEF BillingNext

LEMMA LedgerCounts == BillingTypeInv /\ LedgerInv => InvoiceBookedOnce
<1> SUFFICES ASSUME BillingTypeInv, LedgerInv, NEW i \in Invoices
             PROVE Cardinality(ledger[i]) <= (IF i \in raced THEN 2 ELSE 1)
  BY DEF LedgerInv, InvoiceBookedOnce
<1>1. CASE ledger[i] = {}
  BY <1>1, FS_EmptySet
<1>2. CASE \E k \in Transfers \cup {"api"} : ledger[i] = {k}
  <2>1. PICK k \in Transfers \cup {"api"} : ledger[i] = {k}
    BY <1>2
  <2>2. Cardinality({k}) = 1
    BY FS_Singleton
  <2> QED BY <2>1, <2>2
<1>3. CASE i \in raced /\ \E k \in Transfers \cup {"api"} : ledger[i] = {k, "api"}
  <2>1. PICK k \in Transfers \cup {"api"} : ledger[i] = {k, "api"}
    BY <1>3
  <2>2. IsFiniteSet({k}) /\ Cardinality({k}) = 1
    BY FS_Singleton
  <2>3. Cardinality({k} \cup {"api"}) <= 2
    BY <2>2, FS_AddElement
  <2> QED BY <1>3, <2>1, <2>3
<1> QED BY <1>1, <1>2, <1>3 DEF LedgerInv, BookedBy

(* Every row of an invoice, a proof and the platform keeps its type.       *)
THEOREM BillingTypeCorrect == BillingSpec => []BillingTypeOK
<1>1. BillingTypeInv => BillingTypeOK
  BY DEF BillingTypeInv
<1> QED BY <1>1, BillingInitially, BillingTypeStep, PTL DEF BillingSpec

(* However many proofs of an invoice are uploaded, reviewed side by side   *)
(* and approved, mark_invoice_paid books it once; a call of the HTTP API   *)
(* that overlaps a review can add one entry and no more.                   *)
THEOREM BookedOnce == BillingSpec => []InvoiceBookedOnce
<1>1. BillingTypeInv /\ LedgerInv /\ [BillingNext]_billingVars
        => (BillingTypeInv /\ LedgerInv)'
  BY BillingTypeStep, LedgerStep
<1>2. BillingSpec => [](BillingTypeInv /\ LedgerInv)
  BY <1>1, BillingInitially, PTL DEF BillingSpec
<1> QED BY <1>2, LedgerCounts, PTL

-----------------------------------------------------------------------------
(* Warranty                                                                *)

(* Who is out for a parcel has its job leased, and only a claim with a      *)
(* replacement has a job.                                                  *)
TripsKnown ==
  /\ trip = Parked \/ (trip.claim \in Claims /\ parcel[trip.claim] = "leased")
  /\ \A s \in Staff : desk[s].saw \in Active => desk[s].claim \in Claims
  /\ \A c \in Claims : parcel[c] = "none" <=> replacement[c] = Nobody

Trips ==
  [claim : Claims \cup {Nobody}, saw : ClaimStatus,
   order : {"none", "delivered", "completed", "needs_support"}, sent : BOOLEAN]

WarrantyInv == WarrantyTypeOK /\ trip \in Trips /\ TripsKnown /\ ReplacementsOwned

LEMMA ParkedType == Parked \in Trips /\ Parked.claim = Nobody
BY DEF Parked, Trips, ClaimStatus

LEMMA WarrantyInitially == WarrantyInit => WarrantyInv
<1> SUFFICES ASSUME WarrantyInit PROVE WarrantyInv
  OBVIOUS
<1>1. Idle \in [claim : Claims \cup {Nobody}, saw : ClaimStatus] /\ Idle.saw \notin Active
  BY DEF Idle, ClaimStatus, Active
<1>2. WarrantyTypeOK
  BY <1>1, ParkedType, WarrantyAssumption DEF WarrantyInit, WarrantyTypeOK, ClaimStatus, Trips
<1>3. TripsKnown
  BY <1>1 DEF WarrantyInit, TripsKnown
<1>4. ReplacementsOwned
  BY DEF WarrantyInit, ReplacementsOwned
<1> QED BY <1>2, <1>3, <1>4, ParkedType DEF WarrantyInit, WarrantyInv

(* What a handler writes to the claim is a status.                         *)
LEMMA SetClaimType ==
  ASSUME WarrantyTypeOK, NEW c \in Claims, NEW saw, NEW new \in ClaimStatus,
         SetClaim(c, saw, new)
  PROVE  claim' \in [Claims -> ClaimStatus]
BY DEF SetClaim, WarrantyTypeOK

(* A step that moves no parcel, item or replacement.                       *)
LEMMA ParcelsRest ==
  ASSUME WarrantyInv, UNCHANGED <<spare, replacement, parcel, trip>>,
         \A s \in Staff : desk'[s].saw \in Active => desk'[s].claim \in Claims
  PROVE  trip' \in Trips /\ TripsKnown' /\ ReplacementsOwned'
BY DEF WarrantyInv, TripsKnown, ReplacementsOwned

(* A parcel's job goes from one status to another that is not sent, and    *)
(* the courier comes back or leaves for it.                                *)
LEMMA ParcelMoves ==
  ASSUME WarrantyInv, NEW c \in Claims, parcel[c] # "none", parcel[c] # "sent",
         NEW new \in {"pending", "leased", "lapsed", "failed"},
         parcel' = [parcel EXCEPT ![c] = new], UNCHANGED <<spare, replacement, desk>>,
         trip' \in Trips,
         trip' = Parked \/ (trip'.claim \in Claims /\ parcel'[trip'.claim] = "leased")
  PROVE  TripsKnown' /\ ReplacementsOwned'
<1>1. \A d \in Claims :
        /\ parcel'[d] = "none" <=> parcel[d] = "none"
        /\ parcel'[d] = "sent" <=> parcel[d] = "sent"
  BY DEF WarrantyInv, WarrantyTypeOK
<1> QED BY <1>1 DEF WarrantyInv, TripsKnown, ReplacementsOwned

LEMMA WarrantyTypeStep == WarrantyInv /\ [WarrantyNext]_warrantyVars => WarrantyTypeOK' /\ trip' \in Trips
<1> SUFFICES ASSUME WarrantyInv, [WarrantyNext]_warrantyVars
             PROVE  WarrantyTypeOK' /\ trip' \in Trips
  OBVIOUS
<1>a. WarrantyTypeOK /\ trip \in Trips /\ TripsKnown
  BY DEF WarrantyInv
<1>b. \A s \in Staff : Leave(s) => desk' \in [Staff -> [claim : Claims \cup {Nobody}, saw : ClaimStatus]]
  BY <1>a DEF Leave, Idle, WarrantyTypeOK, ClaimStatus
<1>c. \A c \in Claims : replacement[c] # Nobody => replacement[c] \in Spares
  BY <1>a DEF WarrantyTypeOK
<1> USE WarrantyAssumption DEF WarrantyTypeOK, parcelVars, tripVars
<1>1. ASSUME NEW c \in Claims, OpenClaim(c) PROVE WarrantyTypeOK' /\ trip' \in Trips
  BY <1>1, <1>a DEF OpenClaim, ClaimStatus, Active
<1>2. ASSUME NEW c \in Claims, StudentConfirms(c) PROVE WarrantyTypeOK' /\ trip' \in Trips
  BY <1>2, <1>a, <1>c DEF StudentConfirms, ClaimStatus
<1>3. ASSUME NEW c \in Claims, StudentReports(c) PROVE WarrantyTypeOK' /\ trip' \in Trips
  <2>1. claim' \in [Claims -> ClaimStatus]
    BY <1>3, <1>a, SetClaimType DEF StudentReports, ClaimStatus, Active
  <2> QED BY <1>3, <1>a, <2>1 DEF StudentReports
<1>4. ASSUME NEW s \in Staff, NEW c \in Claims, LoadClaim(s, c)
      PROVE  WarrantyTypeOK' /\ trip' \in Trips
  BY <1>4, <1>a DEF LoadClaim
<1>5. ASSUME NEW s \in Staff, GiveUpClaim(s) PROVE WarrantyTypeOK' /\ trip' \in Trips
  BY <1>5, <1>a, <1>b DEF GiveUpClaim
<1>6. ASSUME NEW s \in Staff, Respond(s) PROVE WarrantyTypeOK' /\ trip' \in Trips
  <2>1. \E new \in {"waiting_action", "waiting_confirm"} : LockClaim(s, new)
    BY <1>6 DEF Respond, AllowNewOtp, TextResponse, AllocateReplacement, AllocateAgain
  <2>2. desk[s].claim \in Claims
    BY <2>1, <1>a DEF LockClaim, TripsKnown
  <2>3. claim' \in [Claims -> ClaimStatus]
    BY <2>1, <2>2, <1>a, SetClaimType DEF LockClaim, ClaimStatus, Active
  <2>4. desk' \in [Staff -> [claim : Claims \cup {Nobody}, saw : ClaimStatus]]
    BY <2>1, <1>b DEF LockClaim
  <2>5. CASE AllowNewOtp(s) \/ TextResponse(s) \/ AllocateAgain(s)
    <3>1. /\ UNCHANGED <<sold, bound, spare, replacement, parcelVars, tripVars>>
          /\ buttons' \subseteq Claims
      BY <2>2, <2>5, <1>a DEF AllowNewOtp, TextResponse, AllocateAgain
    <3> QED BY <3>1, <2>3, <2>4, <1>a
  <2>6. CASE AllocateReplacement(s)
    <3>1. PICK i \in Spares :
            /\ spare' = [spare EXCEPT ![i] = "reserved"]
            /\ replacement' = [replacement EXCEPT ![desk[s].claim] = i]
      BY <2>6 DEF AllocateReplacement
    <3>2. /\ UNCHANGED <<sold, bound, proved, buttons, tripVars>>
          /\ parcel' = [parcel EXCEPT ![desk[s].claim] = "pending"]
      BY <2>6 DEF AllocateReplacement
    <3>3. /\ spare' \in [Spares -> {"available", "reserved", "delivered", "taken"}]
          /\ replacement' \in [Claims -> Spares \cup {Nobody}]
          /\ parcel' \in [Claims -> {"none", "pending", "leased", "lapsed", "sent", "failed"}]
      BY <3>1, <3>2, <2>2, <1>a
    <3> QED BY <3>2, <3>3, <2>3, <2>4, <1>a
  <2> QED BY <1>6, <2>5, <2>6 DEF Respond
<1>7. ASSUME NEW c \in Claims, SetOut(c) PROVE WarrantyTypeOK' /\ trip' \in Trips
  <2>1. trip' \in Trips
    BY <1>7, <1>a DEF SetOut, Trips
  <2> QED BY <1>7, <1>a, <2>1 DEF SetOut, Trips
<1>8. ASSUME NEW c \in Claims, SendParcel(c) PROVE WarrantyTypeOK' /\ trip' \in Trips
  <2>1. trip' \in Trips
    BY <1>8, <1>a DEF SendParcel, Trips
  <2> QED BY <1>8, <1>a, <2>1 DEF SendParcel, Trips
<1>9. ASSUME NEW c \in Claims, ParcelRefused(c) PROVE WarrantyTypeOK' /\ trip' \in Trips
  <2>1. trip' \in Trips
    BY <1>9, ParkedType DEF ParcelRefused
  <2>2. /\ parcel' \in [Claims -> {"none", "pending", "leased", "lapsed", "sent", "failed"}]
        /\ sold' \in {"delivered", "completed", "needs_support"}
        /\ trip_faults' \in 0..MaxTripFaults
        /\ UNCHANGED <<bound, spare, claim, replacement, proved, buttons, desk>>
    BY <1>9, <1>a DEF ParcelRefused, Fault
  <2> QED BY <1>a, <2>1, <2>2 DEF Trips
<1>10. ASSUME NEW c \in Claims, FinishParcel(c) PROVE WarrantyTypeOK' /\ trip' \in Trips
  <2>1. trip' \in Trips
    BY <1>10, ParkedType DEF FinishParcel
  <2>2. claim' \in [Claims -> ClaimStatus]
    BY <1>10, <1>a, SetClaimType DEF FinishParcel, ClaimStatus, Active
  <2>3. /\ parcel' \in [Claims -> {"none", "pending", "leased", "lapsed", "sent", "failed"}]
        /\ sold' \in {"delivered", "completed", "needs_support"}
        /\ spare' \in [Spares -> {"available", "reserved", "delivered", "taken"}]
        /\ UNCHANGED <<bound, replacement, proved, buttons, desk, trip_faults>>
    BY <1>10, <1>a DEF FinishParcel
  <2> QED BY <1>a, <2>1, <2>2, <2>3 DEF Trips
<1>11. ASSUME NEW c \in Claims, FinishRaises(c) PROVE WarrantyTypeOK' /\ trip' \in Trips
  <2>1. trip' \in Trips
    BY <1>11, ParkedType DEF FinishRaises
  <2> QED BY <1>11, <1>a, <2>1 DEF FinishRaises, Trips
<1>12. CASE TripCrash
  <2>1. trip' \in Trips
    BY <1>12, ParkedType DEF TripCrash
  <2> QED BY <1>12, <1>a, <2>1 DEF TripCrash, Fault, Trips
<1>13. ASSUME NEW c \in Claims, ParcelLeaseLapses(c) PROVE WarrantyTypeOK' /\ trip' \in Trips
  BY <1>13, <1>a DEF ParcelLeaseLapses
<1>14. CASE CompleteOrder \/ OrderProblem
  BY <1>14, <1>a DEF CompleteOrder, OrderProblem
<1>15. ASSUME NEW i \in Spares, OtherOrderTakes(i) PROVE WarrantyTypeOK' /\ trip' \in Trips
  BY <1>15, <1>a DEF OtherOrderTakes
<1>16. CASE UNCHANGED warrantyVars
  BY <1>16, <1>a DEF warrantyVars
<1> QED BY <1>1, <1>2, <1>3, <1>4, <1>5, <1>6, <1>7, <1>8, <1>9, <1>10, <1>11, <1>12, <1>13,
           <1>14, <1>15, <1>16
        DEF WarrantyNext, Trip

LEMMA WarrantyStep == WarrantyInv /\ [WarrantyNext]_warrantyVars => WarrantyInv'
<1> SUFFICES ASSUME WarrantyInv, [WarrantyNext]_warrantyVars
             PROVE  TripsKnown' /\ ReplacementsOwned'
  BY WarrantyTypeStep DEF WarrantyInv
<1>a. WarrantyTypeOK /\ trip \in Trips /\ TripsKnown /\ ReplacementsOwned /\ trip' \in Trips
  BY WarrantyTypeStep DEF WarrantyInv
<1>b. \A s \in Staff : Leave(s) \/ UNCHANGED desk =>
        \A x \in Staff : desk'[x].saw \in Active => desk'[x].claim \in Claims
  BY <1>a DEF Leave, Idle, Active, TripsKnown, WarrantyTypeOK
<1>c. \A c \in Claims : trip.claim = c => trip # Parked /\ parcel[c] = "leased"
  BY <1>a, ParkedType, WarrantyAssumption DEF TripsKnown
<1>1. ASSUME NEW c \in Claims, OpenClaim(c) \/ StudentConfirms(c) \/ StudentReports(c)
      PROVE  TripsKnown' /\ ReplacementsOwned'
  BY <1>1, <1>a, ParcelsRest
  DEF OpenClaim, StudentConfirms, StudentReports, parcelVars, tripVars, TripsKnown
<1>2. ASSUME NEW s \in Staff, NEW c \in Claims, LoadClaim(s, c)
      PROVE  TripsKnown' /\ ReplacementsOwned'
  <2>1. \A x \in Staff : desk'[x].saw \in Active => desk'[x].claim \in Claims
    BY <1>2, <1>a DEF LoadClaim, TripsKnown, WarrantyTypeOK
  <2> QED BY <1>2, <2>1, ParcelsRest DEF LoadClaim, parcelVars, tripVars
<1>3. ASSUME NEW s \in Staff,
             GiveUpClaim(s) \/ AllowNewOtp(s) \/ TextResponse(s) \/ AllocateAgain(s)
      PROVE  TripsKnown' /\ ReplacementsOwned'
  <2>1. Leave(s) /\ UNCHANGED <<spare, replacement, parcel, trip>>
    BY <1>3 DEF GiveUpClaim, AllowNewOtp, TextResponse, AllocateAgain, LockClaim, parcelVars,
       tripVars
  <2> QED BY <2>1, <1>b, ParcelsRest
(* An item that is available belongs to no claim. *)
<1>4. ASSUME NEW s \in Staff, AllocateReplacement(s) PROVE TripsKnown' /\ ReplacementsOwned'
  <2> DEFINE c == desk[s].claim
  <2>1. PICK i \in Spares :
          /\ spare[i] = "available"
          /\ spare' = [spare EXCEPT ![i] = "reserved"]
          /\ replacement' = [replacement EXCEPT ![c] = i]
    BY <1>4 DEF AllocateReplacement, FirstAvailable
  <2>2. /\ parcel' = [parcel EXCEPT ![c] = "pending"] /\ trip' = trip
        /\ replacement[c] = Nobody /\ Leave(s) /\ c \in Claims
    BY <1>4, <1>a DEF AllocateReplacement, LockClaim, tripVars, TripsKnown
  <2>3. i # Nobody /\ \A d \in Claims : replacement[d] # i
    BY <2>1, <1>a, WarrantyAssumption DEF ReplacementsOwned
  <2>4. /\ replacement'[c] = i /\ \A d \in Claims \ {c} : replacement'[d] = replacement[d]
        /\ parcel'[c] = "pending" /\ \A d \in Claims \ {c} : parcel'[d] = parcel[d]
        /\ spare'[i] = "reserved" /\ \A k \in Spares \ {i} : spare'[k] = spare[k]
    BY <2>1, <2>2, <1>a DEF WarrantyTypeOK
  <2>5. parcel[c] = "none"
    BY <2>2, <1>a DEF TripsKnown
  <2>6. TripsKnown'
    <3>1. trip' = Parked \/ (trip'.claim \in Claims /\ parcel'[trip'.claim] = "leased")
      BY <2>2, <2>4, <2>5, <1>a DEF TripsKnown
    <3>2. \A d \in Claims : parcel'[d] = "none" <=> replacement'[d] = Nobody
      BY <2>3, <2>4, <1>a DEF TripsKnown
    <3> QED BY <3>1, <3>2, <2>2, <1>b DEF TripsKnown
  <2>7. ReplacementsOwned'
    <3>1. \A d, e \in Claims :
            replacement'[d] = replacement'[e] /\ d # e => replacement'[d] = Nobody
      BY <2>2, <2>3, <2>4, <1>a DEF ReplacementsOwned
    <3>2. \A d \in Claims : replacement'[d] # Nobody =>
            spare'[replacement'[d]] = IF parcel'[d] = "sent" THEN "delivered" ELSE "reserved"
      BY <2>2, <2>3, <2>4, <1>a DEF ReplacementsOwned, WarrantyTypeOK
    <3>3. ASSUME NEW k \in Spares, spare'[k] = "reserved"
          PROVE  \E d \in Claims : replacement'[d] = k
      <4>1. CASE k = i
        BY <4>1, <2>2, <2>4
      <4>2. CASE k # i
        <5>1. PICK d \in Claims : replacement[d] = k
          BY <4>2, <3>3, <2>4, <1>a DEF ReplacementsOwned
        <5>2. d # c
          BY <5>1, <2>2, WarrantyAssumption
        <5> QED BY <5>1, <5>2, <2>4
      <4> QED BY <4>1, <4>2
    <3> QED BY <3>1, <3>2, <3>3 DEF ReplacementsOwned
  <2> QED BY <2>6, <2>7
<1>5. ASSUME NEW c \in Claims, SetOut(c) PROVE TripsKnown' /\ ReplacementsOwned'
  <2>1. /\ parcel' = [parcel EXCEPT ![c] = "leased"] /\ parcel[c] \in {"pending", "lapsed"}
        /\ UNCHANGED <<spare, replacement, desk>> /\ trip'.claim = c
    BY <1>5 DEF SetOut, Due
  <2>2. parcel'[c] = "leased"
    BY <2>1, <1>a DEF WarrantyTypeOK
  <2> QED BY <2>1, <2>2, <1>a, ParcelMoves
<1>6. ASSUME NEW c \in Claims, SendParcel(c) PROVE TripsKnown' /\ ReplacementsOwned'
  <2>1. /\ UNCHANGED <<spare, replacement, parcel, desk>>
        /\ trip'.claim = c /\ parcel[c] = "leased"
    BY <1>6, <1>a, <1>c DEF SendParcel, OnTrip, Trips
  <2> QED BY <2>1, <1>a DEF TripsKnown, ReplacementsOwned
<1>7. ASSUME NEW c \in Claims, ParcelRefused(c) PROVE TripsKnown' /\ ReplacementsOwned'
  <2>1. /\ trip' = Parked /\ parcel[c] = "leased" /\ UNCHANGED <<spare, replacement, desk>>
        /\ \E new \in {"pending", "failed"} :
             parcel' = [parcel EXCEPT ![c] = new] \/ parcel' = parcel
    BY <1>7, <1>c DEF ParcelRefused, OnTrip
  <2>2. CASE parcel' = parcel
    BY <2>1, <2>2, <1>a DEF TripsKnown, ReplacementsOwned
  <2> QED BY <2>1, <2>2, <1>a, ParcelMoves
(* What is sent is delivered, and stays with its claim. *)
<1>8. ASSUME NEW c \in Claims, FinishParcel(c) PROVE TripsKnown' /\ ReplacementsOwned'
  <2> DEFINE i == replacement[c]
  <2>1. /\ parcel' = [parcel EXCEPT ![c] = "sent"]
        /\ spare' = [spare EXCEPT ![i] = "delivered"]
        /\ trip' = Parked /\ parcel[c] = "leased" /\ UNCHANGED <<replacement, desk>>
    BY <1>8, <1>c DEF FinishParcel, OnTrip
  <2>2. i \in Spares
    BY <2>1, <1>a DEF TripsKnown, WarrantyTypeOK
  <2>3. /\ parcel'[c] = "sent" /\ \A d \in Claims \ {c} : parcel'[d] = parcel[d]
        /\ spare'[i] = "delivered" /\ \A k \in Spares \ {i} : spare'[k] = spare[k]
    BY <2>1, <2>2, <1>a DEF WarrantyTypeOK
  <2>4. i # Nobody /\ \A d \in Claims \ {c} : replacement[d] # i
    BY <2>2, <1>a, WarrantyAssumption DEF ReplacementsOwned
  <2>5. TripsKnown'
    BY <2>1, <2>3, <1>a DEF TripsKnown
  <2>6. ReplacementsOwned'
    <3>1. \A d \in Claims : replacement'[d] # Nobody =>
            spare'[replacement'[d]] = IF parcel'[d] = "sent" THEN "delivered" ELSE "reserved"
      BY <2>1, <2>3, <2>4, <1>a DEF ReplacementsOwned, WarrantyTypeOK
    <3> QED BY <3>1, <2>1, <2>3, <1>a DEF ReplacementsOwned
  <2> QED BY <2>5, <2>6
<1>9. ASSUME NEW c \in Claims, FinishRaises(c) PROVE TripsKnown' /\ ReplacementsOwned'
  BY <1>9, <1>a DEF FinishRaises, parcelVars, TripsKnown, ReplacementsOwned
<1>10. CASE TripCrash
  BY <1>10, <1>a DEF TripCrash, parcelVars, TripsKnown, ReplacementsOwned
<1>11. ASSUME NEW c \in Claims, ParcelLeaseLapses(c) PROVE TripsKnown' /\ ReplacementsOwned'
  <2>1. /\ parcel' = [parcel EXCEPT ![c] = "lapsed"] /\ parcel[c] = "leased"
        /\ UNCHANGED <<spare, replacement, desk, trip>> /\ trip.claim # c
    BY <1>11 DEF ParcelLeaseLapses, tripVars
  <2>2. trip = Parked \/ (trip.claim \in Claims /\ parcel'[trip.claim] = "leased")
    BY <2>1, <1>a DEF TripsKnown, WarrantyTypeOK
  <2> QED BY <2>1, <2>2, <1>a, ParcelMoves
<1>12. ASSUME CompleteOrder \/ OrderProblem \/ UNCHANGED warrantyVars
       PROVE  TripsKnown' /\ ReplacementsOwned'
  BY <1>12, <1>a DEF CompleteOrder, OrderProblem, warrantyVars, parcelVars, tripVars,
     TripsKnown, ReplacementsOwned
<1>13. ASSUME NEW i \in Spares, OtherOrderTakes(i) PROVE TripsKnown' /\ ReplacementsOwned'
  <2>1. /\ spare[i] = "available" /\ spare' = [spare EXCEPT ![i] = "taken"]
        /\ UNCHANGED <<replacement, desk, parcel, trip>>
    BY <1>13 DEF OtherOrderTakes, FirstAvailable, parcelVars, tripVars
  <2>2. spare'[i] = "taken" /\ \A k \in Spares \ {i} : spare'[k] = spare[k]
    BY <2>1, <1>a DEF WarrantyTypeOK
  <2>3. \A d \in Claims : replacement[d] # i
    BY <2>1, <1>a, WarrantyAssumption DEF ReplacementsOwned
  <2>4. ReplacementsOwned'
    BY <2>1, <2>2, <2>3, <1>a DEF ReplacementsOwned, WarrantyTypeOK
  <2> QED BY <2>1, <2>4, <1>a DEF TripsKnown
<1> QED BY <1>1, <1>2, <1>3, <1>4, <1>5, <1>6, <1>7, <1>8, <1>9, <1>10, <1>11, <1>12, <1>13
        DEF WarrantyNext, Trip, Respond

LEMMA WarrantyAlways == WarrantySpec => []WarrantyInv
BY WarrantyInitially, WarrantyStep, PTL DEF WarrantySpec

(* Claims, items, parcels and what the handlers loaded keep their types.   *)
THEOREM WarrantyTypeCorrect == WarrantySpec => []WarrantyTypeOK
<1>1. WarrantyInv => WarrantyTypeOK
  BY DEF WarrantyInv
<1> QED BY WarrantyAlways, <1>1, PTL

(* allocate_replacement gives an account to one claim only, and no account *)
(* is lost or sold to another order, for any number of claims, accounts,   *)
(* handlers of the staff, crashes and refused messages.                    *)
THEOREM OneClaimPerReplacement == WarrantySpec => []ReplacementsOwned
<1>1. WarrantyInv => ReplacementsOwned
  BY DEF WarrantyInv
<1> QED BY WarrantyAlways, <1>1, PTL


-----------------------------------------------------------------------------
(* EmailCodes                                                              *)

TapRows ==
  [order : CodeOrders \cup {Nobody}, saw : CodeOrderStatus \cup {"none"},
   attempts : 0..MaxCodes, active : Reservations \cup {Nobody}]
ReadRows ==
  [res : Reservations \cup {Nobody}, saw : CodeOrderStatus \cup {"none"}, mail : 0..MaxMails]

(* An order has no attempts before its first reservation, a tap has loaded *)
(* an order that may have another one, and who has told a code knows whose *)
(* reservation and which order it is of.                                   *)
LoadedKnown ==
  /\ tap \in [Taps -> TapRows]
  /\ reader \in [Readers -> ReadRows]
  /\ \A o \in CodeOrders : code_order[o] = "paid" => code_attempts[o] = 0
  /\ \A t \in Taps : tap[t] # NoTap =>
       /\ tap[t].order \in CodeOrders
       /\ tap[t].attempts < MaxCodes
       /\ code_order[tap[t].order] # "paid"
  /\ \A d \in Readers : reader[d].mail # 0 =>
       reader[d].res \in Reservations /\ reader[d].saw # "none"

CodeTypeInv == CodeTypeOK /\ LoadedKnown

(* Whoever was told a code is the reservation the mail is recorded for, or *)
(* one whose row is inserted and not committed; and the two unique keys    *)
(* hold for the rows of both kinds together.                               *)
ToldInv ==
  /\ \A m \in Mails \ unproved : \A r \in told[m] :
       used[m] = r \/ \E d \in Readers : reader[d].mail = m /\ reader[d].res = r
  /\ \A d, e \in Readers :
       /\ reader[d].mail # 0 /\ reader[e].mail # 0
       /\ reader[d].mail = reader[e].mail \/ reader[d].res = reader[e].res
       => d = e
  /\ \A d \in Readers : reader[d].mail # 0 =>
       /\ used[reader[d].mail] = Nobody
       /\ \A k \in Mails : used[k] # reader[d].res
  /\ \A m, k \in Mails : used[m] = used[k] /\ m # k => used[m] = Nobody

LEMMA NoTapType == NoTap \in TapRows /\ NoTap.order = Nobody
BY CodeAssumption DEF NoTap, TapRows

LEMMA NoReadType == NoRead \in ReadRows /\ NoRead.mail = 0 /\ NoRead.saw = "none"
BY CodeAssumption DEF NoRead, ReadRows

LEMMA NobodyReserves ==
  /\ Nobody \notin CodeOrders /\ Nobody \notin Reservations
  /\ \A r \in Reservations : r[1] \in CodeOrders
BY CodeAssumption DEF Reservations

LEMMA CodeInitially == CodeInit => CodeTypeInv /\ ToldInv
<1> SUFFICES ASSUME CodeInit PROVE CodeTypeInv /\ ToldInv
  OBVIOUS
<1>1. CodeTypeOK
  BY CodeAssumption, NoTapType, NoReadType
  DEF CodeInit, CodeTypeOK, CodeOrderStatus, NoTap, NoRead
<1>2. LoadedKnown
  BY NoTapType, NoReadType DEF CodeInit, LoadedKnown
<1>3. ToldInv
  BY NoReadType DEF CodeInit, ToldInv
<1> QED BY <1>1, <1>2, <1>3 DEF CodeTypeInv

(* change_status writes a status other than the first.                     *)
LEMMA BecomesType ==
  ASSUME CodeTypeInv, NEW o \in CodeOrders, NEW saw, NEW new \in CodeOrderStatus \ {"paid"},
         Becomes(o, saw, new)
  PROVE  /\ code_order' \in [CodeOrders -> CodeOrderStatus]
         /\ \A x \in CodeOrders : code_order'[x] = "paid" => code_order[x] = "paid"
BY DEF CodeTypeInv, CodeTypeOK, Becomes

(* What a reader's step leaves alone keeps what is known of taps.          *)
LEMMA TapsRest ==
  ASSUME CodeTypeInv, UNCHANGED <<tap, code_attempts>>,
         \A x \in CodeOrders : code_order'[x] = "paid" => code_order[x] = "paid",
         reader' \in [Readers -> ReadRows],
         \A d \in Readers : reader'[d].mail # 0 =>
           reader'[d].res \in Reservations /\ reader'[d].saw # "none"
  PROVE  LoadedKnown'
BY DEF CodeTypeInv, LoadedKnown

(* A reader that has told nothing comes back, or loads something.          *)
LEMMA ReaderMoves ==
  ASSUME CodeTypeInv, ToldInv, NEW d \in Readers, reader[d].mail = 0,
         NEW row \in ReadRows, row.mail = 0, reader' = [reader EXCEPT ![d] = row],
         UNCHANGED <<used, told>>, unproved \subseteq unproved'
  PROVE  ToldInv' /\ \A e \in Readers : reader'[e].mail # 0 =>
                       reader'[e].res \in Reservations /\ reader'[e].saw # "none"
<1>1. reader'[d] = row /\ \A e \in Readers \ {d} : reader'[e] = reader[e]
  BY DEF CodeTypeInv, LoadedKnown
<1>2. \A e \in Readers : reader'[e].mail # 0 => e # d /\ reader[e].mail # 0
  BY <1>1
<1>3. \A m \in Mails \ unproved' : \A r \in told'[m] :
        used'[m] = r \/ \E e \in Readers : reader'[e].mail = m /\ reader'[e].res = r
  <2> SUFFICES ASSUME NEW m \in Mails \ unproved', NEW r \in told[m], used[m] # r
               PROVE  \E e \in Readers : reader'[e].mail = m /\ reader'[e].res = r
    OBVIOUS
  <2>1. PICK e \in Readers : reader[e].mail = m /\ reader[e].res = r
    BY DEF ToldInv
  <2>2. e # d
    BY <2>1, CodeAssumption DEF Mails
  <2> QED BY <2>1, <2>2, <1>1
<1> QED BY <1>1, <1>2, <1>3 DEF ToldInv, CodeTypeInv, LoadedKnown

(* Who has loaded a reservation and told nothing returns to NoRead.        *)
LEMMA ReaderRests ==
  ASSUME CodeTypeInv, ToldInv, NEW d \in Readers, reader[d].mail = 0, Rest(d),
         UNCHANGED <<used, told, unproved>>
  PROVE  /\ reader' \in [Readers -> ReadRows] /\ ToldInv'
         /\ \A e \in Readers : reader'[e].mail # 0 =>
              reader'[e].res \in Reservations /\ reader'[e].saw # "none"
BY ReaderMoves, NoReadType DEF Rest, CodeTypeInv, LoadedKnown

LEMMA CodeStep == CodeTypeInv /\ ToldInv /\ [CodeNext]_codeVars => (CodeTypeInv /\ ToldInv)'
<1> SUFFICES ASSUME CodeTypeInv, ToldInv, [CodeNext]_codeVars
             PROVE  CodeTypeOK' /\ LoadedKnown' /\ ToldInv'
  BY DEF CodeTypeInv
<1>a. CodeTypeOK /\ LoadedKnown
  BY DEF CodeTypeInv
<1>b. \A o \in CodeOrders : FreedBy(o) \in CodeOrders \cup {Nobody, Elsewhere}
  BY <1>a DEF FreedBy, CodeTypeOK
<1>c. FreedBy(Elsewhere) \in CodeOrders \cup {Nobody, Elsewhere}
  BY <1>a DEF FreedBy, CodeTypeOK
<1>d. UNCHANGED <<reader, used, told, unproved>> => ToldInv'
  BY DEF ToldInv
<1>e. \A d \in Readers : reader[d].saw = "none" => reader[d].mail = 0
  BY <1>a DEF LoadedKnown
<1> USE CodeAssumption, NobodyReserves DEF CodeTypeOK, mailVars
<1>1. ASSUME NEW o \in CodeOrders, FirstCode(o) PROVE CodeTypeOK' /\ LoadedKnown' /\ ToldInv'
  <2>1. PICK r \in NextRow(o) :
          /\ wait' = [wait EXCEPT ![r] = "waiting"]
          /\ older' = [older EXCEPT ![r] = arrived]
          /\ otp' = o
          /\ code_attempts' = [code_attempts EXCEPT ![o] = code_attempts[o] + 1]
          /\ Becomes(o, "paid", "waiting_code")
    BY <1>1 DEF FirstCode, ReserveRow
  <2>2. /\ code_order' \in [CodeOrders -> CodeOrderStatus]
        /\ \A x \in CodeOrders : code_order'[x] = "paid" => code_order[x] = "paid"
    BY <2>1, BecomesType DEF CodeOrderStatus
  <2>3. code_attempts[o] = 0 /\ code_order'[o] # "paid"
    BY <1>1, <1>a, <2>1 DEF FirstCode, LoadedKnown, Becomes, MayBecome, CodeMoves
  <2>4. code_attempts' \in [CodeOrders -> 0..MaxCodes]
    BY <2>1, <2>3, <1>a
  <2>5. CodeTypeOK'
    BY <1>1, <1>a, <2>1, <2>2, <2>4 DEF FirstCode
  <2>6. LoadedKnown'
    BY <1>1, <1>a, <2>1, <2>2, <2>3 DEF FirstCode, LoadedKnown
  <2> QED BY <1>1, <1>d, <2>5, <2>6 DEF FirstCode
<1>2. ASSUME NEW t \in Taps, NEW o \in CodeOrders, TapNewCode(t, o)
      PROVE  CodeTypeOK' /\ LoadedKnown' /\ ToldInv'
  <2>1. PICK a \in Reservations \cup {Nobody} :
          tap' = [tap EXCEPT ![t] = [order |-> o, saw |-> code_order[o],
                                     attempts |-> code_attempts[o], active |-> a]]
    BY <1>2 DEF TapNewCode, WaitingOf
  <2>2. tap' \in [Taps -> TapRows]
    BY <1>a, <2>1 DEF LoadedKnown, TapRows
  <2>3. \A x \in Taps : tap'[x] # NoTap => /\ tap'[x].order \in CodeOrders
                                          /\ tap'[x].attempts < MaxCodes
                                          /\ code_order[tap'[x].order] # "paid"
    BY <1>2, <1>a, <2>1 DEF TapNewCode, LoadedKnown
  <2>4. CodeTypeOK'
    BY <1>2, <1>a, <2>2 DEF TapNewCode, TapRows
  <2> QED BY <1>2, <1>a, <1>d, <2>2, <2>3, <2>4 DEF TapNewCode, LoadedKnown
<1>3. ASSUME NEW t \in Taps, RequestNewCode(t) PROVE CodeTypeOK' /\ LoadedKnown' /\ ToldInv'
  <2> DEFINE o == tap[t].order
             rows == IF tap[t].active = Nobody THEN wait
                     ELSE [wait EXCEPT ![tap[t].active] = "cancelled"]
             lease == IF tap[t].active = Nobody THEN otp ELSE FreedBy(o)
  <2>1. o \in CodeOrders /\ tap[t].attempts < MaxCodes /\ code_order[o] # "paid"
    BY <1>3, <1>a DEF RequestNewCode, LoadedKnown
  <2>2. rows \in [Reservations -> {"none", "waiting", "delivered", "expired", "cancelled",
                                   "review"}]
    BY <1>a
  <2>3. lease \in CodeOrders \cup {Nobody, Elsewhere}
    BY <1>a, <1>b, <2>1
  <2>4. /\ tap' = [tap EXCEPT ![t] = NoTap]
        /\ UNCHANGED <<mailbox, arrived, used, told, unproved, mail_faults, reader>>
    BY <1>3 DEF RequestNewCode
  <2>5. CASE ReserveRow(o, tap[t].saw, tap[t].attempts, rows)
    <3>1. PICK r \in NextRow(o) :
            /\ wait' = [rows EXCEPT ![r] = "waiting"]
            /\ older' = [older EXCEPT ![r] = arrived]
            /\ otp' = o
            /\ code_attempts' = [code_attempts EXCEPT ![o] = tap[t].attempts + 1]
            /\ Becomes(o, tap[t].saw, "waiting_code")
      BY <2>5 DEF ReserveRow
    <3> HIDE DEF rows, lease
    <3>2. /\ code_order' \in [CodeOrders -> CodeOrderStatus]
          /\ \A x \in CodeOrders : code_order'[x] = "paid" => code_order[x] = "paid"
      BY <3>1, <2>1, BecomesType DEF CodeOrderStatus
    <3>3. tap[t].attempts \in 0..MaxCodes
      BY <1>a DEF LoadedKnown, TapRows
    <3>4. code_attempts' \in [CodeOrders -> 0..MaxCodes]
      BY <3>1, <3>3, <2>1, <1>a
    <3>5. CodeTypeOK'
      <4>1. tap'[t] = NoTap /\ \A x \in Taps \ {t} : tap'[x] = tap[x]
        BY <2>4, <1>a DEF LoadedKnown
      <4> QED BY <1>a, <2>1, <2>2, <2>4, <3>1, <3>2, <3>4, <4>1, NoTapType
    <3>6. LoadedKnown'
      BY <1>a, <2>1, <2>4, <3>1, <3>2, NoTapType DEF LoadedKnown
    <3> QED BY <1>d, <2>4, <3>5, <3>6
  <2>6. CASE wait' = rows /\ otp' = lease /\ UNCHANGED <<code_order, code_attempts, older>>
    <3> HIDE DEF rows, lease
    <3>1. tap'[t] = NoTap /\ \A x \in Taps \ {t} : tap'[x] = tap[x]
      BY <2>4, <1>a DEF LoadedKnown
    <3>2. CodeTypeOK'
      BY <1>a, <2>2, <2>3, <2>4, <2>6, <3>1, NoTapType
    <3>3. LoadedKnown'
      BY <1>a, <2>4, <2>6, NoTapType DEF LoadedKnown
    <3> QED BY <1>d, <2>4, <3>2, <3>3
  <2> QED BY <1>3, <2>5, <2>6 DEF RequestNewCode
<1>4. CASE OtpLapses \/ ElsewhereReserves \/ ElsewhereEnds \/ MailArrives
  <2>1. /\ UNCHANGED <<code_order, code_attempts, wait, older, used, told, unproved,
                       mail_faults, tap, reader>>
        /\ otp' \in CodeOrders \cup {Nobody, Elsewhere}
        /\ mailbox' \in {"available", "paused", "reconnect"} /\ arrived' \in 0..MaxMails
    BY <1>4, <1>a, <1>c DEF OtpLapses, ElsewhereReserves, ElsewhereEnds, MailArrives
  <2> QED BY <2>1, <1>a, <1>d DEF LoadedKnown
<1>5. ASSUME NEW o \in CodeOrders, OrderMovesOn(o) PROVE CodeTypeOK' /\ LoadedKnown' /\ ToldInv'
  <2>1. /\ UNCHANGED <<code_attempts, wait, older, otp, mailbox, mailVars, tap, reader>>
        /\ code_order' \in [CodeOrders -> CodeOrderStatus]
        /\ \A x \in CodeOrders : code_order'[x] = "paid" => code_order[x] = "paid"
    BY <1>5, <1>a DEF OrderMovesOn, CodeOrderStatus
  <2> QED BY <2>1, <1>a, <1>d DEF LoadedKnown
<1>6. ASSUME NEW r \in Reservations, OverdueExpires(r)
      PROVE  CodeTypeOK' /\ LoadedKnown' /\ ToldInv'
  <2>1. /\ UNCHANGED <<code_attempts, older, mailVars, tap, reader>>
        /\ wait' = [wait EXCEPT ![r] = "expired"] /\ mailbox' = "available"
        /\ otp' = FreedBy(r[1]) /\ Becomes(r[1], code_order[r[1]], "needs_support")
    BY <1>6 DEF OverdueExpires, EndReservation
  <2>2. /\ code_order' \in [CodeOrders -> CodeOrderStatus]
        /\ \A x \in CodeOrders : code_order'[x] = "paid" => code_order[x] = "paid"
    BY <2>1, BecomesType DEF CodeOrderStatus
  <2> QED BY <2>1, <2>2, <1>a, <1>b, <1>d DEF LoadedKnown
<1>7. ASSUME NEW d \in Readers, NEW r \in Reservations, LoadReservation(d, r)
      PROVE  CodeTypeOK' /\ LoadedKnown' /\ ToldInv'
  <2>1. /\ reader[d].res = Nobody /\ reader' = [reader EXCEPT ![d].res = r]
        /\ UNCHANGED <<code_order, code_attempts, wait, older, otp, mailbox, mailVars, tap>>
    BY <1>7 DEF LoadReservation, Reading
  <2>2. reader[d].mail = 0 /\ reader[d] \in ReadRows
    BY <2>1, <1>a DEF LoadedKnown
  <2> DEFINE row == [reader[d] EXCEPT !.res = r]
  <2>3. row \in ReadRows /\ row.mail = 0 /\ reader' = [reader EXCEPT ![d] = row]
    BY <2>1, <2>2 DEF ReadRows
  <2> HIDE DEF row
  <2>4. ToldInv' /\ \A e \in Readers : reader'[e].mail # 0 =>
                      reader'[e].res \in Reservations /\ reader'[e].saw # "none"
    BY <2>1, <2>2, <2>3, ReaderMoves
  <2>5. reader' \in [Readers -> ReadRows]
    BY <2>3, <1>a DEF LoadedKnown
  <2>6. LoadedKnown'
    BY <2>1, <2>4, <2>5, TapsRest
  <2> QED BY <2>1, <2>4, <2>5, <2>6, <1>a DEF ReadRows
<1>8. ASSUME NEW d \in Readers, NEW r \in Reservations, Fetch(d, r)
      PROVE  CodeTypeOK' /\ LoadedKnown' /\ ToldInv'
  <2>1. /\ reader' = [reader EXCEPT ![d].saw = code_order[r[1]]]
        /\ UNCHANGED <<code_order, code_attempts, wait, older, otp, mailbox, mailVars, tap>>
    BY <1>8 DEF Fetch
  <2>2. reader[d].mail = 0 /\ reader[d] \in ReadRows
    BY <1>8, <1>a, <1>e DEF Fetch, LoadedKnown
  <2> DEFINE row == [reader[d] EXCEPT !.saw = code_order[r[1]]]
  <2>3. row \in ReadRows /\ row.mail = 0 /\ reader' = [reader EXCEPT ![d] = row]
    BY <2>1, <2>2, <1>a DEF ReadRows
  <2> HIDE DEF row
  <2>4. ToldInv' /\ \A e \in Readers : reader'[e].mail # 0 =>
                      reader'[e].res \in Reservations /\ reader'[e].saw # "none"
    BY <2>1, <2>2, <2>3, ReaderMoves
  <2>5. reader' \in [Readers -> ReadRows]
    BY <2>3, <1>a DEF LoadedKnown
  <2>6. LoadedKnown'
    BY <2>1, <2>4, <2>5, TapsRest
  <2> QED BY <2>1, <2>4, <2>5, <2>6, <1>a DEF ReadRows
(* The steps that end a reader's turn before anything was told.            *)
<1>9. ASSUME NEW d \in Readers, NEW r \in Reservations,
             \/ Expire(d, r) \/ ExpireRaises(d, r) \/ NoMail(d, r) \/ Ambiguous(d, r)
             \/ InsertRefused(d, r) \/ ImapFails(d, r)
      PROVE  CodeTypeOK' /\ LoadedKnown' /\ ToldInv'
  <2>1. reader[d].mail = 0
    BY <1>9, <1>e
    DEF Expire, ExpireRaises, NoMail, Ambiguous, InsertRefused, ImapFails, Fetched
  <2>2. /\ Rest(d)
        /\ UNCHANGED <<code_attempts, older, arrived, used, told, unproved, tap>>
        /\ mail_faults' \in 0..MaxMailFaults
    BY <1>9, <1>a
    DEF Expire, ExpireRaises, NoMail, Ambiguous, InsertRefused, ImapFails, Raise, MailFault
  <2>3. /\ wait' \in [Reservations -> {"none", "waiting", "delivered", "expired", "cancelled",
                                       "review"}]
        /\ otp' \in CodeOrders \cup {Nobody, Elsewhere}
        /\ mailbox' \in {"available", "paused", "reconnect"}
    BY <1>9, <1>a, <1>b
    DEF Expire, ExpireRaises, NoMail, Ambiguous, InsertRefused, ImapFails, Raise, EndReservation
  <2>4. UNCHANGED code_order \/ \E saw : Becomes(r[1], saw, "needs_support")
    BY <1>9
    DEF Expire, ExpireRaises, NoMail, Ambiguous, InsertRefused, ImapFails, Raise, EndReservation
  <2>5. /\ code_order' \in [CodeOrders -> CodeOrderStatus]
        /\ \A x \in CodeOrders : code_order'[x] = "paid" => code_order[x] = "paid"
    BY <2>4, <1>a, BecomesType DEF CodeOrderStatus
  <2>6. /\ reader' \in [Readers -> ReadRows] /\ ToldInv'
        /\ \A e \in Readers : reader'[e].mail # 0 =>
             reader'[e].res \in Reservations /\ reader'[e].saw # "none"
    BY <2>1, <2>2, ReaderRests
  <2>7. LoadedKnown'
    BY <2>2, <2>5, <2>6, TapsRest
  <2> QED BY <2>2, <2>3, <2>5, <2>6, <2>7, <1>a DEF ReadRows
(* Neither the mail nor the reservation has a row, committed or not.       *)
<1>10. ASSUME NEW d \in Readers, NEW r \in Reservations, TellCode(d, r)
       PROVE  CodeTypeOK' /\ LoadedKnown' /\ ToldInv'
  <2>1. PICK m \in Mails :
          /\ reader[d].res = r /\ reader[d].saw # "none" /\ reader[d].mail = 0
          /\ ~Inserting(m, r) /\ ~Taken(m, r)
          /\ reader' = [reader EXCEPT ![d].mail = m]
          /\ told' = [told EXCEPT ![m] = @ \cup {r}]
    BY <1>10 DEF TellCode, Fetched, Reading, Unused
  <2>2. UNCHANGED <<code_order, code_attempts, wait, older, otp, mailbox, arrived, used,
                    unproved, mail_faults, tap>>
    BY <1>10 DEF TellCode
  <2>3. m # 0 /\ m \in 0..MaxMails
    BY DEF Mails
  <2>4. /\ reader' \in [Readers -> ReadRows]
        /\ reader'[d].mail = m /\ reader'[d].res = r /\ reader'[d].saw # "none"
        /\ \A e \in Readers \ {d} : reader'[e] = reader[e]
    BY <2>1, <2>3, <1>a DEF LoadedKnown, ReadRows
  <2>5. /\ told'[m] = told[m] \cup {r} /\ \A k \in Mails \ {m} : told'[k] = told[k]
        /\ told' \in [Mails -> SUBSET Reservations]
    BY <2>1, <1>a
  <2>6. LoadedKnown'
    BY <2>2, <2>4, <1>a, TapsRest DEF LoadedKnown
  <2>7. ToldInv'
    <3>1. ASSUME NEW k \in Mails \ unproved, NEW x \in told'[k], used[k] # x
          PROVE  \E e \in Readers : reader'[e].mail = k /\ reader'[e].res = x
      <4>1. CASE k = m /\ x = r
        BY <4>1, <2>4
      <4>2. CASE ~(k = m /\ x = r)
        <5>1. x \in told[k]
          BY <4>2, <2>5
        <5>2. PICK e \in Readers : reader[e].mail = k /\ reader[e].res = x
          BY <5>1, <3>1 DEF ToldInv
        <5>3. e # d
          BY <5>2, <2>1 DEF Mails
        <5> QED BY <5>2, <5>3, <2>4
      <4> QED BY <4>1, <4>2
    <3>2. \A e \in Readers \ {d} : reader[e].mail # 0 => reader[e].mail # m /\ reader[e].res # r
      BY <2>1 DEF Inserting
    <3>3. \A x, e \in Readers :
            /\ reader'[x].mail # 0 /\ reader'[e].mail # 0
            /\ reader'[x].mail = reader'[e].mail \/ reader'[x].res = reader'[e].res
            => x = e
      BY <3>2, <2>4 DEF ToldInv
    <3>4. \A e \in Readers : reader'[e].mail # 0 =>
            /\ used[reader'[e].mail] = Nobody
            /\ \A k \in Mails : used[k] # reader'[e].res
      BY <2>1, <2>4 DEF ToldInv, Taken
    <3> QED BY <3>1, <3>3, <3>4, <2>2 DEF ToldInv
  <2> QED BY <2>2, <2>4, <2>5, <2>6, <2>7, <1>a DEF ReadRows
(* The inserted row is committed.                                          *)
<1>11. ASSUME NEW d \in Readers, NEW r \in Reservations, CommitCode(d, r)
       PROVE  CodeTypeOK' /\ LoadedKnown' /\ ToldInv'
  <2> DEFINE m == reader[d].mail
  <2>1. /\ reader[d].res = r /\ m # 0
        /\ used' = [used EXCEPT ![m] = r] /\ reader' = [reader EXCEPT ![d] = NoRead]
        /\ wait' = [wait EXCEPT ![r] = "delivered"] /\ mailbox' = "available"
        /\ otp' = FreedBy(r[1]) /\ Becomes(r[1], reader[d].saw, "delivered")
        /\ UNCHANGED <<code_attempts, older, arrived, told, unproved, mail_faults, tap>>
    BY <1>11 DEF CommitCode, EndReservation, Rest, Reading
  <2>2. m \in Mails
    BY <2>1, <1>a DEF LoadedKnown, ReadRows, Mails
  <2> HIDE DEF m
  <2>3. /\ code_order' \in [CodeOrders -> CodeOrderStatus]
        /\ \A x \in CodeOrders : code_order'[x] = "paid" => code_order[x] = "paid"
    BY <2>1, BecomesType DEF CodeOrderStatus
  <2>4. /\ reader' \in [Readers -> ReadRows]
        /\ reader'[d] = NoRead /\ \A e \in Readers \ {d} : reader'[e] = reader[e]
    BY <2>1, <1>a, NoReadType DEF LoadedKnown
  <2>5. /\ used'[m] = r /\ \A k \in Mails \ {m} : used'[k] = used[k]
        /\ used' \in [Mails -> Reservations \cup {Nobody}]
    BY <2>1, <2>2, <1>a
  <2>6. used[m] = Nobody /\ \A k \in Mails : used[k] # r
    BY <2>1 DEF ToldInv, m
  <2>7. LoadedKnown'
    BY <2>1, <2>3, <2>4, <1>a, NoReadType, TapsRest DEF LoadedKnown
  <2>8. ToldInv'
    <3>1. ASSUME NEW k \in Mails \ unproved, NEW x \in told[k], used'[k] # x
          PROVE  \E e \in Readers : reader'[e].mail = k /\ reader'[e].res = x
      <4>1. used[k] # x
        BY <3>1, <2>5, <2>6, <1>a
      <4>2. PICK e \in Readers : reader[e].mail = k /\ reader[e].res = x
        BY <4>1 DEF ToldInv
      <4>3. e # d
        BY <4>2, <3>1, <2>1, <2>5 DEF m
      <4> QED BY <4>2, <4>3, <2>4
    <3>2. \A e \in Readers \ {d} : reader[e].mail # 0 => reader[e].mail # m /\ reader[e].res # r
      BY <2>1 DEF ToldInv, m
    <3>3. \A x, e \in Readers :
            /\ reader'[x].mail # 0 /\ reader'[e].mail # 0
            /\ reader'[x].mail = reader'[e].mail \/ reader'[x].res = reader'[e].res
            => x = e
      BY <2>4, NoReadType DEF ToldInv
    <3>4. \A e \in Readers : reader'[e].mail # 0 =>
            /\ used'[reader'[e].mail] = Nobody
            /\ \A k \in Mails : used'[k] # reader'[e].res
      <4> SUFFICES ASSUME NEW e \in Readers, reader'[e].mail # 0
                   PROVE  /\ used'[reader'[e].mail] = Nobody
                          /\ \A k \in Mails : used'[k] # reader'[e].res
        OBVIOUS
      <4>1. e # d /\ reader'[e] = reader[e] /\ reader[e].mail \in Mails
        BY <2>4, <1>a, NoReadType DEF LoadedKnown, ReadRows, Mails
      <4> QED BY <4>1, <3>2, <2>5 DEF ToldInv
    <3>5. \A x, k \in Mails : used'[x] = used'[k] /\ x # k => used'[x] = Nobody
      BY <2>5, <2>6 DEF ToldInv
    <3> QED BY <3>1, <3>3, <3>4, <3>5, <2>1 DEF ToldInv
  <2> QED BY <2>1, <2>3, <2>4, <2>5, <2>7, <2>8, <1>a, <1>b DEF ReadRows
(* The row is rolled back, and the mail counts as unproved.                *)
<1>12. ASSUME NEW d \in Readers, NEW r \in Reservations, CommitRaises(d, r) \/ CodeLost(d, r)
       PROVE  CodeTypeOK' /\ LoadedKnown' /\ ToldInv'
  <2>1. /\ reader[d].mail # 0 /\ unproved' = unproved \cup {reader[d].mail}
        /\ reader' = [reader EXCEPT ![d] = NoRead]
        /\ UNCHANGED <<code_order, code_attempts, wait, older, otp, mailbox, tap,
                       arrived, used, told>>
        /\ mail_faults' \in 0..MaxMailFaults
    BY <1>12, <1>a DEF CommitRaises, CodeLost, Raise, Rest, MailFault
  <2>2. reader[d].mail \in Mails
    BY <2>1, <1>a DEF LoadedKnown, ReadRows, Mails
  <2>3. /\ reader' \in [Readers -> ReadRows]
        /\ reader'[d] = NoRead /\ \A e \in Readers \ {d} : reader'[e] = reader[e]
    BY <2>1, <1>a, NoReadType DEF LoadedKnown
  <2>4. LoadedKnown'
    BY <2>1, <2>3, <1>a, NoReadType, TapsRest DEF LoadedKnown
  <2>5. ToldInv'
    <3>1. ASSUME NEW k \in Mails \ unproved', NEW x \in told[k], used[k] # x
          PROVE  \E e \in Readers : reader'[e].mail = k /\ reader'[e].res = x
      <4>1. PICK e \in Readers : reader[e].mail = k /\ reader[e].res = x
        BY <3>1, <2>1 DEF ToldInv
      <4>2. e # d
        BY <4>1, <2>1
      <4> QED BY <4>1, <4>2, <2>3
    <3>2. \A e \in Readers : reader'[e].mail # 0 => reader'[e] = reader[e]
      BY <2>3, NoReadType
    <3> QED BY <3>1, <3>2, <2>1 DEF ToldInv
  <2> QED BY <2>1, <2>2, <2>3, <2>4, <2>5, <1>a DEF ReadRows
<1>13. CASE UNCHANGED codeVars
  BY <1>13, <1>a, <1>d DEF codeVars, LoadedKnown
<1> QED BY <1>1, <1>2, <1>3, <1>4, <1>5, <1>6, <1>7, <1>8, <1>9, <1>10, <1>11, <1>12, <1>13
        DEF CodeNext, Poll

(* Two reservations that were told one mail's code are the same, and two   *)
(* mails whose code one reservation was told.                              *)
LEMMA ToldCounts == CodeTypeInv /\ ToldInv => CodeOnce
<1> SUFFICES ASSUME CodeTypeInv, ToldInv PROVE CodeOnce
  OBVIOUS
<1>1. \A m, k \in Mails \ unproved : \A r \in told[m], s \in told[k] :
        m = k \/ r = s => m = k /\ r = s
  <2> SUFFICES ASSUME NEW m \in Mails \ unproved, NEW k \in Mails \ unproved,
                      NEW r \in told[m], NEW s \in told[k], m = k \/ r = s
               PROVE  m = k /\ r = s
    OBVIOUS
  <2>1. r \in Reservations /\ s \in Reservations /\ m # 0 /\ k # 0
    BY DEF CodeTypeInv, CodeTypeOK, Mails
  <2>2. CASE used[m] = r /\ used[k] = s
    BY <2>1, <2>2, NobodyReserves DEF ToldInv
  <2>3. CASE used[m] = r /\ used[k] # s
    <3>1. PICK e \in Readers : reader[e].mail = k /\ reader[e].res = s
      BY <2>3 DEF ToldInv
    <3> QED BY <3>1, <2>1, <2>3, NobodyReserves DEF ToldInv
  <2>4. CASE used[m] # r /\ used[k] = s
    <3>1. PICK e \in Readers : reader[e].mail = m /\ reader[e].res = r
      BY <2>4 DEF ToldInv
    <3> QED BY <3>1, <2>1, <2>4, NobodyReserves DEF ToldInv
  <2>5. CASE used[m] # r /\ used[k] # s
    <3>1. PICK d \in Readers : reader[d].mail = m /\ reader[d].res = r
      BY <2>5 DEF ToldInv
    <3>2. PICK e \in Readers : reader[e].mail = k /\ reader[e].res = s
      BY <2>5 DEF ToldInv
    <3>3. d = e
      BY <3>1, <3>2, <2>1 DEF ToldInv
    <3> QED BY <3>1, <3>2, <3>3
  <2> QED BY <2>2, <2>3, <2>4, <2>5
<1>2. ASSUME NEW m \in Mails \ unproved PROVE Cardinality(told[m]) <= 1
  <2>1. CASE told[m] = {}
    BY <2>1, FS_EmptySet
  <2>2. CASE told[m] # {}
    <3>1. PICK r \in told[m] : told[m] = {r}
      BY <1>1, <2>2
    <3> QED BY <3>1, FS_Singleton
  <2> QED BY <2>1, <2>2
<1>3. \A m, k \in Mails \ unproved : m # k => told[m] \cap told[k] = {}
  BY <1>1
<1> QED BY <1>2, <1>3 DEF CodeOnce

LEMMA CodeAlways == CodeSpec => [](CodeTypeInv /\ ToldInv)
BY CodeInitially, CodeStep, PTL DEF CodeSpec

(* Orders, reservations, the mailbox and its mails keep their types: in    *)
(* particular the count Order.code_attempts never passes the limit         *)
(* max_code_attempts, however many taps of "new code" write over what they *)
(* loaded.  It says nothing of the rows: MaxRows is a bound of the model,  *)
(* for every value of which this holds, and taps that overlap at the limit *)
(* do make more rows than attempts.                                        *)
THEOREM CodeTypeCorrect == CodeSpec => []CodeTypeOK
<1>1. CodeTypeInv => CodeTypeOK
  BY DEF CodeTypeInv
<1> QED BY CodeAlways, <1>1, PTL

(* The two unique keys of verification_messages, flushed before the        *)
(* student is told, keep any number of replicas of poll_pending from       *)
(* telling a code twice, except where the transaction is rolled back.      *)
THEOREM CodesToldOnce == CodeSpec => []CodeOnce
BY CodeAlways, ToldCounts, PTL

-----------------------------------------------------------------------------
(* The composition                                                         *)

LEMMA CommerceInitially ==
  CommerceInit => Init /\ WarrantyInit /\ CodeInit /\ BundleInit /\ BillingInit
BY DEF CommerceInit

(* A step of the composition is a step of one part and a stutter of every  *)
(* other.                                                                  *)
LEMMA CommerceStep ==
  [CommerceNext]_commerceVars =>
    /\ [Next]_vars
    /\ [WarrantyNext]_warrantyVars
    /\ [CodeNext]_codeVars
    /\ [BundleNext]_bundleVars
    /\ [BillingNext]_billingVars
BY DEF CommerceNext, commerceVars, friendVars

(* The parts of MCCommerce share no variable, so their composition is each *)
(* of them: whatever is proved of a part holds in the run.                 *)
THEOREM CommerceIsItsParts ==
  CommerceSpec => Spec /\ WarrantySpec /\ CodeSpec /\ BundleSpec /\ BillingSpec
<1>1. CommerceSpec => CommerceInit /\ [][CommerceNext]_commerceVars
  BY DEF CommerceSpec
<1> QED BY <1>1, CommerceInitially, CommerceStep, PTL
        DEF Spec, WarrantySpec, CodeSpec, BundleSpec, BillingSpec

(* Groups, claims, reservations, bundles and invoices keep their types     *)
(* together.                                                               *)
THEOREM CommerceTypeCorrect == CommerceSpec => []CommerceTypeOK
<1>1. TypeOK /\ WarrantyTypeOK /\ CodeTypeOK /\ BundleTypeOK /\ BillingTypeOK
        => CommerceTypeOK
  BY DEF CommerceTypeOK
<1> QED BY CommerceIsItsParts, TypeCorrect, WarrantyTypeCorrect, CodeTypeCorrect,
        BundleTypeCorrect, BillingTypeCorrect, <1>1, PTL

(* What the run checks on a small instance, for every value of the         *)
(* constants: of groups, warranty claims, mailed codes, bundles and        *)
(* invoices.                                                               *)
THEOREM CommerceSafe ==
  CommerceSpec => [](/\ EscrowExact /\ RefundsExact /\ AllPaidBeforeDelivery
                     /\ ReplacementsOwned /\ CodeOnce /\ SharesPostedOnce
                     /\ InvoiceBookedOnce)
BY CommerceIsItsParts, EscrowAddsUp, DepositsReturned, NobodyBeforeAllPaid,
   OneClaimPerReplacement, CodesToldOnce, SharesOnce, BookedOnce, PTL
=============================================================================
