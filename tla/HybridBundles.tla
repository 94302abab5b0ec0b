--------------------------- MODULE HybridBundles ---------------------------
(***************************************************************************)
(* Bundles of several providers' offers, sold by the owner: a purchase     *)
(* holds one inventory item for every component that is delivered from     *)
(* stock, the student uploads proofs of payment, and an administrator      *)
(* approves one, which turns the holds into child orders and credits every *)
(* provider's wallet with its share.  Every operation locks the purchase   *)
(* and is one transaction; an exception in a review rolls it back.         *)
(***************************************************************************)
EXTENDS Naturals, FiniteSets, Owners

CONSTANTS
  Purchases,
  Components,        (* of the one bundle that is sold                      *)
  Stocked,           (* those delivered from inventory                      *)
  ItemsEach,         (* items in the stock of each, in the order of sale    *)
  Files              (* proofs of payment, by the fingerprint of the file   *)

ASSUME BundleAssumption ==
  /\ Stocked \subseteq Components
  /\ ItemsEach \in Nat
  /\ Nobody \notin Purchases

Items == Stocked \X (1..ItemsEach)

VARIABLES
  purchase,          (* HybridBundlePurchase.status                         *)
  late_purchase,     (* has its expires_at passed?                          *)
  shelf,             (* InventoryItem.status; "ordered" is RESERVED for a   *)
                     (* child order                                         *)
  hold,              (* the purchase of the item's HybridInventoryHold: an   *)
                     (* item has one such row at most, which is kept        *)
  hold_status,
  proof,             (* HybridPurchaseProof.status                          *)
  proof_of,          (* the purchase a file was claimed for                 *)
  shares             (* credits of a component's share posted to the wallet *)

bundleVars == <<purchase, late_purchase, shelf, hold, hold_status, proof, proof_of, shares>>

BundleTypeOK ==
  /\ purchase \in [Purchases -> {"none", "pending", "failed", "fulfilling"}]
  /\ late_purchase \subseteq Purchases
  /\ shelf \in [Items -> {"available", "reserved", "ordered", "sold"}]
  /\ hold \in [Items -> Purchases \cup {Nobody}]
  /\ hold_status \in [Items -> {"none", "held", "consumed", "released"}]
  /\ proof \in [Files -> {"none", "pending", "approved", "rejected"}]
  /\ proof_of \in [Files -> Purchases \cup {Nobody}]
  /\ shares \in [Purchases -> [Components -> Nat]]

BundleInit ==
  /\ purchase = [p \in Purchases |-> "none"]
  /\ late_purchase = {}
  /\ shelf = [i \in Items |-> "available"]
  /\ hold = [i \in Items |-> Nobody]
  /\ hold_status = [i \in Items |-> "none"]
  /\ proof = [f \in Files |-> "none"]
  /\ proof_of = [f \in Files |-> Nobody]
  /\ shares = [p \in Purchases |-> [c \in Components |-> 0]]

-----------------------------------------------------------------------------
HeldBy(p) == {i \in Items : hold[i] = p /\ hold_status[i] = "held"}

(* The first available item of every stocked component. *)
FirstItems ==
  {i \in Items : /\ shelf[i] = "available"
                 /\ \A k \in 1..(i[2] - 1) : shelf[<<i[1], k>>] # "available"}

(* create_hybrid_purchase: an item for every component, or nothing at all. *)
(* The unique key of the hold refuses an item that was held before, and    *)
(* with it the purchase.                                                   *)
Buy(p) ==
  /\ purchase[p] = "none"
  /\ \A c \in Stocked : \E i \in FirstItems : i[1] = c
  /\ \A i \in FirstItems : hold[i] = Nobody
  /\ purchase' = [purchase EXCEPT ![p] = "pending"]
  /\ shelf' = [i \in Items |-> IF i \in FirstItems THEN "reserved" ELSE shelf[i]]
  /\ hold' = [i \in Items |-> IF i \in FirstItems THEN p ELSE hold[i]]
  /\ hold_status' = [i \in Items |-> IF i \in FirstItems THEN "held" ELSE hold_status[i]]
  /\ UNCHANGED <<late_purchase, proof, proof_of, shares>>

DeadlinePasses(p) ==
  /\ purchase[p] # "none" /\ p \notin late_purchase
  /\ late_purchase' = late_purchase \cup {p}
  /\ UNCHANGED <<purchase, shelf, hold, hold_status, proof, proof_of, shares>>

(* submit_hybrid_purchase_proof: a file backs one operation. *)
SubmitBundleProof(f, p) ==
  /\ purchase[p] = "pending" /\ p \notin late_purchase
  /\ proof[f] = "none"
  /\ proof' = [proof EXCEPT ![f] = "pending"]
  /\ proof_of' = [proof_of EXCEPT ![f] = p]
  /\ UNCHANGED <<purchase, late_purchase, shelf, hold, hold_status, shares>>

(* _release_hybrid_holds: an item whose hold was consumed belongs to a     *)
(* child order.                                                            *)
ReleaseHolds(p) ==
  /\ shelf' = [i \in Items |-> IF i \in HeldBy(p) THEN "available" ELSE shelf[i]]
  /\ hold_status' = [i \in Items |-> IF i \in HeldBy(p) THEN "released" ELSE hold_status[i]]

Fail(p) ==
  /\ purchase' = [purchase EXCEPT ![p] = "failed"]
  /\ ReleaseHolds(p)

(* A late proof: its handler shows the error and commits. *)
SubmitLate(p) ==
  /\ purchase[p] = "pending" /\ p \in late_purchase
  /\ Fail(p)
  /\ UNCHANGED <<late_purchase, hold, proof, proof_of, shares>>

(* allocate_hybrid_purchase returns at once for a purchase it allocated. *)
Allocated(p) == purchase[p] = "fulfilling"

(* The share of a component is posted under a key of its own, together     *)
(* with the child order that consumes the hold; a component that has them  *)
(* is passed over.                                                         *)
Posted(p, c) == shares[p][c] > 0

Consume(p, owed) ==
  /\ \A c \in Stocked \cap owed : \E i \in HeldBy(p) : i[1] = c
  /\ purchase' = [purchase EXCEPT ![p] = "fulfilling"]
  /\ shelf' = [i \in Items |-> IF i \in HeldBy(p) THEN "ordered" ELSE shelf[i]]
  /\ hold_status' = [i \in Items |-> IF i \in HeldBy(p) THEN "consumed" ELSE hold_status[i]]
  /\ shares' = [shares EXCEPT ![p] =
       [c \in Components |-> IF c \in owed THEN @[c] + 1 ELSE @[c]]]

AllocateNow_NoKeys(p) ==
  /\ p \notin late_purchase
  /\ Consume(p, {c \in Components : c \in Stocked => ~Posted(p, c)})

AllocateNow(p) ==
  /\ p \notin late_purchase
  /\ Consume(p, {c \in Components : ~Posted(p, c)})

(* review_hybrid_purchase_proof.  What allocate_hybrid_purchase refuses is *)
(* rolled back, and the proof stays pending.                               *)
ApproveProof(f) ==
  LET p == proof_of[f]
  IN /\ proof[f] = "pending"
     /\ proof' = [proof EXCEPT ![f] = "approved"]
     /\ IF Allocated(p) THEN UNCHANGED <<purchase, shelf, hold_status, shares>>
        ELSE AllocateNow(p)
     /\ UNCHANGED <<late_purchase, hold, proof_of>>

(* A rejected proof fails the purchase, also one that another proof paid   *)
(* and allocated.                                                          *)
RejectProof(f) ==
  /\ proof[f] = "pending"
  /\ proof' = [proof EXCEPT ![f] = "rejected"]
  /\ Fail(proof_of[f])
  /\ UNCHANGED <<late_purchase, hold, proof_of, shares>>

(* expire_hybrid_purchases, in every cycle of the scheduler. *)
ExpirePurchases(p) ==
  /\ purchase[p] = "pending" /\ p \in late_purchase
  /\ Fail(p)
  /\ UNCHANGED <<late_purchase, hold, proof, proof_of, shares>>

(* An order of the shop takes the first item of an offer. *)
ShopSells(i) ==
  /\ i \in FirstItems
  /\ shelf' = [shelf EXCEPT ![i] = "sold"]
  /\ UNCHANGED <<purchase, late_purchase, hold, hold_status, proof, proof_of, shares>>

BundleNext ==
  \/ \E p \in Purchases :
       Buy(p) \/ DeadlinePasses(p) \/ SubmitLate(p) \/ ExpirePurchases(p)
  \/ \E f \in Files :
       ApproveProof(f) \/ RejectProof(f) \/ \E p \in Purchases : SubmitBundleProof(f, p)
  \/ \E i \in Items : ShopSells(i)

(* Time passes and the scheduler repeats its cycle. *)
BundleFairness ==
  \A p \in Purchases : WF_bundleVars(DeadlinePasses(p)) /\ WF_bundleVars(ExpirePurchases(p))

BundleSpec == BundleInit /\ [][BundleNext]_bundleVars
BundleFairSpec == BundleSpec /\ BundleFairness

-----------------------------------------------------------------------------
(* Properties.                                                             *)

(* Every provider is credited its share once for a purchase with an        *)
(* approved proof, however many proofs are reviewed, and never for one     *)
(* without; and the account the student is owed is ordered, not back on    *)
(* the shelf.                                                              *)
SharesPostedOnce ==
  \A p \in Purchases :
    LET paid == \E f \in Files : proof_of[f] = p /\ proof[f] = "approved"
    IN /\ \A c \in Components : shares[p][c] = IF paid THEN 1 ELSE 0
       /\ \A c \in Stocked : paid => \E i \in Items :
            i[1] = c /\ hold[i] = p /\ hold_status[i] = "consumed" /\ shelf[i] = "ordered"

(* An item does not stay reserved for a purchase nobody pays.              *)
HoldsEnd == \A i \in Items : shelf[i] = "reserved" ~> shelf[i] # "reserved"
=============================================================================
