---------------------------- MODULE Collections -----------------------------
(***************************************************************************)
(* What a completed order leaves behind: the owner's revenue in the        *)
(* ledger, the buyer's activity points and those of the student who        *)
(* invited the buyer; and the owner's collection of that revenue from the  *)
(* platform: administrators ask for an amount, the platform sends          *)
(* receipts, administrators review them or ban the platform.  It follows   *)
(* FinanceService.finalize_order, UserService.add_points,                  *)
(* SettlementService and the handlers of admin/finance.py.                 *)
(*                                                                         *)
(* Nothing but a completion locks what it read, so every handler that      *)
(* decides on loaded rows is two actions.  A student, and an               *)
(* administrator, has one handler at a time.  Left out: refund reversals   *)
(* and provider wallets, which no code calls, withdrawals, which are       *)
(* disabled by default, and the offers that a ban hides.                   *)
(***************************************************************************)
EXTENDS Naturals, FiniteSets, Functions, Owners

CONSTANTS
  Sales,             (* orders of one platform, delivered and acknowledged  *)
  InviterSales,      (* those bought by the student who invited the other   *)
  Net,               (* Order.owner_net_iqd                                 *)
  Reward,            (* Settings.referral_reward_points                     *)
  Dues,              (* rows of ProviderSettlement                          *)
  Admins

ASSUME CollectionsAssumption ==
  /\ InviterSales \subseteq Sales /\ IsFiniteSet(Dues)
  /\ Net \in Nat /\ Reward \in Nat
  /\ Nobody \notin Sales \cup Dues

Students == {"invited", "inviter"}
BuyerOf(s) == IF s \in InviterSales THEN "inviter" ELSE "invited"
BuyerPoints == 5

Awards == [kind : {"buyer", "referral"}, of : Sales \cup {Nobody}]

VARIABLES
  sale,              (* Order.status                                        *)
  closing,           (* the order an open complete_order has loaded         *)
  points_seen,       (* User.points as that handler's session loaded them   *)
  points,            (* User.points                                         *)
  awards,            (* PointsTransaction rows, by what their key names     *)
  revenue,           (* orders with an owner_revenue LedgerEntry            *)
  crossed,           (* did a reward reach the inviter amid a completion?   *)
  due,               (* ProviderSettlement.status                           *)
  due_amount,        (* ProviderSettlement.owner_due_iqd                    *)
  receipts,          (* settlements with a proof_file_id                    *)
  uploading,         (* settlements an open upload has loaded               *)
  offered,           (* what an open request computed as collectable        *)
  outdated,          (* open requests that another one has overtaken        *)
  raced,             (* settlements made by such a request                  *)
  revived,           (* settlements that counted again after a refusal      *)
  stopping           (* orders an open ban has loaded                       *)

saleVars == <<sale, closing, points_seen, points, awards, revenue, crossed>>
dueVars == <<due, due_amount, receipts, uploading, offered, outdated, raced, revived>>
collectionVars == <<saleVars, dueVars, stopping>>

CollectionsTypeOK ==
  /\ sale \in [Sales -> {"delivered", "completed", "cancelled"}]
  /\ closing \in [Students -> Sales \cup {Nobody}]
  /\ points_seen \in [Students -> Nat]
  /\ points \in [Students -> Nat]
  /\ awards \subseteq Awards
  /\ revenue \subseteq Sales
  /\ crossed \in BOOLEAN
  /\ due \in [Dues -> {"none", "notified", "proof_received", "confirmed", "rejected"}]
  /\ due_amount \in [Dues -> Nat]
  /\ receipts \subseteq Dues /\ uploading \subseteq Dues
  /\ offered \in [Admins -> Nat]
  /\ outdated \subseteq Admins
  /\ raced \subseteq Dues /\ revived \subseteq Dues
  /\ stopping \in [Admins -> SUBSET Sales]

CollectionsInit ==
  /\ sale = [s \in Sales |-> "delivered"]
  /\ closing = [u \in Students |-> Nobody]
  /\ points_seen = [u \in Students |-> 0]
  /\ points = [u \in Students |-> 0]
  /\ awards = {} /\ revenue = {} /\ crossed = FALSE
  /\ due = [d \in Dues |-> "none"]
  /\ due_amount = [d \in Dues |-> 0]
  /\ receipts = {} /\ uploading = {}
  /\ offered = [a \in Admins |-> 0]
  /\ outdated = {} /\ raced = {} /\ revived = {}
  /\ stopping = [a \in Admins |-> {}]

-----------------------------------------------------------------------------
(* Completion of an order                                                  *)

(* complete_order loads the order and its buyer. *)
OpenComplete(s) ==
  LET u == BuyerOf(s) IN
  /\ sale[s] = "delivered" /\ closing[u] = Nobody
  /\ closing' = [closing EXCEPT ![u] = s]
  /\ points_seen' = [points_seen EXCEPT ![u] = points[u]]
  /\ UNCHANGED <<sale, points, awards, revenue, crossed, dueVars, stopping>>

ReferralKey_PerOrder(s) == [kind |-> "referral", of |-> s]

(* "referral:success:{user}:referrer:{referrer}" names no order. *)
ReferralKey(s) == [kind |-> "referral", of |-> Nobody]

(* The student's first completed order; the status of this one is flushed. *)
FirstPurchase(s) ==
  /\ s \notin InviterSales
  /\ \A x \in (Sales \ InviterSales) \ {s} : sale[x] # "completed"

(* finalize_order.  The buyer's points are those the session has loaded,   *)
(* although the order is locked; the inviter's row is locked and fresh.    *)
Finalize(u) ==
  LET s == closing[u]
      rewards == FirstPurchase(s) /\ ReferralKey(s) \notin awards
  IN /\ s # Nobody
     /\ closing' = [closing EXCEPT ![u] = Nobody]
     /\ points_seen' = [points_seen EXCEPT ![u] = 0]
     /\ sale' = [sale EXCEPT ![s] = "completed"]
     /\ revenue' = revenue \cup {s}
     /\ awards' = awards \cup {[kind |-> "buyer", of |-> s]}
                         \cup (IF rewards THEN {ReferralKey(s)} ELSE {})
     /\ points' = [x \in Students |->
          IF x = u THEN points_seen[u] + BuyerPoints
          ELSE IF rewards THEN points[x] + Reward ELSE points[x]]
     /\ crossed' = (crossed \/ (rewards /\ closing["inviter"] # Nobody))
     /\ UNCHANGED <<dueVars, stopping>>

-----------------------------------------------------------------------------
(* Collection of the revenue                                               *)

Sum(dues) == SumFunctionOnSet(due_amount, dues)

Earned == Net * Cardinality(revenue)
Asked == {d \in Dues : due[d] \notin {"none", "rejected"}}

(* What a request may ask for: all that was earned, less what is asked or  *)
(* confirmed already.                                                      *)
Collectable_OpenOnly ==
  LET open == Sum({d \in Asked : due[d] # "confirmed"})
  IN IF Earned > open THEN Earned - open ELSE 0

Collectable == IF Earned > Sum(Asked) THEN Earned - Sum(Asked) ELSE 0

Idle(a) == offered[a] = 0 /\ stopping[a] = {}

(* The handler that reads the amount sums the rows ...                     *)
OpenRequest(a) ==
  /\ Idle(a) /\ Collectable > 0
  /\ offered' = [offered EXCEPT ![a] = Collectable]
  /\ UNCHANGED <<saleVars, due, due_amount, receipts, uploading, outdated, raced,
                 revived, stopping>>

(* ... and creates the settlement.                                         *)
CreateDue(a, d, amount) ==
  /\ amount \in 1..offered[a] /\ due[d] = "none"
  /\ due' = [due EXCEPT ![d] = "notified"]
  /\ due_amount' = [due_amount EXCEPT ![d] = amount]
  /\ offered' = [offered EXCEPT ![a] = 0]
  /\ outdated' = (outdated \cup {x \in Admins : offered[x] > 0}) \ {a}
  /\ raced' = IF a \in outdated THEN raced \cup {d} ELSE raced
  /\ UNCHANGED <<saleVars, receipts, uploading, revived, stopping>>

(* The platform's handler loads the settlement; one that is confirmed      *)
(* takes no receipt.                                                       *)
OpenUpload(d) ==
  /\ due[d] \notin {"none", "confirmed"} /\ d \notin uploading
  /\ uploading' = uploading \cup {d}
  /\ UNCHANGED <<saleVars, due, due_amount, receipts, offered, outdated, raced,
                 revived, stopping>>

CountsAgain(d) == revived' = IF due[d] = "rejected" THEN revived \cup {d} ELSE revived

SubmitReceipt(d) ==
  /\ d \in uploading
  /\ uploading' = uploading \ {d}
  /\ receipts' = receipts \cup {d}
  /\ due' = [due EXCEPT ![d] = "proof_received"]
  /\ CountsAgain(d)
  /\ UNCHANGED <<saleVars, due_amount, offered, outdated, raced, stopping>>

(* The buttons under a receipt stay, and review asks for no status.        *)
ApproveDue(d) ==
  /\ d \in receipts
  /\ due' = [due EXCEPT ![d] = "confirmed"]
  /\ CountsAgain(d)
  /\ UNCHANGED <<saleVars, due_amount, receipts, uploading, offered, outdated, raced,
                 stopping>>

RejectDue(d) ==
  /\ d \in receipts
  /\ due' = [due EXCEPT ![d] = "rejected"]
  /\ UNCHANGED <<saleVars, due_amount, receipts, uploading, offered, outdated, raced,
                 revived, stopping>>

(* collection_ban loads the platform's open orders, a delivered one among  *)
(* them ...                                                                *)
OpenBan(a) ==
  /\ Idle(a) /\ \E d \in Dues : due[d] # "none"
  /\ \E s \in Sales : sale[s] = "delivered"
  /\ stopping' = [stopping EXCEPT ![a] = {s \in Sales : sale[s] = "delivered"}]
  /\ UNCHANGED <<saleVars, dueVars>>

(* ... and cancels them, whatever has become of them since.                *)
CommitBan(a) ==
  /\ stopping[a] # {}
  /\ sale' = [s \in Sales |-> IF s \in stopping[a] THEN "cancelled" ELSE sale[s]]
  /\ stopping' = [stopping EXCEPT ![a] = {}]
  /\ UNCHANGED <<closing, points_seen, points, awards, revenue, crossed, dueVars>>

CollectionsNext ==
  \/ \E s \in Sales : OpenComplete(s)
  \/ \E u \in Students : Finalize(u)
  \/ \E a \in Admins :
       \/ OpenRequest(a) \/ OpenBan(a) \/ CommitBan(a)
       \/ \E d \in Dues, amount \in 1..offered[a] : CreateDue(a, d, amount)
  \/ \E d \in Dues : OpenUpload(d) \/ SubmitReceipt(d) \/ ApproveDue(d) \/ RejectDue(d)

CollectionsSpec == CollectionsInit /\ [][CollectionsNext]_collectionVars

-----------------------------------------------------------------------------
(* Properties.                                                             *)

(* What a transaction is worth, and those a student was given.             *)
Worth == [k \in Awards |-> IF k.kind = "buyer" THEN BuyerPoints ELSE Reward]

Given(u) ==
  {k \in awards : IF k.kind = "buyer" THEN BuyerOf(k.of) = u ELSE u = "inviter"}

Awarded(u) == SumFunctionOnSet(Worth, Given(u))

(* The points of a student are those of the transactions, one for every    *)
(* completed order and one for an invitation, however completions and bans *)
(* cross; only a reward that arrives while the inviter completes an order  *)
(* may be overwritten.                                                     *)
PointsExplained ==
  /\ \A u \in Students : points[u] <= Awarded(u)
  /\ points["invited"] = Awarded("invited")
  /\ crossed \/ points["inviter"] = Awarded("inviter")
  /\ Cardinality({k \in awards : k.kind = "referral"}) <= 1
  /\ revenue = {k.of : k \in {x \in awards : x.kind = "buyer"}}

(* The message of collection_amount in admin/finance.py, line 513: no more *)
(* can be asked than the platform owes.  Beyond that lies only what a      *)
(* refused settlement asks again and what two requests at one time ask.    *)
AskedWithinRevenue == Sum(Asked) <= Earned + Sum(revived \cup raced)
=============================================================================
