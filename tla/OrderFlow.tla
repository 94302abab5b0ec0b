----------------------------- MODULE OrderFlow ------------------------------
(***************************************************************************)
(* Orders for inventory offers, from checkout to delivery: OrderService,   *)
(* PaymentService, FulfillmentService and the handlers, the webhook        *)
(* endpoint and the scheduler that call them.                              *)
(*                                                                         *)
(* An action is one database transaction.  The session factory runs with   *)
(* autoflush and expire_on_commit off and nothing asks for                 *)
(* populate_existing, so a row already loaded in a session is not          *)
(* refreshed by a later SELECT ... FOR UPDATE: a handler that loads the    *)
(* order first decides on what it loaded.  Where that matters the          *)
(* transaction is several actions here, its loads (OpenCancel, ReadStock,  *)
(* OpenProof, SweepLoad, SweepItem, CourierClaim) and its commit, and with *)
(* Overlap other transactions may commit in between.  The status of an     *)
(* inventory item is read without a lock and written at a later flush, so  *)
(* an item that is given back is given back by the copy that was read:     *)
(* whatever was committed since is overwritten.  confirm(), reject() and   *)
(* the gateway read the order for the first time under its row lock and    *)
(* are one action, but for a confirmation that comes too late, which reads *)
(* the item (ConfirmTooLate), answers the reviewer and commits             *)
(* (RefuseLate) while it keeps the order and its reservation locked.       *)
(* WebhookFulfill, Acknowledge, Complete and AskSupport also load before   *)
(* they decide but are taken as one step.                                  *)
(***************************************************************************)
EXTENDS Naturals, FiniteSets, Workflow

CONSTANTS
  Orders,       (* orders, each of its own student                         *)
  Items,        (* inventory items of the one offer                        *)
  None,         (* "no item", "no order"                                   *)
  MaxProofs,    (* bound: receipts a student uploads for one order         *)
  Overlap       (* may a transaction commit between a load and its commit? *)

ASSUME ConstantsAssumption ==
  /\ None \notin Orders \cup Items
  /\ MaxProofs \in Nat
  /\ Overlap \in BOOLEAN

VARIABLES
  status,          (* Order.status, "draft" before the order exists        *)
  reservation,     (* PurchaseReservation.status, "none" if there is none  *)
  item,            (* PurchaseReservation.inventory_item_id                *)
  lapsed,          (* has PurchaseReservation.expires_at passed?           *)
  inventory,       (* InventoryItem.status                                 *)
  reserved_order,  (* InventoryItem.reserved_order_id                      *)
  proof,           (* status of the latest PaymentProof of the order       *)
  proofs,          (* number of PaymentProof rows of the order             *)
  manual,          (* number of CONFIRMED Payment rows a reviewer made     *)
  card,            (* status of the gateway Payment row                    *)
  event,           (* PaymentWebhookEvent of the gateway's success notice  *)
  webhook,         (* webhook calls between payment commit and fulfilment  *)
  job,             (* DeliveryJob.status of job order:{id}:inventory       *)
  delivered_msg,   (* is NotificationLog order:{id}:delivery-message sent? *)
  acknowledged,    (* delivery_acknowledged_at is set                      *)
  desk,            (* the student's open handler on the order              *)
  copy,            (* what that handler has read of the order's stock      *)
  late,            (* the item's status read by a confirmation too late    *)
  sweep,           (* expire_reservations: the rows it has loaded          *)
  courier          (* process_next_delivery: the job it has claimed        *)

stockVars   == <<reservation, item, lapsed, inventory, reserved_order>>
moneyVars   == <<proof, proofs, manual, card, event, webhook>>
courierVars == <<job, delivered_msg, acknowledged, courier>>
deskVars    == <<desk, copy>>
vars == <<status, stockVars, moneyVars, courierVars, deskVars, late, sweep>>

ReservationStatus == {"none", "held", "confirmed", "released", "expired"}
InventoryStatus   == {"available", "reserved", "delivered"}
Idle == [order |-> None]

TypeOK ==
  /\ status \in [Orders -> OrderStatus]
  /\ reservation \in [Orders -> ReservationStatus]
  /\ item \in [Orders -> Items \cup {None}]
  /\ lapsed \in [Orders -> BOOLEAN]
  /\ inventory \in [Items -> InventoryStatus]
  /\ reserved_order \in [Items -> Orders \cup {None}]
  /\ proof \in [Orders -> {"none", "pending", "confirmed", "rejected"}]
  /\ proofs \in [Orders -> 0..MaxProofs]
  /\ manual \in [Orders -> Nat]
  /\ card \in [Orders -> {"none", "failed", "confirmed"}]
  /\ event \in [Orders -> {"none", "confirmed", "review_required"}]
  /\ webhook \subseteq Orders
  /\ job \in [Orders -> {"none", "pending", "processing", "sent", "failed"}]
  /\ delivered_msg \in [Orders -> BOOLEAN]
  /\ acknowledged \in [Orders -> BOOLEAN]
  /\ desk \in [Orders -> {"none", "cancel", "proof"}]
  /\ copy \in [Orders -> {"unread", "ended"} \cup InventoryStatus]
  /\ late \in [Orders -> {"none"} \cup InventoryStatus]
  /\ sweep \in {Idle} \cup [order : Orders, unpaid : BOOLEAN,
                            item : {"unread"} \cup InventoryStatus]
  /\ courier \in {Idle} \cup [order : Orders, seen : OrderStatus, item : InventoryStatus]

Init ==
  /\ status = [o \in Orders |-> "draft"]
  /\ reservation = [o \in Orders |-> "none"]
  /\ item = [o \in Orders |-> None]
  /\ lapsed = [o \in Orders |-> FALSE]
  /\ inventory = [i \in Items |-> "available"]
  /\ reserved_order = [i \in Items |-> None]
  /\ proof = [o \in Orders |-> "none"]
  /\ proofs = [o \in Orders |-> 0]
  /\ manual = [o \in Orders |-> 0]
  /\ card = [o \in Orders |-> "none"]
  /\ event = [o \in Orders |-> "none"]
  /\ webhook = {}
  /\ job = [o \in Orders |-> "none"]
  /\ delivered_msg = [o \in Orders |-> FALSE]
  /\ acknowledged = [o \in Orders |-> FALSE]
  /\ desk = [o \in Orders |-> "none"]
  /\ copy = [o \in Orders |-> "unread"]
  /\ late = [o \in Orders |-> "none"]
  /\ sweep = Idle
  /\ courier = Idle

-----------------------------------------------------------------------------
(* Helpers *)

\* The statuses in which the student may still pay, change method or cancel.
Unpaid == {"waiting_payment", "payment_rejected"}

\* A confirmed Payment row exists for the order.
Paid(o) == manual[o] > 0 \/ card[o] = "confirmed"

\* A reservation that keeps its item out of the shop.
Live(o) == reservation[o] \in {"held", "confirmed"}

SetStatus(o, new) == status' = [status EXCEPT ![o] = new]

\* May a transaction load its rows now?  Without Overlap only when no other one
\* stands between its load and its commit.
MayStart ==
  \/ Overlap
  \/ /\ sweep = Idle /\ courier = Idle
     /\ \A o \in Orders : desk[o] = "none" /\ late[o] = "none"

\* May the rows of the order be locked or written?  A confirmation that came
\* too late holds them until it commits.
Unlocked(o) == late[o] = "none"

\* The item of a reservation that ends goes back to the shop if the copy that
\* was read says that it is reserved.  Nothing asks whom it is reserved for, or
\* what became of it since it was read.
FreeItem(o, read) ==
  IF read = "reserved"
  THEN /\ inventory' = [inventory EXCEPT ![item[o]] = "available"]
       /\ reserved_order' = [reserved_order EXCEPT ![item[o]] = None]
  ELSE UNCHANGED <<inventory, reserved_order>>

\* Mutant of ReleaseReservation: the item is forgotten.
ReleaseReservation_KeepsItem(o) ==
  /\ reservation' = [reservation EXCEPT ![o] = IF copy[o] = "ended" THEN @ ELSE "released"]
  /\ UNCHANGED <<inventory, reserved_order>>

\* release_reservation: nothing happens to a reservation that had ended when it
\* was read.
ReleaseReservation(o) ==
  IF copy[o] = "ended"
  THEN UNCHANGED <<reservation, inventory, reserved_order>>
  ELSE /\ reservation' = [reservation EXCEPT ![o] = "released"]
       /\ FreeItem(o, copy[o])

\* Mutant of CanConfirm: neither the status nor the time is checked.
CanConfirm_Unchecked(o) == reservation[o] # "none"

\* confirm_reservation succeeds on a hold in time and on a confirmed one.
CanConfirm(o) == reservation[o] = "confirmed" \/ (reservation[o] = "held" /\ ~lapsed[o])

\* confirm_reservation and _enqueue_inventory_delivery.  A job that exists is
\* returned as it is, without a status change.
Fulfill(o) ==
  /\ CanConfirm(o)
  /\ reservation' = [reservation EXCEPT ![o] = "confirmed"]
  /\ \/ /\ job[o] = "none"
        /\ job' = [job EXCEPT ![o] = "pending"]
        /\ SetStatus(o, "waiting_fulfillment")
     \/ /\ job[o] # "none"
        /\ SetStatus(o, "paid")
        /\ UNCHANGED job
  /\ UNCHANGED <<inventory, reserved_order>>

-----------------------------------------------------------------------------
(* The student *)

\* Mutant of Create: the filter on AVAILABLE lets a reserved item through.
Create_TakesReserved(o, i) ==
  /\ MayStart
  /\ status[o] = "draft"
  /\ inventory[i] # "delivered"
  /\ SetStatus(o, "waiting_payment")
  /\ reservation' = [reservation EXCEPT ![o] = "held"]
  /\ item' = [item EXCEPT ![o] = i]
  /\ inventory' = [inventory EXCEPT ![i] = "reserved"]
  /\ reserved_order' = [reserved_order EXCEPT ![i] = o]
  /\ UNCHANGED <<lapsed, moneyVars, courierVars, deskVars, late, sweep>>

\* OrderService.create: any available item may be the one picked.
Create(o, i) ==
  /\ MayStart
  /\ status[o] = "draft"
  /\ inventory[i] = "available"
  /\ SetStatus(o, "waiting_payment")
  /\ reservation' = [reservation EXCEPT ![o] = "held"]
  /\ item' = [item EXCEPT ![o] = i]
  /\ inventory' = [inventory EXCEPT ![i] = "reserved"]
  /\ reserved_order' = [reserved_order EXCEPT ![i] = o]
  /\ UNCHANGED <<lapsed, moneyVars, courierVars, deskVars, late, sweep>>

\* The handler loads the order and finds it unpaid.  Events of one chat are
\* isolated, so a student has at most one handler running.
OpenCancel(o) ==
  /\ MayStart
  /\ desk[o] = "none"
  /\ status[o] \in Unpaid
  /\ desk' = [desk EXCEPT ![o] = "cancel"]
  /\ UNCHANGED <<status, stockVars, moneyVars, courierVars, copy, late, sweep>>

\* release_reservation reads the reservation and then its item, neither under
\* a lock; the two reads follow one another and are one step here.
ReadStock(o) ==
  /\ desk[o] = "cancel"
  /\ copy[o] = "unread"
  /\ copy' = [copy EXCEPT ![o] = IF Live(o) THEN inventory[item[o]] ELSE "ended"]
  /\ UNCHANGED <<status, stockVars, moneyVars, courierVars, desk, late, sweep>>

\* Mutant of Cancel: release_reservation is not called.
Cancel_KeepsReservation(o) ==
  /\ desk[o] = "cancel"
  /\ copy[o] # "unread"
  /\ Unlocked(o)
  /\ desk' = [desk EXCEPT ![o] = "none"]
  /\ copy' = [copy EXCEPT ![o] = "unread"]
  /\ SetStatus(o, "cancelled")
  /\ UNCHANGED <<stockVars, moneyVars, courierVars, late, sweep>>

\* The commit of cancel_order: the status check was made on the order loaded
\* by OpenCancel, the release on what ReadStock found.
Cancel(o) ==
  /\ desk[o] = "cancel"
  /\ copy[o] # "unread"
  /\ Unlocked(o)
  /\ desk' = [desk EXCEPT ![o] = "none"]
  /\ copy' = [copy EXCEPT ![o] = "unread"]
  /\ ReleaseReservation(o)
  /\ SetStatus(o, "cancelled")
  /\ UNCHANGED <<item, lapsed, moneyVars, courierVars, late, sweep>>

OpenProof(o) ==
  /\ MayStart
  /\ desk[o] = "none"
  /\ status[o] \in Unpaid
  /\ proofs[o] < MaxProofs
  /\ desk' = [desk EXCEPT ![o] = "proof"]
  /\ UNCHANGED <<status, stockVars, moneyVars, courierVars, copy, late, sweep>>

\* submit_proof: a pending receipt makes it raise; otherwise the receipt is
\* stored, a hold is extended (extend_reservation_for_review does not ask
\* whether it had lapsed) and the order goes to review.
SubmitProof(o) ==
  /\ desk[o] = "proof"
  /\ Unlocked(o)
  /\ desk' = [desk EXCEPT ![o] = "none"]
  /\ \/ /\ proof[o] = "pending"
        /\ UNCHANGED <<status, stockVars, moneyVars>>
     \/ /\ proof[o] # "pending"
        /\ proof' = [proof EXCEPT ![o] = "pending"]
        /\ proofs' = [proofs EXCEPT ![o] = @ + 1]
        /\ lapsed' = [lapsed EXCEPT ![o] = @ /\ reservation[o] # "held"]
        /\ SetStatus(o, "payment_review")
        /\ UNCHANGED <<reservation, item, inventory, reserved_order>>
        /\ UNCHANGED <<manual, card, event, webhook>>
  /\ UNCHANGED <<courierVars, copy, late, sweep>>

Acknowledge(o) ==
  /\ MayStart
  /\ Unlocked(o)
  /\ desk[o] = "none"
  /\ status[o] \in {"delivered", "completed"}
  /\ ~acknowledged[o]
  /\ acknowledged' = [acknowledged EXCEPT ![o] = TRUE]
  /\ UNCHANGED <<status, stockVars, moneyVars, job, delivered_msg, courier, deskVars, late, sweep>>

\* complete_order: confirm_activation, then finalize_order.
Complete(o) ==
  /\ MayStart
  /\ Unlocked(o)
  /\ desk[o] = "none"
  /\ status[o] = "delivered"
  /\ acknowledged[o]
  /\ SetStatus(o, "completed")
  /\ UNCHANGED <<stockVars, moneyVars, courierVars, deskVars, late, sweep>>

\* order_problem_reason and DirectSupportService.open: the order is moved to
\* support from every status the workflow lets it.
AskSupport(o) ==
  /\ MayStart
  /\ Unlocked(o)
  /\ desk[o] = "none"
  /\ status[o] # "needs_support"
  /\ CanMove(status[o], "needs_support")
  /\ SetStatus(o, "needs_support")
  /\ UNCHANGED <<stockVars, moneyVars, courierVars, deskVars, late, sweep>>

-----------------------------------------------------------------------------
(* The reviewer: the order is read for the first time under its row lock *)

\* Mutant of RecordPayment: the receipt stays pending.
RecordPayment_KeepsPending(o) ==
  /\ manual' = [manual EXCEPT ![o] = @ + 1]
  /\ UNCHANGED proof

\* confirm(): the latest receipt is decided and a Payment row is made of it.
RecordPayment(o) ==
  /\ proof' = [proof EXCEPT ![o] = "confirmed"]
  /\ manual' = [manual EXCEPT ![o] = @ + 1]

\* confirm() accepts a paid order again, and an order whose receipt it decides.
Decide(o) ==
  \/ /\ status[o] = "paid"
     /\ Paid(o)
     /\ UNCHANGED <<proof, manual>>
  \/ /\ status[o] = "payment_review"
     /\ proof[o] # "none"
     /\ RecordPayment(o)

\* review_confirm_final: confirm() and fulfill() share the transaction.
ConfirmProof(o) ==
  /\ MayStart
  /\ Unlocked(o)
  /\ Decide(o)
  /\ Fulfill(o)
  /\ UNCHANGED <<item, lapsed, proofs, card, event, webhook>>
  /\ UNCHANGED <<delivered_msg, acknowledged, courier, deskVars, late, sweep>>

\* The reservation can no longer be confirmed: confirm_reservation reads the
\* item without a lock.  The order and the reservation stay locked.
ConfirmTooLate(o) ==
  /\ MayStart
  /\ Unlocked(o)
  /\ \/ status[o] = "paid" /\ Paid(o)
     \/ status[o] = "payment_review" /\ proof[o] # "none"
  /\ ~CanConfirm(o)
  /\ late' = [late EXCEPT ![o] = inventory[item[o]]]
  /\ UNCHANGED <<status, stockVars, moneyVars, courierVars, deskVars, sweep>>

\* The handler catches fulfill()'s error and answers the reviewer, so that the
\* payment is committed, and the item given back as it was read.
RefuseLate(o) ==
  /\ late[o] # "none"
  /\ late' = [late EXCEPT ![o] = "none"]
  /\ Decide(o)
  /\ reservation' = [reservation EXCEPT ![o] = "expired"]
  /\ FreeItem(o, late[o])
  /\ SetStatus(o, "paid")
  /\ UNCHANGED <<item, lapsed, proofs, card, event, webhook>>
  /\ UNCHANGED <<courierVars, deskVars, sweep>>

\* reject(): the latest receipt is refused; the student may pay again.
RejectProof(o) ==
  /\ MayStart
  /\ Unlocked(o)
  /\ status[o] = "payment_review"
  /\ proof' = [proof EXCEPT ![o] = "rejected"]
  /\ SetStatus(o, "payment_rejected")
  /\ UNCHANGED <<stockVars, proofs, manual, card, event, webhook>>
  /\ UNCHANGED <<courierVars, deskVars, late, sweep>>

-----------------------------------------------------------------------------
(* The card gateway *)

\* process_gateway_notification, first delivery of a success notice: the
\* payment is always recorded; a finished order asks for review, an open one
\* becomes PAID.  From any other status the move to PAID raises, the whole
\* transaction rolls back and the endpoint answers with an error.
CardSuccess(o) ==
  /\ MayStart
  /\ Unlocked(o)
  /\ status[o] # "draft"
  /\ event[o] = "none"
  /\ card' = [card EXCEPT ![o] = "confirmed"]
  /\ \/ /\ status[o] \in {"cancelled", "refunded", "completed"}
        /\ event' = [event EXCEPT ![o] = "review_required"]
        /\ UNCHANGED <<status, webhook>>
     \/ /\ CanMove(status[o], "paid")
        /\ event' = [event EXCEPT ![o] = "confirmed"]
        /\ webhook' = webhook \cup {o}
        /\ SetStatus(o, "paid")
  /\ UNCHANGED <<stockVars, proof, proofs, manual, courierVars, deskVars, late, sweep>>

\* A duplicate of a confirmed event changes no row but resumes fulfilment.
CardDuplicate(o) ==
  /\ MayStart
  /\ Unlocked(o)
  /\ event[o] = "confirmed"
  /\ webhook' = webhook \cup {o}
  /\ UNCHANGED <<status, stockVars, proof, proofs, manual, card, event>>
  /\ UNCHANGED <<courierVars, deskVars, late, sweep>>

\* Mutant of CardFailure: the notice is taken for a success.
CardFailure_MarksPaid(o) ==
  /\ MayStart
  /\ Unlocked(o)
  /\ CanMove(status[o], "paid")
  /\ card[o] = "none"
  /\ card' = [card EXCEPT ![o] = "failed"]
  /\ webhook' = webhook \cup {o}
  /\ SetStatus(o, "paid")
  /\ UNCHANGED <<stockVars, proof, proofs, manual, event, courierVars, deskVars, late, sweep>>

\* Mutant of CardFailure: a confirmed payment is overwritten.
CardFailure_Overwrites(o) ==
  /\ MayStart
  /\ Unlocked(o)
  /\ status[o] # "draft"
  /\ card' = [card EXCEPT ![o] = "failed"]
  /\ UNCHANGED <<status, stockVars, proof, proofs, manual, event, webhook>>
  /\ UNCHANGED <<courierVars, deskVars, late, sweep>>

\* A failure notice never overwrites a confirmed payment, and the order stays
\* as it is.
CardFailure(o) ==
  /\ MayStart
  /\ Unlocked(o)
  /\ status[o] # "draft"
  /\ card[o] = "none"
  /\ card' = [card EXCEPT ![o] = "failed"]
  /\ UNCHANGED <<status, stockVars, proof, proofs, manual, event, webhook>>
  /\ UNCHANGED <<courierVars, deskVars, late, sweep>>

\* The second transaction of the endpoint.  When the reservation cannot be
\* confirmed it rolls back and a third one moves the order to support.
WebhookFulfill(o) ==
  /\ MayStart
  /\ Unlocked(o)
  /\ o \in webhook
  /\ webhook' = webhook \ {o}
  /\ \/ /\ status[o] # "paid"
        /\ UNCHANGED <<status, job, reservation, inventory, reserved_order>>
     \/ /\ status[o] = "paid"
        /\ Fulfill(o)
     \/ /\ status[o] = "paid"
        /\ ~CanConfirm(o)
        /\ SetStatus(o, "needs_support")
        /\ UNCHANGED <<job, reservation, inventory, reserved_order>>
  /\ UNCHANGED <<item, lapsed, proof, proofs, manual, card, event>>
  /\ UNCHANGED <<delivered_msg, acknowledged, courier, deskVars, late, sweep>>

\* The process dies between the two transactions.
WebhookCrash(o) ==
  /\ MayStart
  /\ o \in webhook
  /\ webhook' = webhook \ {o}
  /\ UNCHANGED <<status, stockVars, proof, proofs, manual, card, event>>
  /\ UNCHANGED <<courierVars, deskVars, late, sweep>>

-----------------------------------------------------------------------------
(* The scheduler *)

\* The clock passes expires_at of a hold.
Lapse(o) ==
  /\ MayStart
  /\ reservation[o] = "held"
  /\ ~lapsed[o]
  /\ lapsed' = [lapsed EXCEPT ![o] = TRUE]
  /\ UNCHANGED <<status, reservation, item, inventory, reserved_order>>
  /\ UNCHANGED <<moneyVars, courierVars, deskVars, late, sweep>>

\* Mutant of SweepLoad: orders under review are skipped.
SweepLoad_UnpaidOnly(o) ==
  /\ MayStart
  /\ sweep = Idle
  /\ reservation[o] = "held"
  /\ lapsed[o]
  /\ status[o] \in Unpaid
  /\ sweep' = [order |-> o, unpaid |-> TRUE, item |-> "unread"]
  /\ UNCHANGED <<status, stockVars, moneyVars, courierVars, deskVars, late>>

\* expire_reservations reads a lapsed hold and its order, without locks.
SweepLoad(o) ==
  /\ MayStart
  /\ sweep = Idle
  /\ reservation[o] = "held"
  /\ lapsed[o]
  /\ sweep' = [order |-> o, unpaid |-> status[o] \in Unpaid, item |-> "unread"]
  /\ UNCHANGED <<status, stockVars, moneyVars, courierVars, deskVars, late>>

\* It then reads the item, also without a lock.
SweepItem(o) ==
  /\ sweep # Idle
  /\ sweep.order = o
  /\ sweep.item = "unread"
  /\ sweep' = [sweep EXCEPT !.item = inventory[item[o]]]
  /\ UNCHANGED <<status, stockVars, moneyVars, courierVars, deskVars, late>>

\* At the flush it cancels the order if it was unpaid when loaded, gives the
\* item back as it was read, and ends the hold in every case.
SweepCommit(o) ==
  /\ sweep # Idle
  /\ sweep.order = o
  /\ sweep.item # "unread"
  /\ Unlocked(o)
  /\ sweep' = Idle
  /\ IF sweep.unpaid THEN SetStatus(o, "cancelled") ELSE UNCHANGED status
  /\ FreeItem(o, sweep.item)
  /\ reservation' = [reservation EXCEPT ![o] = "expired"]
  /\ UNCHANGED <<item, lapsed, moneyVars, courierVars, deskVars, late>>

\* process_next_delivery claims a job, commits, and loads the order and the
\* item.  A job left in "processing" is claimed again once its lease is over.
CourierClaim(o) ==
  /\ MayStart
  /\ courier = Idle
  /\ job[o] \in {"pending", "processing"}
  /\ job' = [job EXCEPT ![o] = "processing"]
  /\ courier' = [order |-> o, seen |-> status[o], item |-> inventory[item[o]]]
  /\ UNCHANGED <<status, stockVars, moneyVars, delivered_msg, acknowledged, deskVars, late, sweep>>

\* send_user under the key order:{id}:delivery-message, then commit: a message
\* already marked as sent is not sent again.
CourierSend(o) ==
  /\ courier # Idle
  /\ courier.order = o
  /\ ~delivered_msg[o]
  /\ delivered_msg' = [delivered_msg EXCEPT ![o] = TRUE]
  /\ UNCHANGED <<status, stockVars, moneyVars, job, acknowledged, courier, deskVars, late, sweep>>

\* The final transaction.  change_status compares with the status loaded by
\* the claim and overwrites whatever the row holds now, and an item that was
\* loaded as delivered is not written again.
CourierFinish(o) ==
  /\ courier # Idle
  /\ courier.order = o
  /\ Unlocked(o)
  /\ delivered_msg[o]
  /\ CanMove(courier.seen, "delivered")
  /\ courier' = Idle
  /\ job' = [job EXCEPT ![o] = "sent"]
  /\ inventory' = [inventory EXCEPT ![item[o]] =
                      IF courier.item = "delivered" THEN @ ELSE "delivered"]
  /\ IF courier.seen = "delivered" THEN UNCHANGED status ELSE SetStatus(o, "delivered")
  /\ UNCHANGED <<reservation, item, lapsed, reserved_order, moneyVars>>
  /\ UNCHANGED <<delivered_msg, acknowledged, deskVars, late, sweep>>

\* Telegram refused the message: the job waits for a retry, or fails for good
\* and the order goes to support.
CourierRetry(o) ==
  /\ courier # Idle
  /\ courier.order = o
  /\ Unlocked(o)
  /\ ~delivered_msg[o]
  /\ courier' = Idle
  /\ \/ /\ job' = [job EXCEPT ![o] = "pending"]
        /\ UNCHANGED status
     \/ /\ CanMove(courier.seen, "needs_support")
        /\ job' = [job EXCEPT ![o] = "failed"]
        /\ IF courier.seen = "needs_support"
           THEN UNCHANGED status
           ELSE SetStatus(o, "needs_support")
  /\ UNCHANGED <<stockVars, moneyVars, delivered_msg, acknowledged, deskVars, late, sweep>>

\* The worker dies, or the final transaction raises and rolls back: the job
\* stays in "processing" until its lease is over.
CourierCrash ==
  /\ courier # Idle
  /\ courier' = Idle
  /\ UNCHANGED <<status, stockVars, moneyVars, job, delivered_msg, acknowledged>>
  /\ UNCHANGED <<deskVars, late, sweep>>

-----------------------------------------------------------------------------

\* Steps that finish a transaction that has loaded its rows.
CommitStep(o) ==
  \/ ReadStock(o) \/ Cancel(o) \/ SubmitProof(o)
  \/ RefuseLate(o)
  \/ SweepItem(o) \/ SweepCommit(o)
  \/ CourierSend(o) \/ CourierFinish(o) \/ CourierRetry(o)

\* Steps that start a transaction, or are a whole one.
StartStep(o) ==
  \/ \E i \in Items : Create(o, i)
  \/ OpenCancel(o) \/ OpenProof(o)
  \/ Acknowledge(o) \/ Complete(o) \/ AskSupport(o)
  \/ ConfirmProof(o) \/ ConfirmTooLate(o) \/ RejectProof(o)
  \/ CardSuccess(o) \/ CardDuplicate(o) \/ CardFailure(o)
  \/ WebhookFulfill(o) \/ WebhookCrash(o)
  \/ Lapse(o)
  \/ SweepLoad(o)
  \/ CourierClaim(o)

Next ==
  \/ \E o \in Orders : CommitStep(o) \/ StartStep(o)
  \/ CourierCrash

Spec == Init /\ [][Next]_vars

\* A transaction that has loaded its rows ends, and every scheduler cycle visits
\* all the lapsed holds it finds.
FairSpec ==
  /\ Spec
  /\ WF_vars(\E o \in Orders : CommitStep(o) \/ CourierCrash)
  /\ \A o \in Orders : /\ SF_vars(SweepLoad(o))
                       /\ WF_vars(SweepItem(o)) /\ WF_vars(SweepCommit(o))
                       /\ WF_vars(RefuseLate(o))

-----------------------------------------------------------------------------
(* What is proved or checked *)

\* No stock is lost: an item that is kept out of the shop is kept for an order
\* whose reservation of that very item is still live.  Whatever ends a
\* reservation (cancel_order, expire_reservations, a confirmation that comes
\* too late) must have given the item back.
StockOwned ==
  \A i \in Items : inventory[i] = "reserved" =>
    \E o \in Orders : /\ reserved_order[i] = o
                      /\ item[o] = i
                      /\ Live(o)

\* Goods are sent only for an order with a confirmed payment, on every path
\* that fulfils: reviewer, webhook, duplicate webhook, a retried press.
PaidBeforeGoods == \A o \in Orders : delivered_msg[o] => Paid(o)

\* A receipt is decided once: an order under review has a receipt that nobody
\* decided, and confirm() never makes two Payment rows of one receipt.
ReceiptDecidedOnce ==
  \A o \in Orders :
    /\ status[o] = "payment_review" => proof[o] = "pending"
    /\ manual[o] + (IF proof[o] = "pending" THEN 1 ELSE 0) <= proofs[o]

\* An order that ended as cancelled holds no stock, also when a payment was
\* confirming its reservation while cancel_order or the sweep was running.
CancelledHoldsNothing ==
  \A o \in Orders : status[o] = "cancelled" => ~Live(o)

\* Stock comes back only through the end of a reservation, whatever copies of
\* the item late cancels, sweeps and confirmations still hold: an item that is
\* in the shop again, or was given to a second order, had a reservation that
\* has ended, so that create() never picks an item under a live reservation
\* alone.
ReturnedThroughAnEnd ==
  \A i \in Items :
    LET had    == {o \in Orders : item[o] = i}
        inShop == inventory[i] = "available"
    IN  (inShop /\ had # {}) \/ (\E o, p \in had : o # p) => \E o \in had : ~Live(o)

\* A reservation that gave its item back is never live again: no late receipt,
\* review or webhook revives it.
EndedStaysEnded ==
  [][\A o \in Orders : reservation[o] \in {"released", "expired"} =>
        reservation'[o] \in {"released", "expired"}]_vars

\* The order flow keeps the contract of SaleContract: confirm() and
\* process_gateway_notification receive money, process_next_delivery hands
\* over, each at most once and in this order.
Contract == INSTANCE SaleContract WITH
  paid   <- {o \in Orders : Paid(o)},
  handed <- {o \in Orders : delivered_msg[o]}

ContractSpec == Contract!Spec

\* A hold whose time is over does not keep its item for ever: it is extended
\* by a receipt, confirmed by a payment or ended by expire_reservations.
LapsedHoldEnds ==
  \A o \in Orders : (reservation[o] = "held" /\ lapsed[o]) ~>
                      ~(reservation[o] = "held" /\ lapsed[o])

-----------------------------------------------------------------------------
(* What the documents say and the code does not keep *)

\* The reservation prevents a double sale: no two students are sent the same
\* item of the stock (_reserve_inventory, confirm_reservation).
NoDoubleSale ==
  \A o, p \in Orders : o # p /\ delivered_msg[o] /\ delivered_msg[p] => item[o] # item[p]

\* change_status refuses every move that the workflow table does not list, so
\* the row never makes one.
LegalStatusSteps == [][\A o \in Orders : CanMove(status[o], status'[o])]_status

=============================================================================
