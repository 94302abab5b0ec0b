--------------------------- MODULE DeliveryOutbox ---------------------------
(***************************************************************************)
(* One delivery job and several couriers: FulfillmentService's             *)
(* process_next_delivery in two replicas, with NotificationService's       *)
(* send_user.  OrderFlow has the same job with one courier and all that    *)
(* happens around it; here the lease, the notification row that proves the *)
(* message and the message itself are apart.                               *)
(*                                                                         *)
(* The first attempt inserts the notification under its unique key before  *)
(* it sends, so a second courier waits for the first one's transaction.  A *)
(* row left by a failed attempt is only updated: nothing holds back two    *)
(* couriers then.                                                          *)
(***************************************************************************)
EXTENDS Naturals, FiniteSets, Owners

CONSTANTS
  Couriers,
  DeliveryAttempts,  (* delivery_max_attempts                               *)
  MaxCrashes,        (* bound: crashes                                      *)
  MaxOverlong        (* bound: leases that lapse under a live courier       *)

ASSUME OutboxAssumption ==
  /\ DeliveryAttempts \in Nat \ {0}
  /\ MaxCrashes \in Nat
  /\ MaxOverlong \in Nat
  /\ IsFiniteSet(Couriers) /\ Nobody \notin Couriers

VARIABLES
  delivery,          (* DeliveryJob.status                                  *)
  delivery_attempts, (* DeliveryJob.attempts, counted to DeliveryAttempts   *)
  delivery_lapsed,   (* has the lease of the processing job passed?         *)
  note,              (* Notification.delivery_status, as committed          *)
  inserter,          (* who has inserted that row and not committed yet     *)
  order_status,      (* Order.status                                        *)
  guide_read,        (* acknowledged: the student has read the instructions *)
  courier,           (* where each courier is                               *)
  mine,              (* the attempts each courier saw when it claimed       *)
  messages,          (* deliveries the student received                     *)
  refusals,          (* sends that raised, with or without a message        *)
  lost_replies,      (* those whose message Telegram had accepted           *)
  crashes, overlong

outboxFaults == <<refusals, lost_replies, crashes, overlong>>
outboxVars == <<delivery, delivery_attempts, delivery_lapsed, note, inserter,
                order_status, guide_read, courier, mine, messages, outboxFaults>>

OutboxTypeOK ==
  /\ delivery \in {"pending", "processing", "sent", "failed"}
  /\ delivery_attempts \in 0..DeliveryAttempts
  /\ delivery_lapsed \in BOOLEAN
  /\ note \in {"none", "failed", "sent"}
  /\ inserter \in Couriers \cup {Nobody}
  /\ order_status \in {"waiting_fulfillment", "delivered", "needs_support"}
  /\ guide_read \in BOOLEAN
  /\ courier \in [Couriers -> {"idle", "claimed", "insert", "send", "sent", "proved"}]
  /\ mine \in [Couriers -> 0..DeliveryAttempts]
  /\ messages \in Nat
  /\ refusals \in Nat /\ lost_replies \in Nat
  /\ crashes \in 0..MaxCrashes
  /\ overlong \in 0..MaxOverlong

OutboxInit ==
  /\ delivery = "pending" /\ delivery_attempts = 0 /\ delivery_lapsed = FALSE
  /\ note = "none" /\ inserter = Nobody
  /\ order_status = "waiting_fulfillment"
  /\ guide_read \in BOOLEAN      (* TRUE also for an offer without a guide *)
  /\ courier = [c \in Couriers |-> "idle"]
  /\ mine = [c \in Couriers |-> 0]
  /\ messages = 0
  /\ refusals = 0 /\ lost_replies = 0 /\ crashes = 0 /\ overlong = 0

-----------------------------------------------------------------------------
CourierMoves(c, from, to) == courier[c] = from /\ courier' = [courier EXCEPT ![c] = to]

(* Every claim counts as an attempt, also one that ends in PutBack. *)
ClaimDelivery(c) ==
  /\ delivery = "pending" \/ (delivery = "processing" /\ delivery_lapsed)
  /\ CourierMoves(c, "idle", "claimed")
  /\ delivery' = "processing"
  /\ delivery_attempts' =
       IF delivery_attempts < DeliveryAttempts THEN delivery_attempts + 1 ELSE delivery_attempts
  /\ mine' = [mine EXCEPT ![c] = delivery_attempts']
  /\ delivery_lapsed' = FALSE
  /\ UNCHANGED <<note, inserter, order_status, guide_read, messages, outboxFaults>>

(* The instructions are not acknowledged yet: the job waits, whoever has   *)
(* claimed it meanwhile.                                                   *)
PutBack(c) ==
  /\ ~guide_read
  /\ CourierMoves(c, "claimed", "idle")
  /\ delivery' = "pending"
  /\ delivery_lapsed' = FALSE
  /\ UNCHANGED <<delivery_attempts, note, inserter, order_status, guide_read, mine,
                 messages, outboxFaults>>

AcknowledgeGuide ==
  /\ ~guide_read
  /\ guide_read' = TRUE
  /\ UNCHANGED <<delivery, delivery_attempts, delivery_lapsed, note, inserter,
                 order_status, courier, mine, messages, outboxFaults>>

LookUp_IgnoresProof(c) ==
  /\ guide_read
  /\ CourierMoves(c, "claimed", IF note = "none" THEN "insert" ELSE "send")
  /\ UNCHANGED <<delivery, delivery_attempts, delivery_lapsed, note, inserter, order_status,
                 guide_read, mine, messages, outboxFaults>>

(* send_user looks for the row of its key: a message that is proved is not *)
(* sent again.                                                             *)
LookUp(c) ==
  /\ guide_read
  /\ CourierMoves(c, "claimed", CASE note = "none" -> "insert"
                           [] note = "failed" -> "send"
                           [] note = "sent" -> "proved")
  /\ UNCHANGED <<delivery, delivery_attempts, delivery_lapsed, note, inserter,
                 order_status, guide_read, mine,
                 messages, outboxFaults>>

(* The insert waits for another one's transaction.  When that has left a   *)
(* row the unique key refuses this one and the cycle is abandoned.         *)
InsertRow(c) ==
  /\ inserter = Nobody
  /\ \/ /\ note = "none"
        /\ CourierMoves(c, "insert", "send")
        /\ inserter' = c
     \/ /\ note # "none"
        /\ CourierMoves(c, "insert", "idle")
        /\ UNCHANGED inserter
  /\ UNCHANGED <<delivery, delivery_attempts, delivery_lapsed, note, order_status,
                 guide_read, mine, messages, outboxFaults>>

(* Telegram accepts the message; its reply is still to come. *)
Send(c) ==
  /\ CourierMoves(c, "send", "sent")
  /\ messages' = messages + 1
  /\ UNCHANGED <<delivery, delivery_attempts, delivery_lapsed, note, inserter,
                 order_status, guide_read, mine, outboxFaults>>

Unlock(c) == inserter' = IF inserter = c THEN Nobody ELSE inserter

(* The call raises: the row stays as a failed one, the job is retried, or  *)
(* fails for good and the order goes to support.                           *)
SendFails(c, at) ==
  /\ CourierMoves(c, at, "idle")
  /\ note' = IF inserter = c THEN "failed" ELSE note
  /\ Unlock(c)
  /\ IF mine[c] >= DeliveryAttempts
     THEN delivery' = "failed" /\ order_status' = "needs_support"
     ELSE delivery' = "pending" /\ UNCHANGED order_status
  /\ delivery_lapsed' = FALSE
  /\ refusals' = refusals + 1
  /\ UNCHANGED <<delivery_attempts, guide_read, mine, messages, crashes, overlong>>

(* Telegram refuses, or cannot be reached. *)
SendRefused(c) == SendFails(c, "send") /\ UNCHANGED lost_replies

(* send_user catches every exception, also a timeout that comes after      *)
(* Telegram has accepted the message: to the code that is a refusal.       *)
ReplyLost(c) == SendFails(c, "sent") /\ lost_replies' = lost_replies + 1

(* The commit that proves that Telegram took the message. *)
CommitProof(c) ==
  /\ CourierMoves(c, "sent", "proved")
  /\ note' = "sent"
  /\ Unlock(c)
  /\ UNCHANGED <<delivery, delivery_attempts, delivery_lapsed, order_status,
                 guide_read, mine, messages, outboxFaults>>

FinishDelivery(c) ==
  /\ CourierMoves(c, "proved", "idle")
  /\ delivery' = "sent"
  /\ delivery_lapsed' = FALSE
  /\ order_status' = "delivered"
  /\ UNCHANGED <<delivery_attempts, note, inserter, guide_read, mine, messages,
                 outboxFaults>>

CourierCrash(c) ==
  /\ crashes < MaxCrashes
  /\ courier[c] # "idle"
  /\ courier' = [courier EXCEPT ![c] = "idle"]
  /\ Unlock(c)
  /\ crashes' = crashes + 1
  /\ UNCHANGED <<delivery, delivery_attempts, delivery_lapsed, note, order_status,
                 guide_read, mine, messages,
                 refusals, lost_replies, overlong>>

DeliveryAbandoned == \A c \in Couriers : courier[c] = "idle"

DeliveryLeaseLapses ==
  /\ delivery = "processing" /\ ~delivery_lapsed
  /\ delivery_lapsed' = TRUE
  /\ \/ DeliveryAbandoned /\ UNCHANGED overlong
     \/ ~DeliveryAbandoned /\ overlong < MaxOverlong /\ overlong' = overlong + 1
  /\ UNCHANGED <<delivery, delivery_attempts, note, inserter, order_status,
                 guide_read, courier, mine, messages,
                 refusals, lost_replies, crashes>>

Courier(c) ==
  \/ ClaimDelivery(c) \/ PutBack(c) \/ LookUp(c) \/ InsertRow(c)
  \/ Send(c) \/ SendRefused(c) \/ ReplyLost(c) \/ CommitProof(c) \/ FinishDelivery(c)

OutboxNext ==
  \/ \E c \in Couriers : Courier(c) \/ CourierCrash(c)
  \/ DeliveryLeaseLapses
  \/ AcknowledgeGuide

OutboxSpec == OutboxInit /\ [][OutboxNext]_outboxVars

-----------------------------------------------------------------------------
(* Properties.                                                             *)

(* The account data reach the student once, but for the three ways the     *)
(* code leaves open: a crash between the message and its proof, a send     *)
(* that raises although Telegram has accepted it, and couriers whose       *)
(* leases overlap after a failed attempt has left a row to update.         *)
(* Overlapping leases alone send nothing twice: the insert serialises.     *)
SentOnce ==
  messages <= 1 + crashes + lost_replies + IF refusals = 0 THEN 0 ELSE overlong

(* Once the student has read the instructions, the job is sent or handed   *)
(* to support, whatever crashes and refusals come between.                 *)
EventuallyShipped == guide_read ~> delivery \in {"sent", "failed"}
=============================================================================
