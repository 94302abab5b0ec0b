-------------------------- MODULE Replicas_proofs ---------------------------
(***************************************************************************)
(* Theorems about the parts of MCReplicas, for every value of their        *)
(* constants, and about their composition.  The theorems about the update  *)
(* inbox are in UpdateInbox_proofs.                                        *)
(***************************************************************************)
EXTENDS MCReplicas, UpdateInbox_proofs

-----------------------------------------------------------------------------
(* DeliveryOutbox                                                           *)

(* A first send holds the row it inserted until it commits; a send without *)
(* an insert is of a row that an earlier attempt left.                     *)
LockInv ==
  /\ inserter # Nobody => note = "none" /\ courier[inserter] \in {"send", "sent"}
  /\ \A c \in Couriers : courier[c] \in {"send", "sent"} => inserter = c \/ note # "none"

(* A proof is of a message, and a job is finished on a proof.              *)
ProofInv ==
  /\ \A c \in Couriers : courier[c] = "sent" => messages > 0
  /\ \A c \in Couriers : courier[c] = "proved" => note = "sent"
  /\ note = "sent" => messages > 0

(* "Persist proof that Telegram accepted the sensitive delivery before     *)
(* changing inventory/order state": delivered orders have their proof,     *)
(* also when a courier that lost its lease comes late.                     *)
DeliveredIsProved ==
  order_status = "delivered" \/ delivery = "sent" => note = "sent" /\ messages > 0

(* Those who may still send, and whether another may join them without a   *)
(* fault that was not counted yet.                                         *)
Sending == {c \in Couriers : courier[c] \in {"claimed", "insert", "send"}}

MayJoin ==
  \/ delivery = "pending"
  \/ delivery = "processing" /\ (delivery_lapsed \/ DeliveryAbandoned)

(* The messages sent and those that can still be sent.                     *)
Budget ==
  messages + Cardinality(Sending) + (IF MayJoin THEN 1 ELSE 0)
    <= 1 + crashes + lost_replies + overlong

(* As long as no attempt failed every sender is the inserter, and only     *)
(* its crash leaves a message without a proof.                             *)
FirstAttempt ==
  refusals = 0 =>
    /\ note # "failed"
    /\ \A c \in Couriers : courier[c] \in {"send", "sent"} => inserter = c
    /\ messages <= crashes +
         (IF note = "sent" \/ \E c \in Couriers : courier[c] = "sent" THEN 1 ELSE 0)

OutboxInv ==
  OutboxTypeOK /\ LockInv /\ ProofInv /\ DeliveredIsProved /\ Budget /\ FirstAttempt

-----------------------------------------------------------------------------
LEMMA OutboxInitially == OutboxInit => OutboxInv
<1> SUFFICES ASSUME OutboxInit PROVE OutboxInv
  OBVIOUS
<1> USE OutboxAssumption
<1>1. courier = [c \in Couriers |-> "idle"] /\ mine = [c \in Couriers |-> 0]
  BY DEF OutboxInit
<1>2. OutboxTypeOK
  <2>1. courier \in [Couriers -> {"idle", "claimed", "insert", "send", "sent", "proved"}]
    BY <1>1
  <2>2. mine \in [Couriers -> 0..DeliveryAttempts]
    BY <1>1
  <2>3. delivery_lapsed \in BOOLEAN /\ guide_read \in BOOLEAN
    BY DEF OutboxInit
  <2>4. /\ messages \in Nat /\ refusals \in Nat /\ lost_replies \in Nat
        /\ crashes \in 0..MaxCrashes /\ overlong \in 0..MaxOverlong
        /\ delivery_attempts \in 0..DeliveryAttempts
    BY DEF OutboxInit
  <2> QED BY <2>1, <2>2, <2>3, <2>4 DEF OutboxInit, OutboxTypeOK
<1>3. LockInv /\ ProofInv /\ DeliveredIsProved /\ FirstAttempt
  BY <1>1 DEF OutboxInit, LockInv, ProofInv, DeliveredIsProved, FirstAttempt
<1>4. Budget
  <2>1. Sending = {}
    BY <1>1 DEF Sending
  <2>2. Cardinality(Sending) = 0
    BY <2>1, FS_EmptySet
  <2> QED BY <2>2 DEF Budget, OutboxInit
<1> QED BY <1>2, <1>3, <1>4 DEF OutboxInv

LEMMA OutboxTypeStep == OutboxTypeOK /\ [OutboxNext]_outboxVars => OutboxTypeOK'
<1> SUFFICES ASSUME OutboxTypeOK, [OutboxNext]_outboxVars PROVE OutboxTypeOK'
  OBVIOUS
<1> USE OutboxAssumption DEF OutboxTypeOK, outboxFaults
<1>1. ASSUME NEW c \in Couriers, ClaimDelivery(c) PROVE OutboxTypeOK'
  <2>1. delivery_attempts' \in 0..DeliveryAttempts
    BY <1>1 DEF ClaimDelivery
  <2>2. mine' \in [Couriers -> 0..DeliveryAttempts]
    BY <1>1, <2>1 DEF ClaimDelivery
  <2>3. courier' \in [Couriers -> {"idle", "claimed", "insert", "send", "sent", "proved"}]
    BY <1>1 DEF ClaimDelivery, CourierMoves
  <2> QED BY <1>1, <2>1, <2>2, <2>3 DEF ClaimDelivery
<1>2. ASSUME NEW c \in Couriers, PutBack(c) PROVE OutboxTypeOK'
  BY <1>2 DEF PutBack, CourierMoves
<1>3. ASSUME NEW c \in Couriers, LookUp(c) PROVE OutboxTypeOK'
  BY <1>3 DEF LookUp, CourierMoves
<1>4. ASSUME NEW c \in Couriers, InsertRow(c) PROVE OutboxTypeOK'
  BY <1>4 DEF InsertRow, CourierMoves
<1>5. ASSUME NEW c \in Couriers, Send(c) PROVE OutboxTypeOK'
  BY <1>5 DEF Send, CourierMoves
<1>6. ASSUME NEW c \in Couriers, SendRefused(c) \/ ReplyLost(c) PROVE OutboxTypeOK'
  <2>1. courier' \in [Couriers -> {"idle", "claimed", "insert", "send", "sent", "proved"}]
    BY <1>6 DEF SendRefused, ReplyLost, SendFails, CourierMoves
  <2>2. /\ delivery' \in {"pending", "processing", "sent", "failed"}
        /\ order_status' \in {"waiting_fulfillment", "delivered", "needs_support"}
    BY <1>6 DEF SendRefused, ReplyLost, SendFails
  <2>3. /\ note' \in {"none", "failed", "sent"}
        /\ inserter' \in Couriers \cup {Nobody}
    BY <1>6 DEF SendRefused, ReplyLost, SendFails, Unlock
  <2>4. /\ delivery_lapsed' \in BOOLEAN /\ guide_read' \in BOOLEAN
        /\ delivery_attempts' \in 0..DeliveryAttempts
        /\ mine' \in [Couriers -> 0..DeliveryAttempts]
    BY <1>6 DEF SendRefused, ReplyLost, SendFails
  <2>5. /\ messages' \in Nat /\ refusals' \in Nat /\ lost_replies' \in Nat
        /\ crashes' \in 0..MaxCrashes /\ overlong' \in 0..MaxOverlong
    BY <1>6 DEF SendRefused, ReplyLost, SendFails
  <2> QED BY <2>1, <2>2, <2>3, <2>4, <2>5
<1>7. ASSUME NEW c \in Couriers, CommitProof(c) PROVE OutboxTypeOK'
  BY <1>7 DEF CommitProof, CourierMoves, Unlock
<1>8. ASSUME NEW c \in Couriers, FinishDelivery(c) PROVE OutboxTypeOK'
  BY <1>8 DEF FinishDelivery, CourierMoves
<1>9. ASSUME NEW c \in Couriers, CourierCrash(c) PROVE OutboxTypeOK'
  BY <1>9 DEF CourierCrash, Unlock
<1>10. CASE DeliveryLeaseLapses
  BY <1>10 DEF DeliveryLeaseLapses
<1>11. CASE AcknowledgeGuide \/ UNCHANGED outboxVars
  BY <1>11 DEF AcknowledgeGuide, outboxVars
<1> QED BY <1>1, <1>2, <1>3, <1>4, <1>5, <1>6, <1>7, <1>8, <1>9, <1>10, <1>11
        DEF OutboxNext, Courier

(* The row, its inserter and the proofs.                                   *)
ProofPart == LockInv /\ ProofInv /\ DeliveredIsProved /\ FirstAttempt

LEMMA ProofStep ==
  OutboxTypeOK /\ ProofPart /\ [OutboxNext]_outboxVars => ProofPart'
<1> SUFFICES ASSUME OutboxTypeOK, ProofPart, [OutboxNext]_outboxVars PROVE ProofPart'
  OBVIOUS
<1> USE OutboxAssumption
      DEF OutboxTypeOK, outboxFaults, ProofPart, LockInv, ProofInv, DeliveredIsProved,
          FirstAttempt
<1>1. ASSUME NEW c \in Couriers, ClaimDelivery(c) PROVE ProofPart'
  BY <1>1 DEF ClaimDelivery, CourierMoves
<1>2. ASSUME NEW c \in Couriers, PutBack(c) PROVE ProofPart'
  BY <1>2 DEF PutBack, CourierMoves
<1>3. ASSUME NEW c \in Couriers, LookUp(c) PROVE ProofPart'
  BY <1>3 DEF LookUp, CourierMoves
<1>4. ASSUME NEW c \in Couriers, InsertRow(c) PROVE ProofPart'
  BY <1>4 DEF InsertRow, CourierMoves
<1>5. ASSUME NEW c \in Couriers, Send(c) PROVE ProofPart'
  BY <1>5 DEF Send, CourierMoves
<1>6. ASSUME NEW c \in Couriers, SendRefused(c) \/ ReplyLost(c) PROVE ProofPart'
  BY <1>6 DEF SendRefused, ReplyLost, SendFails, CourierMoves, Unlock
<1>7. ASSUME NEW c \in Couriers, CommitProof(c) PROVE ProofPart'
  BY <1>7 DEF CommitProof, CourierMoves, Unlock
<1>8. ASSUME NEW c \in Couriers, FinishDelivery(c) PROVE ProofPart'
  BY <1>8 DEF FinishDelivery, CourierMoves
<1>9. ASSUME NEW c \in Couriers, CourierCrash(c) PROVE ProofPart'
  BY <1>9 DEF CourierCrash, Unlock
<1>10. CASE DeliveryLeaseLapses
  BY <1>10 DEF DeliveryLeaseLapses
<1>11. CASE AcknowledgeGuide \/ UNCHANGED outboxVars
  BY <1>11 DEF AcknowledgeGuide, outboxVars
<1> QED BY <1>1, <1>2, <1>3, <1>4, <1>5, <1>6, <1>7, <1>8, <1>9, <1>10, <1>11
        DEF OutboxNext, Courier

-----------------------------------------------------------------------------
(* Counting the senders.                                                   *)

LEMMA SendingFinite == IsFiniteSet(Sending) /\ Cardinality(Sending) \in Nat
  BY FS_Subset, FS_CardinalityType, OutboxAssumption DEF Sending

LEMMA SenderJoins ==
  ASSUME NEW c, c \notin Sending, Sending' = Sending \cup {c}
  PROVE  Cardinality(Sending') = Cardinality(Sending) + 1
  BY SendingFinite, FS_AddElement

LEMMA SenderLeaves ==
  ASSUME NEW c, c \in Sending, Sending' = Sending \ {c}
  PROVE  Cardinality(Sending') = Cardinality(Sending) - 1
  BY SendingFinite, FS_RemoveElement

LEMMA BudgetStep == OutboxTypeOK /\ Budget /\ [OutboxNext]_outboxVars => Budget'
<1> SUFFICES ASSUME OutboxTypeOK, Budget, [OutboxNext]_outboxVars PROVE Budget'
  OBVIOUS
<1> USE OutboxAssumption, SendingFinite DEF OutboxTypeOK, outboxFaults, Budget
(* Whoever claims takes up the place that was open. *)
<1>1. ASSUME NEW c \in Couriers, ClaimDelivery(c) PROVE Budget'
  <2>1. c \notin Sending /\ Sending' = Sending \cup {c}
    BY <1>1 DEF ClaimDelivery, CourierMoves, Sending
  <2>2. MayJoin /\ ~MayJoin'
    BY <1>1 DEF ClaimDelivery, CourierMoves, MayJoin, DeliveryAbandoned
  <2> QED BY <1>1, <2>1, <2>2, SenderJoins DEF ClaimDelivery
(* Whoever gives up leaves one open. *)
<1>2. ASSUME NEW c \in Couriers, PutBack(c) \/ SendRefused(c) PROVE Budget'
  <2>1. c \in Sending /\ Sending' = Sending \ {c}
    BY <1>2 DEF PutBack, SendRefused, SendFails, CourierMoves, Sending
  <2>2. Cardinality(Sending') = Cardinality(Sending) - 1
    BY <2>1, SenderLeaves
  <2>3. /\ messages' = messages /\ crashes' = crashes
        /\ overlong' = overlong /\ lost_replies' = lost_replies
    BY <1>2 DEF PutBack, SendRefused, SendFails
  <2> QED BY <2>2, <2>3
<1>3. ASSUME NEW c \in Couriers, LookUp(c) PROVE Budget'
  <2>1. \/ Sending' = Sending
        \/ c \in Sending /\ Sending' = Sending \ {c}
    BY <1>3 DEF LookUp, CourierMoves, Sending
  <2>2. MayJoin' = MayJoin
    BY <1>3 DEF LookUp, CourierMoves, MayJoin, DeliveryAbandoned
  <2> QED BY <1>3, <2>1, <2>2, SenderLeaves DEF LookUp
<1>4. ASSUME NEW c \in Couriers, InsertRow(c) PROVE Budget'
  <2>1. CASE note = "none"
    <3>1. Sending' = Sending
      BY <1>4, <2>1 DEF InsertRow, CourierMoves, Sending
    <3>2. MayJoin' = MayJoin
      BY <1>4, <2>1 DEF InsertRow, CourierMoves, MayJoin, DeliveryAbandoned
    <3> QED BY <1>4, <3>1, <3>2 DEF InsertRow
  <2>2. CASE note # "none"
    <3>1. c \in Sending /\ Sending' = Sending \ {c}
      BY <1>4, <2>2 DEF InsertRow, CourierMoves, Sending
    <3>2. Cardinality(Sending') = Cardinality(Sending) - 1
      BY <3>1, SenderLeaves
    <3>3. /\ messages' = messages /\ crashes' = crashes
          /\ overlong' = overlong /\ lost_replies' = lost_replies
      BY <1>4 DEF InsertRow
    <3> QED BY <3>2, <3>3
  <2> QED BY <2>1, <2>2
(* A message takes up the place of its sender. *)
<1>5. ASSUME NEW c \in Couriers, Send(c) PROVE Budget'
  <2>1. c \in Sending /\ Sending' = Sending \ {c}
    BY <1>5 DEF Send, CourierMoves, Sending
  <2>2. MayJoin' = MayJoin
    BY <1>5 DEF Send, CourierMoves, MayJoin, DeliveryAbandoned
  <2>3. Cardinality(Sending') = Cardinality(Sending) - 1
    BY <2>1, SenderLeaves
  <2>4. /\ messages' = messages + 1 /\ crashes' = crashes
        /\ overlong' = overlong /\ lost_replies' = lost_replies
    BY <1>5 DEF Send
  <2> QED BY <2>2, <2>3, <2>4
<1>6. ASSUME NEW c \in Couriers, CommitProof(c) PROVE Budget'
  <2>1. Sending' = Sending
    BY <1>6 DEF CommitProof, CourierMoves, Sending
  <2>2. MayJoin' = MayJoin
    BY <1>6 DEF CommitProof, CourierMoves, MayJoin, DeliveryAbandoned
  <2> QED BY <1>6, <2>1, <2>2 DEF CommitProof
<1>7. ASSUME NEW c \in Couriers, FinishDelivery(c) PROVE Budget'
  <2>1. Sending' = Sending
    BY <1>7 DEF FinishDelivery, CourierMoves, Sending
  <2>2. ~MayJoin'
    BY <1>7 DEF FinishDelivery, MayJoin
  <2> QED BY <1>7, <2>1, <2>2 DEF FinishDelivery
(* A lost reply leaves the place of a message that was sent open again; it *)
(* is counted, as a crash and a lease that lapses under a living courier.  *)
<1>11. ASSUME NEW c \in Couriers, ReplyLost(c) PROVE Budget'
  <2>1. Sending' = Sending
    BY <1>11 DEF ReplyLost, SendFails, CourierMoves, Sending
  <2>2. /\ messages' = messages /\ crashes' = crashes
        /\ overlong' = overlong /\ lost_replies' = lost_replies + 1
    BY <1>11 DEF ReplyLost, SendFails
  <2> QED BY <2>1, <2>2
<1>8. ASSUME NEW c \in Couriers, CourierCrash(c) PROVE Budget'
  <2>1. \/ Sending' = Sending
        \/ c \in Sending /\ Sending' = Sending \ {c}
    BY <1>8 DEF CourierCrash, Sending
  <2> QED BY <1>8, <2>1, SenderLeaves DEF CourierCrash
<1>9. CASE DeliveryLeaseLapses
  <2>1. Sending' = Sending
    BY <1>9 DEF DeliveryLeaseLapses, Sending
  <2>2. DeliveryAbandoned => MayJoin
    BY <1>9 DEF DeliveryLeaseLapses, MayJoin
  <2> QED BY <1>9, <2>1, <2>2 DEF DeliveryLeaseLapses
<1>10. CASE AcknowledgeGuide \/ UNCHANGED outboxVars
  <2>1. Sending' = Sending /\ MayJoin' = MayJoin
    BY <1>10 DEF AcknowledgeGuide, outboxVars, Sending, MayJoin, DeliveryAbandoned
  <2> QED BY <1>10, <2>1 DEF AcknowledgeGuide, outboxVars
<1> QED BY <1>1, <1>2, <1>3, <1>4, <1>5, <1>6, <1>7, <1>8, <1>9, <1>10, <1>11
        DEF OutboxNext, Courier

-----------------------------------------------------------------------------
(* Theorems.                                                               *)

LEMMA OutboxAlways == OutboxSpec => []OutboxInv
<1>1. OutboxInv /\ [OutboxNext]_outboxVars => OutboxInv'
  BY OutboxTypeStep, ProofStep, BudgetStep DEF OutboxInv, ProofPart
<1> QED BY <1>1, OutboxInitially, PTL DEF OutboxSpec

(* Claims, sends, refusals, crashes and late couriers keep the job, its    *)
(* notification row and the order in their types.                          *)
THEOREM OutboxTypeCorrect == OutboxSpec => []OutboxTypeOK
<1>1. OutboxInv => OutboxTypeOK
  BY DEF OutboxInv
<1> QED BY <1>1, OutboxAlways, PTL

(* process_next_delivery commits the proof of the message before it        *)
(* changes the order: no delivered order is without its proof, whichever   *)
(* couriers crash or come late.                                            *)
THEOREM ProofBeforeDelivery == OutboxSpec => []DeliveredIsProved
<1>1. OutboxInv => DeliveredIsProved
  BY DEF OutboxInv
<1> QED BY <1>1, OutboxAlways, PTL

(* For any number of couriers: the account is sent once, once more for     *)
(* every courier that crashes and for every send that raised after         *)
(* Telegram had accepted it, and, when an attempt failed, once more for    *)
(* every lease that lapsed under a living courier.                         *)
THEOREM SentOnceButForFaults == OutboxSpec => []SentOnce
<1>1. OutboxInv => SentOnce
  <2> SUFFICES ASSUME OutboxInv PROVE SentOnce
    OBVIOUS
  <2>1. CASE refusals = 0
    BY <2>1, OutboxAssumption DEF OutboxInv, OutboxTypeOK, FirstAttempt, SentOnce
  <2>2. CASE refusals # 0
    BY <2>2, SendingFinite, OutboxAssumption DEF OutboxInv, OutboxTypeOK, Budget, SentOnce
  <2> QED BY <2>1, <2>2
<1> QED BY <1>1, OutboxAlways, PTL

-----------------------------------------------------------------------------
(* RuntimeLease                                                             *)

(* While no living owner has missed its lease, whoever beats is the owner  *)
(* of a lease that has not passed.                                         *)
OwnersBeat == stalls = 0 => \A r \in Beating : lease = r /\ ~late

LeaseInv == LeaseTypeOK /\ OwnersBeat

LEMMA LeaseInitially == LeaseInit => LeaseInv
<1> SUFFICES ASSUME LeaseInit PROVE LeaseInv
  OBVIOUS
<1>1. LeaseTypeOK
  <2>1. late \in BOOLEAN /\ lease \in Pollers \cup {Nobody}
    BY DEF LeaseInit
  <2>2. stalls \in 0..MaxStalls
    BY LeaseAssumption DEF LeaseInit
  <2>3. poller \in [Pollers -> {"new", "waiting", "starting", "polling", "stopping", "gone"}]
    BY DEF LeaseInit
  <2> QED BY <2>1, <2>2, <2>3 DEF LeaseTypeOK
<1>2. \A r \in Pollers : poller[r] = "new"
  BY DEF LeaseInit
<1>3. OwnersBeat
  BY <1>2 DEF OwnersBeat, Beating
<1> QED BY <1>1, <1>3 DEF LeaseInv

LEMMA LeaseTypeStep == LeaseTypeOK /\ [LeaseNext]_leaseVars => LeaseTypeOK'
<1> SUFFICES ASSUME LeaseTypeOK, [LeaseNext]_leaseVars PROVE LeaseTypeOK'
  OBVIOUS
<1> USE LeaseAssumption DEF LeaseTypeOK
<1>1. ASSUME NEW r \in Pollers, StartPoller(r) PROVE LeaseTypeOK'
  BY <1>1 DEF StartPoller, PollerMoves
<1>2. ASSUME NEW r \in Pollers, Acquire(r) PROVE LeaseTypeOK'
  BY <1>2 DEF Acquire, PollerMoves
<1>3. ASSUME NEW r \in Pollers, GiveUpWaiting(r) PROVE LeaseTypeOK'
  BY <1>3 DEF GiveUpWaiting, PollerMoves
<1>4. ASSUME NEW r \in Pollers, StartPolling(r) PROVE LeaseTypeOK'
  BY <1>4 DEF StartPolling, PollerMoves
<1>5. ASSUME NEW r \in Pollers, Heartbeat(r) PROVE LeaseTypeOK'
  BY <1>5 DEF Heartbeat, Renew, FindLost
<1>6. ASSUME NEW r \in Pollers, StopPoller(r) PROVE LeaseTypeOK'
  BY <1>6 DEF StopPoller
<1>7. ASSUME NEW r \in Pollers, ReleaseLease(r) PROVE LeaseTypeOK'
  BY <1>7 DEF ReleaseLease, PollerMoves
<1>8. ASSUME NEW r \in Pollers, PollerCrash(r) PROVE LeaseTypeOK'
  BY <1>8 DEF PollerCrash
<1>9. CASE LeaseExpires
  BY <1>9 DEF LeaseExpires
<1>10. CASE UNCHANGED leaseVars
  BY <1>10 DEF leaseVars
<1> QED BY <1>1, <1>2, <1>3, <1>4, <1>5, <1>6, <1>7, <1>8, <1>9, <1>10 DEF LeaseNext

LEMMA OwnersStep == LeaseInv /\ [LeaseNext]_leaseVars => OwnersBeat'
<1> SUFFICES ASSUME LeaseInv, [LeaseNext]_leaseVars PROVE OwnersBeat'
  OBVIOUS
<1> USE LeaseAssumption DEF LeaseInv, LeaseTypeOK, OwnersBeat, Beating
(* A lease that is free was left by everybody who beat. *)
<1>1. ASSUME NEW r \in Pollers, Acquire(r) PROVE OwnersBeat'
  BY <1>1 DEF Acquire, LeaseFree, PollerMoves
<1>2. ASSUME NEW r \in Pollers, StartPoller(r) PROVE OwnersBeat'
  BY <1>2 DEF StartPoller, PollerMoves
<1>3. ASSUME NEW r \in Pollers, GiveUpWaiting(r) PROVE OwnersBeat'
  BY <1>3 DEF GiveUpWaiting, PollerMoves
<1>4. ASSUME NEW r \in Pollers, StartPolling(r) PROVE OwnersBeat'
  BY <1>4 DEF StartPolling, PollerMoves
<1>5. ASSUME NEW r \in Pollers, Heartbeat(r) PROVE OwnersBeat'
  BY <1>5 DEF Heartbeat, Renew, FindLost
<1>6. ASSUME NEW r \in Pollers, StopPoller(r) PROVE OwnersBeat'
  BY <1>6 DEF StopPoller
(* A late replica's release leaves the lease of its successor alone. *)
<1>7. ASSUME NEW r \in Pollers, ReleaseLease(r) PROVE OwnersBeat'
  BY <1>7 DEF ReleaseLease, PollerMoves
<1>8. ASSUME NEW r \in Pollers, PollerCrash(r) PROVE OwnersBeat'
  BY <1>8 DEF PollerCrash
<1>9. CASE LeaseExpires
  BY <1>9 DEF LeaseExpires
<1>10. CASE UNCHANGED leaseVars
  BY <1>10 DEF leaseVars
<1> QED BY <1>1, <1>2, <1>3, <1>4, <1>5, <1>6, <1>7, <1>8, <1>9, <1>10 DEF LeaseNext

LEMMA OwnersPollAlone == LeaseInv => OnePollerUnlessStalled
<1> SUFFICES ASSUME LeaseInv, stalls = 0 PROVE Cardinality(Polling) <= 1
  BY DEF OnePollerUnlessStalled
<1>1. Polling \subseteq {lease}
  BY DEF LeaseInv, OwnersBeat, Beating, Polling
<1>2. IsFiniteSet({lease}) /\ Cardinality({lease}) = 1
  BY FS_Singleton
<1> QED BY <1>1, <1>2, FS_Subset

(* acquire, the heartbeat and release keep the columns of the lease and    *)
(* the state of every replica in their types.                              *)
THEOREM LeaseTypeCorrect == LeaseSpec => []LeaseTypeOK
<1>1. LeaseInit => LeaseTypeOK
  BY LeaseInitially DEF LeaseInv
<1> QED BY <1>1, LeaseTypeStep, PTL DEF LeaseSpec

(* Of any number of replicas that start, stop, crash and take over from    *)
(* each other one at most polls Telegram, as long as none of them stalls.  *)
THEOREM OnePoller == LeaseSpec => []OnePollerUnlessStalled
<1>1. LeaseInv /\ [LeaseNext]_leaseVars => LeaseInv'
  BY LeaseTypeStep, OwnersStep DEF LeaseInv
<1>2. LeaseSpec => []LeaseInv
  BY <1>1, LeaseInitially, PTL DEF LeaseSpec
<1> QED BY <1>2, OwnersPollAlone, PTL

-----------------------------------------------------------------------------
(* AISupport                                                               *)

Heard(j) == answers[j] + apologies[j]

(* Those who may still say something about a question, and whether another *)
(* may join them without a fault that was not counted yet.                 *)
Askers(j) ==
  {w \in Workers : work[w][j] \in {"claimed", "asking", "resend", "failed", "apologise"}}

MayAsk(j) ==
  \/ job_status[j] \in {"none", "pending", "retry"}
  \/ job_status[j] = "leased" /\ (job_lapsed[j] \/ JobAbandoned(j))

(* What was said about a question and what can still be said. *)
VoiceBudget(j) ==
  Heard(j) + Cardinality(Askers(j)) + (IF MayAsk(j) THEN 1 ELSE 0) <= 1 + ai_faults

AIInv == AITypeOK /\ \A j \in Jobs : VoiceBudget(j)

LEMMA AskersFinite ==
  ASSUME NEW j PROVE IsFiniteSet(Askers(j)) /\ Cardinality(Askers(j)) \in Nat
  BY FS_Subset, FS_CardinalityType, AISupportAssumption DEF Askers

LEMMA AskersStayFinite ==
  ASSUME NEW j PROVE Cardinality(Askers(j)') \in Nat
<1>1. IsFiniteSet(Askers(j)')
  BY FS_Subset, AISupportAssumption DEF Askers
<1> QED BY <1>1, FS_CardinalityType

LEMMA AskerJoins ==
  ASSUME NEW j, NEW w, w \notin Askers(j), Askers(j)' = Askers(j) \cup {w}
  PROVE  Cardinality(Askers(j)') = Cardinality(Askers(j)) + 1
  BY AskersFinite, FS_AddElement

LEMMA AskerLeaves ==
  ASSUME NEW j, NEW w, w \in Askers(j), Askers(j)' = Askers(j) \ {w}
  PROVE  Cardinality(Askers(j)') = Cardinality(Askers(j)) - 1
  BY AskersFinite, FS_RemoveElement

LEMMA AIInitially == AIInit => AIInv
<1> SUFFICES ASSUME AIInit PROVE AIInv
  OBVIOUS
<1>1. AITypeOK
  BY AISupportAssumption DEF AIInit, AITypeOK, WorkSteps
<1>2. ASSUME NEW j \in Jobs PROVE VoiceBudget(j)
  <2>1. Askers(j) = {}
    BY DEF AIInit, Askers
  <2>2. Cardinality(Askers(j)) = 0
    BY <2>1, FS_EmptySet
  <2> QED BY <2>2 DEF AIInit, VoiceBudget, Heard
<1> QED BY <1>1, <1>2 DEF AIInv

(* A worker goes on with one question.                                     *)
LEMMA WorkMoves ==
  ASSUME AITypeOK, NEW w \in Workers, NEW j \in Jobs, NEW to \in WorkSteps,
         work' = [work EXCEPT ![w][j] = to]
  PROVE  /\ work' \in [Workers -> [Jobs -> WorkSteps]]
         /\ work'[w][j] = to
         /\ \A v \in Workers : \A k \in Jobs : v # w \/ k # j => work'[v][k] = work[v][k]
BY DEF AITypeOK

LEMMA AITypeStep == AITypeOK /\ [AINext]_aiVars => AITypeOK'
<1> SUFFICES ASSUME AITypeOK, [AINext]_aiVars PROVE AITypeOK'
  OBVIOUS
<1> USE AISupportAssumption DEF AITypeOK
<1>1. ASSUME NEW j \in Jobs, EnqueueQuestion(j) \/ JobLeaseLapses(j) \/ JobOverruns(j)
                             \/ PruneJob(j)
      PROVE  AITypeOK'
  <2>1. CASE EnqueueQuestion(j) \/ PruneJob(j)
    BY <2>1 DEF EnqueueQuestion, PruneJob
  <2>2. CASE JobLeaseLapses(j)
    BY <2>2 DEF JobLeaseLapses
  <2>3. CASE JobOverruns(j)
    BY <2>3 DEF JobOverruns
  <2> QED BY <1>1, <2>1, <2>2, <2>3
<1>2. ASSUME NEW w \in Workers, ClaimJobs(w) PROVE AITypeOK'
  <2>1. job_attempts' \in [Jobs -> Nat] /\ job_lapsed' \in [Jobs -> BOOLEAN]
    BY <1>2 DEF ClaimJobs
  <2> QED BY <1>2, <2>1 DEF ClaimJobs, WorkSteps
<1>3. ASSUME NEW w \in Workers, WorkerCrash(w) PROVE AITypeOK'
  BY <1>3 DEF WorkerCrash, WorkSteps
<1>4. ASSUME NEW w \in Workers, NEW j \in Jobs, FinishLost(w, j) PROVE AITypeOK'
  BY <1>4, WorkMoves DEF FinishLost, Work, WorkSteps
(* The calls of Telegram and Gemini. *)
<1>5. ASSUME NEW w \in Workers, NEW j \in Jobs,
             StartJob(w, j) \/ AskingFails(w, j) \/ DeliverAnswer(w, j) \/ CallRefused(w, j)
             \/ AnswerReplyLost(w, j)
      PROVE  AITypeOK'
  <2>1. \E to \in WorkSteps : work' = [work EXCEPT ![w][j] = to]
    BY <1>5 DEF StartJob, AskingFails, DeliverAnswer, CallRefused, AnswerReplyLost, Says, Work,
                AfterRaise, WorkSteps
  <2>2. work' \in [Workers -> [Jobs -> WorkSteps]]
    BY <2>1, WorkMoves
  <2>3. /\ answers' = answers \/ answers' = [answers EXCEPT ![j] = @ + 1]
        /\ ai_faults' = ai_faults \/ (ai_faults < MaxAIFaults /\ ai_faults' = ai_faults + 1)
        /\ UNCHANGED <<job_status, job_attempts, job_lapsed, apologies>>
    BY <1>5 DEF StartJob, AskingFails, DeliverAnswer, CallRefused, AnswerReplyLost, Says
  <2>4. answers' \in [Jobs -> Nat] /\ ai_faults' \in 0..MaxAIFaults
    BY <2>3
  <2> QED BY <2>2, <2>3, <2>4
<1>6. ASSUME NEW w \in Workers, NEW j \in Jobs, FinishJob(w, j) PROVE AITypeOK'
  BY <1>6, WorkMoves DEF FinishJob, Work, WorkSteps
<1>7. ASSUME NEW w \in Workers, NEW j \in Jobs, HandleFailure(w, j) PROVE AITypeOK'
  <2>1. \E to \in WorkSteps : work' = [work EXCEPT ![w][j] = to]
    BY <1>7 DEF HandleFailure, WorkSteps
  <2>2. work' \in [Workers -> [Jobs -> WorkSteps]]
    BY <2>1, WorkMoves
  <2>3. PICK n \in Nat, next \in {"dead", "retry"} :
          \/ UNCHANGED <<job_status, job_attempts, job_lapsed>>
          \/ /\ job_status' = [job_status EXCEPT ![j] = next]
             /\ job_attempts' = [job_attempts EXCEPT ![j] = n]
             /\ job_lapsed' = [job_lapsed EXCEPT ![j] = FALSE]
    <3>1. PICK permanent \in BOOLEAN :
            LET n == IF permanent THEN JobAttempts ELSE job_attempts[j]
                next == IF n >= JobAttempts THEN "dead" ELSE "retry"
            IN \/ UNCHANGED <<job_status, job_attempts, job_lapsed>>
               \/ /\ job_status' = [job_status EXCEPT ![j] = next]
                  /\ job_attempts' = [job_attempts EXCEPT ![j] = n]
                  /\ job_lapsed' = [job_lapsed EXCEPT ![j] = FALSE]
      BY <1>7 DEF HandleFailure
    <3>2. JobAttempts \in Nat /\ job_attempts[j] \in Nat
      OBVIOUS
    <3> QED BY <3>1, <3>2
  <2>4. /\ job_status' \in [Jobs -> {"none", "pending", "leased", "retry", "succeeded", "dead",
                                     "pruned"}]
        /\ job_attempts' \in [Jobs -> Nat]
        /\ job_lapsed' \in [Jobs -> BOOLEAN]
    BY <2>3
  <2> QED BY <1>7, <2>2, <2>4 DEF HandleFailure
<1>8. ASSUME NEW w \in Workers, NEW j \in Jobs, Apologise(w, j) PROVE AITypeOK'
  <2>1. apologies' \in [Jobs -> Nat]
    BY <1>8 DEF Apologise
  <2> QED BY <1>8, <2>1, WorkMoves DEF Apologise, Work, WorkSteps
<1>9. CASE UNCHANGED aiVars
  BY <1>9 DEF aiVars
<1> QED BY <1>1, <1>2, <1>3, <1>4, <1>5, <1>6, <1>7, <1>8, <1>9 DEF AINext, Process

(* A step about one question leaves the others as they were.               *)
LEMMA OthersRest ==
  ASSUME AITypeOK, AITypeOK', NEW k \in Jobs, VoiceBudget(k), ai_faults <= ai_faults',
         job_status'[k] = job_status[k], job_lapsed'[k] = job_lapsed[k],
         answers'[k] = answers[k], apologies'[k] = apologies[k],
         \A v \in Workers : work'[v][k] = work[v][k]
  PROVE  VoiceBudget(k)'
<1>1. Askers(k)' = Askers(k) /\ MayAsk(k)' = MayAsk(k)
  BY DEF Askers, MayAsk, JobAbandoned
<1>2. Heard(k)' = Heard(k) /\ Heard(k) \in Nat
  BY DEF Heard, AITypeOK
<1>3. ai_faults \in Nat /\ ai_faults' \in Nat
  BY AISupportAssumption DEF AITypeOK
<1> QED BY <1>1, <1>2, <1>3, AskersFinite DEF VoiceBudget

(* A worker goes on with a question: what it says, its own place and the   *)
(* place of another are paid for by the places it leaves and by its fault. *)
Place(w, j) == IF w \in Askers(j) THEN 1 ELSE 0
Vacancy(j) == IF MayAsk(j) THEN 1 ELSE 0

LEMMA WorkerStep ==
  ASSUME AITypeOK, AITypeOK', NEW w \in Workers, NEW j \in Jobs, VoiceBudget(j),
         NEW to \in WorkSteps, work' = [work EXCEPT ![w][j] = to],
         Heard(j)' + Place(w, j)' + Vacancy(j)' + ai_faults
           <= Heard(j) + Place(w, j) + Vacancy(j) + ai_faults'
  PROVE  VoiceBudget(j)'
<1>1. Heard(j) \in Nat /\ Heard(j)' \in Nat /\ ai_faults \in Nat /\ ai_faults' \in Nat
  BY AISupportAssumption DEF Heard, AITypeOK
<1>2. \A v \in Workers \ {w} : work'[v][j] = work[v][j]
  BY WorkMoves
<1>3. Cardinality(Askers(j)') + Place(w, j) = Cardinality(Askers(j)) + Place(w, j)'
  <2>1. CASE w \in Askers(j) <=> w \in Askers(j)'
    <3>1. Askers(j)' = Askers(j)
      BY <1>2, <2>1 DEF Askers
    <3> QED BY <3>1, AskersFinite, <2>1 DEF Place
  <2>2. CASE w \in Askers(j) /\ w \notin Askers(j)'
    <3>1. Askers(j)' = Askers(j) \ {w}
      BY <1>2, <2>2 DEF Askers
    <3>2. Cardinality(Askers(j)') = Cardinality(Askers(j)) - 1
      BY <2>2, <3>1, AskerLeaves
    <3> QED BY <3>2, AskersFinite, <2>2 DEF Place
  <2>3. CASE w \notin Askers(j) /\ w \in Askers(j)'
    <3>1. Askers(j)' = Askers(j) \cup {w}
      BY <1>2, <2>3 DEF Askers
    <3>2. Cardinality(Askers(j)') = Cardinality(Askers(j)) + 1
      BY <2>3, <3>1, AskerJoins
    <3> QED BY <3>2, AskersFinite, <2>3 DEF Place
  <2> QED BY <2>1, <2>2, <2>3
<1>4. Cardinality(Askers(j)') \in Nat
  BY AskersStayFinite
<1>5. Heard(j) + Cardinality(Askers(j)) + Vacancy(j) <= 1 + ai_faults
  BY DEF VoiceBudget, Vacancy
<1>6. /\ Place(w, j) \in {0, 1} /\ Place(w, j)' \in {0, 1}
      /\ Vacancy(j) \in {0, 1} /\ Vacancy(j)' \in {0, 1}
  BY DEF Place, Vacancy
<1>7. Heard(j)' + Cardinality(Askers(j)') + Vacancy(j)' <= 1 + ai_faults'
  BY <1>1, <1>3, <1>4, <1>5, <1>6, AskersFinite
<1> QED BY <1>7 DEF VoiceBudget, Vacancy

LEMMA VoiceStep ==
  ASSUME AITypeOK, AITypeOK', \A k \in Jobs : VoiceBudget(k), [AINext]_aiVars
  PROVE  \A k \in Jobs : VoiceBudget(k)'
<1> USE AISupportAssumption DEF AITypeOK
<1>1. ASSUME NEW j \in Jobs, EnqueueQuestion(j) \/ JobLeaseLapses(j) \/ PruneJob(j)
                             \/ JobOverruns(j)
      PROVE  \A k \in Jobs : VoiceBudget(k)'
  <2>1. VoiceBudget(j)'
    <3>1. Askers(j)' = Askers(j) /\ Heard(j)' = Heard(j) /\ Heard(j) \in Nat
      BY <1>1 DEF EnqueueQuestion, JobLeaseLapses, PruneJob, JobOverruns, Askers, Heard
    <3>2. CASE JobOverruns(j)
      BY <3>1, <3>2, AskersFinite DEF JobOverruns, VoiceBudget
    <3>3. CASE ~JobOverruns(j)
      <4>1. MayAsk(j)' => MayAsk(j)
        BY <1>1, <3>3 DEF EnqueueQuestion, JobLeaseLapses, PruneJob, JobAbandoned, MayAsk
      <4>2. ai_faults' = ai_faults
        BY <1>1, <3>3 DEF EnqueueQuestion, JobLeaseLapses, PruneJob
      <4> QED BY <3>1, <4>1, <4>2, AskersFinite DEF VoiceBudget
    <3> QED BY <3>2, <3>3
  <2>2. ASSUME NEW k \in Jobs, k # j PROVE VoiceBudget(k)'
    BY <1>1, <2>2, OthersRest DEF EnqueueQuestion, JobLeaseLapses, PruneJob, JobOverruns
  <2> QED BY <2>1, <2>2
(* Whoever claims a job takes up the place that was open.                  *)
<1>2. ASSUME NEW w \in Workers, ClaimJobs(w) PROVE \A k \in Jobs : VoiceBudget(k)'
  <2> SUFFICES ASSUME NEW k \in Jobs PROVE VoiceBudget(k)'
    OBVIOUS
  <2>1. \A v \in Workers \ {w} : work'[v] = work[v]
    BY <1>2 DEF ClaimJobs
  <2>2. work[w][k] = "idle" /\ work'[w][k] = IF k \in DueJobs THEN "claimed" ELSE "idle"
    BY <1>2 DEF ClaimJobs
  <2>3. CASE k \in DueJobs
    <3>1. w \notin Askers(k) /\ Askers(k)' = Askers(k) \cup {w}
      BY <2>1, <2>2, <2>3 DEF Askers
    <3>2. MayAsk(k)
      BY <2>3 DEF DueJobs, MayAsk
    <3>3. ~MayAsk(k)'
      <4>1. job_status'[k] = "leased" /\ job_lapsed'[k] = FALSE
        BY <1>2, <2>3 DEF ClaimJobs
      <4> QED BY <2>2, <2>3, <4>1 DEF MayAsk, JobAbandoned
    <3>4. Heard(k)' = Heard(k) /\ ai_faults' = ai_faults /\ Heard(k) \in Nat
      BY <1>2 DEF ClaimJobs, Heard
    <3>5. Cardinality(Askers(k)') = Cardinality(Askers(k)) + 1
      BY <3>1, AskerJoins
    <3>6. Heard(k) + Cardinality(Askers(k)) + 1 <= 1 + ai_faults
      BY <3>2 DEF VoiceBudget
    <3> HIDE DEF AITypeOK
    <3> QED BY <3>3, <3>4, <3>5, <3>6, AskersFinite DEF VoiceBudget
  <2>4. CASE k \notin DueJobs
    <3>1. \A v \in Workers : work'[v][k] = work[v][k]
      BY <2>1, <2>2, <2>4
    <3>2. job_status'[k] = job_status[k] /\ job_lapsed'[k] = job_lapsed[k]
      BY <1>2, <2>4 DEF ClaimJobs
    <3> QED BY <1>2, <3>1, <3>2, OthersRest DEF ClaimJobs
  <2> QED BY <2>3, <2>4
<1>3. ASSUME NEW w \in Workers, NEW j \in Jobs,
             Process(w, j) \/ AnswerReplyLost(w, j) \/ FinishLost(w, j)
      PROVE  \A k \in Jobs : VoiceBudget(k)'
  <2>1. PICK to \in WorkSteps : work' = [work EXCEPT ![w][j] = to]
    BY <1>3
    DEF Process, StartJob, DeliverAnswer, CallRefused, AnswerReplyLost, Says, AfterRaise, FinishJob,
        FinishLost, AskingFails, HandleFailure, Apologise, Work, WorkSteps
  <2>2. /\ work'[w][j] = to
        /\ \A v \in Workers : \A k \in Jobs : v # w \/ k # j => work'[v][k] = work[v][k]
    BY <2>1, WorkMoves
  <2>3. /\ w \in Askers(j) <=>
             work[w][j] \in {"claimed", "asking", "resend", "failed", "apologise"}
        /\ w \in Askers(j)' <=> to \in {"claimed", "asking", "resend", "failed", "apologise"}
    BY <2>2 DEF Askers
  <2>4. VoiceBudget(j)'
    <3> SUFFICES Heard(j)' + Place(w, j)' + Vacancy(j)' + ai_faults
                   <= Heard(j) + Place(w, j) + Vacancy(j) + ai_faults'
      BY <2>1, WorkerStep
    <3>a. Heard(j) \in Nat /\ ai_faults \in Nat
      BY DEF Heard
    <3> USE DEF Place, Vacancy
    <3>1. CASE StartJob(w, j)
      <4>1. Heard(j)' = Heard(j) + 0 /\ ai_faults' = ai_faults + 0
        BY <3>1 DEF StartJob, Heard
      <4>2. w \in Askers(j)
        BY <3>1, <2>3 DEF StartJob, Work
      <4>3. CASE job_status[j] = "leased"
        <5>1. MayAsk(j)' = MayAsk(j)
          BY <3>1, <4>3, <2>2 DEF StartJob, Work, MayAsk, JobAbandoned
        <5> QED BY <3>a, <4>1, <4>2, <5>1
      <4>4. CASE job_status[j] # "leased"
        <5>1. MayAsk(j)' = MayAsk(j) /\ job_status' = job_status
          BY <3>1, <4>4 DEF StartJob, MayAsk
        <5> QED BY <3>a, <4>1, <4>2, <5>1
      <4> QED BY <4>3, <4>4
    <3>2. CASE AskingFails(w, j) \/ CallRefused(w, j)
      <4>1. Heard(j)' = Heard(j) + 0 /\ ai_faults' = ai_faults + 0
        BY <3>2 DEF AskingFails, CallRefused, Heard
      <4>2. work[w][j] \in Calls /\ to \in {"resend", "failed"}
        BY <3>2, <2>2 DEF AskingFails, CallRefused, Work, Calls, AfterRaise
      <4>3. MayAsk(j)' = MayAsk(j)
        BY <3>2, <4>2, <2>2 DEF AskingFails, CallRefused, Calls, MayAsk, JobAbandoned
      <4> QED BY <3>a, <4>1, <4>2, <4>3, <2>3 DEF Calls
    (* A lost reply leaves the worker its place: it may say it once more. *)
    <3>3. CASE AnswerReplyLost(w, j)
      <4>1. Heard(j)' = Heard(j) + 1 /\ ai_faults' = ai_faults + 1
        BY <3>3 DEF AnswerReplyLost, Says, Heard
      <4>2. work[w][j] \in Calls /\ to \in {"resend", "failed"}
        BY <3>3, <2>2 DEF AnswerReplyLost, Says, Work, Calls, AfterRaise
      <4>3. MayAsk(j)' = MayAsk(j)
        BY <3>3, <4>2, <2>2 DEF AnswerReplyLost, Says, Calls, MayAsk, JobAbandoned
      <4> QED BY <3>a, <4>1, <4>2, <4>3, <2>3 DEF Calls
    (* What is said takes up the place of the worker that says it. *)
    <3>4. CASE DeliverAnswer(w, j)
      <4>1. Heard(j)' = Heard(j) + 1 /\ ai_faults' = ai_faults + 0
        BY <3>4 DEF DeliverAnswer, Says, Heard
      <4>2. work[w][j] \in Calls /\ to = "answered"
        BY <3>4, <2>2 DEF DeliverAnswer, Says, Work
      <4>3. MayAsk(j)' = MayAsk(j)
        BY <3>4, <4>2, <2>2 DEF DeliverAnswer, Says, Calls, MayAsk, JobAbandoned
      <4> QED BY <3>a, <4>1, <4>2, <4>3, <2>3 DEF Calls
    <3>5. CASE FinishJob(w, j)
      <4>1. Heard(j)' = Heard(j) + 0 /\ ai_faults' = ai_faults + 0
        BY <3>5 DEF FinishJob, Heard
      <4>2. work[w][j] = "answered" /\ to = "idle"
        BY <3>5, <2>2 DEF FinishJob, Work
      <4>3. ~MayAsk(j)'
        BY <3>5 DEF FinishJob, MayAsk
      <4> QED BY <3>a, <4>1, <4>2, <4>3, <2>3
    <3>6. CASE FinishLost(w, j)
      <4>1. Heard(j)' = Heard(j) + 0 /\ ai_faults' = ai_faults + 1
        BY <3>6 DEF FinishLost, Heard
      <4>2. work[w][j] = "answered" /\ to = "failed"
        BY <3>6, <2>2 DEF FinishLost, Work
      <4>3. MayAsk(j)' = MayAsk(j)
        BY <3>6, <4>2, <2>2 DEF FinishLost, MayAsk, JobAbandoned
      <4> QED BY <3>a, <4>1, <4>2, <4>3, <2>3
    (* A worker that fails leaves its place to another, or keeps it to      *)
    (* apologise.                                                           *)
    <3>7. CASE HandleFailure(w, j)
      <4>1. Heard(j)' = Heard(j) + 0 /\ ai_faults' = ai_faults + 0
        BY <3>7 DEF HandleFailure, Heard
      <4>2. work[w][j] = "failed"
        BY <3>7 DEF HandleFailure
      <4>3. \/ to = "idle"
            \/ to = "apologise" /\ job_status'[j] = "dead"
        BY <3>7, <2>2 DEF HandleFailure
      <4>4. CASE to = "idle"
        BY <3>a, <4>1, <4>2, <4>4, <2>3
      <4>5. CASE to = "apologise" /\ job_status'[j] = "dead"
        <5>1. ~MayAsk(j)'
          BY <4>5 DEF MayAsk
        <5> QED BY <3>a, <4>1, <4>2, <4>5, <5>1, <2>3
      <4> QED BY <4>3, <4>4, <4>5
    <3>8. CASE Apologise(w, j)
      <4>1. PICK sent \in {0, 1} : apologies' = [apologies EXCEPT ![j] = @ + sent]
        BY <3>8 DEF Apologise
      <4>2. Heard(j)' = Heard(j) + sent /\ ai_faults' = ai_faults + 0
        BY <3>8, <4>1 DEF Apologise, Heard
      <4>3. work[w][j] = "apologise" /\ to = "idle"
        BY <3>8, <2>2 DEF Apologise, Work
      <4>4. MayAsk(j)' = MayAsk(j)
        BY <3>8, <4>3, <2>2 DEF Apologise, MayAsk, JobAbandoned
      <4> QED BY <3>a, <4>2, <4>3, <4>4, <2>3
    <3> QED BY <1>3, <3>1, <3>2, <3>3, <3>4, <3>5, <3>6, <3>7, <3>8 DEF Process
  <2>5. ASSUME NEW k \in Jobs, k # j PROVE VoiceBudget(k)'
    <3>1. /\ job_status'[k] = job_status[k] /\ job_lapsed'[k] = job_lapsed[k]
          /\ answers'[k] = answers[k] /\ apologies'[k] = apologies[k]
          /\ ai_faults <= ai_faults'
      BY <1>3, <2>5
      DEF Process, StartJob, DeliverAnswer, CallRefused, AnswerReplyLost, Says, FinishJob, FinishLost,
          AskingFails, HandleFailure, Apologise
    <3> QED BY <3>1, <2>2, <2>5, OthersRest
  <2> QED BY <2>4, <2>5
(* A crash is counted for every question the worker had claimed.           *)
<1>4. ASSUME NEW w \in Workers, WorkerCrash(w) PROVE \A k \in Jobs : VoiceBudget(k)'
  <2> SUFFICES ASSUME NEW k \in Jobs PROVE VoiceBudget(k)'
    OBVIOUS
  <2>1. /\ Heard(k)' = Heard(k) /\ Heard(k) \in Nat
        /\ ai_faults' = ai_faults + 1
    BY <1>4 DEF WorkerCrash, Heard
  <2>2. Askers(k)' = Askers(k) \ {w}
    BY <1>4 DEF WorkerCrash, Askers
  <2>3. Cardinality(Askers(k)') <= Cardinality(Askers(k)) /\ Cardinality(Askers(k)') \in Nat
    <3>1. CASE w \in Askers(k)
      <4>1. Cardinality(Askers(k)') = Cardinality(Askers(k)) - 1
        BY <2>2, <3>1, AskerLeaves
      <4> QED BY <4>1, AskersFinite, AskersStayFinite
    <3>2. CASE w \notin Askers(k)
      <4>1. Askers(k)' = Askers(k)
        BY <2>2, <3>2
      <4> QED BY <4>1, AskersFinite
    <3> QED BY <3>1, <3>2
  <2> QED BY <2>1, <2>3, AskersFinite DEF VoiceBudget
<1>5. CASE UNCHANGED aiVars
  BY <1>5, OthersRest DEF aiVars
<1> QED BY <1>1, <1>2, <1>3, <1>4, <1>5 DEF AINext

LEMMA AIAlways == AISpec => []AIInv
<1>1. AIInv /\ [AINext]_aiVars => AIInv'
  BY AITypeStep, VoiceStep DEF AIInv
<1> QED BY <1>1, AIInitially, PTL DEF AISpec

(* Jobs, leases, workers and what the student heard keep their types.      *)
THEOREM AITypeCorrect == AISpec => []AITypeOK
<1>1. AIInv => AITypeOK
  BY DEF AIInv
<1> QED BY AIAlways, <1>1, PTL

(* claim_jobs, finish_job, _deliver_answer and _handle_failure let any     *)
(* number of workers say one thing about a question, although finish_job   *)
(* takes no owner, and one thing more for each crash, overrun lease, lost  *)
(* final write and lost reply of Telegram.                                 *)
THEOREM QuestionHeardOnce == AISpec => []HeardOnceButForFaults
<1>1. AIInv => HeardOnceButForFaults
  <2> SUFFICES ASSUME AIInv, NEW j \in Jobs PROVE Heard(j) <= 1 + ai_faults
    BY DEF Heard, HeardOnceButForFaults
  <2>1. Heard(j) \in Nat /\ ai_faults \in Nat
    BY AISupportAssumption DEF AIInv, AITypeOK, Heard
  <2> QED BY <2>1, AskersFinite DEF AIInv, VoiceBudget
<1> QED BY AIAlways, <1>1, PTL

-----------------------------------------------------------------------------
(* SchedulerCycle                                                          *)

Runs ==
  [status : RunStatus, by : {Nobody} \cup {release[r] : r \in Replicas}, lapsed : BOOLEAN]

CycleTypeInv == CycleTypeOK /\ day \in Runs

(* An hour that somebody is at work on has not succeeded, and one that     *)
(* succeeded was committed once.                                           *)
HourInv ==
  /\ hour_row # Nobody => hour # "succeeded"
  /\ hours = IF hour = "succeeded" THEN 1 ELSE 0

(* Who posted a webhook and has not committed holds the lock still; every  *)
(* post but the last was rolled back, or its call raised.                  *)
HookInv ==
  /\ \A r \in Replicas : cycle[r] \in {"webhooks", "deliveries"} => lock = r
  /\ \A r \in Replicas : posted[r] =>
       lock = r /\ hook = "pending" /\ cycle[r] \notin {"idle", "webhooks", "backup"}
  /\ posts <= aborts + timeouts +
       (IF hook = "delivered" \/ \E r \in Replicas : posted[r] THEN 1 ELSE 0)

(* Whoever claimed the day holds its row until its commit.                 *)
DayClaimed == \A r \in Replicas : cycle[r] = "claimed" <=> day_row = r

(* Without lapses a backup that runs is the one of the day's row, and the  *)
(* row is in nobody's hands meanwhile.                                     *)
BackupInv ==
  lapses = 0 /\ (\A r, s \in Replicas : release[r] = release[s] => r = s) =>
    \A r \in Replicas : cycle[r] = "backup" =>
      /\ day.status = "running" /\ ~day.lapsed /\ day.by = release[r]
      /\ day_row = Nobody

CycleInv == CycleTypeInv /\ HourInv /\ HookInv /\ DayClaimed /\ BackupInv

LEMMA CycleInitially == CycleInit => CycleInv
<1> SUFFICES ASSUME CycleInit PROVE CycleInv
  OBVIOUS
<1>1. NoRun \in Runs /\ NoRun.status = "absent"
  BY DEF NoRun, Runs, RunStatus
<1>2. CycleTypeInv
  <2>1. /\ cycle \in [Replicas -> {"idle", "webhooks", "deliveries", "hourly", "work", "daily",
                                   "commit", "claimed", "backup"}]
        /\ posted \in [Replicas -> BOOLEAN]
    BY DEF CycleInit
  <2>2. aborts \in 0..MaxAborts /\ lapses \in 0..MaxLapses /\ failures \in 0..MaxFailures
    BY CycleAssumption DEF CycleInit
  <2>3. day \in Runs /\ day.status \in RunStatus /\ day.lapsed \in BOOLEAN
    BY <1>1 DEF CycleInit, Runs
  <2> QED BY <2>1, <2>2, <2>3 DEF CycleInit, CycleTypeInv, CycleTypeOK, RunStatus
<1>3. HourInv /\ HookInv /\ DayClaimed /\ BackupInv
  BY CycleAssumption DEF CycleInit, HourInv, HookInv, DayClaimed, BackupInv
<1> QED BY <1>2, <1>3 DEF CycleInv

LEMMA CycleMovesType ==
  ASSUME CycleTypeInv, NEW r \in Replicas, NEW from,
         NEW to \in {"idle", "webhooks", "deliveries", "hourly", "work", "daily", "commit",
                     "claimed", "backup"},
         CycleMoves(r, from, to)
  PROVE  /\ cycle' \in [Replicas -> {"idle", "webhooks", "deliveries", "hourly", "work",
                                     "daily", "commit", "claimed", "backup"}]
         /\ cycle[r] = from /\ cycle'[r] = to
         /\ \A s \in Replicas \ {r} : cycle'[s] = cycle[s]
BY DEF CycleTypeInv, CycleTypeOK, CycleMoves

LEMMA CommitHookType ==
  ASSUME CycleTypeInv, NEW r \in Replicas, CommitHook(r)
  PROVE  /\ lock' \in Replicas \cup {Nobody} /\ hook' \in {"pending", "delivered"}
         /\ posted' \in [Replicas -> BOOLEAN] /\ posts' = posts /\ timeouts' = timeouts
BY DEF CycleTypeInv, CycleTypeOK, CommitHook, Without

LEMMA CycleTypeStep == CycleTypeInv /\ [CycleNext]_cycleVars => CycleTypeInv'
<1> SUFFICES ASSUME CycleTypeInv, [CycleNext]_cycleVars PROVE CycleTypeInv'
  OBVIOUS
<1>b. \A x \in Runs : x.status \in RunStatus /\ x.lapsed \in BOOLEAN
  BY DEF Runs
<1>c. release' = release /\ Runs' = Runs
  BY DEF CycleNext, cycleVars, Cycle, AbortCycle, RunLapses, BeginCycle, PostWebhook, NothingDue,
         DeliverJob, NoJob, ClaimHour, DoHour, ClaimDay, NotYetDay, CommitCycle, FinishBackup, Runs
<1> USE CycleAssumption DEF CycleTypeInv, CycleTypeOK, hookVars, hourVars, dayVars, cycleFaults
<1>1. ASSUME NEW r \in Replicas, BeginCycle(r) PROVE CycleTypeInv'
  BY <1>1, <1>c, CycleMovesType DEF BeginCycle
<1>2. ASSUME NEW r \in Replicas, PostWebhook(r) PROVE CycleTypeInv'
  <2>1. cycle' \in [Replicas -> {"idle", "webhooks", "deliveries", "hourly", "work", "daily",
                                 "commit", "claimed", "backup"}]
    BY <1>2, CycleMovesType DEF PostWebhook
  <2>2. CASE /\ posted' = [posted EXCEPT ![r] = TRUE] /\ posts' = posts + 1
             /\ UNCHANGED <<timeouts, failures>>
    BY <1>2, <1>c, <2>1, <2>2 DEF PostWebhook
  <2>3. CASE /\ failures' = failures + 1 /\ failures < MaxFailures /\ UNCHANGED posted
             /\ \E accepted \in {0, 1} :
                  posts' = posts + accepted /\ timeouts' = timeouts + accepted
    BY <1>2, <1>c, <2>1, <2>3 DEF PostWebhook
  <2> QED BY <1>2, <2>2, <2>3 DEF PostWebhook
<1>3. ASSUME NEW r \in Replicas, NothingDue(r) \/ NoJob(r) \/ DoHour(r) \/ NotYetDay(r)
      PROVE  CycleTypeInv'
  BY <1>3, <1>c, CycleMovesType DEF NothingDue, NoJob, DoHour, NotYetDay
<1>4. ASSUME NEW r \in Replicas, DeliverJob(r) PROVE CycleTypeInv'
  <2>1. cycle' \in [Replicas -> {"idle", "webhooks", "deliveries", "hourly", "work", "daily",
                                 "commit", "claimed", "backup"}]
    BY <1>4, CycleMovesType DEF DeliverJob
  <2> QED BY <1>4, <1>c, <2>1, CommitHookType DEF DeliverJob
<1>5. ASSUME NEW r \in Replicas, ClaimHour(r) PROVE CycleTypeInv'
  <2>1. \E to \in {"work", "daily"} : CycleMoves(r, "hourly", to)
    BY <1>5 DEF ClaimHour
  <2>2. cycle' \in [Replicas -> {"idle", "webhooks", "deliveries", "hourly", "work", "daily",
                                 "commit", "claimed", "backup"}]
    BY <2>1, CycleMovesType
  <2>3. hour_row' \in Replicas \cup {Nobody}
    BY <1>5 DEF ClaimHour
  <2> QED BY <1>5, <1>c, <2>2, <2>3 DEF ClaimHour
<1>6. ASSUME NEW r \in Replicas, ClaimDay(r) PROVE CycleTypeInv'
  <2>1. \E to \in {"claimed", "commit"} : CycleMoves(r, "daily", to)
    BY <1>6 DEF ClaimDay
  <2>2. cycle' \in [Replicas -> {"idle", "webhooks", "deliveries", "hourly", "work", "daily",
                                 "commit", "claimed", "backup"}]
    BY <2>1, CycleMovesType
  <2>3. day_row' \in Replicas \cup {Nobody}
    BY <1>6 DEF ClaimDay
  <2> QED BY <1>6, <1>c, <2>2, <2>3 DEF ClaimDay
<1>7. ASSUME NEW r \in Replicas, CommitCycle(r) PROVE CycleTypeInv'
  <2>1. cycle' \in [Replicas -> {"idle", "webhooks", "deliveries", "hourly", "work", "daily",
                                 "commit", "claimed", "backup"}]
    BY <1>7 DEF CommitCycle
  <2>2. /\ lock' \in Replicas \cup {Nobody} /\ hook' \in {"pending", "delivered"}
        /\ posted' \in [Replicas -> BOOLEAN] /\ posts' = posts /\ timeouts' = timeouts
    BY <1>7, CommitHookType DEF CommitCycle
  <2>3. /\ hour' \in RunStatus /\ hours' \in Nat
        /\ hour_row' \in Replicas \cup {Nobody} /\ day_row' \in Replicas \cup {Nobody}
    BY <1>7 DEF CommitCycle, RunStatus, Without
  <2>4. day' \in Runs
    BY <1>7 DEF CommitCycle, Runs, RunStatus
  <2> QED BY <1>7, <1>b, <1>c, <2>1, <2>2, <2>3, <2>4 DEF CommitCycle
<1>8. ASSUME NEW r \in Replicas, FinishBackup(r) PROVE CycleTypeInv'
  <2>1. cycle' \in [Replicas -> {"idle", "webhooks", "deliveries", "hourly", "work", "daily",
                                 "commit", "claimed", "backup"}]
    BY <1>8, CycleMovesType DEF FinishBackup
  <2>2. \E end \in {"succeeded", "failed"} :
          day' = [day EXCEPT !.status = end, !.lapsed = FALSE]
    BY <1>8 DEF FinishBackup
  <2>3. day' \in Runs
    BY <2>2 DEF Runs, RunStatus
  <2>4. failures' \in 0..MaxFailures
    BY <1>8 DEF FinishBackup
  <2> QED BY <1>8, <1>b, <1>c, <2>1, <2>3, <2>4 DEF FinishBackup
<1>9. ASSUME NEW r \in Replicas, AbortCycle(r) PROVE CycleTypeInv'
  BY <1>9, <1>c DEF AbortCycle, Without
<1>10. CASE RunLapses
  <2>1. day' \in Runs
    BY <1>10 DEF RunLapses, Runs
  <2>2. lapses' \in 0..MaxLapses
    BY <1>10 DEF RunLapses
  <2> QED BY <1>10, <1>b, <1>c, <2>1, <2>2 DEF RunLapses
<1>11. CASE UNCHANGED cycleVars
  BY <1>11, <1>c DEF cycleVars
<1> QED BY <1>1, <1>2, <1>3, <1>4, <1>5, <1>6, <1>7, <1>8, <1>9, <1>10, <1>11
        DEF CycleNext, Cycle

LEMMA HourStep == CycleTypeInv /\ HourInv /\ [CycleNext]_cycleVars => HourInv'
<1> SUFFICES ASSUME CycleTypeInv, HourInv, [CycleNext]_cycleVars PROVE HourInv'
  OBVIOUS
<1> USE CycleAssumption DEF CycleTypeInv, CycleTypeOK, HourInv
<1>1. ASSUME NEW r \in Replicas, ClaimHour(r) PROVE HourInv'
  <2>1. hour_row' = r => hour # "succeeded"
    <3>1. [NoRun EXCEPT !.status = hour].status = hour
      BY DEF NoRun
    <3> DEFINE run == [NoRun EXCEPT !.status = hour]
    <3>2. hour_row' = r => Claimable(run, r)
      BY <1>1 DEF ClaimHour
    <3>3. run.status = hour
      BY <3>1
    <3> HIDE DEF run
    <3> QED BY <3>2, <3>3 DEF Claimable
  <2> QED BY <1>1, <2>1 DEF ClaimHour
<1>2. ASSUME NEW r \in Replicas, CommitCycle(r) PROVE HourInv'
  BY <1>2 DEF CommitCycle, Without
<1>3. ASSUME NEW r \in Replicas, AbortCycle(r) PROVE HourInv'
  BY <1>3 DEF AbortCycle, Without
<1>4. ASSUME NEW r \in Replicas,
             \/ BeginCycle(r) \/ PostWebhook(r) \/ NothingDue(r) \/ DeliverJob(r) \/ NoJob(r)
             \/ DoHour(r) \/ ClaimDay(r) \/ NotYetDay(r) \/ FinishBackup(r)
      PROVE  HourInv'
  BY <1>4 DEF BeginCycle, PostWebhook, NothingDue, DeliverJob, NoJob, DoHour, ClaimDay,
              NotYetDay, FinishBackup, hourVars
<1>5. CASE RunLapses \/ UNCHANGED cycleVars
  BY <1>5 DEF RunLapses, cycleVars, hourVars
<1> QED BY <1>1, <1>2, <1>3, <1>4, <1>5 DEF CycleNext, Cycle

LEMMA HookStep == CycleTypeInv /\ HookInv /\ [CycleNext]_cycleVars => HookInv'
<1> SUFFICES ASSUME CycleTypeInv, HookInv, [CycleNext]_cycleVars PROVE HookInv'
  OBVIOUS
<1> USE CycleAssumption DEF CycleTypeInv, CycleTypeOK, HookInv, hookVars
<1>1. ASSUME NEW r \in Replicas, BeginCycle(r) PROVE HookInv'
  BY <1>1, CycleMovesType DEF BeginCycle, cycleFaults
(* The others hold no lock, so nobody has posted what is pending.          *)
<1>2. ASSUME NEW r \in Replicas, PostWebhook(r) PROVE HookInv'
  <2>1. /\ cycle[r] = "webhooks" /\ cycle'[r] = "deliveries" /\ hook = "pending"
        /\ \A s \in Replicas \ {r} : cycle'[s] = cycle[s]
        /\ UNCHANGED <<lock, hook, aborts>>
    BY <1>2, CycleMovesType DEF PostWebhook
  <2>2. lock = r /\ \A s \in Replicas : ~posted[s]
    BY <2>1
  <2>3. \A s \in Replicas \ {r} : ~posted'[s]
    BY <1>2, <2>2 DEF PostWebhook
  <2>4. \/ posts' = posts + 1 /\ posted'[r] /\ timeouts' = timeouts
        \/ \E accepted \in {0, 1} :
             posts' = posts + accepted /\ timeouts' = timeouts + accepted
    BY <1>2 DEF PostWebhook
  <2>5. posts <= aborts + timeouts
    BY <2>1, <2>2
  <2> QED BY <2>1, <2>2, <2>3, <2>4, <2>5
<1>3. ASSUME NEW r \in Replicas, NothingDue(r) PROVE HookInv'
  BY <1>3, CycleMovesType DEF NothingDue, cycleFaults
<1>4. ASSUME NEW r \in Replicas, NEW to \in {"hourly", "backup", "idle"}, CommitHook(r),
             cycle' = [cycle EXCEPT ![r] = to], aborts' = aborts
      PROVE  HookInv'
  <2>1. ~posted'[r] /\ \A s \in Replicas \ {r} : posted'[s] = posted[s]
    BY <1>4 DEF CommitHook
  <2>2. cycle'[r] = to /\ \A s \in Replicas \ {r} : cycle'[s] = cycle[s]
    BY <1>4
  <2>3. \A s \in Replicas \ {r} : lock = s => lock' = s
    BY <1>4 DEF CommitHook, Without
  <2>4. posts' = posts /\ timeouts' = timeouts /\ hook' = IF posted[r] THEN "delivered" ELSE hook
    BY <1>4 DEF CommitHook
  <2>5. posted[r] => \A s \in Replicas \ {r} : ~posted[s]
    OBVIOUS
  <2>6. \A s \in Replicas : cycle'[s] \in {"webhooks", "deliveries"} => lock' = s
    BY <2>2, <2>3
  <2>7. \A s \in Replicas : posted'[s] =>
          lock' = s /\ hook' = "pending" /\ cycle'[s] \notin {"idle", "webhooks", "backup"}
    BY <2>1, <2>2, <2>3, <2>4, <2>5
  <2>8. hook = "delivered" \/ (\E s \in Replicas : posted[s])
          => hook' = "delivered" \/ \E s \in Replicas : posted'[s]
    BY <2>1, <2>4
  <2> QED BY <1>4, <2>4, <2>6, <2>7, <2>8
<1>5. ASSUME NEW r \in Replicas, DeliverJob(r) PROVE HookInv'
  BY <1>4, <1>5 DEF DeliverJob, CycleMoves, cycleFaults
<1>6. ASSUME NEW r \in Replicas, CommitCycle(r) PROVE HookInv'
  <2>1. \E to \in {"backup", "idle"} : cycle' = [cycle EXCEPT ![r] = to]
    BY <1>6 DEF CommitCycle
  <2> QED BY <1>4, <1>6, <2>1 DEF CommitCycle, cycleFaults
<1>7. ASSUME NEW r \in Replicas, NEW from, NEW to \in {"hourly", "work", "daily", "claimed", "commit"},
             CycleMoves(r, from, to), UNCHANGED <<lock, hookVars, aborts>>
      PROVE  HookInv'
  BY <1>7, CycleMovesType
<1>8. ASSUME NEW r \in Replicas,
             NoJob(r) \/ ClaimHour(r) \/ DoHour(r) \/ ClaimDay(r) \/ NotYetDay(r)
      PROVE  HookInv'
  <2>1. \E from, to \in {"deliveries", "hourly", "work", "daily", "claimed", "commit"} :
          to # "deliveries" /\ CycleMoves(r, from, to)
    BY <1>8 DEF NoJob, ClaimHour, DoHour, ClaimDay, NotYetDay
  <2>2. UNCHANGED <<lock, hookVars, aborts>>
    BY <1>8 DEF NoJob, ClaimHour, DoHour, ClaimDay, NotYetDay, cycleFaults
  <2> QED BY <1>7, <2>1, <2>2
<1>9. ASSUME NEW r \in Replicas, FinishBackup(r) PROVE HookInv'
  BY <1>9, CycleMovesType DEF FinishBackup
(* The rollback of a post is counted.                                      *)
<1>10. ASSUME NEW r \in Replicas, AbortCycle(r) PROVE HookInv'
  <2>1. ~posted'[r] /\ \A s \in Replicas \ {r} : posted'[s] = posted[s]
    BY <1>10 DEF AbortCycle
  <2>2. cycle'[r] = "idle" /\ \A s \in Replicas \ {r} : cycle'[s] = cycle[s]
    BY <1>10 DEF AbortCycle
  <2>3. \A s \in Replicas \ {r} : lock = s => lock' = s
    BY <1>10 DEF AbortCycle, Without
  <2>4. posts' = posts /\ timeouts' = timeouts /\ hook' = hook /\ aborts' = aborts + 1
    BY <1>10 DEF AbortCycle
  <2> QED BY <2>1, <2>2, <2>3, <2>4
<1>11. CASE RunLapses \/ UNCHANGED cycleVars
  BY <1>11 DEF RunLapses, cycleVars, cycleFaults
<1> QED BY <1>1, <1>2, <1>3, <1>5, <1>6, <1>8, <1>9, <1>10, <1>11 DEF CycleNext, Cycle

LEMMA BackupStep ==
  CycleTypeInv /\ DayClaimed /\ BackupInv /\ [CycleNext]_cycleVars => DayClaimed' /\ BackupInv'
<1> SUFFICES ASSUME CycleTypeInv, DayClaimed, BackupInv, [CycleNext]_cycleVars
             PROVE  DayClaimed' /\ BackupInv'
  OBVIOUS
<1> USE CycleAssumption DEF CycleTypeInv, CycleTypeOK, DayClaimed, dayVars
<1>a. release' = release
  BY DEF CycleNext, cycleVars, Cycle, AbortCycle, RunLapses, BeginCycle, PostWebhook, NothingDue,
         DeliverJob, NoJob, ClaimHour, DoHour, ClaimDay, NotYetDay, CommitCycle, FinishBackup
(* A step on the way, neither to a backup nor from one.                    *)
<1>1. ASSUME NEW r \in Replicas, NEW from, NEW to \in {"webhooks", "deliveries", "hourly", "work",
                                                       "daily", "commit"},
             CycleMoves(r, from, to), from # "claimed", UNCHANGED <<dayVars, lapses>>
      PROVE  DayClaimed' /\ BackupInv'
  BY <1>1, <1>a, CycleMovesType DEF BackupInv
<1>2. ASSUME NEW r \in Replicas,
             \/ BeginCycle(r) \/ PostWebhook(r) \/ NothingDue(r) \/ DeliverJob(r) \/ NoJob(r)
             \/ ClaimHour(r) \/ DoHour(r) \/ NotYetDay(r)
      PROVE  DayClaimed' /\ BackupInv'
  <2>1. \E from \in {"idle", "webhooks", "deliveries", "hourly", "work", "daily"} :
          \E to \in {"webhooks", "deliveries", "hourly", "work", "daily", "commit"} :
            CycleMoves(r, from, to)
    BY <1>2 DEF BeginCycle, PostWebhook, NothingDue, DeliverJob, NoJob, ClaimHour, DoHour,
                NotYetDay
  <2>2. UNCHANGED <<dayVars, lapses>>
    BY <1>2 DEF BeginCycle, PostWebhook, NothingDue, DeliverJob, NoJob, ClaimHour, DoHour,
                NotYetDay, cycleFaults
  <2> QED BY <1>1, <2>1, <2>2
(* A run under way under another release is refused, so that nobody makes  *)
(* the backup of a day that is claimed.                                    *)
<1>3. ASSUME NEW r \in Replicas, ClaimDay(r) PROVE DayClaimed' /\ BackupInv'
  <2>1. day_row = Nobody /\ UNCHANGED <<day, lapses>>
    BY <1>3 DEF ClaimDay, cycleFaults
  <2>2. CASE Claimable(day, r)
    <3>1. CycleMoves(r, "daily", "claimed") /\ day_row' = r
      BY <1>3, <2>2 DEF ClaimDay
    <3>2. cycle[r] = "daily" /\ cycle'[r] = "claimed" /\ \A s \in Replicas \ {r} : cycle'[s] = cycle[s]
      BY <3>1, CycleMovesType
    <3>3. DayClaimed'
      BY <2>1, <3>1, <3>2
    <3>4. BackupInv'
      BY <2>1, <2>2, <3>1, <3>2, <1>a DEF BackupInv, Claimable
    <3> QED BY <3>3, <3>4
  <2>3. CASE ~Claimable(day, r)
    <3>1. CycleMoves(r, "daily", "commit") /\ day_row' = day_row
      BY <1>3, <2>1, <2>3 DEF ClaimDay
    <3> QED BY <1>1, <2>1, <3>1
  <2> QED BY <2>2, <2>3
<1>4. ASSUME NEW r \in Replicas, CommitCycle(r) PROVE DayClaimed' /\ BackupInv'
  <2>1. \A s \in Replicas \ {r} : cycle'[s] = cycle[s]
    BY <1>4 DEF CommitCycle
  <2>2. lapses' = lapses
    BY <1>4 DEF CommitCycle, cycleFaults
  <2>3. CASE cycle[r] = "claimed"
    <3>1. /\ cycle'[r] = "backup" /\ day_row = r /\ day_row' = Nobody
          /\ day' = [status |-> "running", by |-> release[r], lapsed |-> FALSE]
      BY <1>4, <2>3 DEF CommitCycle, Without
    <3>2. DayClaimed'
      BY <2>1, <3>1
    <3>3. BackupInv'
      BY <2>1, <2>2, <3>1, <1>a DEF BackupInv
    <3> QED BY <3>2, <3>3
  <2>4. CASE cycle[r] = "commit"
    <3>1. cycle'[r] = "idle" /\ day_row # r /\ UNCHANGED <<day, day_row>>
      BY <1>4, <2>4 DEF CommitCycle, Without
    <3> QED BY <2>1, <2>2, <3>1, <1>a DEF BackupInv
  <2> QED BY <1>4, <2>3, <2>4 DEF CommitCycle
<1>5. ASSUME NEW r \in Replicas, FinishBackup(r) PROVE DayClaimed' /\ BackupInv'
  <2>1. /\ cycle[r] = "backup" /\ cycle'[r] = "idle" /\ day_row' = day_row /\ lapses' = lapses
        /\ \A s \in Replicas \ {r} : cycle'[s] = cycle[s]
    BY <1>5, CycleMovesType DEF FinishBackup
  <2>2. DayClaimed'
    BY <2>1
  <2>3. lapses = 0 /\ (\A x, y \in Replicas : release[x] = release[y] => x = y) =>
          \A s \in Replicas \ {r} : cycle[s] # "backup"
    BY <2>1 DEF BackupInv
  <2>4. BackupInv'
    BY <2>1, <2>3, <1>a DEF BackupInv
  <2> QED BY <2>2, <2>4
<1>6. ASSUME NEW r \in Replicas, AbortCycle(r) PROVE DayClaimed' /\ BackupInv'
  <2>1. /\ cycle'[r] = "idle" /\ \A s \in Replicas \ {r} : cycle'[s] = cycle[s]
        /\ day_row' = Without(day_row, r) /\ UNCHANGED <<day, lapses>>
    BY <1>6 DEF AbortCycle
  <2> QED BY <2>1, <1>a DEF BackupInv, Without
<1>7. CASE RunLapses
  <2>1. UNCHANGED <<cycle, day_row>>
    BY <1>7 DEF RunLapses
  <2>2. (\E r \in Replicas : cycle[r] = "backup") => lapses' # 0
    BY <1>7 DEF RunLapses
  <2> QED BY <2>1, <2>2 DEF BackupInv
<1>8. CASE UNCHANGED cycleVars
  BY <1>8 DEF cycleVars, cycleFaults, BackupInv
<1> QED BY <1>2, <1>3, <1>4, <1>5, <1>6, <1>7, <1>8 DEF CycleNext, Cycle

LEMMA CycleAlways == CycleSpec => []CycleInv
<1>1. CycleInv /\ [CycleNext]_cycleVars => CycleInv'
  BY CycleTypeStep, HourStep, HookStep, BackupStep DEF CycleInv
<1> QED BY <1>1, CycleInitially, PTL DEF CycleSpec

(* Locks, rows of scheduled runs, posts and the steps of every replica     *)
(* keep their types.                                                       *)
THEOREM CycleTypeCorrect == CycleSpec => []CycleTypeOK
<1>1. CycleInv => CycleTypeOK
  BY DEF CycleInv, CycleTypeInv
<1> QED BY <1>1, CycleAlways, PTL

(* Of any number of replicas whose cycles overlap after the commit of a    *)
(* delivery: the hour's work is committed once, a webhook is accepted once *)
(* more at most for every cycle that was aborted and every timeout that    *)
(* followed an acceptance, and backups by different releases exclude each  *)
(* other unless one outlives its lease.                                    *)
THEOREM CyclesActOnce == CycleSpec => []EffectsOnce
<1>1. CycleInv => EffectsOnce
  <2> SUFFICES ASSUME CycleInv PROVE EffectsOnce
    OBVIOUS
  <2>1. hours <= 1
    BY DEF CycleInv, HourInv
  <2>2. posts <= 1 + aborts + timeouts
    BY CycleAssumption DEF CycleInv, HookInv, CycleTypeInv, CycleTypeOK
  <2>3. lapses = 0 /\ (\A r, s \in Replicas : release[r] = release[s] => r = s)
          => \A r, s \in Replicas : cycle[r] = "backup" /\ cycle[s] = "backup" => r = s
    BY DEF CycleInv, BackupInv
  <2> QED BY <2>1, <2>2, <2>3 DEF EffectsOnce
<1> QED BY <1>1, CycleAlways, PTL

-----------------------------------------------------------------------------
(* Announcements                                                           *)

OpenRows ==
  [busy : BOOLEAN, todo : SUBSET Copies, loaded : SUBSET Notices, ended : SUBSET Notices,
   blocked : SUBSET Copies]

(* A copy that counts is sent in the committed row or in the one that an   *)
(* open transaction wrote, never in both, or its call raised; and nobody   *)
(* has a copy of a notice that is not there yet.                           *)
CopyInv ==
  /\ \A k \in Copies :
       /\ booked[k] = lost[k] + IF row[k] = "sent" \/ draft[k] = "sent" THEN 1 ELSE 0
       /\ holder[k] = Nobody <=> draft[k] = "none"
       /\ holder[k] # Nobody => row[k] # "sent"
       /\ notice[k[1]] = "none" => row[k] = "none" /\ holder[k] = Nobody /\ lost[k] = 0
  /\ \A s \in Senders : \A k \in open[s].todo : notice[k[1]] # "none"

NoticeInv == AnnouncementTypeOK /\ CopyInv

LEMMA AnnouncementInitially == AnnouncementInit => NoticeInv
<1> SUFFICES ASSUME AnnouncementInit PROVE NoticeInv
  OBVIOUS
<1>1. Idle \in OpenRows /\ Idle.todo = {}
  BY DEF Idle, OpenRows
<1>2. AnnouncementTypeOK
  <2>1. open \in [Senders -> OpenRows]
    BY <1>1 DEF AnnouncementInit
  <2> QED BY <2>1, AnnouncementAssumption DEF AnnouncementInit, AnnouncementTypeOK, OpenRows
<1>3. CopyInv
  BY <1>1 DEF AnnouncementInit, CopyInv, Copies
<1> QED BY <1>2, <1>3 DEF NoticeInv

LEMMA SomebodySends == Nobody \notin Senders
BY AnnouncementAssumption DEF Senders

(* The steps of notices and campaigns: no copy is touched, and a notice    *)
(* that was there stays there.                                             *)
LEMMA NoticesMove ==
  ASSUME NoticeInv, UNCHANGED sendVars,
         notice' \in [Notices -> {"none", "scheduled", "active", "finished"}],
         \A n \in Notices : notice'[n] = "none" => notice[n] = "none",
         over' \subseteq Notices,
         ad' \in [Ads -> {"awaiting_payment", "under_review", "active", "rejected"}]
  PROVE  NoticeInv'
<1>1. \A s \in Senders : \A k \in open[s].todo : k[1] \in Notices
  BY DEF NoticeInv, AnnouncementTypeOK, Copies
<1>2. \A k \in Copies : k[1] \in Notices
  BY DEF Copies
<1>3. CopyInv'
  BY <1>1, <1>2 DEF NoticeInv, CopyInv, sendVars
<1> QED BY <1>3 DEF NoticeInv, AnnouncementTypeOK, sendVars

(* A transaction begins with copies of notices that are there.             *)
LEMMA OpenStep ==
  ASSUME NoticeInv, NEW s \in Senders, NEW todo \in SUBSET Copies,
         NEW loaded \in SUBSET Notices, NEW ended \in SUBSET Notices,
         \A k \in todo : notice[k[1]] # "none", Open(s, todo, loaded, ended)
  PROVE  NoticeInv'
<1>1. Opened(todo, loaded, ended) \in OpenRows /\ Opened(todo, loaded, ended).todo = todo
  BY DEF Opened, OpenRows
<1>2. /\ open' \in [Senders -> OpenRows] /\ open'[s].todo = todo
      /\ \A t \in Senders \ {s} : open'[t] = open[t]
  BY <1>1 DEF Open, NoticeInv, AnnouncementTypeOK, OpenRows
<1>3. CopyInv'
  BY <1>2 DEF Open, NoticeInv, CopyInv
<1> QED BY <1>2, <1>3 DEF Open, NoticeInv, AnnouncementTypeOK, OpenRows

(* What a sender does to its own list keeps to the list.                   *)
LEMMA TodoShrinks ==
  ASSUME NoticeInv, NEW s \in Senders, NEW entry \in OpenRows, entry.todo \subseteq open[s].todo,
         open' = [open EXCEPT ![s] = entry]
  PROVE  /\ open' \in [Senders -> OpenRows]
         /\ \A t \in Senders : \A k \in open'[t].todo : notice[k[1]] # "none"
<1>1. /\ open' \in [Senders -> OpenRows] /\ open'[s] = entry
      /\ \A t \in Senders \ {s} : open'[t] = open[t]
  BY DEF NoticeInv, AnnouncementTypeOK, OpenRows
<1> QED BY <1>1 DEF NoticeInv, CopyInv

LEMMA SendStep ==
  ASSUME NoticeInv, NEW s \in Senders, NEW k \in UpNext(s), SendOne(s, k)
  PROVE  NoticeInv'
<1> USE AnnouncementAssumption, SomebodySends
<1>a. AnnouncementTypeOK /\ CopyInv
  BY DEF NoticeInv
<1>b. k \in Copies /\ k \in open[s].todo /\ notice[k[1]] # "none"
  BY <1>a DEF UpNext, AnnouncementTypeOK, CopyInv
<1>1. open[s] \in OpenRows
  BY <1>a DEF AnnouncementTypeOK, OpenRows
<1> DEFINE entry == [open[s] EXCEPT !.todo = @ \ {k}, !.blocked = {}]
<1>2. entry \in OpenRows /\ entry.todo \subseteq open[s].todo
  BY <1>1 DEF OpenRows
<1>3. open' = [open EXCEPT ![s] = entry]
  BY DEF SendOne, Done
<1> HIDE DEF entry
<1>4. /\ open' \in [Senders -> OpenRows]
      /\ \A t \in Senders : \A x \in open'[t].todo : notice[x[1]] # "none"
  BY <1>2, <1>3, TodoShrinks
<1>5. UNCHANGED <<notice, over, ad, row, broken>>
  BY DEF SendOne
<1>6. CASE UNCHANGED <<heard, booked, lost, draft, unreachable, holder>>
  BY <1>a, <1>4, <1>5, <1>6 DEF NoticeInv, AnnouncementTypeOK, CopyInv, OpenRows
<1>7. CASE row[k] # "sent" /\ (Reaches(s, k) \/ Raises(k))
           /\ holder' = [holder EXCEPT ![k] = s]
  <2>1. holder[k] = Nobody /\ booked[k] = lost[k] /\ lost[k] \in Nat
    BY <1>a, <1>b, <1>7 DEF SendOne, CopyInv, AnnouncementTypeOK
  <2>2. /\ heard' \subseteq Copies /\ unreachable' \in 0..MaxUnreachable
        /\ booked' \in [Copies -> Nat] /\ lost' \in [Copies -> Nat]
        /\ draft' \in [Copies -> {"none", "unsent", "sent"}]
        /\ \/ booked'[k] = lost'[k] + 1 /\ draft'[k] = "sent"
           \/ booked'[k] = lost'[k] /\ draft'[k] = "unsent"
        /\ lost'[k] \in Nat
        /\ \A x \in Copies \ {k} :
             booked'[x] = booked[x] /\ lost'[x] = lost[x] /\ draft'[x] = draft[x]
    <3>1. CASE Reaches(s, k)
      BY <3>1, <2>1, <1>a, <1>b DEF Reaches, AnnouncementTypeOK
    <3>2. CASE Raises(k)
      BY <3>2, <2>1, <1>a, <1>b DEF Raises, AnnouncementTypeOK
    <3> QED BY <1>7, <3>1, <3>2
  <2>3. /\ holder' \in [Copies -> Senders \cup {Nobody}] /\ holder'[k] = s
        /\ \A x \in Copies \ {k} : holder'[x] = holder[x]
    BY <1>a, <1>b, <1>7 DEF AnnouncementTypeOK
  <2>4. CopyInv'
    BY <1>a, <1>b, <1>4, <1>5, <1>7, <2>2, <2>3 DEF CopyInv
  <2> QED BY <1>a, <1>4, <1>5, <2>2, <2>3, <2>4 DEF NoticeInv, AnnouncementTypeOK, OpenRows
<1> QED BY <1>6, <1>7 DEF SendOne

(* A transaction that ends gives up its rows.                              *)
LEMMA ReleaseType ==
  ASSUME NoticeInv, NEW s \in Senders, Release(s)
  PROVE  /\ open' \in [Senders -> OpenRows]
         /\ \A t \in Senders : \A k \in open'[t].todo : notice[k[1]] # "none"
         /\ holder' \in [Copies -> Senders \cup {Nobody}]
         /\ draft' \in [Copies -> {"none", "unsent", "sent"}]
         /\ \A k \in Copies :
              IF holder[k] = s THEN holder'[k] = Nobody /\ draft'[k] = "none"
              ELSE holder'[k] = holder[k] /\ draft'[k] = draft[k]
<1>1. Idle \in OpenRows /\ Idle.todo = {}
  BY DEF Idle, OpenRows
<1>2. /\ open' \in [Senders -> OpenRows]
      /\ \A t \in Senders : \A k \in open'[t].todo : notice[k[1]] # "none"
  BY <1>1, TodoShrinks DEF Release
<1> QED BY <1>2 DEF Release, WrittenBy, NoticeInv, AnnouncementTypeOK

LEMMA RollBackStep ==
  ASSUME NoticeInv, NEW s \in Senders, RollBack(s), broken' \in 0..MaxBroken
  PROVE  NoticeInv'
<1> USE AnnouncementAssumption, SomebodySends
<1>a. AnnouncementTypeOK /\ CopyInv
  BY DEF NoticeInv
<1>1. Release(s) /\ UNCHANGED <<notice, over, ad, row, heard, lost, unreachable>>
  BY DEF RollBack
<1>2. /\ booked' \in [Copies -> Nat]
      /\ \A k \in Copies : booked'[k] = IF holder[k] = s /\ draft[k] = "sent" THEN lost[k]
                                        ELSE booked[k]
  <2>1. \A k \in Copies : draft[k] = "sent" => booked[k] = lost[k] + 1 /\ lost[k] \in Nat
    BY <1>a DEF CopyInv, AnnouncementTypeOK
  <2>2. booked' = [k \in Copies |->
          IF k \in WrittenBy(s) /\ draft[k] = "sent" THEN booked[k] - 1 ELSE booked[k]]
    BY DEF RollBack
  <2>3. booked' = [k \in Copies |->
          IF holder[k] = s /\ draft[k] = "sent" THEN lost[k] ELSE booked[k]]
    BY <2>1, <2>2 DEF WrittenBy
  <2> QED BY <2>3, <1>a DEF AnnouncementTypeOK
<1>3. CopyInv'
  BY <1>a, <1>1, <1>2, ReleaseType DEF CopyInv
<1> QED BY <1>a, <1>1, <1>2, <1>3, ReleaseType DEF NoticeInv, AnnouncementTypeOK, OpenRows

LEMMA CommitStep ==
  ASSUME NoticeInv, NEW s \in Senders, Commit(s)
  PROVE  NoticeInv'
<1> USE AnnouncementAssumption, SomebodySends
<1>a. AnnouncementTypeOK /\ CopyInv
  BY DEF NoticeInv
<1>1. Release(s) /\ UNCHANGED <<over, ad, heard, booked, lost, unreachable, broken>>
  BY DEF Commit
<1>2. /\ row' \in [Copies -> {"none", "unsent", "sent"}]
      /\ \A k \in Copies : row'[k] = IF holder[k] = s THEN draft[k] ELSE row[k]
  BY <1>a DEF Commit, WrittenBy, AnnouncementTypeOK
<1>3. /\ notice' \in [Notices -> {"none", "scheduled", "active", "finished"}]
      /\ \A n \in Notices : notice'[n] = "none" => notice[n] = "none"
  BY <1>a DEF Commit, AnnouncementTypeOK
<1>4. \A k \in Copies : k[1] \in Notices
  BY DEF Copies
<1>5. CopyInv'
  <2>1. ASSUME NEW k \in Copies
        PROVE  /\ booked'[k] = lost'[k] + IF row'[k] = "sent" \/ draft'[k] = "sent" THEN 1 ELSE 0
               /\ holder'[k] = Nobody <=> draft'[k] = "none"
               /\ holder'[k] # Nobody => row'[k] # "sent"
               /\ notice'[k[1]] = "none" =>
                    row'[k] = "none" /\ holder'[k] = Nobody /\ lost'[k] = 0
    <3>1. CASE holder[k] = s
      BY <1>a, <1>1, <1>2, <1>3, <1>4, <3>1, ReleaseType DEF CopyInv
    <3>2. CASE holder[k] # s
      BY <1>a, <1>1, <1>2, <1>3, <1>4, <3>2, ReleaseType DEF CopyInv
    <3> QED BY <3>1, <3>2
  <2>2. ASSUME NEW t \in Senders, NEW k \in open'[t].todo PROVE notice'[k[1]] # "none"
    BY <1>1, <1>3, <1>4, ReleaseType DEF OpenRows
  <2> QED BY <2>1, <2>2 DEF CopyInv
<1> QED BY <1>a, <1>1, <1>2, <1>3, <1>5, ReleaseType DEF NoticeInv, AnnouncementTypeOK, OpenRows

(* A notice that is published at once has no copies before.                *)
LEMMA PublishStep ==
  ASSUME NoticeInv, NEW n \in Notices, Publish(n)
  PROVE  NoticeInv'
<1> USE AnnouncementAssumption
<1>a. AnnouncementTypeOK /\ CopyInv
  BY DEF NoticeInv
<1>1. PICK reached \in SUBSET Recipients : \E served \in SUBSET reached :
        /\ notice[n] = "none"
        /\ unreachable + Cardinality(Recipients \ served) <= MaxUnreachable
        /\ unreachable' = unreachable + Cardinality(Recipients \ served)
        /\ notice' = [notice EXCEPT ![n] = "active"]
        /\ row' = [k \in Copies |-> IF k[1] # n THEN row[k]
                                    ELSE IF k[2] \in served THEN "sent" ELSE "unsent"]
        /\ heard' = heard \cup ({n} \X reached)
        /\ booked' = [k \in Copies |-> IF k \in {n} \X reached THEN 1 ELSE booked[k]]
        /\ lost' = [k \in Copies |-> IF k \in {n} \X (reached \ served) THEN 1 ELSE lost[k]]
        /\ UNCHANGED <<over, ad, holder, draft, open, broken>>
  BY DEF Publish
<1>b. PICK served \in SUBSET reached :
        /\ unreachable + Cardinality(Recipients \ served) <= MaxUnreachable
        /\ unreachable' = unreachable + Cardinality(Recipients \ served)
        /\ row' = [k \in Copies |-> IF k[1] # n THEN row[k]
                                    ELSE IF k[2] \in served THEN "sent" ELSE "unsent"]
        /\ lost' = [k \in Copies |-> IF k \in {n} \X (reached \ served) THEN 1 ELSE lost[k]]
  BY <1>1
<1>2. Cardinality(Recipients \ served) \in Nat
  BY FS_Difference, FS_CardinalityType
<1>3. unreachable' \in 0..MaxUnreachable
  BY <1>a, <1>b, <1>2 DEF AnnouncementTypeOK
<1>4. \A k \in Copies :
        /\ k[1] \in Notices
        /\ k \in {n} \X reached <=> k[1] = n /\ k[2] \in reached
        /\ k \in {n} \X (reached \ served) <=> k[1] = n /\ k[2] \in reached \ served
  BY DEF Copies
<1>5. {n} \X reached \subseteq Copies
  BY DEF Copies
<1>6. /\ notice' \in [Notices -> {"none", "scheduled", "active", "finished"}]
      /\ notice'[n] = "active" /\ \A x \in Notices \ {n} : notice'[x] = notice[x]
  BY <1>a, <1>1 DEF AnnouncementTypeOK
<1>7. /\ row' \in [Copies -> {"none", "unsent", "sent"}]
      /\ booked' \in [Copies -> Nat] /\ lost' \in [Copies -> Nat]
  BY <1>a, <1>1, <1>b DEF AnnouncementTypeOK
<1>8. ASSUME NEW k \in Copies
      PROVE  /\ booked'[k] = lost'[k] + IF row'[k] = "sent" \/ draft'[k] = "sent" THEN 1 ELSE 0
             /\ holder'[k] = Nobody <=> draft'[k] = "none"
             /\ holder'[k] # Nobody => row'[k] # "sent"
             /\ notice'[k[1]] = "none" =>
                  row'[k] = "none" /\ holder'[k] = Nobody /\ lost'[k] = 0
  <2>1. CASE k[1] = n
    <3>1. /\ draft[k] = "none" /\ row[k] = "none" /\ holder[k] = Nobody
          /\ booked[k] = 0 /\ lost[k] = 0
      BY <1>a, <1>1, <2>1 DEF CopyInv
    <3>2. draft'[k] = "none" /\ holder'[k] = Nobody /\ notice'[k[1]] = "active"
      BY <1>1, <1>6, <2>1, <3>1
    <3>3. /\ booked'[k] = IF k[2] \in reached THEN 1 ELSE 0
          /\ lost'[k] = IF k[2] \in reached \ served THEN 1 ELSE 0
          /\ row'[k] = IF k[2] \in served THEN "sent" ELSE "unsent"
      BY <1>1, <1>b, <1>4, <2>1, <3>1
    <3> QED BY <3>2, <3>3
  <2>2. CASE k[1] # n
    <3>1. /\ row'[k] = row[k] /\ booked'[k] = booked[k] /\ lost'[k] = lost[k]
          /\ notice'[k[1]] = notice[k[1]]
      BY <1>1, <1>b, <1>4, <1>6, <2>2
    <3> QED BY <1>a, <1>1, <3>1 DEF CopyInv
  <2> QED BY <2>1, <2>2
<1>9. ASSUME NEW t \in Senders, NEW k \in open'[t].todo PROVE notice'[k[1]] # "none"
  <2>1. k \in open[t].todo /\ k \in Copies
    BY <1>a, <1>1, <1>9 DEF AnnouncementTypeOK
  <2> QED BY <1>a, <1>4, <1>6, <2>1 DEF CopyInv
<1>10. CopyInv'
  BY <1>8, <1>9 DEF CopyInv
<1> QED BY <1>a, <1>1, <1>3, <1>5, <1>6, <1>7, <1>10 DEF NoticeInv, AnnouncementTypeOK

LEMMA AnnouncementStep == NoticeInv /\ [AnnouncementNext]_announcementVars => NoticeInv'
<1> SUFFICES ASSUME NoticeInv, [AnnouncementNext]_announcementVars PROVE NoticeInv'
  OBVIOUS
<1>a. AnnouncementTypeOK
  BY DEF NoticeInv
<1>1. ASSUME NEW n \in Notices, Schedule(n) \/ EndPasses(n) \/ Stop(n) PROVE NoticeInv'
  BY <1>1, <1>a, NoticesMove DEF Schedule, EndPasses, Stop, AnnouncementTypeOK
<1>2. ASSUME NEW n \in Notices, Publish(n) PROVE NoticeInv'
  BY <1>2, PublishStep
<1>3. ASSUME NEW n \in Ads, SubmitAdProof(n) \/ ApproveAd(n) \/ RejectAd(n) PROVE NoticeInv'
  BY <1>3, <1>a, NoticesMove, AnnouncementAssumption
  DEF SubmitAdProof, ApproveAd, RejectAd, AnnouncementTypeOK
<1>4. ASSUME NEW r \in Cycles, BeginDispatch(r) PROVE NoticeInv'
  <2> DEFINE sending == Due \ over
             scheduled == {n \in sending : notice[n] = "scheduled"}
  <2>1. Open(r, sending \X Recipients, scheduled, Due \cap over)
    BY <1>4 DEF BeginDispatch
  <2>2. /\ sending \X Recipients \in SUBSET Copies /\ scheduled \in SUBSET Notices
        /\ Due \cap over \in SUBSET Notices
        /\ \A k \in sending \X Recipients : notice[k[1]] # "none"
    BY DEF Due, Copies
  <2>3. r \in Senders
    BY DEF Senders
  <2> HIDE DEF sending, scheduled
  <2> QED BY <2>1, <2>2, <2>3, OpenStep
<1>5. ASSUME NEW u \in Recipients, Visit(u) PROVE NoticeInv'
  <2> DEFINE shown == {n \in Notices \ (Ads \cup over) : notice[n] = "active"}
  <2>1. Open(u, shown \X {u}, {}, {})
    BY <1>5 DEF Visit
  <2>2. /\ shown \X {u} \in SUBSET Copies
        /\ \A k \in shown \X {u} : notice[k[1]] # "none"
    BY DEF Copies
  <2>3. u \in Senders
    BY DEF Senders
  <2> HIDE DEF shown
  <2> QED BY <2>1, <2>2, <2>3, OpenStep
<1>6. ASSUME NEW s \in Senders, Fails(s) \/ Break(s) PROVE NoticeInv'
  <2>1. RollBack(s) /\ broken' \in 0..MaxBroken
    BY <1>6, <1>a, AnnouncementAssumption DEF Fails, Break, AnnouncementTypeOK
  <2> QED BY <2>1, RollBackStep
<1>7. ASSUME NEW s \in Senders, Commit(s) PROVE NoticeInv'
  BY <1>7, CommitStep
<1>8. ASSUME NEW s \in Senders, NEW k \in UpNext(s), SendOne(s, k) PROVE NoticeInv'
  BY <1>8, SendStep
<1>9. ASSUME NEW s \in Senders, NEW k \in UpNext(s), Block(s, k) PROVE NoticeInv'
  <2> DEFINE entry == [open[s] EXCEPT !.blocked = {k}]
  <2>1. open[s] \in OpenRows /\ k \in Copies
    BY <1>a DEF AnnouncementTypeOK, OpenRows, UpNext
  <2>2. entry \in OpenRows /\ entry.todo \subseteq open[s].todo
    BY <2>1 DEF OpenRows
  <2>3. /\ open' = [open EXCEPT ![s] = entry]
        /\ UNCHANGED <<notice, over, ad, row, holder, draft, heard, booked, lost, unreachable, broken>>
    BY <1>9 DEF Block
  <2> HIDE DEF entry
  <2>4. /\ open' \in [Senders -> OpenRows]
        /\ \A t \in Senders : \A x \in open'[t].todo : notice[x[1]] # "none"
    BY <2>2, <2>3, TodoShrinks
  <2> QED BY <2>3, <2>4, <1>a DEF NoticeInv, AnnouncementTypeOK, CopyInv, OpenRows
<1>10. CASE UNCHANGED announcementVars
  BY <1>10 DEF announcementVars, NoticeInv, AnnouncementTypeOK, CopyInv
<1> QED BY <1>1, <1>2, <1>3, <1>4, <1>5, <1>6, <1>7, <1>8, <1>9, <1>10 DEF AnnouncementNext

LEMMA AnnouncementAlways == AnnouncementSpec => []NoticeInv
BY AnnouncementInitially, AnnouncementStep, PTL DEF AnnouncementSpec

(* Notices, campaigns, rows and open transactions keep their types.        *)
THEOREM AnnouncementTypeCorrect == AnnouncementSpec => []AnnouncementTypeOK
<1>1. NoticeInv => AnnouncementTypeOK
  BY DEF NoticeInv
<1> QED BY <1>1, AnnouncementAlways, PTL

(* send_one takes the row of a copy before it sends, so that cycles of any *)
(* number of replicas and the visits of the users themselves send a notice *)
(* to a user once, but for transactions that were rolled back, and once    *)
(* more for every call that raised after Telegram had accepted it.         *)
THEOREM NoticeSentOnce == AnnouncementSpec => []AnnouncedOnce
<1>1. NoticeInv => AnnouncedOnce
  BY DEF NoticeInv, CopyInv, AnnouncementTypeOK, AnnouncedOnce
<1> QED BY <1>1, AnnouncementAlways, PTL

-----------------------------------------------------------------------------
(* The composition                                                         *)

LEMMA SystemInitially ==
  SystemInit => /\ InboxInit /\ AIInit /\ OutboxInit /\ LeaseInit /\ CycleInit
                /\ AnnouncementInit
BY DEF SystemInit

(* A step of the composition is a step of one part and a stutter of every  *)
(* other.                                                                  *)
LEMMA SystemStep ==
  [SystemNext]_systemVars =>
    /\ [InboxNext]_inboxVars
    /\ [AINext]_aiVars
    /\ [OutboxNext]_outboxVars
    /\ [LeaseNext]_leaseVars
    /\ [CycleNext]_cycleVars
    /\ [AnnouncementNext]_announcementVars
BY DEF SystemNext, systemVars

(* The parts of MCReplicas share no variable, so their composition is each *)
(* of them: whatever is proved of a part holds in the run.                 *)
THEOREM SystemIsItsParts ==
  SystemSpec => /\ InboxSpec /\ AISpec /\ OutboxSpec /\ LeaseSpec /\ CycleSpec
                /\ AnnouncementSpec
<1>1. SystemSpec => SystemInit /\ [][SystemNext]_systemVars
  BY DEF SystemSpec
<1> QED BY <1>1, SystemInitially, SystemStep, PTL
        DEF InboxSpec, AISpec, OutboxSpec, LeaseSpec, CycleSpec, AnnouncementSpec

(* Updates, questions, deliveries, leases, cycles and notices keep their   *)
(* types together.                                                         *)
THEOREM SystemTypeCorrect == SystemSpec => []SystemTypeOK
<1>1. (InboxTypeOK /\ AITypeOK /\ OutboxTypeOK /\ LeaseTypeOK /\ CycleTypeOK
         /\ AnnouncementTypeOK) => SystemTypeOK
  BY DEF SystemTypeOK
<1> QED BY SystemIsItsParts, TypeCorrect, AITypeCorrect, OutboxTypeCorrect, LeaseTypeCorrect,
        CycleTypeCorrect, AnnouncementTypeCorrect, <1>1, PTL

(* What the run checks on a small instance, for every value of the         *)
(* constants: of consumers, workers, couriers, pollers, schedulers and     *)
(* senders.                                                                *)
THEOREM SystemSafe ==
  SystemSpec => [](/\ OnceWithoutFaults /\ HeardOnceButForFaults /\ SentOnce
                   /\ OnePollerUnlessStalled /\ EffectsOnce /\ AnnouncedOnce)
BY SystemIsItsParts, HandledOnce, QuestionHeardOnce, SentOnceButForFaults, OnePoller,
   CyclesActOnce, NoticeSentOnce, PTL

(* The replicas of a deployment together answer every update at least once *)
(* before it is settled.                                                   *)
THEOREM SystemAnswers == SystemSpec => AnsweredAtLeastOnce
BY SystemIsItsParts, ImplementsAtLeastOnce, PTL
=============================================================================
