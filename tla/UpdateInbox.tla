---------------------------- MODULE UpdateInbox ----------------------------
(***************************************************************************)
(* The durable inbox of Telegram updates (TelegramUpdateInboxService and   *)
(* TelegramUpdateRuntime): the webhook stores an update, consumers claim a *)
(* batch under a lease, feed one update after the other to the dispatcher  *)
(* and settle its row.  The updates are of one student, whom the rate      *)
(* limiter sees as one: an update fed within the interval of the last one  *)
(* is turned away, and its row is done all the same.                       *)
(*                                                                         *)
(* A lease is counted from the claim of the batch, not from the start of   *)
(* an update's own work, so it may lapse under a consumer that is alive.   *)
(***************************************************************************)
EXTENDS Naturals, Sequences, FiniteSets, Owners

CONSTANTS
  Updates,           (* update_id: numbers, claimed in their order          *)
  Consumers,         (* replica and index: lease_owner                      *)
  UpdateAttempts,    (* max_attempts of a row                               *)
  BatchSize,         (* telegram_update_claim_batch_size                    *)
  MaxInboxFaults     (* bound: crashes, slow batches and lost final writes  *)

ASSUME InboxAssumption ==
  /\ Updates \subseteq Nat /\ IsFiniteSet(Updates)
  /\ UpdateAttempts \in Nat \ {0}
  /\ BatchSize \in Nat \ {0}
  /\ MaxInboxFaults \in Nat
  /\ Nobody \notin Consumers

VARIABLES
  row_status,        (* TelegramUpdateInbox.status; "absent" before, "purged"*)
                     (* after the row exists                                *)
  row_attempts,      (* TelegramUpdateInbox.attempts                        *)
  lease_owner,       (* lease_owner                                         *)
  lease_over,        (* has lease_expires_at passed?                        *)
  batch,             (* rows the consumer claimed and has not finished with *)
  phase,             (* the consumer's work on the head of its batch        *)
  applied,           (* committed handler transactions of the update        *)
  refused,           (* was it turned away by the rate limiter?             *)
  hot,               (* is the limiter's interval for the student running?  *)
  inbox_faults

inboxVars == <<row_status, row_attempts, lease_owner, lease_over, batch, phase,
               applied, refused, hot, inbox_faults>>

InboxTypeOK ==
  /\ row_status \in [Updates -> {"absent", "pending", "processing", "retry", "done",
                             "dead", "purged"}]
  /\ row_attempts \in [Updates -> Nat]
  /\ lease_owner \in [Updates -> Consumers \cup {Nobody}]
  /\ lease_over \in [Updates -> BOOLEAN]
  /\ batch \in [Consumers -> Seq(Updates)]
  /\ phase \in [Consumers -> {"feed", "returned", "raised"}]
  /\ applied \in [Updates -> Nat]
  /\ refused \in [Updates -> BOOLEAN]
  /\ hot \in BOOLEAN
  /\ inbox_faults \in 0..MaxInboxFaults

InboxInit ==
  /\ row_status = [u \in Updates |-> "absent"]
  /\ row_attempts = [u \in Updates |-> 0]
  /\ lease_owner = [u \in Updates |-> Nobody]
  /\ lease_over = [u \in Updates |-> FALSE]
  /\ batch = [c \in Consumers |-> <<>>]
  /\ phase = [c \in Consumers |-> "feed"]
  /\ applied = [u \in Updates |-> 0]
  /\ refused = [u \in Updates |-> FALSE]
  /\ hot = FALSE
  /\ inbox_faults = 0

-----------------------------------------------------------------------------
Busy(c) == batch[c] # <<>>
Held(c) == {batch[c][i] : i \in DOMAIN batch[c]}
RowAbandoned(u) == lease_owner[u] = Nobody \/ u \notin Held(lease_owner[u])

(* The webhook: enqueue inserts a row, once per update_id; a repeated      *)
(* delivery finds it and changes nothing.                                  *)
Enqueue(u) ==
  /\ row_status[u] = "absent"
  /\ row_status' = [row_status EXCEPT ![u] = "pending"]
  /\ UNCHANGED <<row_attempts, lease_owner, lease_over, batch, phase, applied,
                 refused, hot, inbox_faults>>

Eligible_ForgetsLapsed(u) == row_status[u] \in {"pending", "retry"}
Eligible_AnyProcessing(u) == row_status[u] \in {"pending", "retry", "processing"}

(* A failed row waits for available_at, which has passed when it is here.  *)
Eligible(u) ==
  \/ row_status[u] \in {"pending", "retry"}
  \/ row_status[u] = "processing" /\ lease_over[u]

(* What LIMIT lets through of the eligible rows, lowest update_id first.   *)
FirstEligible ==
  {u \in Updates : /\ Eligible(u)
                   /\ Cardinality({v \in Updates : Eligible(v) /\ v < u}) < BatchSize}

(* The rows of a set by ascending update_id: the one such sequence.        *)
Ascending(S) ==
  {s \in [1..Cardinality(S) -> S] : \A i, j \in DOMAIN s : i < j => s[i] < s[j]}

(* claim_batch: pending and due rows and rows whose lease lapsed, whatever *)
(* their attempts.                                                         *)
ClaimBatch(c) ==
  LET rows == FirstEligible
  IN /\ ~Busy(c)
     /\ rows # {}
     /\ row_status' = [u \in Updates |-> IF u \in rows THEN "processing" ELSE row_status[u]]
     /\ row_attempts' = [u \in Updates |-> row_attempts[u] + (IF u \in rows THEN 1 ELSE 0)]
     /\ lease_owner' = [u \in Updates |-> IF u \in rows THEN c ELSE lease_owner[u]]
     /\ lease_over' = [u \in Updates |-> lease_over[u] /\ u \notin rows]
     /\ \E s \in Ascending(rows) : batch' = [batch EXCEPT ![c] = s]
     /\ phase' = [phase EXCEPT ![c] = "feed"]
     /\ UNCHANGED <<applied, refused, hot, inbox_faults>>

(* feed_update: the limiter, then the handler in its own transaction.      *)
TurnAway(c) ==
  /\ Busy(c) /\ phase[c] = "feed" /\ hot
  /\ refused' = [refused EXCEPT ![Head(batch[c])] = TRUE]
  /\ phase' = [phase EXCEPT ![c] = "returned"]
  /\ UNCHANGED <<row_status, row_attempts, lease_owner, lease_over, batch, applied,
                 hot, inbox_faults>>

HandlerCommits(c) ==
  /\ Busy(c) /\ phase[c] = "feed" /\ ~hot
  /\ applied' = [applied EXCEPT ![Head(batch[c])] = @ + 1]
  /\ hot' = TRUE
  /\ phase' = [phase EXCEPT ![c] = "returned"]
  /\ UNCHANGED <<row_status, row_attempts, lease_owner, lease_over, batch, refused,
                 inbox_faults>>

HandlerRaises(c) ==
  /\ Busy(c) /\ phase[c] = "feed" /\ ~hot
  /\ hot' = TRUE
  /\ phase' = [phase EXCEPT ![c] = "raised"]
  /\ UNCHANGED <<row_status, row_attempts, lease_owner, lease_over, batch, applied,
                 refused, inbox_faults>>

(* The consumer is through with the head of its batch. *)
NextOfBatch(c) ==
  /\ batch' = [batch EXCEPT ![c] = Tail(@)]
  /\ phase' = [phase EXCEPT ![c] = "feed"]

ReleaseRow(u) ==
  /\ lease_owner' = [lease_owner EXCEPT ![u] = Nobody]
  /\ lease_over' = [lease_over EXCEPT ![u] = FALSE]

MarkDone_AnyOwner(c) ==
  /\ Busy(c) /\ phase[c] = "returned"
  /\ row_status' = [row_status EXCEPT ![Head(batch[c])] = "done"]
  /\ ReleaseRow(Head(batch[c]))
  /\ NextOfBatch(c)
  /\ UNCHANGED <<row_attempts, applied, refused, hot, inbox_faults>>

(* mark_done writes only a row the consumer still owns. *)
MarkDone(c) ==
  /\ Busy(c) /\ phase[c] = "returned"
  /\ LET u == Head(batch[c])
     IN IF lease_owner[u] = c
        THEN row_status' = [row_status EXCEPT ![u] = "done"] /\ ReleaseRow(u)
        ELSE UNCHANGED <<row_status, lease_owner, lease_over>>
  /\ NextOfBatch(c)
  /\ UNCHANGED <<row_attempts, applied, refused, hot, inbox_faults>>

AfterFailure_UnknownStatus(n) == IF n >= UpdateAttempts THEN "failed" ELSE "retry"

AfterFailure(n) == IF n >= UpdateAttempts THEN "dead" ELSE "retry"

(* mark_failed, likewise. *)
MarkFailed(c) ==
  /\ Busy(c) /\ phase[c] = "raised"
  /\ LET u == Head(batch[c])
     IN IF lease_owner[u] = c
        THEN /\ row_status' = [row_status EXCEPT ![u] = AfterFailure(row_attempts[u])]
             /\ ReleaseRow(u)
        ELSE UNCHANGED <<row_status, lease_owner, lease_over>>
  /\ NextOfBatch(c)
  /\ UNCHANGED <<row_attempts, applied, refused, hot, inbox_faults>>

(* The transaction of mark_done fails: the row counts as failed.           *)
DoneLost(c) ==
  /\ inbox_faults < MaxInboxFaults
  /\ Busy(c) /\ phase[c] = "returned"
  /\ phase' = [phase EXCEPT ![c] = "raised"]
  /\ inbox_faults' = inbox_faults + 1
  /\ UNCHANGED <<row_status, row_attempts, lease_owner, lease_over, batch, applied,
                 refused, hot>>

(* The one of mark_failed fails too: the row stays in processing.          *)
FailureLost(c) ==
  /\ inbox_faults < MaxInboxFaults
  /\ Busy(c) /\ phase[c] = "raised"
  /\ NextOfBatch(c)
  /\ inbox_faults' = inbox_faults + 1
  /\ UNCHANGED <<row_status, row_attempts, lease_owner, lease_over, applied, refused,
                 hot>>

(* The replica dies, or stop() cancels the consumer after the grace time:  *)
(* its batch is forgotten, the rows keep their lease.  Its successor comes *)
(* under a new owner name; as nothing is left to write under the old one,  *)
(* the same name serves for both.                                          *)
ConsumerCrash(c) ==
  /\ inbox_faults < MaxInboxFaults
  /\ Busy(c)
  /\ batch' = [batch EXCEPT ![c] = <<>>]
  /\ phase' = [phase EXCEPT ![c] = "feed"]
  /\ inbox_faults' = inbox_faults + 1
  /\ UNCHANGED <<row_status, row_attempts, lease_owner, lease_over, applied, refused,
                 hot>>

(* The lease of a row nobody works on runs out. *)
RowLeaseLapses(u) ==
  /\ row_status[u] = "processing" /\ ~lease_over[u] /\ RowAbandoned(u)
  /\ lease_over' = [lease_over EXCEPT ![u] = TRUE]
  /\ UNCHANGED <<row_status, row_attempts, lease_owner, batch, phase, applied,
                 refused, hot, inbox_faults>>

(* The batch takes longer than its lease. *)
SlowBatch(c) ==
  /\ inbox_faults < MaxInboxFaults
  /\ \E u \in Held(c) : lease_owner[u] = c /\ ~lease_over[u]
  /\ lease_over' =
       [u \in Updates |-> lease_over[u] \/ (u \in Held(c) /\ lease_owner[u] = c)]
  /\ inbox_faults' = inbox_faults + 1
  /\ UNCHANGED <<row_status, row_attempts, lease_owner, batch, phase, applied,
                 refused, hot>>

IntervalEnds ==
  /\ hot
  /\ hot' = FALSE
  /\ UNCHANGED <<row_status, row_attempts, lease_owner, lease_over, batch, phase,
                 applied, refused, inbox_faults>>

(* purge_completed: the retention is longer than Telegram repeats a        *)
(* delivery, so the update_id does not come back.                          *)
Purge(u) ==
  /\ row_status[u] = "done"
  /\ row_status' = [row_status EXCEPT ![u] = "purged"]
  /\ UNCHANGED <<row_attempts, lease_owner, lease_over, batch, phase, applied,
                 refused, hot, inbox_faults>>

(* A consumer's loop. *)
Consume(c) ==
  \/ ClaimBatch(c)
  \/ TurnAway(c) \/ HandlerCommits(c) \/ HandlerRaises(c)
  \/ MarkDone(c) \/ MarkFailed(c)

InboxNext ==
  \/ \E u \in Updates : Enqueue(u) \/ RowLeaseLapses(u) \/ Purge(u)
  \/ \E c \in Consumers : \/ Consume(c) \/ DoneLost(c) \/ FailureLost(c)
                          \/ ConsumerCrash(c) \/ SlowBatch(c)
  \/ IntervalEnds

InboxSpec == InboxInit /\ [][InboxNext]_inboxVars

-----------------------------------------------------------------------------
(* Properties.                                                             *)

(* Without a crash, an overlong batch or a lost write no handler commits   *)
(* twice for one update, however many consumers, retries and repeated      *)
(* deliveries there are.                                                   *)
OnceWithoutFaults ==
  inbox_faults = 0 => \A u \in Updates : applied[u] <= 1

(* Every stored update is in the end done or dead.                         *)
EventuallySettled ==
  \A u \in Updates :
    row_status[u] = "pending" ~> row_status[u] \in {"done", "dead", "purged"}

(* The inbox implements AtLeastOnce: nothing done unanswered, and done and *)
(* dead are final although a slow consumer still works on such a row.      *)
InboxContract == INSTANCE AtLeastOnce WITH
  accepted <- {u \in Updates : row_status[u] # "absent"},
  answered <- {u \in Updates : applied[u] > 0 \/ refused[u]},
  finished <- {u \in Updates : row_status[u] \in {"done", "purged"}},
  dead <- {u \in Updates : row_status[u] = "dead"}

AnsweredAtLeastOnce == InboxContract!AtLeastOnceSpec
=============================================================================
