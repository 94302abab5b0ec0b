--------------------------- MODULE SchedulerCycle ---------------------------
(***************************************************************************)
(* Scheduler.run in several replicas: one transaction per cycle under an   *)
(* advisory lock, with two exceptions.  process_next_delivery commits in   *)
(* the middle, and the lock goes with that commit, so that another replica *)
(* may run the rest of its cycle at the same time; the daily backup runs   *)
(* after the commit.  The scheduled runs of an hour or a day are claimed   *)
(* in rows of their own.                                                   *)
(*                                                                         *)
(* One hour, one day and one provider webhook are followed.                *)
(***************************************************************************)
EXTENDS Naturals, Owners

CONSTANTS
  Replicas,
  Deployments,       (* which release each replica may be of: its release_id*)
                     (* is the owner of the runs it claims                  *)
  MaxAborts,         (* bound: exceptions and crashes                       *)
  MaxLapses,         (* bound: backups longer than their lease              *)
  MaxFailures        (* bound: webhook posts and backups that fail          *)

ASSUME CycleAssumption ==
  /\ MaxAborts \in Nat /\ MaxLapses \in Nat /\ MaxFailures \in Nat
  /\ Nobody \notin Replicas

NoRun == [status |-> "absent", by |-> Nobody, lapsed |-> FALSE]

VARIABLES
  release,           (* release_id of each replica                          *)
  lock,              (* holder of the advisory transaction lock             *)
  cycle,             (* where each replica is in its cycle                  *)
  hook,              (* ProviderWebhookDelivery.status, as committed        *)
  posted,            (* did the open transaction of the replica post it?    *)
  posts,             (* posts the provider's endpoint accepted              *)
  hour,              (* ScheduledRun of hourly_lifecycle, as committed      *)
  hour_row,          (* who holds that row locked or inserted               *)
  hours,             (* committed runs of the hour                          *)
  day,               (* ScheduledRun of database_backup, as committed       *)
  day_row,           (* who holds that row locked or inserted               *)
  timeouts,          (* accepted posts whose call raised                    *)
  aborts, lapses, failures

hookVars == <<hook, posted, posts, timeouts>>
hourVars == <<hour, hour_row, hours>>
dayVars == <<day, day_row>>
cycleFaults == <<aborts, lapses, failures>>
cycleVars == <<release, lock, cycle, hookVars, hourVars, dayVars, cycleFaults>>

RunStatus == {"absent", "running", "succeeded", "failed"}

CycleTypeOK ==
  /\ release \in Deployments
  /\ lock \in Replicas \cup {Nobody}
  /\ cycle \in [Replicas -> {"idle", "webhooks", "deliveries", "hourly", "work", "daily",
                          "commit", "claimed", "backup"}]
  /\ hook \in {"pending", "delivered"}
  /\ posted \in [Replicas -> BOOLEAN]
  /\ posts \in Nat /\ timeouts \in Nat
  /\ hour \in RunStatus
  /\ hour_row \in Replicas \cup {Nobody}
  /\ hours \in Nat
  /\ day.status \in RunStatus /\ day.lapsed \in BOOLEAN
  /\ day_row \in Replicas \cup {Nobody}
  /\ aborts \in 0..MaxAborts /\ lapses \in 0..MaxLapses /\ failures \in 0..MaxFailures

CycleInit ==
  /\ release \in Deployments
  /\ lock = Nobody
  /\ cycle = [r \in Replicas |-> "idle"]
  /\ hook = "pending" /\ posted = [r \in Replicas |-> FALSE]
  /\ posts = 0 /\ timeouts = 0
  /\ hour = "absent" /\ hour_row = Nobody /\ hours = 0
  /\ day = NoRun /\ day_row = Nobody
  /\ aborts = 0 /\ lapses = 0 /\ failures = 0

-----------------------------------------------------------------------------
CycleMoves(r, from, to) == cycle[r] = from /\ cycle' = [cycle EXCEPT ![r] = to]
Without(x, r) == IF x = r THEN Nobody ELSE x

(* try_transaction_lock: without the lock there is no cycle. *)
BeginCycle(r) ==
  /\ lock = Nobody
  /\ CycleMoves(r, "idle", "webhooks")
  /\ lock' = r
  /\ UNCHANGED <<release, hookVars, hourVars, dayVars, cycleFaults>>

(* deliver_webhook posts what is due; the new status waits for a commit.   *)
(* A post that raises is retried, and the timeout may follow the           *)
(* endpoint's acceptance.                                                  *)
PostWebhook(r) ==
  /\ hook = "pending"
  /\ CycleMoves(r, "webhooks", "deliveries")
  /\ \/ /\ posted' = [posted EXCEPT ![r] = TRUE]
        /\ posts' = posts + 1
        /\ UNCHANGED <<timeouts, failures>>
     \/ /\ failures < MaxFailures
        /\ failures' = failures + 1
        /\ \E accepted \in {0, 1} :
             posts' = posts + accepted /\ timeouts' = timeouts + accepted
        /\ UNCHANGED posted
  /\ UNCHANGED <<release, lock, hook, hourVars, dayVars, aborts, lapses>>

NothingDue(r) ==
  /\ hook # "pending"
  /\ CycleMoves(r, "webhooks", "deliveries")
  /\ UNCHANGED <<release, lock, hookVars, hourVars, dayVars, cycleFaults>>

(* A commit makes the post's status durable and releases the lock. *)
CommitHook(r) ==
  /\ lock' = Without(lock, r)
  /\ hook' = IF posted[r] THEN "delivered" ELSE hook
  /\ posted' = [posted EXCEPT ![r] = FALSE]
  /\ UNCHANGED <<posts, timeouts>>

(* process_next_delivery claims a job and commits. *)
DeliverJob(r) ==
  /\ CycleMoves(r, "deliveries", "hourly")
  /\ CommitHook(r)
  /\ UNCHANGED <<release, hourVars, dayVars, cycleFaults>>

NoJob(r) ==
  /\ CycleMoves(r, "deliveries", "hourly")
  /\ UNCHANGED <<release, lock, hookVars, hourVars, dayVars, cycleFaults>>

Claimable_Again(run, r) ==
  ~(run.status = "running" /\ ~run.lapsed /\ run.by # release[r])

(* claim_scheduled_run waits for the row of another transaction, then      *)
(* refuses a run that succeeded, or one under way under another release.   *)
Claimable(run, r) ==
  /\ run.status # "succeeded"
  /\ ~(run.status = "running" /\ ~run.lapsed /\ run.by # release[r])

ClaimHour(r) ==
  /\ hour_row = Nobody
  /\ LET open == Claimable([NoRun EXCEPT !.status = hour], r)
     IN /\ CycleMoves(r, "hourly", IF open THEN "work" ELSE "daily")
        /\ hour_row' = IF open THEN r ELSE Nobody
  /\ UNCHANGED <<release, lock, hookVars, hour, hours, dayVars, cycleFaults>>

(* The hour's work and finish_scheduled_run, in the same transaction. *)
DoHour(r) ==
  /\ CycleMoves(r, "work", "daily")
  /\ UNCHANGED <<release, lock, hookVars, hourVars, dayVars, cycleFaults>>

ClaimDay(r) ==
  /\ day_row = Nobody
  /\ LET open == Claimable(day, r)
     IN /\ CycleMoves(r, "daily", IF open THEN "claimed" ELSE "commit")
        /\ day_row' = IF open THEN r ELSE Nobody
  /\ UNCHANGED <<release, lock, hookVars, hourVars, day, cycleFaults>>

(* Before backup_hour there is no run to claim. *)
NotYetDay(r) ==
  /\ CycleMoves(r, "daily", "commit")
  /\ UNCHANGED <<release, lock, hookVars, hourVars, dayVars, cycleFaults>>

(* The commit at the end of the cycle. *)
CommitCycle(r) ==
  /\ cycle[r] \in {"commit", "claimed"}
  /\ cycle' = [cycle EXCEPT ![r] = IF @ = "claimed" THEN "backup" ELSE "idle"]
  /\ CommitHook(r)
  /\ hour' = IF hour_row = r THEN "succeeded" ELSE hour
  /\ hours' = IF hour_row = r THEN hours + 1 ELSE hours
  /\ hour_row' = Without(hour_row, r)
  /\ day' = IF day_row = r
            THEN [status |-> "running", by |-> release[r], lapsed |-> FALSE] ELSE day
  /\ day_row' = Without(day_row, r)
  /\ UNCHANGED <<release, cycleFaults>>

(* The backup, in a session of its own; its row is written by whoever ends *)
(* one.                                                                    *)
FinishBackup(r) ==
  /\ day_row = Nobody
  /\ CycleMoves(r, "backup", "idle")
  /\ \/ day' = [day EXCEPT !.status = "succeeded", !.lapsed = FALSE] /\ UNCHANGED failures
     \/ /\ failures < MaxFailures
        /\ day' = [day EXCEPT !.status = "failed", !.lapsed = FALSE]
        /\ failures' = failures + 1
  /\ UNCHANGED <<release, lock, hookVars, hourVars, day_row, aborts, lapses>>

(* An exception in any step, or the end of the process: the transaction is *)
(* rolled back, the FAILED mark of a run it had claimed with it.           *)
AbortCycle(r) ==
  /\ aborts < MaxAborts
  /\ cycle[r] # "idle"
  /\ aborts' = aborts + 1
  /\ cycle' = [cycle EXCEPT ![r] = "idle"]
  /\ lock' = Without(lock, r)
  /\ hour_row' = Without(hour_row, r)
  /\ day_row' = Without(day_row, r)
  /\ posted' = [posted EXCEPT ![r] = FALSE]
  /\ UNCHANGED <<release, hook, posts, timeouts, hour, hours, day, lapses, failures>>

RunLapses ==
  /\ day.status = "running" /\ ~day.lapsed
  /\ day_row = Nobody
  /\ day' = [day EXCEPT !.lapsed = TRUE]
  /\ IF \E r \in Replicas : cycle[r] = "backup"
     THEN lapses < MaxLapses /\ lapses' = lapses + 1
     ELSE UNCHANGED lapses
  /\ UNCHANGED <<release, lock, cycle, hookVars, hourVars, day_row, aborts, failures>>

Cycle(r) ==
  \/ BeginCycle(r)
  \/ PostWebhook(r) \/ NothingDue(r)
  \/ DeliverJob(r) \/ NoJob(r)
  \/ ClaimHour(r) \/ DoHour(r)
  \/ ClaimDay(r) \/ NotYetDay(r)
  \/ CommitCycle(r)
  \/ FinishBackup(r)

CycleNext == (\E r \in Replicas : Cycle(r) \/ AbortCycle(r)) \/ RunLapses

CycleSpec == CycleInit /\ [][CycleNext]_cycleVars

-----------------------------------------------------------------------------
(* Properties.                                                             *)

(* What a cycle does is committed once although its lock may be gone half  *)
(* way: the hour's work once, whatever fails; a provider's webhook is      *)
(* accepted once, and once more at most for each aborted cycle and each    *)
(* timeout that followed an acceptance; and one backup of the day is made  *)
(* at a time, unless it outlives its lease or two replicas are of one      *)
(* release, which own each other's runs.                                   *)
EffectsOnce ==
  /\ hours <= 1
  /\ posts <= 1 + aborts + timeouts
  /\ lapses = 0 /\ (\A r, s \in Replicas : release[r] = release[s] => r = s)
       => \A r, s \in Replicas : cycle[r] = "backup" /\ cycle[s] = "backup" => r = s
=============================================================================
