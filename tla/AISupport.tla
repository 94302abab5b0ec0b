----------------------------- MODULE AISupport -----------------------------
(***************************************************************************)
(* The durable queue of questions to the AI assistant: enqueue_ai_request, *)
(* EnterpriseScaleService's claim_jobs and finish_job, and AISupportWorker,*)
(* one in each replica.  The questions are one student's, whose handlers   *)
(* run one at a time.                                                      *)
(*                                                                         *)
(* finish_job takes no owner: whoever comes last decides the job's status. *)
(***************************************************************************)
EXTENDS Naturals, FiniteSets

CONSTANTS
  Jobs,              (* questions                                           *)
  Workers,
  JobAttempts,       (* gemini_job_max_attempts                             *)
  MaxPending,        (* gemini_max_pending_per_user                         *)
  MaxAIFaults        (* bound: crashes, overlong work, lost final writes    *)
                     (* and lost replies of Telegram                        *)

ASSUME AISupportAssumption ==
  /\ JobAttempts \in Nat \ {0}
  /\ MaxPending \in Nat \ {0}
  /\ MaxAIFaults \in Nat
  /\ IsFiniteSet(Workers)

VARIABLES
  job_status,        (* DistributedJob.status; "none" before, "pruned" after*)
  job_attempts,      (* DistributedJob.attempts                             *)
  job_lapsed,        (* has lease_expires_at passed?                        *)
  work,              (* what each worker does about each job                *)
  answers,           (* answers the student saw                             *)
  apologies,         (* "no answer for now" notices the student saw         *)
  ai_faults

aiVars == <<job_status, job_attempts, job_lapsed, work, answers, apologies, ai_faults>>

(* "resend": the placeholder could not be edited.                          *)
WorkSteps == {"idle", "claimed", "asking", "resend", "answered", "failed", "apologise"}

AITypeOK ==
  /\ job_status \in [Jobs -> {"none", "pending", "leased", "retry", "succeeded", "dead",
                             "pruned"}]
  /\ job_attempts \in [Jobs -> Nat]
  /\ job_lapsed \in [Jobs -> BOOLEAN]
  /\ work \in [Workers -> [Jobs -> WorkSteps]]
  /\ answers \in [Jobs -> Nat]
  /\ apologies \in [Jobs -> Nat]
  /\ ai_faults \in 0..MaxAIFaults

AIInit ==
  /\ job_status = [j \in Jobs |-> "none"]
  /\ job_attempts = [j \in Jobs |-> 0]
  /\ job_lapsed = [j \in Jobs |-> FALSE]
  /\ work = [w \in Workers |-> [j \in Jobs |-> "idle"]]
  /\ answers = [j \in Jobs |-> 0]
  /\ apologies = [j \in Jobs |-> 0]
  /\ ai_faults = 0

-----------------------------------------------------------------------------
ActiveJobs == {j \in Jobs : job_status[j] \in {"pending", "retry", "leased"}}

(* enqueue_ai_request: at most MaxPending open questions per student; the  *)
(* idempotency key is the message asked in, so a repeated update finds the *)
(* job again.                                                              *)
EnqueueQuestion(j) ==
  /\ job_status[j] = "none"
  /\ Cardinality(ActiveJobs) < MaxPending
  /\ job_status' = [job_status EXCEPT ![j] = "pending"]
  /\ UNCHANGED <<job_attempts, job_lapsed, work, answers, apologies,
                 ai_faults>>

DueJobs ==
  {j \in Jobs : \/ job_status[j] \in {"pending", "retry"}
                \/ job_status[j] = "leased" /\ job_lapsed[j]}

(* claim_jobs, once the jobs of the last claim are all through. *)
ClaimJobs(w) ==
  /\ \A j \in Jobs : work[w][j] = "idle"
  /\ DueJobs # {}
  /\ job_status' = [j \in Jobs |-> IF j \in DueJobs THEN "leased" ELSE job_status[j]]
  /\ job_attempts' = [j \in Jobs |-> job_attempts[j] + (IF j \in DueJobs THEN 1 ELSE 0)]
  /\ job_lapsed' = [j \in Jobs |-> job_lapsed[j] /\ j \notin DueJobs]
  /\ work' = [work EXCEPT ![w] =
       [j \in Jobs |-> IF j \in DueJobs THEN "claimed" ELSE "idle"]]
  /\ UNCHANGED <<answers, apologies, ai_faults>>

Work(w, j, from, to) ==
  /\ work[w][j] = from
  /\ work' = [work EXCEPT ![w][j] = to]

(* _process looks at the job once more before it asks. *)
StartJob(w, j) ==
  /\ Work(w, j, "claimed", IF job_status[j] = "leased" THEN "asking" ELSE "idle")
  /\ UNCHANGED <<job_status, job_attempts, job_lapsed, answers, apologies,
                 ai_faults>>

(* Gemini answers.  The answer takes the placeholder's place; when that    *)
(* call raises it goes out as a message, and when that raises too the      *)
(* whole attempt has failed.                                               *)
Calls == {"asking", "resend"}

AfterRaise(call) == IF call = "asking" THEN "resend" ELSE "failed"

Says(w, j, from, to) ==
  /\ Work(w, j, from, to)
  /\ answers' = [answers EXCEPT ![j] = @ + 1]
  /\ UNCHANGED <<job_status, job_attempts, job_lapsed, apologies>>

DeliverAnswer(w, j) ==
  \E call \in Calls : Says(w, j, call, "answered") /\ UNCHANGED ai_faults

(* Telegram refuses the edit or the message, or cannot be reached. *)
CallRefused(w, j) ==
  /\ \E call \in Calls : Work(w, j, call, AfterRaise(call))
  /\ UNCHANGED <<job_status, job_attempts, job_lapsed, answers, apologies,
                 ai_faults>>

(* The call raises although Telegram has accepted it. *)
AnswerReplyLost(w, j) ==
  /\ ai_faults < MaxAIFaults
  /\ \E call \in Calls : Says(w, j, call, AfterRaise(call))
  /\ ai_faults' = ai_faults + 1

FinishJob(w, j) ==
  /\ Work(w, j, "answered", "idle")
  /\ job_status' = [job_status EXCEPT ![j] = IF @ = "pruned" THEN @ ELSE "succeeded"]
  /\ job_lapsed' = [job_lapsed EXCEPT ![j] = FALSE]
  /\ UNCHANGED <<job_attempts, answers, apologies, ai_faults>>

(* No answer of Gemini, or none is asked for. *)
AskingFails(w, j) ==
  /\ Work(w, j, "asking", "failed")
  /\ UNCHANGED <<job_status, job_attempts, job_lapsed, answers, apologies,
                 ai_faults>>

HandleFailure_AlwaysApologises(w, j) ==
  /\ Work(w, j, "failed", "apologise")
  /\ job_status' = [job_status EXCEPT ![j] = IF job_attempts[j] >= JobAttempts THEN "dead"
                                             ELSE "retry"]
  /\ UNCHANGED <<job_attempts, job_lapsed, answers, apologies, ai_faults>>

(* _handle_failure: a permanent error uses up the attempts. *)
HandleFailure(w, j) ==
  \E permanent \in BOOLEAN :
    LET n == IF permanent THEN JobAttempts ELSE job_attempts[j]
        next == IF n >= JobAttempts THEN "dead" ELSE "retry"
    IN /\ work[w][j] = "failed"
       /\ IF job_status[j] = "pruned"
          THEN /\ work' = [work EXCEPT ![w][j] = "idle"]
               /\ UNCHANGED <<job_status, job_attempts, job_lapsed>>
          ELSE /\ job_status' = [job_status EXCEPT ![j] = next]
               /\ job_attempts' = [job_attempts EXCEPT ![j] = n]
               /\ job_lapsed' = [job_lapsed EXCEPT ![j] = FALSE]
               /\ work' = [work EXCEPT ![w][j] =
                    IF next = "dead" THEN "apologise" ELSE "idle"]
       /\ UNCHANGED <<answers, apologies, ai_faults>>

(* The notice of a dead job goes out after the commit, once, or not at all.*)
Apologise(w, j) ==
  /\ Work(w, j, "apologise", "idle")
  /\ \E sent \in {0, 1} : apologies' = [apologies EXCEPT ![j] = @ + sent]
  /\ UNCHANGED <<job_status, job_attempts, job_lapsed, answers, ai_faults>>

(* The transaction that finishes an answered job fails: a failure like any. *)
FinishLost(w, j) ==
  /\ ai_faults < MaxAIFaults
  /\ Work(w, j, "answered", "failed")
  /\ ai_faults' = ai_faults + 1
  /\ UNCHANGED <<job_status, job_attempts, job_lapsed, answers, apologies>>

WorkerCrash(w) ==
  /\ ai_faults < MaxAIFaults
  /\ \E j \in Jobs : work[w][j] # "idle"
  /\ work' = [work EXCEPT ![w] = [j \in Jobs |-> "idle"]]
  /\ ai_faults' = ai_faults + 1
  /\ UNCHANGED <<job_status, job_attempts, job_lapsed, answers, apologies>>

JobAbandoned(j) == \A w \in Workers : work[w][j] \in {"idle", "apologise"}

JobLeaseLapses(j) ==
  /\ job_status[j] = "leased" /\ ~job_lapsed[j] /\ JobAbandoned(j)
  /\ job_lapsed' = [job_lapsed EXCEPT ![j] = TRUE]
  /\ UNCHANGED <<job_status, job_attempts, work, answers, apologies,
                 ai_faults>>

(* The lease (three minutes or more) runs out under a worker that is alive. *)
JobOverruns(j) ==
  /\ ai_faults < MaxAIFaults
  /\ job_status[j] = "leased" /\ ~job_lapsed[j] /\ ~JobAbandoned(j)
  /\ job_lapsed' = [job_lapsed EXCEPT ![j] = TRUE]
  /\ ai_faults' = ai_faults + 1
  /\ UNCHANGED <<job_status, job_attempts, work, answers, apologies>>

(* _cleanup_finished_jobs, days after the job ended. *)
PruneJob(j) ==
  /\ job_status[j] \in {"succeeded", "dead"} /\ JobAbandoned(j)
  /\ job_status' = [job_status EXCEPT ![j] = "pruned"]
  /\ UNCHANGED <<job_attempts, job_lapsed, work, answers, apologies,
                 ai_faults>>

Process(w, j) ==
  \/ StartJob(w, j) \/ AskingFails(w, j)
  \/ DeliverAnswer(w, j) \/ CallRefused(w, j) \/ FinishJob(w, j)
  \/ HandleFailure(w, j) \/ Apologise(w, j)

AINext ==
  \/ \E j \in Jobs :
       EnqueueQuestion(j) \/ JobLeaseLapses(j) \/ JobOverruns(j) \/ PruneJob(j)
  \/ \E w \in Workers : ClaimJobs(w) \/ WorkerCrash(w)
  \/ \E w \in Workers, j \in Jobs : Process(w, j) \/ AnswerReplyLost(w, j) \/ FinishLost(w, j)

AISpec == AIInit /\ [][AINext]_aiVars

-----------------------------------------------------------------------------
(* Properties.                                                             *)

(* The student hears one thing about one question, an answer or an         *)
(* apology, although finish_job takes no owner and a worker that comes     *)
(* late writes over another's end; and one thing more at most for each     *)
(* crash, overrun lease, lost final write or lost reply of Telegram.       *)
HeardOnceButForFaults ==
  \A j \in Jobs : answers[j] + apologies[j] <= 1 + ai_faults

(* A question ends answered or dead, whatever fails in between.            *)
EventuallyEnds ==
  \A j \in Jobs :
    job_status[j] = "pending" ~> job_status[j] \in {"succeeded", "dead", "pruned"}
=============================================================================
