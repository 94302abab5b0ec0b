---------------------------- MODULE StudentPlans ----------------------------
(***************************************************************************)
(* The subscription that a student has bought with one order, after        *)
(* StudentSubscriptionService and the hourly job of the scheduler.  It     *)
(* starts by the offer's policy with the payment, the delivery or the      *)
(* student's word that it works, and ends after a time, at a date that is  *)
(* the offer's or the delivered account's, or never; a code asked for      *)
(* again is delivered again and starts it anew; an objection takes it out  *)
(* of the calendar.                                                        *)
(*                                                                         *)
(* The row is not locked: the courier, the student's handler and the job   *)
(* each load it, and write the status if it then differs from what they    *)
(* loaded.  Module OrderFlow has the order itself; here it only says which *)
(* handlers may run.  Init is the moment the payment is approved.          *)
(***************************************************************************)
EXTENDS Naturals

CONSTANT MaxPeriods  (* bound: times the subscription starts                *)

ASSUME StudentPlansAssumption == MaxPeriods \in Nat

VARIABLES
  start_trigger,     (* OfferValidityPolicy.start_trigger                   *)
  validity,          (* OfferValidityPolicy.validity_type                   *)
  date,              (* where the clock stands before the date, if one is   *)
  step,              (* how far the order is                                *)
  subscription,      (* StudentSubscription.status                          *)
  period,            (* ... and before ends_at, of what has started         *)
  periods,           (* starts so far                                       *)
  hand,              (* what the open handlers have loaded                  *)
  told,              (* reminder_7d_sent, expiry_notice_sent                *)
  cut                (* did the last start cross another handler?           *)

policyVars == <<start_trigger, validity>>
studentVars == <<policyVars, date, step, subscription, period, periods, hand, told, cut>>

PlanStates == {"waiting", "active", "expiring", "expired", "needs_support"}
Clock == {"open", "long", "week", "over"}     (* "open": there is no end      *)
Periods == {"none"} \cup Clock
Hands == {"courier", "student", "job"}
Resting == [doing |-> "nothing", loaded |-> "waiting", period |-> "none"]

StudentTypeOK ==
  /\ start_trigger \in {"payment_approved", "delivery", "activation"}
  /\ validity \in {"relative", "fixed", "inventory"} /\ date \in Clock
  /\ step \in {"awaited", "delivered", "objected", "completed"}
  /\ subscription \in PlanStates /\ period \in Periods /\ periods \in Nat
  /\ hand \in [Hands -> [doing : {"nothing", "deliver", "activate", "complain", "support",
                                  "sync"},
                         loaded : PlanStates, period : Periods]]
  /\ told \subseteq {"week", "over"}
  /\ cut \in BOOLEAN

(* _compute_end: no date of an account is known before its delivery. *)
EndAt(item_known) ==
  CASE validity = "relative" -> {"long", "week"}
    [] validity = "inventory" /\ ~item_known -> {"open"}
    [] OTHER -> {date}

(* mark_payment_approved, which has no account yet; the fixed end of an    *)
(* offer is a date and may have passed since the sale.                     *)
StudentInit ==
  /\ start_trigger \in {"payment_approved", "delivery", "activation"}
  /\ validity \in {"relative", "fixed", "inventory"}
  /\ date \in CASE validity = "relative" -> {"open"}
                 [] validity = "fixed" -> Clock \ {"open"}
                 [] OTHER -> Clock
  /\ step = "awaited" /\ told = {} /\ cut = FALSE
  /\ hand = [h \in Hands |-> Resting]
  /\ IF start_trigger = "payment_approved"
     THEN subscription = "active" /\ period \in EndAt(FALSE) /\ periods = 1
     ELSE subscription = "waiting" /\ period = "none" /\ periods = 0

-----------------------------------------------------------------------------
Open(h, doing) ==
  /\ hand[h] = Resting
  /\ hand' = [hand EXCEPT ![h] =
       [doing |-> doing, loaded |-> subscription, period |-> period]]
  /\ UNCHANGED <<policyVars, date, step, subscription, period, periods, told, cut>>

OpenDelivery == step = "awaited" /\ periods < MaxPeriods /\ Open("courier", "deliver")
OpenActivation ==
  /\ step = "delivered" /\ (period = "none" => periods < MaxPeriods)
  /\ Open("student", "activate")
OpenProblem == step # "completed" /\ Open("student", "complain")
OpenSupport == step # "completed" /\ Open("student", "support")
OpenSync == subscription \in {"active", "expiring"} /\ Open("job", "sync")

Write(h, status) ==
  /\ subscription' = IF status = hand[h].loaded THEN subscription ELSE status
  /\ hand' = [hand EXCEPT ![h] = Resting]

(* starts_at and ends_at are set anew. *)
Start(h) ==
  /\ period' \in EndAt(TRUE) /\ periods' = periods + 1
  /\ cut' = (hand[h].loaded # subscription
             \/ \E x \in Hands \ {h} : hand[x].doing # "nothing")

KeepDates == UNCHANGED <<period, periods, cut>>

(* mark_delivered: a subscription that runs since the payment waits for    *)
(* the student's word now, and the calendar passes it by.                  *)
Deliver ==
  /\ hand["courier"].doing = "deliver"
  /\ step' = "delivered"
  /\ IF start_trigger = "delivery"
     THEN Write("courier", "active") /\ Start("courier")
     ELSE Write("courier", "waiting") /\ KeepDates
  /\ UNCHANGED <<policyVars, date, told>>

(* activate, in complete_order; what has started keeps its start, and the  *)
(* end is the account's now where the payment started it without one.      *)
Activate ==
  /\ hand["student"].doing = "activate"
  /\ step' = "completed"
  /\ Write("student", "active")
  /\ CASE hand["student"].period = "none" -> Start("student")
       [] hand["student"].period = "open" /\ validity = "inventory" ->
            period' = date /\ UNCHANGED <<periods, cut>>
       [] OTHER -> KeepDates
  /\ UNCHANGED <<policyVars, date, told>>

(* The problem button, and mark_needs_support, which spares some states.   *)
Complain ==
  /\ hand["student"].doing \in {"complain", "support"}
  /\ IF hand["student"].doing = "support" /\ hand["student"].loaded \in {"active", "expired"}
     THEN hand' = [hand EXCEPT !["student"] = Resting] /\ UNCHANGED subscription
     ELSE Write("student", "needs_support")
  /\ step' = IF step = "delivered" THEN "objected" ELSE step
  /\ KeepDates
  /\ UNCHANGED <<policyVars, date, told>>

(* The new-code button returns the order to waiting for its delivery; an   *)
(* order with codes is delivered no account that has a date.               *)
AskCodeAgain ==
  /\ validity = "inventory" => date = "open"
  /\ step \in {"delivered", "objected"} /\ hand["student"] = Resting
  /\ step' = "awaited"
  /\ KeepDates
  /\ UNCHANGED <<policyVars, date, subscription, hand, told>>

StatusIn_WeekIsOver(p) == CASE p = "week" -> "expired" [] p = "over" -> "expired" [] OTHER -> "active"

StatusIn(p) == CASE p = "over" -> "expired" [] p = "week" -> "expiring" [] OTHER -> "active"

(* sync_statuses, and the notices of the same job, each sent once in the   *)
(* life of the row; a row without an end is passed over.                   *)
Sync ==
  LET seen == hand["job"] IN
  /\ seen.doing = "sync"
  /\ IF seen.period \in {"none", "open"}
     THEN hand' = [hand EXCEPT !["job"] = Resting] /\ UNCHANGED subscription
     ELSE Write("job", StatusIn(seen.period))
  /\ told' = told \cup ({seen.period} \cap {"week", "over"})
  /\ KeepDates
  /\ UNCHANGED <<policyVars, date, step>>

Later(p) == CASE p = "long" -> "week" [] p = "week" -> "over" [] OTHER -> p

(* Of the date and the end that has been made of it, neither is behind.    *)
DaysPass ==
  /\ date' = Later(date) /\ period' = Later(period)
  /\ <<date, period>>' # <<date, period>>
  /\ UNCHANGED <<policyVars, step, subscription, periods, hand, told, cut>>

StudentNext ==
  \/ OpenDelivery \/ OpenActivation \/ OpenProblem \/ OpenSupport \/ OpenSync
  \/ Deliver \/ Activate \/ Complain \/ AskCodeAgain \/ Sync \/ DaysPass

StudentSpec == StudentInit /\ [][StudentNext]_studentVars

-----------------------------------------------------------------------------
(* Properties.                                                             *)

(* Nobody's subscription is expired while paid time remains or there is no *)
(* end to it, which would end the warranty for good, as the job looks at   *)
(* no expired row again, and none expires soon that has more than a week;  *)
(* only a start that crosses another handler's write may be lost so.  The  *)
(* notices are true of the first period, and the calendar holds nothing    *)
(* that has not started.                                                   *)
NeverCutShort ==
  /\ subscription = "expired" => period = "over" \/ cut
  /\ subscription = "expiring" => period \in {"week", "over"} \/ cut
  /\ "over" \in told => period = "over" \/ periods > 1
  /\ "week" \in told => period \in {"week", "over"} \/ periods > 1
  /\ subscription \in {"active", "expiring", "expired"} => period # "none"
=============================================================================
