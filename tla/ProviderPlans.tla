---------------------------- MODULE ProviderPlans ----------------------------
(***************************************************************************)
(* The plans of the platforms and the coupons that pay for them, after     *)
(* SubscriptionService and the handlers of admin/subscriptions.py: an      *)
(* administrator pauses, resumes, extends or assigns a plan, the staff of  *)
(* a platform redeems a coupon, and every read of a plan, the scheduler's  *)
(* among them, brings its status up to the clock and saves it.             *)
(*                                                                         *)
(* No row is locked when it is read.  A handler loads the plan, changes    *)
(* its copy, and writes the columns in which the copy then differs.  A     *)
(* desk is one such handler; its two steps are the load and the write.     *)
(* Only the coupons that give a plan or a trial are modelled.  A trial and *)
(* the days of grace are an active plan under other names.                 *)
(***************************************************************************)
EXTENDS Naturals, FiniteSets, Owners

CONSTANTS
  Platforms,         (* providers with a ProviderSubscription               *)
  Desks,
  MaxUses            (* ProviderCoupon.max_uses of the one coupon           *)

ASSUME ProviderPlansAssumption ==
  MaxUses \in Nat \ {0} /\ Nobody \notin Platforms

VARIABLES
  plan,              (* ProviderSubscription.status                         *)
  term,              (* where the clock stands before grace_until           *)
  used_count,        (* ProviderCoupon.used_count                           *)
  redeemed,          (* platforms with a ProviderCouponRedemption           *)
  desk,              (* what the desks have loaded                          *)
  decision,          (* what was decided last about a platform's pause      *)
  overtaken,         (* platforms decided about amid another desk's work    *)
  coupon_raced       (* did a redemption overtake another?                  *)

planVars == <<plan, term, used_count, redeemed, desk, decision, overtaken, coupon_raced>>

Statuses == {"active", "expired", "paused"}
Terms == {"endless", "running", "over"}

Free == [doing |-> "nothing", of |-> Nobody, loaded |-> "active", status |-> "active",
         uses |-> 0]

PlanTypeOK ==
  /\ plan \in [Platforms -> Statuses]
  /\ term \in [Platforms -> Terms]
  /\ used_count \in Nat
  /\ redeemed \subseteq Platforms
  /\ desk \in [Desks -> [doing : {"nothing", "look", "toggle", "grant", "redeem"},
                         of : Platforms \cup {Nobody}, loaded : Statuses,
                         status : Statuses, uses : Nat]]
  /\ decision \in [Platforms -> {"paused", "open"}]
  /\ overtaken \subseteq Platforms
  /\ coupon_raced \in BOOLEAN

(* A platform gets the free plan, which has no end, when it is first seen. *)
PlanInit ==
  /\ plan = [p \in Platforms |-> "active"]
  /\ term = [p \in Platforms |-> "endless"]
  /\ used_count = 0 /\ redeemed = {}
  /\ desk = [x \in Desks |-> Free]
  /\ decision = [p \in Platforms |-> "open"]
  /\ overtaken = {} /\ coupon_raced = FALSE

-----------------------------------------------------------------------------
StatusOf(t) == IF t = "over" THEN "expired" ELSE "active"

RefreshStatus_ByClock(p) == StatusOf(term[p])

(* _refresh_status leaves a paused plan alone. *)
RefreshStatus(p) == IF plan[p] = "paused" THEN "paused" ELSE StatusOf(term[p])

Load(x, p, doing) ==
  /\ desk[x].doing = "nothing"
  /\ desk' = [desk EXCEPT ![x] =
       [doing |-> doing, of |-> p, loaded |-> plan[p], status |-> RefreshStatus(p),
        uses |-> IF doing = "redeem" THEN used_count ELSE 0]]
  /\ UNCHANGED <<plan, term, used_count, redeemed, decision, overtaken, coupon_raced>>

(* A coupon is loaded with its uses; spent or redeemed before, it is       *)
(* refused before the plan is read.                                        *)
OpenRedeem(x, p) ==
  /\ used_count < MaxUses /\ p \notin redeemed
  /\ Load(x, p, "redeem")

(* The column is written when the copy differs from what was loaded. *)
WriteStatus(x, status) ==
  LET d == desk[x] IN
  plan' = IF status = d.loaded THEN plan ELSE [plan EXCEPT ![d.of] = status]

Decide(x, choice) ==
  LET p == desk[x].of
      alone == desk[x].loaded = plan[p] /\ \A y \in Desks \ {x} : desk[y].of # p
  IN /\ decision' = [decision EXCEPT ![p] = choice]
     /\ overtaken' = IF alone THEN overtaken \ {p} ELSE overtaken \cup {p}

Close(x) == desk' = [desk EXCEPT ![x] = Free]

(* get_subscription, effective_entitlement and sync_lifecycle. *)
SaveRefreshed(x) ==
  /\ desk[x].doing = "look"
  /\ WriteStatus(x, desk[x].status)
  /\ Close(x)
  /\ UNCHANGED <<term, used_count, redeemed, decision, overtaken, coupon_raced>>

(* The button of the panel pauses a plan that is not paused, and resumes.  *)
TogglePause(x) ==
  LET pausing == desk[x].status # "paused" IN
  /\ desk[x].doing = "toggle"
  /\ WriteStatus(x, IF pausing THEN "paused" ELSE "active")
  /\ Decide(x, IF pausing THEN "paused" ELSE "open")
  /\ Close(x)
  /\ UNCHANGED <<term, used_count, redeemed, coupon_raced>>

(* extend, assign_plan, grant_trial: the plan runs again, also one that    *)
(* was paused; only assigning the free plan gives one without end.         *)
Grant(x) ==
  /\ desk[x].doing = "grant"
  /\ WriteStatus(x, "active")
  /\ \E t \in {"running", "endless"} : term' = [term EXCEPT ![desk[x].of] = t]
  /\ Decide(x, "open")
  /\ Close(x)
  /\ UNCHANGED <<used_count, redeemed, coupon_raced>>

(* The redemption is unique for coupon and platform: the second of two     *)
(* overlapping ones is rolled back.  The uses grow from what was loaded.   *)
Redeem(x) ==
  LET d == desk[x] IN
  /\ d.doing = "redeem" /\ d.of \notin redeemed
  /\ WriteStatus(x, "active")
  /\ term' = [term EXCEPT ![d.of] = "running"]
  /\ redeemed' = redeemed \cup {d.of}
  /\ used_count' = d.uses + 1
  /\ coupon_raced' = (coupon_raced \/ used_count # d.uses)
  /\ Decide(x, "open")
  /\ Close(x)

RedeemAgain(x) ==
  /\ desk[x].doing = "redeem" /\ desk[x].of \in redeemed
  /\ Close(x)
  /\ UNCHANGED <<plan, term, used_count, redeemed, decision, overtaken, coupon_raced>>

TimePasses(p) ==
  /\ term[p] = "running"
  /\ term' = [term EXCEPT ![p] = "over"]
  /\ UNCHANGED <<plan, used_count, redeemed, desk, decision, overtaken, coupon_raced>>

PlanNext ==
  \/ \E x \in Desks :
       \/ \E p \in Platforms, doing \in {"look", "toggle", "grant"} : Load(x, p, doing)
       \/ \E p \in Platforms : OpenRedeem(x, p)
       \/ SaveRefreshed(x) \/ TogglePause(x) \/ Grant(x) \/ Redeem(x) \/ RedeemAgain(x)
  \/ \E p \in Platforms : TimePasses(p)

PlanSpec == PlanInit /\ [][PlanNext]_planVars

-----------------------------------------------------------------------------
(* Properties.                                                             *)

(* A platform is paused exactly when the last decision about it says so,   *)
(* whatever reads, cycles, plans and coupons follow, unless that decision  *)
(* crossed another handler that held a copy of the plan; and a coupon      *)
(* counts every platform that used it and serves no more than it may,      *)
(* unless two redemptions crossed, and then it counts too few.             *)
DecisionsHold ==
  /\ \A p \in Platforms \ overtaken : plan[p] = "paused" <=> decision[p] = "paused"
  /\ used_count <= MaxUses /\ used_count <= Cardinality(redeemed)
  /\ coupon_raced \/ used_count = Cardinality(redeemed)
=============================================================================
