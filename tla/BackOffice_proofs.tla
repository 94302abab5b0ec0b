------------------------- MODULE BackOffice_proofs --------------------------
(***************************************************************************)
(* Theorems about the parts of MCBackOffice, for every value of their      *)
(* constants, and about their composition.  The theorems about the wallets *)
(* are in WalletFees_proofs.                                               *)
(***************************************************************************)
EXTENDS MCBackOffice, WalletFees_proofs

-----------------------------------------------------------------------------
(* ConfigCache                                                             *)

(* A coroutine that waits for the database waits in a process, and the     *)
(* answer it brings to the cache is the committed value unless a change    *)
(* overran it.                                                             *)
AnswersFresh ==
  \A a \in Askers : asker[a].at # "away" =>
    /\ asker[a].in \in Processes
    /\ asker[a].at = "answered" /\ asker[a].in \notin overrun => asker[a].value = flag

CacheInv == CacheTypeOK /\ AnswersFresh /\ CurrentGenerationIsFresh

LEMMA CacheInitially == CacheInit => CacheInv
<1> SUFFICES ASSUME CacheInit PROVE CacheInv
  OBVIOUS
<1>1. Away \in [at : {"away", "asked", "missed", "answered"}, in : Processes \cup {Nobody},
                generation : Nat, value : BOOLEAN]
  BY DEF Away
<1>2. CacheTypeOK
  BY <1>1 DEF CacheInit, CacheTypeOK
<1>3. AnswersFresh /\ CurrentGenerationIsFresh
  BY DEF CacheInit, AnswersFresh, CurrentGenerationIsFresh, Away
<1> QED BY <1>2, <1>3 DEF CacheInv

(* What a coroutine learns from a generation: a value under it, or none.   *)
LEMMA LearnStep ==
  ASSUME CacheInv, NEW a \in Askers, NEW p \in Processes, NEW g \in Nat, Learn(a, p, g),
         UNCHANGED <<dbVars, overrun>>
  PROVE  /\ believed' \in [Processes -> Nat]
         /\ cache' \in [Processes -> SUBSET BOOLEAN]
         /\ asker' \in [Askers -> [at : {"away", "asked", "missed", "answered"},
                                   in : Processes \cup {Nobody},
                                   generation : Nat, value : BOOLEAN]]
         /\ AnswersFresh' /\ CurrentGenerationIsFresh'
<1>1. /\ believed' = [believed EXCEPT ![p] = g]
      /\ cache' = [cache EXCEPT ![p] = IF g = believed[p] THEN cache[p] ELSE {}]
      /\ asker' = [asker EXCEPT ![a] =
           IF (IF g = believed[p] THEN cache[p] ELSE {}) = {}
           THEN [Away EXCEPT !.at = "missed", !.in = p] ELSE Away]
  BY DEF Learn
<1>2. asker'[a] \in {[at |-> "missed", in |-> p, generation |-> 0, value |-> FALSE], Away}
  BY <1>1 DEF CacheInv, CacheTypeOK, Away
<1>3. \A b \in Askers \ {a} : asker'[b] = asker[b]
  BY <1>1 DEF CacheInv, CacheTypeOK
<1>4. AnswersFresh'
  <2>1. asker'[a].at # "answered" /\ (asker'[a].at # "away" => asker'[a].in = p)
    BY <1>2 DEF Away
  <2>2. flag' = flag /\ overrun' = overrun
    BY DEF dbVars
  <2> QED BY <1>3, <2>1, <2>2 DEF AnswersFresh, CacheInv
<1>5. CurrentGenerationIsFresh'
  BY <1>1 DEF CurrentGenerationIsFresh, CacheInv, CacheTypeOK, dbVars
<1> QED BY <1>1, <1>2, <1>4, <1>5 DEF CacheInv, CacheTypeOK, Away

LEMMA CacheStep == CacheInv /\ [CacheNext]_cacheVars => CacheInv'
<1> SUFFICES ASSUME CacheInv, [CacheNext]_cacheVars PROVE CacheInv'
  OBVIOUS
<1> USE ConfigCacheAssumption DEF CacheInv
<1>1. ASSUME NEW a \in Askers, NEW p \in Processes, AskBySnapshot(a, p) PROVE CacheInv'
  <2>1. snapshots[p] \in Nat
    BY DEF CacheTypeOK
  <2> QED BY <1>1, <2>1, LearnStep DEF AskBySnapshot, CacheTypeOK, dbVars
<1>2. ASSUME NEW a \in Askers, NEW p \in Processes, AskGeneration(a, p) PROVE CacheInv'
  BY <1>2 DEF AskGeneration, CacheTypeOK, AnswersFresh, CurrentGenerationIsFresh, Away, dbVars
<1>3. ASSUME NEW a \in Askers, TakeGeneration(a) PROVE CacheInv'
  <2> DEFINE p == asker[a].in
  <2>1. p \in Processes /\ asker[a].generation \in Nat
    BY <1>3 DEF TakeGeneration, CacheTypeOK, AnswersFresh
  <2>2. Learn(a, p, asker[a].generation) /\ UNCHANGED <<dbVars, overrun>>
    BY <1>3 DEF TakeGeneration
  <2>3. snapshots' \in [Processes -> Nat] /\ snapshot_valid' \subseteq Processes
    BY <1>3, <2>1 DEF TakeGeneration, CacheTypeOK
  <2> QED BY <2>1, <2>2, <2>3, LearnStep DEF CacheTypeOK, dbVars
<1>4. ASSUME NEW a \in Askers, AskFlag(a) PROVE CacheInv'
  <2>1. /\ asker' = [asker EXCEPT ![a] = [asker[a] EXCEPT !.at = "answered", !.value = flag]]
        /\ asker[a].at = "missed"
        /\ UNCHANGED <<dbVars, cache, believed, snapshot_valid, snapshots, overrun>>
    BY <1>4 DEF AskFlag, CacheTypeOK
  <2>2. CacheTypeOK'
    <3>1. asker' \in [Askers -> [at : {"away", "asked", "missed", "answered"},
                                 in : Processes \cup {Nobody},
                                 generation : Nat, value : BOOLEAN]]
      BY <2>1 DEF CacheTypeOK
    <3> QED BY <2>1, <3>1 DEF CacheTypeOK, dbVars
  <2>3. asker'[a].in = asker[a].in /\ asker'[a].value = flag
    BY <2>1 DEF CacheTypeOK
  <2>4. AnswersFresh' /\ CurrentGenerationIsFresh'
    BY <2>1, <2>3 DEF AnswersFresh, CurrentGenerationIsFresh, CacheTypeOK, dbVars
  <2> QED BY <2>2, <2>4
<1>5. ASSUME NEW a \in Askers, CacheFlag(a) PROVE CacheInv'
  BY <1>5 DEF CacheFlag, CacheTypeOK, AnswersFresh, CurrentGenerationIsFresh, Away, dbVars
<1>6. ASSUME NEW p \in Processes, ValueLapses(p) PROVE CacheInv'
  BY <1>6 DEF ValueLapses, CacheTypeOK, AnswersFresh, CurrentGenerationIsFresh, dbVars
<1>7. ASSUME NEW p \in Processes, SnapshotLapses(p) PROVE CacheInv'
  BY <1>7 DEF SnapshotLapses, CacheTypeOK, AnswersFresh, CurrentGenerationIsFresh, dbVars
<1>8. ASSUME NEW p \in Processes, BeginToggle(p) PROVE CacheInv'
  <2>1. CacheTypeOK'
    <3>1. cache' \in [Processes -> SUBSET BOOLEAN] /\ changes' \in Nat
      BY <1>8 DEF BeginToggle, CacheTypeOK
    <3> QED BY <1>8, <3>1 DEF BeginToggle, CacheTypeOK
  <2>2. AnswersFresh'
    BY <1>8 DEF BeginToggle, CacheTypeOK, AnswersFresh
  <2>3. CurrentGenerationIsFresh'
    BY <1>8 DEF BeginToggle, CacheTypeOK, CurrentGenerationIsFresh
  <2> QED BY <2>1, <2>2, <2>3
(* The new generation is not committed yet. *)
<1>9. CASE Bump
  BY <1>9 DEF Bump, CacheTypeOK, AnswersFresh, CurrentGenerationIsFresh
(* Whoever has the old value at hand is overrun. *)
<1>10. CASE CommitToggle
  <2>1. CacheTypeOK'
    <3>1. flag' \in BOOLEAN /\ generation' \in Nat /\ overrun' \subseteq Processes
      BY <1>10 DEF CommitToggle, Overrun, CacheTypeOK
    <3> QED BY <1>10, <3>1 DEF CommitToggle, CacheTypeOK
  <2>2. AnswersFresh'
    BY <1>10 DEF CommitToggle, Overrun, CacheTypeOK, AnswersFresh
  <2>3. CurrentGenerationIsFresh'
    BY <1>10 DEF CommitToggle, Overrun, CacheTypeOK, CurrentGenerationIsFresh
  <2> QED BY <2>1, <2>2, <2>3
<1>11. CASE RollBackToggle
  BY <1>11 DEF RollBackToggle, CacheTypeOK, AnswersFresh, CurrentGenerationIsFresh
<1>12. CASE UNCHANGED cacheVars
  BY <1>12 DEF cacheVars, dbVars, CacheTypeOK, AnswersFresh, CurrentGenerationIsFresh
<1> QED BY <1>1, <1>2, <1>3, <1>4, <1>5, <1>6, <1>7, <1>8, <1>9, <1>10, <1>11, <1>12
        DEF CacheNext

LEMMA CacheAlways == CacheSpec => []CacheInv
BY CacheInitially, CacheStep, PTL DEF CacheSpec

(* The rows, the caches and the coroutines of FeatureService keep their    *)
(* types.                                                                  *)
THEOREM CacheTypeCorrect == CacheSpec => []CacheTypeOK
<1>1. CacheInv => CacheTypeOK
  BY DEF CacheInv
<1> QED BY CacheAlways, <1>1, PTL

(* A process that believes in the committed generation of                  *)
(* CacheCoherenceService serves the committed value of the flag, for any   *)
(* number of processes, coroutines and changes, unless a commit overran a  *)
(* read or the process took its number from a change that failed.          *)
THEOREM CurrentIsFresh == CacheSpec => []CurrentGenerationIsFresh
<1>1. CacheInv => CurrentGenerationIsFresh
  BY DEF CacheInv
<1> QED BY CacheAlways, <1>1, PTL

-----------------------------------------------------------------------------
(* StudentPlans                                                            *)

HandCopy ==
  [doing : {"nothing", "deliver", "activate", "complain", "support", "sync"},
   loaded : PlanStates, period : Periods]

(* Who is open has loaded something; only the job's copy of the dates is   *)
(* acted on after they may have changed.                                   *)
HandsKnown ==
  /\ \A h \in Hands : hand[h].doing = "nothing" => hand[h] = Resting
  /\ \A h \in Hands : hand[h].period # "none" => period # "none"
  /\ period # "none" => periods > 0

(* What runs to a date of the offer or of the account runs to that date;   *)
(* what runs for a time has an end.                                        *)
DateKept ==
  CASE validity = "relative" -> period # "open"
    [] validity = "fixed" -> period \in {"none", date}
    [] OTHER -> period \in {"none", "open", date}

(* A job that has seen the last week or the end of the period still sees   *)
(* it, or a start crossed it.                                              *)
EndSeen ==
  /\ hand["job"].period = "over" =>
       /\ period = "over" \/ cut
       /\ period = "over" \/ periods > 1
  /\ hand["job"].period = "week" =>
       /\ period \in {"week", "over"} \/ cut
       /\ period \in {"week", "over"} \/ periods > 1

StudentInv == StudentTypeOK /\ HandsKnown /\ DateKept /\ EndSeen /\ NeverCutShort

LEMMA StudentInitially == StudentInit => StudentInv
<1> SUFFICES ASSUME StudentInit PROVE StudentInv
  OBVIOUS
<1>1. Resting \in HandCopy
  BY DEF Resting, HandCopy, PlanStates, Periods
<1>2. StudentTypeOK
  <2>1. hand \in [Hands -> HandCopy] /\ told \subseteq {"week", "over"}
    BY <1>1 DEF StudentInit
  <2>2. date \in Clock
    BY DEF StudentInit, Clock
  <2>3. subscription \in PlanStates /\ period \in Periods /\ periods \in Nat
    BY <2>2 DEF StudentInit, PlanStates, Periods, Clock, EndAt
  <2> QED BY <2>1, <2>2, <2>3 DEF StudentInit, StudentTypeOK, HandCopy
<1>3. \A h \in Hands : hand[h].period = "none"
  BY DEF StudentInit, Resting
<1>4. period # "none" => subscription = "active" /\ periods = 1 /\ period \in EndAt(FALSE)
  BY DEF StudentInit
<1>5. DateKept
  BY <1>4 DEF StudentInit, DateKept, EndAt, Clock
<1>6. HandsKnown /\ EndSeen
  <2>1. \A h \in Hands : hand[h] = Resting
    BY DEF StudentInit
  <2>2. period # "none" => periods > 0
    BY <1>4
  <2>3. HandsKnown
    BY <1>3, <2>1, <2>2 DEF HandsKnown
  <2>4. hand["job"].period = "none"
    BY <1>3 DEF Hands
  <2> QED BY <2>3, <2>4 DEF EndSeen
<1>7. period = "none" => subscription = "waiting"
  <2>1. date # "none"
    BY DEF StudentInit, Clock
  <2> QED BY <2>1 DEF StudentInit, EndAt
<1>8. NeverCutShort
  BY <1>4, <1>7 DEF StudentInit, NeverCutShort
<1> QED BY <1>2, <1>5, <1>6, <1>8 DEF StudentInv

LEMMA OpenStep ==
  ASSUME StudentInv, NEW h \in Hands,
         NEW doing \in {"deliver", "activate", "complain", "support", "sync"}, Open(h, doing)
  PROVE  StudentInv'
<1> USE DEF StudentInv
<1>1. /\ hand' = [hand EXCEPT ![h] =
            [doing |-> doing, loaded |-> subscription, period |-> period]]
      /\ UNCHANGED <<policyVars, date, step, subscription, period, periods, told, cut>>
  BY DEF Open
<1>2. StudentTypeOK' /\ DateKept'
  BY <1>1 DEF policyVars, StudentTypeOK, HandCopy, DateKept
<1>3. HandsKnown'
  BY <1>1 DEF StudentTypeOK, HandsKnown
<1>4. EndSeen'
  <2>1. hand'["job"] = hand["job"] \/ hand'["job"].period = period
    BY <1>1 DEF StudentTypeOK, Hands
  <2> QED BY <1>1, <2>1 DEF EndSeen
<1>5. NeverCutShort'
  BY <1>1 DEF NeverCutShort
<1> QED BY <1>2, <1>3, <1>4, <1>5

(* A handler closes: it writes a status over its copy, and the dates stay. *)
LEMMA CloseStep ==
  ASSUME StudentInv, NEW h \in Hands,
         hand' = [hand EXCEPT ![h] = Resting],
         UNCHANGED <<policyVars, date, period, periods, cut>>
  PROVE  HandsKnown' /\ DateKept' /\ EndSeen' /\ hand' \in [Hands -> HandCopy]
<1>1. Resting \in HandCopy /\ Resting.period = "none"
  BY DEF Resting, HandCopy, PlanStates, Periods
<1>2. hand'[h] = Resting /\ \A x \in Hands \ {h} : hand'[x] = hand[x]
  BY DEF StudentInv, StudentTypeOK, HandCopy
<1>3. HandsKnown'
  BY <1>1, <1>2 DEF StudentInv, HandsKnown
<1>4. EndSeen'
  BY <1>1, <1>2 DEF StudentInv, EndSeen, Hands
<1>5. DateKept'
  BY DEF policyVars, StudentInv, DateKept
<1> QED BY <1>1, <1>3, <1>4, <1>5 DEF StudentInv, StudentTypeOK, HandCopy

(* The subscription starts: nobody is open, or the start is cut.           *)
LEMMA StartStep ==
  ASSUME StudentInv, NEW h \in {"courier", "student"}, Write(h, "active"), Start(h),
         UNCHANGED <<policyVars, date, told>>
  PROVE  /\ subscription' \in PlanStates /\ period' \in Periods /\ periods' \in Nat
         /\ cut' \in BOOLEAN
         /\ hand' \in [Hands -> HandCopy]
         /\ HandsKnown' /\ DateKept' /\ EndSeen' /\ NeverCutShort'
<1>1. Resting \in HandCopy /\ Resting.period = "none"
  BY DEF Resting, HandCopy, PlanStates, Periods
<1>2. h \in Hands /\ "job" \in Hands /\ h # "job"
  BY DEF Hands
<1>e. EndAt(TRUE) \subseteq Clock /\ "none" \notin Clock
  BY DEF EndAt, Clock, StudentInv, StudentTypeOK
<1>3. /\ period' \in EndAt(TRUE) /\ periods' = periods + 1 /\ periods \in Nat
      /\ cut' = (hand[h].loaded # subscription
                 \/ \E x \in Hands \ {h} : hand[x].doing # "nothing")
      /\ subscription' = IF "active" = hand[h].loaded THEN subscription ELSE "active"
      /\ hand' = [hand EXCEPT ![h] = Resting]
  BY DEF Start, Write, StudentInv, StudentTypeOK, HandCopy
<1>p. period' \in Periods /\ period' # "none"
  BY <1>3, <1>e DEF Periods
<1>4. hand'[h] = Resting /\ \A x \in Hands \ {h} : hand'[x] = hand[x]
  BY <1>2, <1>3 DEF StudentInv, StudentTypeOK, HandCopy
<1>5. HandsKnown'
  BY <1>1, <1>3, <1>4, <1>p DEF StudentInv, HandsKnown
<1>d. DateKept'
  BY <1>3, <1>e DEF policyVars, DateKept, EndAt
<1>6. EndSeen'
  <2> SUFFICES ASSUME hand'["job"].period \in {"week", "over"} PROVE cut' /\ periods' > 1
    BY DEF EndSeen
  <2>1. hand["job"].period # "none"
    BY <1>2, <1>4
  <2>2. hand["job"].doing # "nothing" /\ period # "none"
    BY <2>1, <1>1, <1>2 DEF StudentInv, HandsKnown
  <2>3. cut'
    BY <1>2, <1>3, <2>2
  <2> QED BY <1>3, <2>2, <2>3 DEF StudentInv, HandsKnown
<1>7. NeverCutShort'
  <2>1. subscription' \in {"expired", "expiring"} => cut'
    BY <1>3
  <2>2. told' \cap {"week", "over"} # {} => periods' > 1
    BY <1>3 DEF StudentInv, NeverCutShort, HandsKnown
  <2> QED BY <1>3, <1>p, <2>1, <2>2 DEF NeverCutShort
<1>8. hand' \in [Hands -> HandCopy]
  BY <1>1, <1>3 DEF StudentInv, StudentTypeOK, HandCopy
<1>9. subscription' \in PlanStates /\ cut' \in BOOLEAN
  BY <1>3 DEF StudentInv, StudentTypeOK, PlanStates
<1> QED BY <1>3, <1>p, <1>5, <1>d, <1>6, <1>7, <1>8, <1>9

LEMMA StudentStep == StudentInv /\ [StudentNext]_studentVars => StudentInv'
<1> SUFFICES ASSUME StudentInv, [StudentNext]_studentVars PROVE StudentInv'
  OBVIOUS
<1>h. "courier" \in Hands /\ "student" \in Hands /\ "job" \in Hands
  BY DEF Hands
<1>1. CASE OpenDelivery \/ OpenActivation \/ OpenProblem \/ OpenSupport \/ OpenSync
  BY <1>1, <1>h, OpenStep DEF OpenDelivery, OpenActivation, OpenProblem, OpenSupport, OpenSync
<1>2. CASE Deliver
  <2>1. step' = "delivered" /\ UNCHANGED <<policyVars, date, told>>
    BY <1>2 DEF Deliver
  <2>2. CASE start_trigger = "delivery"
    BY <1>2, <2>1, <2>2, StartStep DEF Deliver, policyVars, StudentInv, StudentTypeOK, HandCopy
  <2>3. CASE start_trigger # "delivery"
    <3>1. Write("courier", "waiting") /\ KeepDates
      BY <1>2, <2>3 DEF Deliver
    <3>2. HandsKnown' /\ DateKept' /\ EndSeen' /\ hand' \in [Hands -> HandCopy]
      BY <3>1, <2>1, <1>h, CloseStep DEF Write, KeepDates
    <3>3. NeverCutShort'
      BY <3>1, <2>1 DEF Write, KeepDates, StudentInv, NeverCutShort
    <3> QED BY <3>1, <3>2, <3>3, <2>1
            DEF Write, KeepDates, policyVars, StudentInv, StudentTypeOK, HandCopy, PlanStates
  <2> QED BY <2>2, <2>3
<1>3. CASE Activate
  <2>1. step' = "completed" /\ UNCHANGED <<policyVars, date, told>> /\ Write("student", "active")
    BY <1>3 DEF Activate
  <2>2. CASE hand["student"].period = "none"
    BY <1>3, <2>1, <2>2, StartStep
    DEF Activate, policyVars, StudentInv, StudentTypeOK, HandCopy
  (* The account's date replaces an end that was open, or is the end.      *)
  <2>3. CASE hand["student"].period = "open" /\ validity = "inventory"
    <3>1. period' = date /\ UNCHANGED <<periods, cut>>
      BY <1>3, <2>3 DEF Activate
    <3>2. period \in {"open", date} /\ date \in Clock
      BY <2>3, <1>h DEF StudentInv, StudentTypeOK, HandsKnown, DateKept
    <3>3. Resting \in HandCopy /\ Resting.period = "none"
      BY DEF Resting, HandCopy, PlanStates, Periods
    <3>4. /\ hand' = [hand EXCEPT !["student"] = Resting]
          /\ subscription' \in {subscription, "active"}
      BY <2>1 DEF Write
    <3>5. hand'["job"] = hand["job"]
      BY <3>4, <1>h DEF StudentInv, StudentTypeOK
    <3>6. HandsKnown'
      <4>1. \A h \in Hands : hand'[h] = hand[h] \/ hand'[h] = Resting
        BY <3>4 DEF StudentInv, StudentTypeOK
      <4>2. period' # "none" /\ period # "none"
        BY <3>1, <3>2 DEF Clock
      <4> QED BY <4>1, <4>2, <3>1, <3>3 DEF StudentInv, HandsKnown
    <3>7. EndSeen'
      BY <3>1, <3>2, <3>5 DEF StudentInv, EndSeen
    <3>8. DateKept'
      BY <3>1, <2>1, <2>3 DEF policyVars, DateKept
    <3>9. NeverCutShort'
      BY <3>1, <3>2, <3>4, <2>1 DEF StudentInv, NeverCutShort, Clock
    <3> QED BY <3>1, <3>2, <3>3, <3>4, <3>6, <3>7, <3>8, <3>9, <2>1
            DEF policyVars, StudentInv, StudentTypeOK, HandCopy, PlanStates, Periods
  <2>4. CASE ~(hand["student"].period = "none")
             /\ ~(hand["student"].period = "open" /\ validity = "inventory")
    <3>1. KeepDates
      BY <1>3, <2>4 DEF Activate
    <3>2. HandsKnown' /\ DateKept' /\ EndSeen' /\ hand' \in [Hands -> HandCopy]
      BY <3>1, <2>1, <1>h, CloseStep DEF Write, KeepDates
    <3>3. NeverCutShort'
      BY <3>1, <2>1, <2>4, <1>h DEF Write, KeepDates, StudentInv, NeverCutShort, HandsKnown
    <3> QED BY <3>1, <3>2, <3>3, <2>1
            DEF Write, KeepDates, policyVars, StudentInv, StudentTypeOK, HandCopy, PlanStates
  <2> QED BY <2>2, <2>3, <2>4
<1>4. CASE Complain
  <2>1. /\ KeepDates /\ UNCHANGED <<policyVars, date, told>>
        /\ hand' = [hand EXCEPT !["student"] = Resting]
        /\ subscription' \in {subscription, "needs_support"}
        /\ step' \in {step, "objected"}
    BY <1>4 DEF Complain, Write
  <2>2. HandsKnown' /\ DateKept' /\ EndSeen' /\ hand' \in [Hands -> HandCopy]
    BY <2>1, <1>h, CloseStep DEF KeepDates
  <2>3. NeverCutShort'
    BY <2>1 DEF KeepDates, StudentInv, NeverCutShort
  <2> QED BY <2>1, <2>2, <2>3
          DEF KeepDates, policyVars, StudentInv, StudentTypeOK, HandCopy, PlanStates
<1>5. CASE AskCodeAgain
  BY <1>5 DEF AskCodeAgain, KeepDates, policyVars, StudentInv, StudentTypeOK, HandsKnown,
     DateKept, EndSeen, NeverCutShort
(* The job writes the end it has seen, and that end is true or was cut.    *)
<1>6. CASE Sync
  <2> DEFINE seen == hand["job"].period
  <2>1. /\ KeepDates /\ UNCHANGED <<policyVars, date, step>>
        /\ hand' = [hand EXCEPT !["job"] = Resting]
        /\ subscription' # subscription => subscription' = StatusIn(seen) /\ seen # "none"
        /\ told' = told \cup ({seen} \cap {"week", "over"})
    BY <1>6 DEF Sync, Write
  <2>2. HandsKnown' /\ DateKept' /\ EndSeen' /\ hand' \in [Hands -> HandCopy]
    BY <2>1, <1>h, CloseStep DEF KeepDates
  <2>3. seen # "none" => period # "none"
    BY <1>h DEF StudentInv, HandsKnown
  <2>4. /\ StatusIn(seen) = "expired" => seen = "over"
        /\ StatusIn(seen) = "expiring" => seen = "week"
    BY DEF StatusIn
  <2>5. NeverCutShort'
    BY <2>1, <2>3, <2>4 DEF KeepDates, StudentInv, NeverCutShort, EndSeen
  <2>6. StatusIn(seen) \in PlanStates
    BY DEF StatusIn, PlanStates
  <2> QED BY <2>1, <2>2, <2>5, <2>6 DEF KeepDates, policyVars, StudentInv, StudentTypeOK, HandCopy
<1>7. CASE DaysPass
  <2>1. /\ date' = Later(date) /\ period' = Later(period)
        /\ UNCHANGED <<policyVars, step, subscription, periods, hand, told, cut>>
    BY <1>7 DEF DaysPass
  <2>2. date' \in Clock /\ period' \in Periods
    BY <2>1 DEF Later, Clock, Periods, StudentInv, StudentTypeOK
  <2>3. StudentTypeOK'
    BY <2>1, <2>2 DEF policyVars, StudentInv, StudentTypeOK
  <2>4. /\ period' = "none" <=> period = "none"
        /\ period' = "open" <=> period = "open"
        /\ period = date => period' = date'
        /\ period = "over" => period' = "over"
        /\ period \in {"week", "over"} => period' \in {"week", "over"}
    BY <2>1 DEF Later
  <2>5. HandsKnown'
    BY <2>1, <2>4 DEF StudentInv, HandsKnown
  <2>6. DateKept'
    BY <2>1, <2>4 DEF policyVars, StudentInv, DateKept
  <2>7. EndSeen'
    BY <2>1, <2>4 DEF StudentInv, EndSeen
  <2>8. NeverCutShort'
    BY <2>1, <2>4 DEF StudentInv, NeverCutShort
  <2> QED BY <2>3, <2>5, <2>6, <2>7, <2>8 DEF StudentInv
<1>8. CASE UNCHANGED studentVars
  BY <1>8 DEF studentVars, policyVars, StudentInv, StudentTypeOK, HandsKnown, DateKept, EndSeen,
     NeverCutShort
<1> QED BY <1>1, <1>2, <1>3, <1>4, <1>5, <1>6, <1>7, <1>8 DEF StudentNext

LEMMA StudentAlways == StudentSpec => []StudentInv
BY StudentInitially, StudentStep, PTL DEF StudentSpec

(* The row of a student's subscription keeps its type.                     *)
THEOREM StudentTypeCorrect == StudentSpec => []StudentTypeOK
<1>1. StudentInv => StudentTypeOK
  BY DEF StudentInv
<1> QED BY StudentAlways, <1>1, PTL

(* The hourly job of StudentSubscriptionService expires no subscription    *)
(* whose paid time remains or has no end, and warns of none that has more  *)
(* than a week, unless the last start crossed another handler, for every   *)
(* policy of start and end and any number of starts.                       *)
THEOREM PaidTimeKept == StudentSpec => []NeverCutShort
<1>1. StudentInv => NeverCutShort
  BY DEF StudentInv
<1> QED BY StudentAlways, <1>1, PTL

-----------------------------------------------------------------------------
(* ProviderPlans                                                           *)

(* A desk's copy is paused exactly when what it loaded was; and that is    *)
(* so now, unless another desk decided about the platform meanwhile.  A    *)
(* redemption began when the coupon had a use left.                        *)
CopiesTrue ==
  \A x \in Desks : desk[x].of # Nobody =>
    /\ desk[x].status = "paused" <=> desk[x].loaded = "paused"
    /\ desk[x].of \notin overtaken =>
         (desk[x].loaded = "paused" <=> plan[desk[x].of] = "paused")
    /\ desk[x].doing = "redeem" => desk[x].uses < MaxUses
    /\ desk[x].uses <= Cardinality(redeemed)

DesksBusy == \A x \in Desks : desk[x].doing = "nothing" <=> desk[x].of = Nobody

PlanInv ==
  PlanTypeOK /\ IsFiniteSet(redeemed) /\ DesksBusy /\ CopiesTrue /\ DecisionsHold

DeskCopy ==
  [doing : {"nothing", "look", "toggle", "grant", "redeem"},
   of : Platforms \cup {Nobody}, loaded : Statuses, status : Statuses, uses : Nat]

LEMMA FreeType == Free \in DeskCopy /\ Free.of = Nobody /\ Free.doing = "nothing"
BY DEF Free, DeskCopy, Statuses

LEMMA PlanInitially == PlanInit => PlanInv
<1> SUFFICES ASSUME PlanInit PROVE PlanInv
  OBVIOUS
<1>1. PlanTypeOK
  BY FreeType DEF PlanInit, PlanTypeOK, DeskCopy, Statuses, Terms
<1>2. IsFiniteSet(redeemed) /\ Cardinality(redeemed) = 0
  BY FS_EmptySet DEF PlanInit
<1>3. \A x \in Desks : desk[x].of = Nobody /\ desk[x].doing = "nothing"
  BY FreeType DEF PlanInit
<1>4. DesksBusy /\ CopiesTrue
  BY <1>3 DEF DesksBusy, CopiesTrue
<1>5. DecisionsHold
  BY <1>2, ProviderPlansAssumption DEF PlanInit, DecisionsHold
<1> QED BY <1>1, <1>2, <1>4, <1>5 DEF PlanInv

LEMMA StatusType == \A p \in Platforms : PlanTypeOK => RefreshStatus(p) \in Statuses
BY DEF RefreshStatus, StatusOf, PlanTypeOK, Statuses

(* A desk loads the plan; a copy is paused exactly when the plan is.       *)
LEMMA LoadStep ==
  ASSUME PlanInv, NEW x \in Desks, NEW p \in Platforms,
         NEW doing \in {"look", "toggle", "grant", "redeem"}, Load(x, p, doing),
         doing = "redeem" => used_count < MaxUses
  PROVE  PlanInv'
<1> DEFINE d == [doing |-> doing, of |-> p, loaded |-> plan[p], status |-> RefreshStatus(p),
                 uses |-> IF doing = "redeem" THEN used_count ELSE 0]
<1>1. /\ desk' = [desk EXCEPT ![x] = d]
      /\ UNCHANGED <<plan, term, used_count, redeemed, decision, overtaken, coupon_raced>>
  BY DEF Load
<1>2. d \in DeskCopy
  BY StatusType DEF PlanInv, PlanTypeOK, DeskCopy
<1>3. desk'[x] = d /\ \A y \in Desks \ {x} : desk'[y] = desk[y]
  BY <1>1 DEF PlanInv, PlanTypeOK
<1>4. d.status = "paused" <=> d.loaded = "paused"
  BY DEF RefreshStatus, StatusOf
<1>5. Cardinality(redeemed) \in Nat
  BY FS_CardinalityType DEF PlanInv
<1>6. /\ d.of = p /\ d.loaded = plan[p] /\ d.doing = doing
      /\ doing = "redeem" => d.uses < MaxUses
      /\ d.uses <= Cardinality(redeemed)
  BY <1>5 DEF PlanInv, DecisionsHold
<1>7. p # Nobody
  BY ProviderPlansAssumption
<1> HIDE DEF d
<1>8. PlanTypeOK'
  BY <1>1, <1>2 DEF PlanInv, PlanTypeOK, DeskCopy
<1>9. DesksBusy' /\ CopiesTrue'
  BY <1>1, <1>3, <1>4, <1>6, <1>7 DEF PlanInv, DesksBusy, CopiesTrue
<1>10. IsFiniteSet(redeemed)' /\ DecisionsHold'
  BY <1>1 DEF PlanInv, DecisionsHold
<1> QED BY <1>8, <1>9, <1>10 DEF PlanInv

(* A desk that decides: the plan is as decided, or another desk is         *)
(* overtaken.                                                              *)
LEMMA DecideStep ==
  ASSUME PlanInv, NEW x \in Desks, desk[x].of \in Platforms,
         NEW choice \in {"paused", "active"}, WriteStatus(x, choice),
         Decide(x, IF choice = "paused" THEN "paused" ELSE "open"), Close(x)
  PROVE  /\ plan' \in [Platforms -> Statuses]
         /\ decision' \in [Platforms -> {"paused", "open"}]
         /\ overtaken' \subseteq Platforms
         /\ desk' \in [Desks -> DeskCopy]
         /\ desk'[x] = Free /\ \A y \in Desks \ {x} : desk'[y] = desk[y]
         /\ DesksBusy'
         /\ \A y \in Desks \ {x} : desk[y].of \in Platforms \ overtaken' =>
              desk[y].of \notin overtaken /\ plan'[desk[y].of] = plan[desk[y].of]
         /\ \A p \in Platforms \ overtaken' :
              plan'[p] = "paused" <=> decision'[p] = "paused"
<1> DEFINE p == desk[x].of
           alone == desk[x].loaded = plan[p] /\ \A y \in Desks \ {x} : desk[y].of # p
<1>1. /\ plan' = IF choice = desk[x].loaded THEN plan ELSE [plan EXCEPT ![p] = choice]
      /\ decision' = [decision EXCEPT ![p] = IF choice = "paused" THEN "paused" ELSE "open"]
      /\ overtaken' = IF alone THEN overtaken \ {p} ELSE overtaken \cup {p}
      /\ desk' = [desk EXCEPT ![x] = Free]
  BY DEF WriteStatus, Decide, Close
<1>2. desk'[x] = Free /\ \A y \in Desks \ {x} : desk'[y] = desk[y]
  BY <1>1 DEF PlanInv, PlanTypeOK
<1>3. DesksBusy'
  BY <1>2, FreeType DEF PlanInv, DesksBusy
<1>4. desk' \in [Desks -> DeskCopy]
  BY <1>1, FreeType DEF PlanInv, PlanTypeOK, DeskCopy
<1>5. /\ plan' \in [Platforms -> Statuses]
      /\ decision' \in [Platforms -> {"paused", "open"}]
      /\ overtaken' \subseteq Platforms
  BY <1>1 DEF PlanInv, PlanTypeOK, Statuses
<1>6. \A q \in Platforms \ {p} : plan'[q] = plan[q] /\ decision'[q] = decision[q]
  BY <1>1 DEF PlanInv, PlanTypeOK
<1>7. alone => plan'[p] = choice
  BY <1>1 DEF PlanInv, PlanTypeOK
<1>8. decision'[p] = "paused" <=> choice = "paused"
  BY <1>1 DEF PlanInv, PlanTypeOK
<1>9. \A q \in Platforms \ overtaken' : plan'[q] = "paused" <=> decision'[q] = "paused"
  BY <1>1, <1>6, <1>7, <1>8 DEF PlanInv, DecisionsHold
<1>10. \A y \in Desks \ {x} : desk[y].of \in Platforms \ overtaken' =>
         desk[y].of \notin overtaken /\ plan'[desk[y].of] = plan[desk[y].of]
  BY <1>1, <1>6
<1> QED BY <1>2, <1>3, <1>4, <1>5, <1>9, <1>10

(* A decision that leaves the coupon alone.                                *)
LEMMA DecisionKeeps ==
  ASSUME PlanInv, NEW x \in Desks, desk[x].of \in Platforms,
         NEW choice \in {"paused", "active"}, WriteStatus(x, choice),
         Decide(x, IF choice = "paused" THEN "paused" ELSE "open"), Close(x),
         UNCHANGED <<used_count, redeemed, coupon_raced>>, term' \in [Platforms -> Terms]
  PROVE  PlanInv'
<1>1. PlanTypeOK' /\ DesksBusy' /\ IsFiniteSet(redeemed)'
  BY DecideStep DEF PlanInv, PlanTypeOK, DeskCopy
<1>2. CopiesTrue'
  <2> SUFFICES ASSUME NEW y \in Desks, desk'[y].of # Nobody
               PROVE  /\ desk'[y].status = "paused" <=> desk'[y].loaded = "paused"
                      /\ desk'[y].of \notin overtaken' =>
                           (desk'[y].loaded = "paused" <=> plan'[desk'[y].of] = "paused")
                      /\ desk'[y].doing = "redeem" => desk'[y].uses < MaxUses
                      /\ desk'[y].uses <= Cardinality(redeemed')
    BY DEF CopiesTrue
  <2>1. y # x /\ desk'[y] = desk[y]
    BY DecideStep, FreeType
  <2>2. desk[y].of \in Platforms
    BY <2>1 DEF PlanInv, PlanTypeOK
  <2>3. desk[y].of \notin overtaken' =>
          desk[y].of \notin overtaken /\ plan'[desk[y].of] = plan[desk[y].of]
    BY <2>1, <2>2, DecideStep
  <2> QED BY <2>1, <2>3 DEF PlanInv, CopiesTrue
<1>3. DecisionsHold'
  BY DecideStep DEF PlanInv, DecisionsHold
<1> QED BY <1>1, <1>2, <1>3 DEF PlanInv

LEMMA PlanStep == PlanInv /\ [PlanNext]_planVars => PlanInv'
<1> SUFFICES ASSUME PlanInv, [PlanNext]_planVars PROVE PlanInv'
  OBVIOUS
<1>a. \A x \in Desks : desk[x].doing # "nothing" => desk[x].of \in Platforms
  BY DEF PlanInv, PlanTypeOK, DesksBusy
<1>1. ASSUME NEW x \in Desks, NEW p \in Platforms, NEW doing \in {"look", "toggle", "grant"},
             Load(x, p, doing)
      PROVE  PlanInv'
  BY <1>1, LoadStep
<1>2. ASSUME NEW x \in Desks, NEW p \in Platforms, OpenRedeem(x, p) PROVE PlanInv'
  BY <1>2, LoadStep DEF OpenRedeem
(* A read writes a status as paused as the one it loaded. *)
<1>3. ASSUME NEW x \in Desks, SaveRefreshed(x) PROVE PlanInv'
  <2> DEFINE p == desk[x].of
  <2>1. /\ plan' = IF desk[x].status = desk[x].loaded THEN plan
                   ELSE [plan EXCEPT ![p] = desk[x].status]
        /\ desk' = [desk EXCEPT ![x] = Free]
        /\ UNCHANGED <<term, used_count, redeemed, decision, overtaken, coupon_raced>>
        /\ p \in Platforms
    BY <1>3, <1>a DEF SaveRefreshed, WriteStatus, Close
  <2>2. p # Nobody /\ desk[x].status \in Statuses
    BY <2>1, ProviderPlansAssumption DEF PlanInv, PlanTypeOK
  <2>3. PlanTypeOK'
    <3>1. plan' \in [Platforms -> Statuses] /\ desk' \in [Desks -> DeskCopy]
      BY <2>1, <2>2, FreeType DEF PlanInv, PlanTypeOK, DeskCopy
    <3> QED BY <2>1, <3>1 DEF PlanInv, PlanTypeOK, DeskCopy
  <2>4. desk'[x] = Free /\ \A y \in Desks \ {x} : desk'[y] = desk[y]
    BY <2>1 DEF PlanInv, PlanTypeOK
  <2>5. \A q \in Platforms \ overtaken : plan'[q] = "paused" <=> plan[q] = "paused"
    <3>1. p \notin overtaken => (plan'[p] = "paused" <=> plan[p] = "paused")
      BY <2>1, <2>2 DEF PlanInv, PlanTypeOK, CopiesTrue
    <3> QED BY <2>1, <3>1 DEF PlanInv, PlanTypeOK
  <2>6. DesksBusy'
    BY <2>4, FreeType DEF PlanInv, DesksBusy
  <2>7. CopiesTrue'
    <3>1. \A y \in Desks : desk'[y].of # Nobody =>
            y # x /\ desk'[y] = desk[y] /\ desk[y].of \in Platforms
      BY <2>4, FreeType DEF PlanInv, PlanTypeOK
    <3> QED BY <2>1, <2>5, <3>1 DEF PlanInv, CopiesTrue
  <2>8. DecisionsHold' /\ IsFiniteSet(redeemed)'
    BY <2>1, <2>5 DEF PlanInv, DecisionsHold
  <2> QED BY <2>3, <2>6, <2>7, <2>8 DEF PlanInv
<1>4. ASSUME NEW x \in Desks, TogglePause(x) PROVE PlanInv'
  <2> DEFINE choice == IF desk[x].status # "paused" THEN "paused" ELSE "active"
  <2>1. /\ WriteStatus(x, choice) /\ Close(x)
        /\ Decide(x, IF choice = "paused" THEN "paused" ELSE "open")
        /\ UNCHANGED <<used_count, redeemed, coupon_raced, term>>
    BY <1>4 DEF TogglePause
  <2>2. desk[x].of \in Platforms /\ choice \in {"paused", "active"}
    BY <1>4, <1>a DEF TogglePause
  <2>3. term' \in [Platforms -> Terms]
    BY <2>1 DEF PlanInv, PlanTypeOK
  <2> HIDE DEF choice
  <2> QED BY <2>1, <2>2, <2>3, DecisionKeeps
<1>5. ASSUME NEW x \in Desks, Grant(x) PROVE PlanInv'
  <2>1. /\ WriteStatus(x, "active") /\ Close(x) /\ Decide(x, "open")
        /\ UNCHANGED <<used_count, redeemed, coupon_raced>>
        /\ desk[x].of \in Platforms
    BY <1>5, <1>a DEF Grant
  <2>2. term' \in [Platforms -> Terms]
    BY <1>5 DEF Grant, PlanInv, PlanTypeOK, Terms
  <2> QED BY <2>1, <2>2, DecisionKeeps
(* The platform counts once, and from uses that were left. *)
<1>6. ASSUME NEW x \in Desks, Redeem(x) PROVE PlanInv'
  <2> DEFINE d == desk[x]
             n == Cardinality(redeemed)
  <2>1. /\ WriteStatus(x, "active") /\ Close(x) /\ Decide(x, "open")
        /\ d.doing = "redeem" /\ d.of \notin redeemed /\ d.of \in Platforms
        /\ term' = [term EXCEPT ![d.of] = "running"]
        /\ redeemed' = redeemed \cup {d.of}
        /\ used_count' = d.uses + 1
        /\ coupon_raced' = (coupon_raced \/ used_count # d.uses)
    BY <1>6, <1>a DEF Redeem
  <2>2. d.of # Nobody /\ d.uses \in Nat /\ d.uses < MaxUses /\ d.uses <= n
    BY <2>1, ProviderPlansAssumption DEF PlanInv, PlanTypeOK, CopiesTrue
  <2>3. IsFiniteSet(redeemed') /\ n \in Nat /\ Cardinality(redeemed') = n + 1
    BY <2>1, FS_AddElement, FS_CardinalityType DEF PlanInv
  <2>4. PlanTypeOK' /\ DesksBusy'
    <3>1. /\ term' \in [Platforms -> Terms] /\ redeemed' \subseteq Platforms
          /\ used_count' \in Nat /\ coupon_raced' \in BOOLEAN
      BY <2>1, <2>2 DEF PlanInv, PlanTypeOK, Terms
    <3> QED BY <2>1, <3>1, DecideStep DEF PlanInv, PlanTypeOK, DeskCopy
  <2>5. CopiesTrue'
    <3> SUFFICES ASSUME NEW y \in Desks, desk'[y].of # Nobody
                 PROVE  /\ desk'[y].status = "paused" <=> desk'[y].loaded = "paused"
                        /\ desk'[y].of \notin overtaken' =>
                             (desk'[y].loaded = "paused" <=> plan'[desk'[y].of] = "paused")
                        /\ desk'[y].doing = "redeem" => desk'[y].uses < MaxUses
                        /\ desk'[y].uses <= Cardinality(redeemed')
      BY DEF CopiesTrue
    <3>1. y # x /\ desk'[y] = desk[y]
      BY <2>1, DecideStep, FreeType
    <3>2. desk[y].of \in Platforms /\ desk[y].uses \in Nat
      BY <3>1 DEF PlanInv, PlanTypeOK
    <3>3. desk[y].of \notin overtaken' =>
            desk[y].of \notin overtaken /\ plan'[desk[y].of] = plan[desk[y].of]
      BY <2>1, <3>1, <3>2, DecideStep
    <3>4. desk[y].uses <= Cardinality(redeemed')
      BY <2>3, <3>1, <3>2 DEF PlanInv, CopiesTrue
    <3> QED BY <3>1, <3>3, <3>4 DEF PlanInv, CopiesTrue
  <2>6. DecisionsHold'
    <3>1. used_count' <= MaxUses /\ used_count' <= Cardinality(redeemed')
      BY <2>1, <2>2, <2>3, ProviderPlansAssumption
    <3>2. coupon_raced' \/ used_count' = Cardinality(redeemed')
      BY <2>1, <2>2, <2>3 DEF PlanInv, DecisionsHold
    <3>3. \A p \in Platforms \ overtaken' : plan'[p] = "paused" <=> decision'[p] = "paused"
      BY <2>1, DecideStep
    <3> QED BY <3>1, <3>2, <3>3 DEF DecisionsHold
  <2> QED BY <2>3, <2>4, <2>5, <2>6 DEF PlanInv
<1>7. ASSUME NEW x \in Desks, RedeemAgain(x) PROVE PlanInv'
  <2>1. /\ desk' = [desk EXCEPT ![x] = Free]
        /\ UNCHANGED <<plan, term, used_count, redeemed, decision, overtaken, coupon_raced>>
    BY <1>7 DEF RedeemAgain, Close
  <2>2. desk'[x] = Free /\ \A y \in Desks \ {x} : desk'[y] = desk[y]
    BY <2>1 DEF PlanInv, PlanTypeOK
  <2>3. PlanTypeOK'
    BY <2>1, FreeType DEF PlanInv, PlanTypeOK, DeskCopy
  <2>4. DesksBusy' /\ CopiesTrue'
    BY <2>1, <2>2, FreeType DEF PlanInv, DesksBusy, CopiesTrue
  <2> QED BY <2>1, <2>3, <2>4 DEF PlanInv, DecisionsHold
<1>8. ASSUME NEW p \in Platforms, TimePasses(p) PROVE PlanInv'
  BY <1>8 DEF TimePasses, PlanInv, PlanTypeOK, Terms, DesksBusy, CopiesTrue, DecisionsHold
<1>9. CASE UNCHANGED planVars
  BY <1>9 DEF planVars, PlanInv, PlanTypeOK, DesksBusy, CopiesTrue, DecisionsHold
<1> QED BY <1>1, <1>2, <1>3, <1>4, <1>5, <1>6, <1>7, <1>8, <1>9 DEF PlanNext

LEMMA PlanAlways == PlanSpec => []PlanInv
BY PlanInitially, PlanStep, PTL DEF PlanSpec

(* The plans, the coupon and the copies of the handlers keep their types.  *)
THEOREM PlanTypeCorrect == PlanSpec => []PlanTypeOK
<1>1. PlanInv => PlanTypeOK
  BY DEF PlanInv
<1> QED BY PlanAlways, <1>1, PTL

(* A pause of SubscriptionService outlasts every read that refreshes the   *)
(* plan, and a coupon serves no platform beyond max_uses and counts every  *)
(* one it served, unless handlers crossed; for any number of handlers,     *)
(* platforms and uses.                                                     *)
THEOREM PausesHold == PlanSpec => []DecisionsHold
<1>1. PlanInv => DecisionsHold
  BY DEF PlanInv
<1> QED BY PlanAlways, <1>1, PTL

-----------------------------------------------------------------------------
(* Collections: the points                                                 *)

BuyerKey(s) == [kind |-> "buyer", of |-> s]

(* Every key that can be written: a buyer's for an order, and the one key  *)
(* of an invitation.                                                       *)
KeysWritten ==
  /\ IsFiniteSet(awards) /\ IsFiniteSet(revenue)
  /\ \A k \in awards : k.kind = "referral" => k.of = Nobody
  /\ \A s \in Sales : BuyerKey(s) \in awards <=> s \in revenue
  /\ \A k \in awards : k.kind = "buyer" => k.of \in Sales

(* An order is completed once: one that has been is not delivered, and no  *)
(* open completion has it loaded.                                          *)
CompletedOnce ==
  \A u \in Students : closing[u] # Nobody =>
    BuyerOf(closing[u]) = u /\ closing[u] \notin revenue

EarnersClosed == \A s \in revenue : sale[s] # "delivered"

(* What an open completion has loaded is out of date only when a reward    *)
(* crossed it.                                                             *)
PointsSeen ==
  /\ closing["invited"] # Nobody => points_seen["invited"] = points["invited"]
  /\ closing["inviter"] # Nobody =>
       /\ points_seen["inviter"] <= points["inviter"]
       /\ crossed \/ points_seen["inviter"] = points["inviter"]

PointsInv ==
  /\ CollectionsTypeOK /\ KeysWritten /\ CompletedOnce /\ EarnersClosed
  /\ PointsSeen /\ PointsExplained

LEMMA WorthType ==
  /\ \A k \in Awards : Worth[k] \in Nat
  /\ \A s \in Sales : BuyerKey(s) \in Awards /\ Worth[BuyerKey(s)] = BuyerPoints
  /\ \A s \in Sales : ReferralKey(s) \in Awards /\ Worth[ReferralKey(s)] = Reward
BY CollectionsAssumption DEF Worth, Awards, BuyerKey, ReferralKey, BuyerPoints

LEMMA PointsInitially == CollectionsInit => PointsInv
<1> SUFFICES ASSUME CollectionsInit PROVE PointsInv
  OBVIOUS
<1>1. CollectionsTypeOK
  BY DEF CollectionsInit, CollectionsTypeOK, Students
<1>2. \A u : Given(u) = {}
  BY DEF CollectionsInit, Given
<1>3. \A u : Awarded(u) = 0
  BY <1>2, SumEmpty DEF Awarded
<1>4. {k \in awards : k.kind = "referral"} = {} /\ Cardinality({}) = 0
  BY FS_EmptySet DEF CollectionsInit
<1>5. PointsExplained
  BY <1>3, <1>4 DEF CollectionsInit, PointsExplained, Students
<1>6. KeysWritten
  BY FS_EmptySet DEF CollectionsInit, KeysWritten
<1>7. CompletedOnce /\ EarnersClosed /\ PointsSeen
  BY DEF CollectionsInit, CompletedOnce, EarnersClosed, PointsSeen, Students
<1> QED BY <1>1, <1>5, <1>6, <1>7 DEF PointsInv

(* What a new transaction adds to the transactions of a student.           *)
LEMMA AwardAdds ==
  ASSUME NEW A \in SUBSET Awards, IsFiniteSet(A), NEW k \in Awards, k \notin A
  PROVE  SumFunctionOnSet(Worth, A \cup {k}) = SumFunctionOnSet(Worth, A) + Worth[k]
<1>1. \A x \in A \cup {k} : Worth[x] \in Int
  BY WorthType
<1>2. SumFunctionOnSet(Worth, A \cup {k}) = Worth[k] + SumFunctionOnSet(Worth, A)
  BY <1>1, SumAdd
<1>3. SumFunctionOnSet(Worth, A) \in Int
  BY <1>1, SumType
<1> QED BY <1>1, <1>2, <1>3

LEMMA AwardedType ==
  ASSUME CollectionsTypeOK, KeysWritten, NEW u
  PROVE  /\ IsFiniteSet(Given(u)) /\ Given(u) \subseteq Awards
         /\ Awarded(u) \in Nat
<1>1. IsFiniteSet(Given(u)) /\ Given(u) \subseteq Awards
  BY FS_Subset DEF Given, KeysWritten, CollectionsTypeOK
<1> QED BY <1>1, WorthType, SumNat DEF Awarded

(* finalize_order: what it adds to the points, it adds to the transactions. *)
LEMMA FinalizeStep ==
  ASSUME PointsInv, NEW u \in Students, Finalize(u)
  PROVE  PointsInv'
<1> DEFINE s == closing[u]
           rewards == FirstPurchase(s) /\ ReferralKey(s) \notin awards
           r == ReferralKey(s)
           b == BuyerKey(s)
<1> USE DEF PointsInv
<1>1. /\ s # Nobody /\ s \in Sales
      /\ closing' = [closing EXCEPT ![u] = Nobody]
      /\ points_seen' = [points_seen EXCEPT ![u] = 0]
      /\ sale' = [sale EXCEPT ![s] = "completed"]
      /\ revenue' = revenue \cup {s}
      /\ awards' = awards \cup {b} \cup (IF rewards THEN {r} ELSE {})
      /\ points' = [x \in Students |->
            IF x = u THEN points_seen[u] + BuyerPoints
            ELSE IF rewards THEN points[x] + Reward ELSE points[x]]
      /\ crossed' = (crossed \/ (rewards /\ closing["inviter"] # Nobody))
      /\ UNCHANGED <<dueVars, stopping>>
  BY DEF Finalize, BuyerKey, CollectionsTypeOK
<1>2. /\ BuyerOf(s) = u /\ s \notin revenue /\ b \notin awards
      /\ b \in Awards /\ r \in Awards /\ b # r
      /\ Worth[b] = BuyerPoints /\ Worth[r] = Reward
      /\ BuyerPoints \in Nat /\ Reward \in Nat
  BY <1>1, WorthType, CollectionsAssumption
  DEF CompletedOnce, KeysWritten, BuyerKey, ReferralKey, BuyerPoints
<1>3. rewards => u = "invited"
  BY <1>2 DEF FirstPurchase, BuyerOf
<1>4. b.kind = "buyer" /\ b.of = s /\ r.kind = "referral" /\ r.of = Nobody
  BY DEF BuyerKey, ReferralKey
<1>5. /\ Given("invited")' = Given("invited") \cup (IF u = "invited" THEN {b} ELSE {})
      /\ Given("inviter")' = Given("inviter") \cup (IF u = "inviter" THEN {b} ELSE {})
                                             \cup (IF rewards THEN {r} ELSE {})
  BY <1>1, <1>2, <1>4 DEF Given
<1>6. u = "invited" \/ u = "inviter"
  BY DEF Students
<1>7. \A x : IsFiniteSet(Given(x)) /\ Given(x) \subseteq Awards /\ Awarded(x) \in Nat
  BY AwardedType
<1>8. \A x : b \notin Given(x) /\ (rewards => r \notin Given(x))
  BY <1>2 DEF Given
<1>9. Awarded("invited")' = Awarded("invited") + (IF u = "invited" THEN BuyerPoints ELSE 0)
  <2>1. CASE u = "invited"
    <3>1. SumFunctionOnSet(Worth, Given("invited") \cup {b}) =
            SumFunctionOnSet(Worth, Given("invited")) + BuyerPoints
      BY <1>2, <1>7, <1>8, AwardAdds
    <3> QED BY <2>1, <3>1, <1>5 DEF Awarded
  <2>2. CASE u # "invited"
    <3>1. Given("invited")' = Given("invited")
      BY <2>2, <1>5
    <3> QED BY <2>2, <3>1, <1>7 DEF Awarded
  <2> QED BY <2>1, <2>2
<1>10. Awarded("inviter")' = Awarded("inviter") + (IF u = "inviter" THEN BuyerPoints ELSE 0)
                                               + (IF rewards THEN Reward ELSE 0)
  <2>1. CASE u = "inviter"
    <3>1. SumFunctionOnSet(Worth, Given("inviter") \cup {b}) =
            SumFunctionOnSet(Worth, Given("inviter")) + BuyerPoints
      BY <1>2, <1>7, <1>8, AwardAdds
    <3>2. ~rewards
      BY <2>1, <1>3
    <3>3. Given("inviter")' = Given("inviter") \cup {b}
      BY <2>1, <3>2, <1>5
    <3> QED BY <2>1, <3>1, <3>2, <3>3, <1>2, <1>7 DEF Awarded
  <2>2. CASE u # "inviter" /\ rewards
    <3>1. SumFunctionOnSet(Worth, Given("inviter") \cup {r}) =
            SumFunctionOnSet(Worth, Given("inviter")) + Reward
      BY <2>2, <1>2, <1>7, <1>8, AwardAdds
    <3>2. Given("inviter")' = Given("inviter") \cup {r}
      BY <2>2, <1>5
    <3> QED BY <2>2, <3>1, <3>2, <1>2, <1>7 DEF Awarded
  <2>3. CASE u # "inviter" /\ ~rewards
    <3>1. Given("inviter")' = Given("inviter")
      BY <2>3, <1>5
    <3> QED BY <2>3, <3>1, <1>7 DEF Awarded
  <2> QED BY <2>1, <2>2, <2>3
<1>11. CollectionsTypeOK'
  <2>1. /\ sale' \in [Sales -> {"delivered", "completed", "cancelled"}]
        /\ closing' \in [Students -> Sales \cup {Nobody}]
        /\ points_seen' \in [Students -> Nat] /\ crossed' \in BOOLEAN
    BY <1>1 DEF CollectionsTypeOK
  <2>2. points' \in [Students -> Nat]
    BY <1>1, <1>2 DEF CollectionsTypeOK
  <2>3. awards' \subseteq Awards /\ revenue' \subseteq Sales
    BY <1>1, <1>2 DEF CollectionsTypeOK
  <2> QED BY <1>1, <2>1, <2>2, <2>3 DEF CollectionsTypeOK, dueVars
<1>12. KeysWritten'
  <2>1. IsFiniteSet(awards')
    <3>1. IsFiniteSet(awards \cup {b})
      BY FS_AddElement DEF KeysWritten
    <3>2. IsFiniteSet((awards \cup {b}) \cup {r})
      BY <3>1, FS_AddElement
    <3> QED BY <1>1, <3>1, <3>2
  <2>2. \A x \in Sales : BuyerKey(x) \in awards' <=> x \in revenue'
    <3>1. \A x \in Sales : BuyerKey(x) # r /\ (BuyerKey(x) = b <=> x = s)
      BY <1>4 DEF BuyerKey
    <3> QED BY <1>1, <3>1 DEF KeysWritten
  <2>3. IsFiniteSet(revenue')
    BY <1>1, FS_AddElement DEF KeysWritten
  <2> QED BY <1>1, <1>4, <2>1, <2>2, <2>3 DEF KeysWritten
<1>13. CompletedOnce' /\ EarnersClosed'
  <2>1. \A x \in Students \ {u} : closing'[x] = closing[x] /\ closing[x] # s
    BY <1>1, <1>2 DEF CollectionsTypeOK, CompletedOnce
  <2>2. closing'[u] = Nobody /\ sale'[s] = "completed"
    BY <1>1 DEF CollectionsTypeOK
  <2>3. \A x \in Sales \ {s} : sale'[x] = sale[x]
    BY <1>1 DEF CollectionsTypeOK
  <2>4. CompletedOnce'
    BY <1>1, <2>1, <2>2, <2>3 DEF CompletedOnce, CollectionsTypeOK
  <2>5. EarnersClosed'
    BY <1>1, <2>2, <2>3 DEF EarnersClosed, CollectionsTypeOK
  <2> QED BY <2>4, <2>5
<1>14. /\ "invited" \in Students /\ "inviter" \in Students
       /\ points'["invited"] = IF u = "invited" THEN points_seen[u] + BuyerPoints
                               ELSE IF rewards THEN points["invited"] + Reward
                               ELSE points["invited"]
       /\ points'["inviter"] = IF u = "inviter" THEN points_seen[u] + BuyerPoints
                               ELSE IF rewards THEN points["inviter"] + Reward
                               ELSE points["inviter"]
       /\ points["invited"] \in Nat /\ points["inviter"] \in Nat
       /\ points_seen["invited"] \in Nat /\ points_seen["inviter"] \in Nat
  BY <1>1 DEF Students, CollectionsTypeOK
<1>15. PointsSeen'
  <2>1. CASE u = "invited"
    <3>1. /\ closing'["invited"] = Nobody /\ closing'["inviter"] = closing["inviter"]
          /\ points_seen'["inviter"] = points_seen["inviter"]
      BY <2>1, <1>1, <1>14 DEF CollectionsTypeOK
    <3>2. CASE rewards
      <4>1. closing["inviter"] # Nobody => crossed'
        BY <3>2, <1>1
      <4>2. points'["inviter"] = points["inviter"] + Reward
        BY <2>1, <3>2, <1>14
      <4> QED BY <3>1, <4>1, <4>2, <1>2, <1>14 DEF PointsSeen
    <3>3. CASE ~rewards
      <4>1. crossed' <=> crossed
        BY <3>3, <1>1
      <4>2. points'["inviter"] = points["inviter"]
        BY <2>1, <3>3, <1>14
      <4> QED BY <3>1, <4>1, <4>2 DEF PointsSeen
    <3> QED BY <3>2, <3>3
  <2>2. CASE u = "inviter"
    <3>1. /\ closing'["inviter"] = Nobody /\ closing'["invited"] = closing["invited"]
          /\ points_seen'["invited"] = points_seen["invited"]
      BY <2>2, <1>1, <1>14 DEF CollectionsTypeOK
    <3>2. points'["invited"] = points["invited"]
      BY <2>2, <1>3, <1>14
    <3> QED BY <3>1, <3>2 DEF PointsSeen
  <2> QED BY <1>6, <2>1, <2>2
<1>16. /\ points["invited"] = Awarded("invited") /\ points["inviter"] <= Awarded("inviter")
       /\ crossed \/ points["inviter"] = Awarded("inviter")
       /\ Awarded("inviter") \in Nat /\ Awarded("invited") \in Nat
  BY <1>7, <1>14 DEF PointsExplained
<1>17. points'["invited"] = Awarded("invited")'
  <2>1. CASE u = "invited"
    BY <2>1, <1>1, <1>9, <1>14, <1>16 DEF PointsSeen
  <2>2. CASE u # "invited"
    BY <2>2, <1>3, <1>9, <1>14, <1>16
  <2> QED BY <2>1, <2>2
<1>18. /\ points'["inviter"] <= Awarded("inviter")'
       /\ crossed' \/ points'["inviter"] = Awarded("inviter")'
  <2>1. CASE u = "inviter"
    <3>1. ~rewards /\ (crossed' <=> crossed)
      BY <2>1, <1>1, <1>3
    <3>2. /\ points_seen["inviter"] <= points["inviter"]
          /\ crossed \/ points_seen["inviter"] = points["inviter"]
      BY <2>1, <1>1 DEF PointsSeen
    <3>3. Awarded("inviter")' = Awarded("inviter") + BuyerPoints
      BY <2>1, <3>1, <1>10, <1>2, <1>16
    <3>4. points'["inviter"] = points_seen["inviter"] + BuyerPoints
      BY <2>1, <1>14
    <3> QED BY <3>1, <3>2, <3>3, <3>4, <1>2, <1>14, <1>16
  <2>2. CASE u # "inviter"
    <3>1. Awarded("inviter")' = Awarded("inviter") + (IF rewards THEN Reward ELSE 0)
      BY <2>2, <1>10, <1>16
    <3>2. points'["inviter"] = points["inviter"] + (IF rewards THEN Reward ELSE 0)
      BY <2>2, <1>14
    <3>3. crossed => crossed'
      BY <1>1
    <3> HIDE DEF rewards
    <3> QED BY <3>1, <3>2, <3>3, <1>2, <1>14, <1>16
  <2> QED BY <2>1, <2>2
<1>19. PointsExplained'
  <2>1. {k \in awards' : k.kind = "referral"} \subseteq {r}
    <3>1. \A k \in awards' : k.kind = "referral" => k = r
      BY <1>11, <1>12 DEF CollectionsTypeOK, KeysWritten, Awards, ReferralKey
    <3> QED BY <3>1
  <2>2. Cardinality({k \in awards' : k.kind = "referral"}) <= 1
    <3>1. IsFiniteSet({r}) /\ Cardinality({r}) = 1
      BY FS_Singleton
    <3> QED BY <2>1, <3>1, FS_Subset
  <2>3. revenue' = {k.of : k \in {x \in awards' : x.kind = "buyer"}}
    BY <1>1, <1>4 DEF PointsExplained
  <2>4. \A x \in Students : points'[x] <= Awarded(x)'
    <3>1. points'["invited"] <= Awarded("invited")'
      BY <1>9, <1>14, <1>16, <1>17, <1>2
    <3> QED BY <3>1, <1>18 DEF Students
  <2> QED BY <1>17, <1>18, <2>2, <2>3, <2>4 DEF PointsExplained
<1> QED BY <1>11, <1>12, <1>13, <1>15, <1>19

LEMMA CollectionsTypeStep == PointsInv /\ [CollectionsNext]_collectionVars => CollectionsTypeOK'
<1> SUFFICES ASSUME PointsInv, [CollectionsNext]_collectionVars PROVE CollectionsTypeOK'
  OBVIOUS
<1>0. CollectionsTypeOK
  BY DEF PointsInv
<1> USE <1>0 DEF CollectionsTypeOK
<1>1. ASSUME NEW s \in Sales, OpenComplete(s) PROVE CollectionsTypeOK'
  <2>1. BuyerOf(s) \in Students
    BY DEF BuyerOf, Students
  <2> QED BY <1>1, <2>1 DEF OpenComplete, dueVars
<1>2. ASSUME NEW u \in Students, Finalize(u) PROVE CollectionsTypeOK'
  BY <1>2, FinalizeStep DEF PointsInv
<1>3. ASSUME NEW a \in Admins, OpenRequest(a) PROVE CollectionsTypeOK'
  <2>1. Collectable \in Nat
    <3>1. Earned \in Nat
      BY FS_CardinalityType, CollectionsAssumption DEF Earned, PointsInv, KeysWritten
    <3>2. Asked \in SUBSET Dues /\ \A d \in Asked : due_amount[d] \in Nat
      BY DEF Asked
    <3>3. Sum(Asked) \in Nat
      BY <3>2, SumNat, FS_Subset, CollectionsAssumption DEF Sum
    <3> QED BY <3>1, <3>3 DEF Collectable
  <2> QED BY <1>3, <2>1 DEF OpenRequest, saleVars
<1>4. ASSUME NEW a \in Admins, OpenBan(a) PROVE CollectionsTypeOK'
  BY <1>4 DEF OpenBan, saleVars, dueVars
<1>5. ASSUME NEW a \in Admins, CommitBan(a) PROVE CollectionsTypeOK'
  BY <1>5 DEF CommitBan, dueVars
<1>6. ASSUME NEW a \in Admins, NEW d \in Dues, NEW amount \in 1..offered[a],
             CreateDue(a, d, amount)
      PROVE  CollectionsTypeOK'
  BY <1>6 DEF CreateDue, saleVars
<1>7. ASSUME NEW d \in Dues, OpenUpload(d) PROVE CollectionsTypeOK'
  BY <1>7 DEF OpenUpload, saleVars
<1>8. ASSUME NEW d \in Dues, SubmitReceipt(d) PROVE CollectionsTypeOK'
  BY <1>8 DEF SubmitReceipt, CountsAgain, saleVars
<1>9. ASSUME NEW d \in Dues, ApproveDue(d) PROVE CollectionsTypeOK'
  BY <1>9 DEF ApproveDue, CountsAgain, saleVars
<1>10. ASSUME NEW d \in Dues, RejectDue(d) PROVE CollectionsTypeOK'
  BY <1>10 DEF RejectDue, saleVars
<1>11. CASE UNCHANGED collectionVars
  BY <1>11 DEF collectionVars, saleVars, dueVars
<1> QED BY <1>1, <1>2, <1>3, <1>4, <1>5, <1>6, <1>7, <1>8, <1>9, <1>10, <1>11
        DEF CollectionsNext

(* The collection touches neither points nor transactions; a ban cancels   *)
(* orders, also one that is being completed.                               *)
LEMMA PointsStep == PointsInv /\ [CollectionsNext]_collectionVars => PointsInv'
<1> SUFFICES ASSUME PointsInv, [CollectionsNext]_collectionVars PROVE PointsInv'
  OBVIOUS
<1> DEFINE SamePoints == UNCHANGED <<closing, points_seen, points, awards, revenue, crossed>>
<1>1. CollectionsTypeOK'
  BY CollectionsTypeStep
<1>2. ASSUME UNCHANGED <<points, awards, revenue, crossed>> PROVE PointsExplained' /\ KeysWritten'
  BY <1>2 DEF PointsInv, PointsExplained, KeysWritten, Awarded, Given
<1>3. ASSUME SamePoints, \A s \in Sales : sale'[s] \in {sale[s], "cancelled"} PROVE PointsInv'
  <2>1. CompletedOnce' /\ PointsSeen'
    BY <1>3 DEF PointsInv, CompletedOnce, PointsSeen
  <2>2. EarnersClosed'
    BY <1>3 DEF PointsInv, EarnersClosed, CollectionsTypeOK
  <2> QED BY <1>1, <1>2, <1>3, <2>1, <2>2 DEF PointsInv
<1>4. ASSUME NEW s \in Sales, OpenComplete(s) PROVE PointsInv'
  <2> DEFINE u == BuyerOf(s)
  <2>1. /\ sale[s] = "delivered"
        /\ closing' = [closing EXCEPT ![u] = s]
        /\ points_seen' = [points_seen EXCEPT ![u] = points[u]]
        /\ UNCHANGED <<sale, points, awards, revenue, crossed>>
        /\ u \in Students
    BY <1>4 DEF OpenComplete, BuyerOf, Students
  <2>2. CompletedOnce'
    BY <2>1 DEF PointsInv, CompletedOnce, EarnersClosed, CollectionsTypeOK
  <2>3. "invited" \in Students /\ "inviter" \in Students /\ \A x \in Students : points[x] \in Nat
    BY DEF Students, PointsInv, CollectionsTypeOK
  <2>4. PointsSeen'
    BY <2>1, <2>3 DEF PointsInv, PointsSeen, CollectionsTypeOK
  <2> QED BY <1>1, <1>2, <2>1, <2>2, <2>4 DEF PointsInv, EarnersClosed
<1>5. ASSUME NEW u \in Students, Finalize(u) PROVE PointsInv'
  BY <1>5, FinalizeStep
<1>6. ASSUME NEW a \in Admins, CommitBan(a) PROVE PointsInv'
  BY <1>6, <1>3 DEF CommitBan
<1>7. ASSUME UNCHANGED saleVars PROVE PointsInv'
  BY <1>7, <1>3 DEF saleVars
<1>8. ASSUME NEW a \in Admins, OpenRequest(a) PROVE PointsInv'
  BY <1>8, <1>7 DEF OpenRequest
<1>9. ASSUME NEW a \in Admins, OpenBan(a) PROVE PointsInv'
  BY <1>9, <1>7 DEF OpenBan
<1>10. ASSUME NEW a \in Admins, NEW d \in Dues, NEW amount \in 1..offered[a],
              CreateDue(a, d, amount)
       PROVE  PointsInv'
  BY <1>10, <1>7 DEF CreateDue
<1>11. ASSUME NEW d \in Dues,
              OpenUpload(d) \/ SubmitReceipt(d) \/ ApproveDue(d) \/ RejectDue(d)
       PROVE  PointsInv'
  BY <1>11, <1>7 DEF OpenUpload, SubmitReceipt, ApproveDue, RejectDue
<1>12. CASE UNCHANGED collectionVars
  BY <1>12, <1>7 DEF collectionVars
<1> QED BY <1>4, <1>5, <1>6, <1>8, <1>9, <1>10, <1>11, <1>12 DEF CollectionsNext

-----------------------------------------------------------------------------
(* Collections: the amounts                                                *)

(* The settlements that were asked for once, by a request that nobody      *)
(* overtook: they stay within the revenue, and so does what such a         *)
(* request may still add.                                                  *)
AskedOnce == Asked \ (revived \cup raced)

OffersCovered ==
  /\ \A d \in uploading \cup receipts : due[d] # "none"
  /\ Sum(AskedOnce) <= Earned
  /\ \A a \in Admins :
       offered[a] > 0 /\ a \notin outdated => offered[a] + Sum(AskedOnce) <= Earned

LEMMA SumOfDues ==
  ASSUME CollectionsTypeOK, NEW D \in SUBSET Dues
  PROVE  IsFiniteSet(D) /\ Sum(D) \in Nat /\ \A d \in D : due_amount[d] \in Nat
<1>1. IsFiniteSet(D) /\ \A d \in D : due_amount[d] \in Nat
  BY FS_Subset, CollectionsAssumption DEF CollectionsTypeOK
<1> QED BY <1>1, SumNat DEF Sum

LEMMA EarnedType ==
  ASSUME IsFiniteSet(revenue)
  PROVE  Earned \in Nat
BY FS_CardinalityType, CollectionsAssumption DEF Earned

(* More revenue, more earned. *)
LEMMA EarnedGrows ==
  ASSUME IsFiniteSet(revenue), NEW s, revenue' = revenue \cup {s}
  PROVE  Earned' \in Nat /\ Earned \in Nat /\ Earned <= Earned'
<1> DEFINE n == Cardinality(revenue)
           m == Cardinality(revenue')
<1>1. n \in Nat /\ m \in {n, n + 1}
  BY FS_CardinalityType, FS_AddElement
<1>2. \A c, k \in Nat : c * (k + 1) = c * k + c /\ c * k \in Nat
  OBVIOUS
<1>3. Earned = Net * n /\ Earned' = Net * m /\ Net \in Nat
  BY CollectionsAssumption DEF Earned
<1> HIDE DEF n, m
<1>4. CASE m = n
  BY <1>1, <1>2, <1>3, <1>4
<1>5. CASE m = n + 1
  <2>1. Net * m = Net * n + Net /\ Net * n \in Nat
    BY <1>1, <1>2, <1>3, <1>5
  <2> QED BY <2>1, <1>3
<1> QED BY <1>1, <1>4, <1>5

LEMMA OffersInitially == CollectionsInit => OffersCovered
<1> SUFFICES ASSUME CollectionsInit PROVE OffersCovered
  OBVIOUS
<1>1. AskedOnce = {}
  BY DEF CollectionsInit, Asked, AskedOnce
<1>2. Sum(AskedOnce) = 0
  BY <1>1, SumEmpty DEF Sum
<1>3. Earned \in Nat
  BY EarnedType, FS_EmptySet DEF CollectionsInit
<1> QED BY <1>2, <1>3 DEF CollectionsInit, OffersCovered

(* A step that asks for nothing new: no more is asked once, and no fresh   *)
(* request goes beyond what was earned.                                    *)
LEMMA AsksNoMore ==
  ASSUME CollectionsTypeOK, OffersCovered, IsFiniteSet(revenue), Earned' = Earned,
         UNCHANGED <<due_amount, offered, outdated>>, AskedOnce' \subseteq AskedOnce,
         \A d \in (uploading \cup receipts)' : due'[d] # "none"
  PROVE  OffersCovered'
<1>1. AskedOnce \in SUBSET Dues /\ AskedOnce' \in SUBSET AskedOnce
  BY DEF AskedOnce, Asked
<1>2. Sum(AskedOnce)' <= Sum(AskedOnce) /\ Sum(AskedOnce)' \in Nat
  <2>1. SumFunctionOnSet(due_amount, AskedOnce') <= SumFunctionOnSet(due_amount, AskedOnce)
    BY <1>1, SumOfDues, SumPart
  <2>2. SumFunctionOnSet(due_amount, AskedOnce') \in Nat
    BY <1>1, SumOfDues DEF Sum
  <2> QED BY <2>1, <2>2 DEF Sum
<1>3. Sum(AskedOnce) \in Nat /\ Earned \in Nat /\ \A a \in Admins : offered[a] \in Nat
  BY <1>1, SumOfDues, EarnedType DEF CollectionsTypeOK
<1> QED BY <1>2, <1>3 DEF OffersCovered

LEMMA OffersStep == PointsInv /\ OffersCovered /\ [CollectionsNext]_collectionVars => OffersCovered'
<1> SUFFICES ASSUME PointsInv, OffersCovered, [CollectionsNext]_collectionVars
             PROVE  OffersCovered'
  OBVIOUS
<1>a. CollectionsTypeOK /\ IsFiniteSet(revenue)
  BY DEF PointsInv, KeysWritten
<1>b. /\ AskedOnce \in SUBSET Asked /\ Asked \in SUBSET Dues /\ AskedOnce \in SUBSET Dues
      /\ Sum(AskedOnce) \in Nat /\ Sum(Asked) \in Nat /\ Earned \in Nat
      /\ \A a \in Admins : offered[a] \in Nat
  <2>1. /\ AskedOnce \in SUBSET Asked /\ Asked \in SUBSET Dues /\ AskedOnce \in SUBSET Dues
    BY DEF AskedOnce, Asked
  <2>2. \A a \in Admins : offered[a] \in Nat
    BY <1>a DEF CollectionsTypeOK
  <2> QED BY <2>1, <2>2, <1>a, SumOfDues, EarnedType
<1>c. ASSUME UNCHANGED <<due, due_amount, revived, raced>>
      PROVE  AskedOnce' = AskedOnce /\ Sum(AskedOnce)' = Sum(AskedOnce)
  BY <1>c DEF AskedOnce, Asked, Sum
<1>d. ASSUME UNCHANGED <<revenue, due, due_amount, revived, raced, offered, outdated>>,
             \A d \in (uploading \cup receipts)' : due'[d] # "none"
      PROVE  OffersCovered'
  BY <1>a, <1>c, <1>d, AsksNoMore DEF Earned
<1>1. ASSUME UNCHANGED dueVars, revenue' = revenue PROVE OffersCovered'
  BY <1>1, <1>d DEF dueVars, OffersCovered
<1>2. ASSUME NEW u \in Students, Finalize(u) PROVE OffersCovered'
  <2>1. UNCHANGED dueVars /\ revenue' = revenue \cup {closing[u]}
    BY <1>2 DEF Finalize
  <2>2. Earned' \in Nat /\ Earned <= Earned'
    BY <2>1, <1>a, EarnedGrows
  <2>3. Sum(AskedOnce)' = Sum(AskedOnce)
    BY <2>1, <1>c DEF dueVars
  <2>4. UNCHANGED <<uploading, receipts, due, offered, outdated>>
    BY <2>1 DEF dueVars
  <2> QED BY <2>2, <2>3, <2>4, <1>b DEF OffersCovered
<1>3. ASSUME NEW a \in Admins, OpenRequest(a) PROVE OffersCovered'
  <2>1. /\ UNCHANGED <<revenue, due, due_amount, receipts, uploading, outdated, raced, revived>>
        /\ offered' = [offered EXCEPT ![a] = Collectable] /\ Collectable > 0
    BY <1>3 DEF OpenRequest, saleVars
  <2>2. Sum(AskedOnce) <= Sum(Asked)
    BY <1>a, <1>b, SumOfDues, SumPart DEF Sum
  <2>3. Collectable + Sum(AskedOnce) <= Earned
    BY <2>1, <2>2, <1>b DEF Collectable
  <2>4. Sum(AskedOnce)' = Sum(AskedOnce) /\ Earned' = Earned
    BY <2>1, <1>c DEF Earned
  <2>5. \A x \in Admins : offered'[x] = IF x = a THEN Collectable ELSE offered[x]
    BY <2>1, <1>a DEF CollectionsTypeOK
  <2> QED BY <2>1, <2>3, <2>4, <2>5 DEF OffersCovered
(* An overtaken request is marked before it can go beyond the revenue.     *)
<1>4. ASSUME NEW a \in Admins, NEW d \in Dues, NEW amount \in 1..offered[a],
             CreateDue(a, d, amount)
      PROVE  OffersCovered'
  <2>1. /\ due[d] = "none"
        /\ due' = [due EXCEPT ![d] = "notified"]
        /\ due_amount' = [due_amount EXCEPT ![d] = amount]
        /\ offered' = [offered EXCEPT ![a] = 0]
        /\ outdated' = (outdated \cup {x \in Admins : offered[x] > 0}) \ {a}
        /\ raced' = IF a \in outdated THEN raced \cup {d} ELSE raced
        /\ UNCHANGED <<revenue, receipts, uploading, revived>>
        /\ amount \in Nat /\ amount <= offered[a] /\ offered[a] > 0
    BY <1>4, <1>b DEF CreateDue, saleVars
  <2>2. /\ d \notin AskedOnce
        /\ \A x \in Dues \ {d} : due'[x] = due[x] /\ due_amount'[x] = due_amount[x]
        /\ due_amount'[d] = amount /\ due'[d] = "notified"
    BY <2>1, <1>a DEF CollectionsTypeOK, AskedOnce, Asked
  <2>3. SumFunctionOnSet(due_amount', AskedOnce) = Sum(AskedOnce)
    <3>1. IsFiniteSet(AskedOnce)
      BY <1>a, <1>b, SumOfDues
    <3>2. \A x \in AskedOnce : due_amount[x] \in Int /\ due_amount'[x] = due_amount[x]
      BY <1>a, <1>b, <2>2, SumOfDues
    <3> QED BY <3>1, <3>2, SumEqual DEF Sum
  <2>4. Sum(AskedOnce)' <= Earned
    <3>1. CASE AskedOnce' = AskedOnce
      BY <3>1, <2>3 DEF Sum, OffersCovered
    <3>2. CASE AskedOnce' = AskedOnce \cup {d} /\ a \notin outdated
      <4>1. /\ IsFiniteSet(AskedOnce)
            /\ \A x \in AskedOnce \cup {d} : due_amount'[x] \in Int
        BY <1>a, <1>b, <2>1, <2>2, SumOfDues
      <4>2. SumFunctionOnSet(due_amount', AskedOnce \cup {d}) =
              amount + SumFunctionOnSet(due_amount', AskedOnce)
        BY <4>1, <2>2, SumAdd
      <4>3. offered[a] + Sum(AskedOnce) <= Earned
        BY <3>2, <2>1 DEF OffersCovered
      <4>4. Sum(AskedOnce)' = amount + Sum(AskedOnce)
        BY <3>2, <4>2, <2>3 DEF Sum
      <4> QED BY <4>3, <4>4, <2>1, <1>b
    <3>3. AskedOnce' = AskedOnce \/ (AskedOnce' = AskedOnce \cup {d} /\ a \notin outdated)
      <4>1. Asked' = Asked \cup {d}
        BY <2>1, <2>2 DEF Asked
      <4>2. CASE a \in outdated
        <5>1. raced' = raced \cup {d} /\ revived' = revived
          BY <4>2, <2>1
        <5> QED BY <4>1, <5>1, <2>1 DEF AskedOnce, Asked
      <4>3. CASE a \notin outdated
        BY <4>1, <4>3, <2>1, <2>2 DEF AskedOnce
      <4> QED BY <4>2, <4>3
    <3> QED BY <3>1, <3>2, <3>3
  <2>5. \A x \in Admins : offered'[x] > 0 => x \in outdated'
    BY <2>1, <1>a DEF CollectionsTypeOK
  <2>6. \A x \in (uploading \cup receipts)' : due'[x] # "none"
    BY <2>1, <2>2, <1>a DEF OffersCovered, CollectionsTypeOK
  <2>7. Earned' = Earned
    BY <2>1 DEF Earned
  <2> QED BY <2>4, <2>5, <2>6, <2>7 DEF OffersCovered
<1>5. ASSUME NEW d \in Dues, OpenUpload(d) PROVE OffersCovered'
  BY <1>5, <1>d DEF OpenUpload, saleVars, OffersCovered
(* A refused settlement that counts again is no longer one asked once.     *)
<1>6. ASSUME NEW d \in Dues, SubmitReceipt(d) \/ ApproveDue(d) \/ RejectDue(d)
      PROVE  OffersCovered'
  <2>1. /\ due[d] # "none" /\ d \in uploading \cup receipts
        /\ \E new \in {"proof_received", "confirmed", "rejected"} :
             due' = [due EXCEPT ![d] = new] /\ (new = "rejected" \/ CountsAgain(d))
        /\ revived \subseteq revived' /\ raced' = raced
        /\ (uploading \cup receipts)' \subseteq uploading \cup receipts
        /\ UNCHANGED <<revenue, due_amount, offered, outdated>>
    BY <1>6 DEF SubmitReceipt, ApproveDue, RejectDue, CountsAgain, saleVars, OffersCovered
  <2>2. \A x \in Dues \ {d} : due'[x] = due[x]
    BY <2>1, <1>a DEF CollectionsTypeOK
  <2>3. due'[d] \in {"proof_received", "confirmed", "rejected"}
    BY <2>1, <1>a DEF CollectionsTypeOK
  <2>4. d \in AskedOnce' => d \in AskedOnce
    <3>1. due'[d] # "rejected" => CountsAgain(d)
      BY <2>1, <1>a DEF CollectionsTypeOK
    <3> QED BY <3>1, <2>1 DEF AskedOnce, Asked, CountsAgain
  <2>5. AskedOnce' \subseteq AskedOnce
    BY <2>1, <2>2, <2>4 DEF AskedOnce, Asked
  <2>6. \A x \in (uploading \cup receipts)' : due'[x] # "none"
    BY <2>1, <2>2, <2>3, <1>a DEF OffersCovered, CollectionsTypeOK
  <2>7. Earned' = Earned
    BY <2>1 DEF Earned
  <2> QED BY <2>1, <2>5, <2>6, <2>7, <1>a, AsksNoMore
<1>7. CASE UNCHANGED collectionVars
  BY <1>7, <1>1 DEF collectionVars, saleVars
<1>8. ASSUME NEW s \in Sales, OpenComplete(s) PROVE OffersCovered'
  BY <1>8, <1>1 DEF OpenComplete
<1>9. ASSUME NEW a \in Admins, OpenBan(a) \/ CommitBan(a) PROVE OffersCovered'
  BY <1>9, <1>1 DEF OpenBan, CommitBan, saleVars
<1> QED BY <1>2, <1>3, <1>4, <1>5, <1>6, <1>7, <1>8, <1>9 DEF CollectionsNext

LEMMA CoveredWithin == CollectionsTypeOK /\ IsFiniteSet(revenue) /\ OffersCovered => AskedWithinRevenue
<1> SUFFICES ASSUME CollectionsTypeOK, IsFiniteSet(revenue), OffersCovered
             PROVE  Sum(Asked) <= Earned + Sum(revived \cup raced)
  BY DEF AskedWithinRevenue
<1> DEFINE R == revived \cup raced
<1>1. /\ R \in SUBSET Dues /\ Asked \in SUBSET Dues /\ AskedOnce \in SUBSET Dues
      /\ Asked \cap R \in SUBSET Dues /\ Asked \cap R \in SUBSET R
      /\ AskedOnce \cap (Asked \cap R) = {} /\ AskedOnce \cup (Asked \cap R) = Asked
  BY DEF CollectionsTypeOK, Asked, AskedOnce
<1>2. Sum(Asked) = Sum(AskedOnce) + Sum(Asked \cap R)
  <2>1. /\ IsFiniteSet(AskedOnce) /\ IsFiniteSet(Asked \cap R)
        /\ \A d \in AskedOnce \cup (Asked \cap R) : due_amount[d] \in Int
    BY <1>1, SumOfDues
  <2>2. SumFunctionOnSet(due_amount, AskedOnce \cup (Asked \cap R)) =
          SumFunctionOnSet(due_amount, AskedOnce) + SumFunctionOnSet(due_amount, Asked \cap R)
    BY <1>1, <2>1, SumDisjoint
  <2> QED BY <1>1, <2>2 DEF Sum
<1>3. Sum(Asked \cap R) <= Sum(R)
  BY <1>1, SumOfDues, SumPart DEF Sum
<1>4. /\ Sum(AskedOnce) \in Nat /\ Sum(Asked \cap R) \in Nat /\ Sum(R) \in Nat
      /\ Earned \in Nat /\ Sum(AskedOnce) <= Earned
  BY <1>1, SumOfDues, EarnedType DEF OffersCovered
<1> HIDE DEF R
<1>5. Sum(Asked) <= Earned + Sum(R)
  BY <1>2, <1>3, <1>4
<1> QED BY <1>5 DEF R

LEMMA CollectionsAlways == CollectionsSpec => [](PointsInv /\ OffersCovered)
BY PointsInitially, OffersInitially, PointsStep, OffersStep, PTL DEF CollectionsSpec

(* Orders, points, transactions and settlements keep their types.          *)
THEOREM CollectionsTypeCorrect == CollectionsSpec => []CollectionsTypeOK
<1>1. PointsInv => CollectionsTypeOK
  BY DEF PointsInv
<1> QED BY CollectionsAlways, <1>1, PTL

(* The points that finalize_order and add_points keep are those of the     *)
(* PointsTransaction rows, and every order with revenue has exactly one,   *)
(* for any number of orders and any reward.                                *)
THEOREM PointsAreExplained == CollectionsSpec => []PointsExplained
<1>1. PointsInv => PointsExplained
  BY DEF PointsInv
<1> QED BY CollectionsAlways, <1>1, PTL

(* What the administrators have asked of a platform stays within what the  *)
(* platform owes, but for settlements that were refused and counted again  *)
(* and those of requests that crossed; for any revenue, any amounts and    *)
(* any number of administrators.                                           *)
THEOREM AskedIsOwed == CollectionsSpec => []AskedWithinRevenue
<1>1. PointsInv /\ OffersCovered => AskedWithinRevenue
  BY CoveredWithin DEF PointsInv, KeysWritten
<1> QED BY CollectionsAlways, <1>1, PTL

-----------------------------------------------------------------------------
(* The composition                                                         *)

LEMMA OfficeInitially ==
  OfficeInit => Init /\ CollectionsInit /\ PlanInit /\ StudentInit /\ CacheInit
BY DEF OfficeInit

(* A step of the composition is a step of one part and a stutter of every  *)
(* other.                                                                  *)
LEMMA OfficeStep ==
  [OfficeNext]_officeVars =>
    /\ [Next]_vars
    /\ [CollectionsNext]_collectionVars
    /\ [PlanNext]_planVars
    /\ [StudentNext]_studentVars
    /\ [CacheNext]_cacheVars
BY DEF OfficeNext, officeVars, officeWalletVars

(* The parts of MCBackOffice share no variable, so their composition is    *)
(* each of them: whatever is proved of a part holds in the run.            *)
THEOREM OfficeIsItsParts ==
  OfficeSpec => Spec /\ CollectionsSpec /\ PlanSpec /\ StudentSpec /\ CacheSpec
BY OfficeInitially, OfficeStep, PTL
DEF OfficeSpec, Spec, CollectionsSpec, PlanSpec, StudentSpec, CacheSpec

(* Wallets, collections, plans, subscriptions and settings keep their      *)
(* types together.                                                         *)
THEOREM OfficeTypeCorrect == OfficeSpec => []OfficeTypeOK
<1>1. TypeOK /\ CollectionsTypeOK /\ PlanTypeOK /\ StudentTypeOK /\ CacheTypeOK => OfficeTypeOK
  BY DEF OfficeTypeOK
<1> QED BY OfficeIsItsParts, TypeCorrect, CollectionsTypeCorrect, PlanTypeCorrect,
        StudentTypeCorrect, CacheTypeCorrect, <1>1, PTL

(* What the run checks on a small instance, for every value of the         *)
(* constants: of the handlers of wallets, collections, plans, the          *)
(* scheduler's job and the settings' generations.                          *)
THEOREM OfficeSafe ==
  OfficeSpec => /\ [](/\ LedgerExplainsBalance /\ RefundWithinFee /\ NeverUndercharged
                      /\ PointsExplained /\ AskedWithinRevenue
                      /\ DecisionsHold /\ NeverCutShort /\ CurrentGenerationIsFresh)
                /\ ChargedExactly
BY OfficeIsItsParts, LedgerExplained, FeeRefundedAtMostOnce, NeverUnderPrice, ExactCharge,
   PointsAreExplained, AskedIsOwed, PausesHold, PaidTimeKept, CurrentIsFresh, PTL
=============================================================================
