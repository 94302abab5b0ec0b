------------------------- MODULE UpdateInbox_proofs -------------------------
(***************************************************************************)
(* Theorems about UpdateInbox, for every finite set of updates, every set  *)
(* of consumers, batch size and bound on faults.                           *)
(***************************************************************************)
EXTENDS UpdateInbox, FiniteSetTheorems, SequenceTheorems, TLAPS

Answered(u) == applied[u] > 0 \/ refused[u]

(* A row is owned exactly while it is processed: a consumer that still     *)
(* owns a row when it settles it settles a row that nobody settled.        *)
OwnerIffProcessing ==
  \A u \in Updates : row_status[u] = "processing" <=> lease_owner[u] # Nobody

(* A batch holds stored updates.                                           *)
BatchesStored ==
  \A c \in Consumers : \A i \in DOMAIN batch[c] : row_status[batch[c][i]] # "absent"

(* A handler that returned has answered the head of its batch.             *)
ReturnedAnswered ==
  \A c \in Consumers : Busy(c) /\ phase[c] = "returned" => Answered(Head(batch[c]))

(* A closed row was answered.                                              *)
DoneAnswered ==
  \A u \in Updates : row_status[u] \in {"done", "purged"} => Answered(u)

InboxInv ==
  InboxTypeOK /\ OwnerIffProcessing /\ BatchesStored /\ ReturnedAnswered /\ DoneAnswered

-----------------------------------------------------------------------------
(* Batches.                                                                *)

LEMMA RowsAreFinite ==
  FirstEligible \subseteq Updates /\ Cardinality(FirstEligible) \in Nat
  BY FS_Subset, FS_CardinalityType, InboxAssumption DEF FirstEligible

LEMMA AscendingIsSequence ==
  ASSUME NEW s \in Ascending(FirstEligible)
  PROVE  /\ s \in Seq(Updates)
         /\ \A i \in DOMAIN s : s[i] \in FirstEligible
         /\ \A i, j \in DOMAIN s : s[i] = s[j] => i = j
         /\ \A u \in FirstEligible : \E i \in DOMAIN s : s[i] = u
<1>1. s \in [1..Cardinality(FirstEligible) -> FirstEligible]
  BY DEF Ascending
<1>2. s \in Seq(Updates)
  BY <1>1, RowsAreFinite
<1>3. \A i, j \in DOMAIN s : s[i] = s[j] => i = j
  <2> SUFFICES ASSUME NEW i \in DOMAIN s, NEW j \in DOMAIN s, s[i] = s[j], i # j
               PROVE FALSE
    OBVIOUS
  <2>1. i \in Nat /\ j \in Nat
    BY <1>1, RowsAreFinite
  <2>2. s[i] \in Updates
    BY <1>1, RowsAreFinite
  <2>3. s[i] \in Nat
    BY <2>2, InboxAssumption
  <2>4. i < j \/ j < i
    BY <2>1
  <2>5. s[i] < s[j] \/ s[j] < s[i]
    BY <2>4 DEF Ascending
  <2> QED BY <2>3, <2>5
<1>4. \A u \in FirstEligible : \E i \in DOMAIN s : s[i] = u
  <2> DEFINE n == Cardinality(FirstEligible)
  <2>1. n \in Nat /\ IsFiniteSet(FirstEligible)
    BY RowsAreFinite, FS_Subset, InboxAssumption
  <2>2. Cardinality(1..n) = n
    BY <2>1, FS_Interval
  <2>3. s \in Injection(1..n, FirstEligible)
    BY <1>1, <1>3 DEF Injection, IsInjective
  <2>4. s \in Surjection(1..n, FirstEligible)
    BY <2>1, <2>2, <2>3, FS_Injection
  <2> QED BY <1>1, <2>4 DEF Surjection
<1> QED BY <1>1, <1>2, <1>3, <1>4

(* What popping the head leaves.                                           *)
LEMMA TailOfBatch ==
  ASSUME NEW s \in Seq(Updates), s # <<>>
  PROVE  /\ Head(s) \in Updates /\ Tail(s) \in Seq(Updates)
         /\ 1 \in DOMAIN s /\ Head(s) = s[1]
         /\ \A i \in DOMAIN Tail(s) :
              i + 1 \in DOMAIN s /\ i + 1 # 1 /\ Tail(s)[i] = s[i + 1]
         /\ \A i \in DOMAIN s :
              i # 1 => i - 1 \in DOMAIN Tail(s) /\ Tail(s)[i - 1] = s[i]
         /\ \A i, j \in DOMAIN Tail(s) : i + 1 = j + 1 => i = j
  OBVIOUS

-----------------------------------------------------------------------------
(* The invariant.                                                          *)

LEMMA InboxInitially == InboxInit => InboxInv
<1> SUFFICES ASSUME InboxInit PROVE InboxInv
  OBVIOUS
<1>1. InboxTypeOK
  <2>1. row_status \in [Updates -> {"absent", "pending", "processing", "retry", "done",
                                   "dead", "purged"}]
    BY DEF InboxInit
  <2>2. row_attempts \in [Updates -> Nat] /\ applied \in [Updates -> Nat]
    BY DEF InboxInit
  <2>3. lease_owner \in [Updates -> Consumers \cup {Nobody}]
    BY DEF InboxInit
  <2>4. lease_over \in [Updates -> BOOLEAN] /\ refused \in [Updates -> BOOLEAN] /\ hot \in BOOLEAN
    BY DEF InboxInit
  <2>5. batch \in [Consumers -> Seq(Updates)]
    BY EmptySeq DEF InboxInit
  <2>6. phase \in [Consumers -> {"feed", "returned", "raised"}]
    BY DEF InboxInit
  <2>7. inbox_faults \in 0..MaxInboxFaults
    BY InboxAssumption DEF InboxInit
  <2> QED BY <2>1, <2>2, <2>3, <2>4, <2>5, <2>6, <2>7 DEF InboxTypeOK
<1>2. OwnerIffProcessing /\ DoneAnswered /\ BatchesStored /\ ReturnedAnswered
  BY DEF InboxInit, OwnerIffProcessing, DoneAnswered, BatchesStored, ReturnedAnswered, Busy
<1> QED BY <1>1, <1>2 DEF InboxInv

(* A consumer that is through with the head of its batch, whatever becomes *)
(* of the row.                                                             *)
LEMMA NextKeepsBatches ==
  ASSUME InboxInv, NEW c \in Consumers, Busy(c), NextOfBatch(c),
         \A u \in Updates : row_status[u] # "absent" => row_status'[u] # "absent",
         UNCHANGED <<applied, refused>>
  PROVE  /\ batch' \in [Consumers -> Seq(Updates)]
         /\ phase' \in [Consumers -> {"feed", "returned", "raised"}]
         /\ BatchesStored' /\ ReturnedAnswered'
<1> USE DEF InboxInv, InboxTypeOK, Busy, NextOfBatch
<1>1. batch[c] \in Seq(Updates) /\ batch[c] # <<>>
  OBVIOUS
<1>2. batch' \in [Consumers -> Seq(Updates)]
  BY <1>1, TailOfBatch
<1>3. BatchesStored'
  <2> SUFFICES ASSUME NEW d \in Consumers, NEW i \in DOMAIN batch'[d]
               PROVE row_status'[batch'[d][i]] # "absent"
    BY DEF BatchesStored
  <2>1. CASE d = c
    <3>1. i + 1 \in DOMAIN batch[c] /\ batch'[c][i] = batch[c][i + 1]
      BY <1>1, <2>1, TailOfBatch
    <3>2. batch[c][i + 1] \in Updates
      BY <1>1, <3>1, ElementOfSeq, LenProperties
    <3> QED BY <2>1, <3>1, <3>2 DEF BatchesStored
  <2>2. CASE d # c
    <3>1. batch'[d] = batch[d] /\ batch[d][i] \in Updates
      BY <2>2, ElementOfSeq, LenProperties
    <3> QED BY <3>1 DEF BatchesStored
  <2> QED BY <2>1, <2>2
<1>4. ReturnedAnswered'
  BY DEF ReturnedAnswered, Answered
<1> QED BY <1>2, <1>3, <1>4

(* A step that moves no batch.                                             *)
LEMMA SameBatches ==
  ASSUME InboxInv, UNCHANGED batch,
         \A u \in Updates : row_status[u] # "absent" => row_status'[u] # "absent"
  PROVE  BatchesStored'
<1> SUFFICES ASSUME NEW d \in Consumers, NEW i \in DOMAIN batch[d]
             PROVE row_status'[batch[d][i]] # "absent"
  BY DEF BatchesStored
<1>1. batch[d] \in Seq(Updates)
  BY DEF InboxInv, InboxTypeOK
<1>2. batch[d][i] \in Updates
  BY <1>1, ElementOfSeq, LenProperties
<1> QED BY <1>2 DEF InboxInv, BatchesStored

(* The head of a batch is a stored update.                                 *)
LEMMA HeadStored ==
  ASSUME InboxInv, NEW c \in Consumers, Busy(c)
  PROVE  Head(batch[c]) \in Updates /\ row_status[Head(batch[c])] # "absent"
<1>1. batch[c] \in Seq(Updates) /\ batch[c] # <<>>
  BY DEF InboxInv, InboxTypeOK, Busy
<1>2. Head(batch[c]) \in Updates /\ 1 \in DOMAIN batch[c] /\ Head(batch[c]) = batch[c][1]
  BY <1>1, TailOfBatch
<1> QED BY <1>2 DEF InboxInv, BatchesStored

(* A row is released with the status it is settled with.                   *)
LEMMA Settled ==
  ASSUME InboxInv, NEW u \in Updates,
         NEW s \in {"retry", "done", "dead"},
         row_status' = [row_status EXCEPT ![u] = s], ReleaseRow(u),
         s = "done" => Answered(u),
         UNCHANGED <<applied, refused>>
  PROVE  /\ row_status' \in [Updates -> {"absent", "pending", "processing", "retry",
                                         "done", "dead", "purged"}]
         /\ lease_owner' \in [Updates -> Consumers \cup {Nobody}]
         /\ lease_over' \in [Updates -> BOOLEAN]
         /\ OwnerIffProcessing' /\ DoneAnswered'
<1> USE InboxAssumption DEF InboxInv, InboxTypeOK, ReleaseRow
<1>1. OwnerIffProcessing'
  BY DEF OwnerIffProcessing
<1>2. DoneAnswered'
  BY DEF DoneAnswered, Answered
<1> QED BY <1>1, <1>2

LEMMA ClaimStep ==
  ASSUME InboxInv, NEW c \in Consumers, ClaimBatch(c)
  PROVE  InboxInv'
<1> USE DEF InboxInv, InboxTypeOK
<1>1. PICK s \in Ascending(FirstEligible) : batch' = [batch EXCEPT ![c] = s]
  BY DEF ClaimBatch
<1>2. FirstEligible \subseteq Updates
  BY RowsAreFinite
<1>3. InboxTypeOK'
  <2>1. batch' \in [Consumers -> Seq(Updates)]
    BY <1>1, AscendingIsSequence
  <2>2. row_status' \in [Updates -> {"absent", "pending", "processing", "retry", "done",
                                    "dead", "purged"}]
    BY DEF ClaimBatch
  <2>3. row_attempts' \in [Updates -> Nat]
    BY DEF ClaimBatch
  <2>4. lease_owner' \in [Updates -> Consumers \cup {Nobody}]
    BY DEF ClaimBatch
  <2>5. lease_over' \in [Updates -> BOOLEAN]
    BY DEF ClaimBatch
  <2>6. phase' \in [Consumers -> {"feed", "returned", "raised"}]
    BY DEF ClaimBatch
  <2> QED BY <2>1, <2>2, <2>3, <2>4, <2>5, <2>6 DEF ClaimBatch
<1>4. OwnerIffProcessing'
  BY InboxAssumption DEF ClaimBatch, OwnerIffProcessing
<1>5. BatchesStored'
  <2> SUFFICES ASSUME NEW d \in Consumers, NEW i \in DOMAIN batch'[d]
               PROVE row_status'[batch'[d][i]] # "absent"
    BY DEF BatchesStored
  <2>1. CASE d = c
    <3>1. batch'[c][i] \in FirstEligible
      BY <1>1, <2>1, AscendingIsSequence
    <3> QED BY <1>2, <2>1, <3>1 DEF ClaimBatch
  <2>2. CASE d # c
    <3>1. batch'[d] = batch[d] /\ batch[d][i] \in Updates
      BY <1>1, <2>2, ElementOfSeq, LenProperties
    <3> QED BY <3>1 DEF BatchesStored, ClaimBatch
  <2> QED BY <2>1, <2>2
<1>6. ReturnedAnswered'
  BY <1>1 DEF ReturnedAnswered, ClaimBatch, Busy, Answered
<1>7. DoneAnswered'
  BY DEF DoneAnswered, ClaimBatch, Answered
<1> QED BY <1>3, <1>4, <1>5, <1>6, <1>7

LEMMA HandlerStep ==
  ASSUME InboxInv, NEW c \in Consumers,
         TurnAway(c) \/ HandlerCommits(c) \/ HandlerRaises(c)
  PROVE  InboxInv'
<1> USE DEF InboxInv, InboxTypeOK
<1>1. Busy(c) /\ UNCHANGED <<row_status, lease_owner, batch>>
  BY DEF TurnAway, HandlerCommits, HandlerRaises
<1>2. PICK u \in Updates : u = Head(batch[c])
  BY <1>1, HeadStored
<1>3. /\ applied' \in [Updates -> Nat] /\ refused' \in [Updates -> BOOLEAN]
      /\ \A v \in Updates : applied'[v] >= applied[v] /\ (refused[v] => refused'[v])
      /\ phase'[c] = "returned" => applied'[u] > 0 \/ refused'[u]
  <2>1. CASE TurnAway(c)
    <3>1. applied' = applied /\ refused' = [refused EXCEPT ![u] = TRUE]
      BY <1>2, <2>1 DEF TurnAway
    <3> QED BY <3>1
  <2>2. CASE HandlerCommits(c)
    <3>1. applied' = [applied EXCEPT ![u] = @ + 1] /\ refused' = refused
      BY <1>2, <2>2 DEF HandlerCommits
    <3> QED BY <3>1
  <2>3. CASE HandlerRaises(c)
    <3>1. applied' = applied /\ refused' = refused /\ phase'[c] = "raised"
      BY <2>3 DEF HandlerRaises
    <3> QED BY <3>1
  <2> QED BY <2>1, <2>2, <2>3
<1>4. InboxTypeOK'
  BY <1>3 DEF TurnAway, HandlerCommits, HandlerRaises
<1>5. BatchesStored' /\ OwnerIffProcessing'
  BY <1>1, SameBatches DEF OwnerIffProcessing
<1>6. \A v \in Updates : Answered(v) => Answered(v)'
  BY <1>3 DEF Answered
<1>7. ReturnedAnswered'
  <2>1. \A d \in Consumers \ {c} : phase'[d] = phase[d]
    BY DEF TurnAway, HandlerCommits, HandlerRaises
  <2>2. \A d \in Consumers : Busy(d) => Head(batch[d]) \in Updates
    BY HeadStored
  <2> QED BY <1>1, <1>2, <1>3, <1>6, <2>1, <2>2 DEF ReturnedAnswered, Busy, Answered
<1>8. DoneAnswered'
  BY <1>1, <1>6 DEF DoneAnswered
<1> QED BY <1>4, <1>5, <1>7, <1>8

LEMMA MarkStep ==
  ASSUME InboxInv, NEW c \in Consumers, MarkDone(c) \/ MarkFailed(c)
  PROVE  InboxInv'
<1> DEFINE u == Head(batch[c])
<1> USE DEF InboxInv, InboxTypeOK
<1>1. Busy(c) /\ NextOfBatch(c) /\ UNCHANGED <<row_attempts, applied, refused, hot, inbox_faults>>
  BY DEF MarkDone, MarkFailed
<1>2. u \in Updates
  BY <1>1, HeadStored
<1>3. CASE lease_owner[u] = c
  <2>1. PICK s \in {"retry", "done", "dead"} :
          row_status' = [row_status EXCEPT ![u] = s] /\ (s = "done" => Answered(u))
    BY <1>3, <1>1 DEF MarkDone, MarkFailed, AfterFailure, ReturnedAnswered
  <2>2. ReleaseRow(u)
    BY <1>3 DEF MarkDone, MarkFailed
  <2>3. /\ row_status' \in [Updates -> {"absent", "pending", "processing", "retry",
                                        "done", "dead", "purged"}]
        /\ lease_owner' \in [Updates -> Consumers \cup {Nobody}]
        /\ lease_over' \in [Updates -> BOOLEAN]
        /\ OwnerIffProcessing' /\ DoneAnswered'
    <3> HIDE DEF u
    <3> QED BY <1>1, <1>2, <2>1, <2>2, Settled
  <2>4. \A v \in Updates : row_status[v] # "absent" => row_status'[v] # "absent"
    BY <1>2, <2>1
  <2> QED BY <1>1, <2>3, <2>4, NextKeepsBatches
<1>4. CASE lease_owner[u] # c
  <2>1. UNCHANGED <<row_status, lease_owner, lease_over>>
    BY <1>4 DEF MarkDone, MarkFailed
  <2>2. OwnerIffProcessing' /\ DoneAnswered'
    BY <1>1, <2>1 DEF OwnerIffProcessing, DoneAnswered, Answered
  <2> QED BY <1>1, <2>1, <2>2, NextKeepsBatches
<1> QED BY <1>3, <1>4

LEMMA InboxStep == InboxInv /\ [InboxNext]_inboxVars => InboxInv'
<1> SUFFICES ASSUME InboxInv, [InboxNext]_inboxVars PROVE InboxInv'
  OBVIOUS
<1> USE DEF InboxInv, InboxTypeOK
<1>1. ASSUME NEW u \in Updates, Enqueue(u) PROVE InboxInv'
  <2>1. InboxTypeOK' /\ OwnerIffProcessing' /\ ReturnedAnswered' /\ DoneAnswered'
    BY <1>1 DEF Enqueue, OwnerIffProcessing, ReturnedAnswered, DoneAnswered, Answered, Busy
  <2>2. BatchesStored'
    BY <1>1, SameBatches DEF Enqueue
  <2> QED BY <2>1, <2>2
<1>2. ASSUME NEW u \in Updates, RowLeaseLapses(u) PROVE InboxInv'
  <2>1. InboxTypeOK' /\ OwnerIffProcessing' /\ ReturnedAnswered' /\ DoneAnswered'
    BY <1>2 DEF RowLeaseLapses, OwnerIffProcessing, ReturnedAnswered, DoneAnswered, Answered, Busy
  <2>2. BatchesStored'
    BY <1>2, SameBatches DEF RowLeaseLapses
  <2> QED BY <2>1, <2>2
<1>3. ASSUME NEW u \in Updates, Purge(u) PROVE InboxInv'
  <2>1. InboxTypeOK' /\ OwnerIffProcessing' /\ ReturnedAnswered' /\ DoneAnswered'
    BY <1>3 DEF Purge, OwnerIffProcessing, ReturnedAnswered, DoneAnswered, Answered, Busy
  <2>2. BatchesStored'
    BY <1>3, SameBatches DEF Purge
  <2> QED BY <2>1, <2>2
<1>4. ASSUME NEW c \in Consumers, ClaimBatch(c) PROVE InboxInv'
  BY <1>4, ClaimStep
<1>5. ASSUME NEW c \in Consumers, TurnAway(c) \/ HandlerCommits(c) \/ HandlerRaises(c)
      PROVE InboxInv'
  BY <1>5, HandlerStep
<1>6. ASSUME NEW c \in Consumers, MarkDone(c) \/ MarkFailed(c) PROVE InboxInv'
  BY <1>6, MarkStep
<1>7. ASSUME NEW c \in Consumers, DoneLost(c) PROVE InboxInv'
  <2>1. InboxTypeOK' /\ OwnerIffProcessing' /\ ReturnedAnswered' /\ DoneAnswered'
    BY <1>7, InboxAssumption DEF DoneLost, OwnerIffProcessing, ReturnedAnswered, DoneAnswered, Answered, Busy
  <2>2. BatchesStored'
    BY <1>7, SameBatches DEF DoneLost
  <2> QED BY <2>1, <2>2
<1>8. ASSUME NEW c \in Consumers, FailureLost(c) PROVE InboxInv'
  <2>1. /\ batch' \in [Consumers -> Seq(Updates)]
        /\ phase' \in [Consumers -> {"feed", "returned", "raised"}]
        /\ BatchesStored' /\ ReturnedAnswered'
    BY <1>8, NextKeepsBatches DEF FailureLost
  <2>2. OwnerIffProcessing' /\ DoneAnswered'
    BY <1>8 DEF FailureLost, OwnerIffProcessing, DoneAnswered, Answered
  <2>3. inbox_faults' \in 0..MaxInboxFaults
    BY <1>8, InboxAssumption DEF FailureLost
  <2> QED BY <1>8, <2>1, <2>2, <2>3 DEF FailureLost
<1>9. ASSUME NEW c \in Consumers, ConsumerCrash(c) PROVE InboxInv'
  <2>1. OwnerIffProcessing' /\ ReturnedAnswered' /\ DoneAnswered'
    BY <1>9 DEF ConsumerCrash, OwnerIffProcessing, ReturnedAnswered, DoneAnswered, Answered, Busy
  <2>2. InboxTypeOK'
    <3>1. inbox_faults' \in 0..MaxInboxFaults
      BY <1>9, InboxAssumption DEF ConsumerCrash
    <3>2. batch' \in [Consumers -> Seq(Updates)]
      BY <1>9, EmptySeq DEF ConsumerCrash
    <3> QED BY <1>9, <3>1, <3>2 DEF ConsumerCrash
  <2>3. BatchesStored'
    <3> SUFFICES ASSUME NEW d \in Consumers, NEW i \in DOMAIN batch'[d]
                 PROVE d # c
      BY <1>9 DEF ConsumerCrash, BatchesStored
    <3> QED BY <1>9 DEF ConsumerCrash
  <2> QED BY <2>1, <2>2, <2>3
<1>10. ASSUME NEW c \in Consumers, SlowBatch(c) PROVE InboxInv'
  <2>1. InboxTypeOK' /\ OwnerIffProcessing' /\ ReturnedAnswered' /\ DoneAnswered'
    BY <1>10, InboxAssumption DEF SlowBatch, OwnerIffProcessing, ReturnedAnswered, DoneAnswered, Answered, Busy
  <2>2. BatchesStored'
    BY <1>10, SameBatches DEF SlowBatch
  <2> QED BY <2>1, <2>2
<1>11. CASE IntervalEnds \/ UNCHANGED inboxVars
  <2>1. InboxTypeOK' /\ OwnerIffProcessing' /\ ReturnedAnswered' /\ DoneAnswered'
    BY <1>11 DEF IntervalEnds, inboxVars, OwnerIffProcessing, ReturnedAnswered,
                 DoneAnswered, Answered, Busy
  <2>2. BatchesStored'
    BY <1>11, SameBatches DEF IntervalEnds, inboxVars
  <2> QED BY <2>1, <2>2
<1> QED BY <1>1, <1>2, <1>3, <1>4, <1>5, <1>6, <1>7, <1>8, <1>9, <1>10, <1>11
        DEF InboxNext, Consume

-----------------------------------------------------------------------------
(* Theorems.                                                               *)

(* Claims, take-overs, late settlements, crashes and purges keep every     *)
(* column of the inbox and every consumer's batch in its type.             *)
THEOREM TypeCorrect == InboxSpec => []InboxTypeOK
<1>1. InboxInv => InboxTypeOK
  BY DEF InboxInv
<1> QED BY <1>1, InboxInitially, InboxStep, PTL DEF InboxSpec

LEMMA ContractInitially == InboxInit => InboxContract!AInit
  BY DEF InboxInit, InboxContract!AInit

(* Every step of the inbox is a step of the contract, or none of its       *)
(* business.                                                               *)
LEMMA ContractStep ==
  InboxInv /\ [InboxNext]_inboxVars
    => [InboxContract!ANext]_(InboxContract!avars)
<1> SUFFICES ASSUME InboxInv, [InboxNext]_inboxVars
             PROVE [InboxContract!ANext]_(InboxContract!avars)
  OBVIOUS
<1> USE DEF InboxInv, InboxTypeOK
<1> DEFINE accepted == {u \in Updates : row_status[u] # "absent"}
           answered == {u \in Updates : applied[u] > 0 \/ refused[u]}
           finished == {u \in Updates : row_status[u] \in {"done", "purged"}}
           dead == {u \in Updates : row_status[u] = "dead"}
           Same == UNCHANGED <<accepted, answered, finished, dead>>
<1>0. Same => [InboxContract!ANext]_(InboxContract!avars)
  BY DEF InboxContract!avars
<1>1. ASSUME NEW u \in Updates, Enqueue(u) PROVE InboxContract!ANext
  <2>1. InboxContract!Accept(u)
    BY <1>1 DEF Enqueue, InboxContract!Accept
  <2> QED BY <2>1 DEF InboxContract!ANext
<1>2. ASSUME NEW u \in Updates, RowLeaseLapses(u) PROVE Same
  BY <1>2 DEF RowLeaseLapses
<1>3. ASSUME NEW u \in Updates, Purge(u) PROVE Same
  BY <1>3 DEF Purge
<1>4. ASSUME NEW c \in Consumers, ClaimBatch(c) PROVE Same
  <2>1. \A u \in Updates : u \in FirstEligible => row_status[u] \in {"pending", "retry", "processing"}
    BY DEF FirstEligible, Eligible
  <2>2. \A u \in Updates : row_status'[u] = IF u \in FirstEligible THEN "processing" ELSE row_status[u]
    BY <1>4 DEF ClaimBatch
  <2> QED BY <1>4, <2>1, <2>2 DEF ClaimBatch
<1>5. ASSUME NEW c \in Consumers, TurnAway(c) \/ HandlerCommits(c) PROVE InboxContract!ANext
  <2>1. PICK u \in Updates : u = Head(batch[c]) /\ row_status[u] # "absent"
    BY <1>5, HeadStored DEF TurnAway, HandlerCommits
  <2>2. \/ applied' = applied /\ refused' = [refused EXCEPT ![u] = TRUE]
        \/ applied' = [applied EXCEPT ![u] = @ + 1] /\ refused' = refused
    BY <1>5, <2>1 DEF TurnAway, HandlerCommits
  <2>3. answered' = answered \cup {u}
    BY <2>2
  <2>4. row_status' = row_status
    BY <1>5 DEF TurnAway, HandlerCommits
  <2>5. InboxContract!Answer(u)
    BY <2>1, <2>3, <2>4 DEF InboxContract!Answer
  <2> QED BY <2>5 DEF InboxContract!ANext
<1>6. ASSUME NEW c \in Consumers, HandlerRaises(c) PROVE Same
  BY <1>6 DEF HandlerRaises
(* A consumer settles only rows it owns, and those are open. *)
<1>7. ASSUME NEW c \in Consumers, MarkDone(c) PROVE [InboxContract!ANext]_(InboxContract!avars)
  <2>1. PICK u \in Updates : u = Head(batch[c])
    BY <1>7, HeadStored DEF MarkDone
  <2>2. UNCHANGED <<applied, refused>>
    BY <1>7 DEF MarkDone
  <2>3. CASE lease_owner[u] = c
    <3>1. row_status[u] = "processing"
      BY <2>1, <2>3, InboxAssumption DEF OwnerIffProcessing
    <3>2. Answered(u)
      BY <1>7, <2>1 DEF ReturnedAnswered, MarkDone
    <3>3. row_status' = [row_status EXCEPT ![u] = "done"]
      BY <1>7, <2>1, <2>3 DEF MarkDone
    <3>4. InboxContract!Finish(u)
      BY <2>2, <3>1, <3>2, <3>3 DEF InboxContract!Finish, InboxContract!Open, Answered
    <3> QED BY <3>4 DEF InboxContract!ANext
  <2>4. CASE lease_owner[u] # c
    BY <1>0, <1>7, <2>1, <2>2, <2>4 DEF MarkDone
  <2> QED BY <2>3, <2>4
<1>8. ASSUME NEW c \in Consumers, MarkFailed(c) PROVE [InboxContract!ANext]_(InboxContract!avars)
  <2>1. PICK u \in Updates : u = Head(batch[c])
    BY <1>8, HeadStored DEF MarkFailed
  <2>2. UNCHANGED <<applied, refused>>
    BY <1>8 DEF MarkFailed
  <2>3. CASE lease_owner[u] = c
    <3>1. row_status[u] = "processing"
      BY <2>1, <2>3, InboxAssumption DEF OwnerIffProcessing
    <3>2. \/ row_status' = [row_status EXCEPT ![u] = "retry"]
          \/ row_status' = [row_status EXCEPT ![u] = "dead"]
      BY <1>8, <2>1, <2>3 DEF MarkFailed, AfterFailure
    <3>3. CASE row_status' = [row_status EXCEPT ![u] = "retry"]
      BY <1>0, <2>2, <3>1, <3>3
    <3>4. CASE row_status' = [row_status EXCEPT ![u] = "dead"]
      <4>1. InboxContract!GiveUp(u)
        BY <2>2, <3>1, <3>4 DEF InboxContract!GiveUp, InboxContract!Open
      <4> QED BY <4>1 DEF InboxContract!ANext
    <3> QED BY <3>2, <3>3, <3>4
  <2>4. CASE lease_owner[u] # c
    BY <1>0, <1>8, <2>1, <2>2, <2>4 DEF MarkFailed
  <2> QED BY <2>3, <2>4
<1>9. ASSUME NEW c \in Consumers,
             DoneLost(c) \/ FailureLost(c) \/ ConsumerCrash(c) \/ SlowBatch(c)
      PROVE Same
  BY <1>9 DEF DoneLost, FailureLost, ConsumerCrash, SlowBatch
<1>10. CASE IntervalEnds \/ UNCHANGED inboxVars
  <2>1. Same
    BY <1>10 DEF IntervalEnds, inboxVars
  <2> QED BY <1>0, <2>1
<1> HIDE DEF Same
<1> QED BY <1>0, <1>1, <1>2, <1>3, <1>4, <1>5, <1>6, <1>7, <1>8, <1>9, <1>10
        DEF InboxNext, Consume

(* The inbox implements AtLeastOnce: whatever crashes, overlong batches    *)
(* and lost writes there are, mark_done and mark_failed close a row once,  *)
(* the first of them only after the update was answered.                   *)
THEOREM ImplementsAtLeastOnce == InboxSpec => AnsweredAtLeastOnce
  BY InboxInitially, InboxStep, ContractInitially, ContractStep, PTL
  DEF InboxSpec, AnsweredAtLeastOnce, InboxContract!AtLeastOnceSpec

-----------------------------------------------------------------------------
(* Without faults.                                                         *)

(* No lease is over, and the batches are what the rows say: every update   *)
(* of a batch is there once and owned by its consumer, every owned row is  *)
(* in its owner's batch.                                                   *)
BatchesAgree ==
  /\ \A u \in Updates : ~lease_over[u]
  /\ \A c \in Consumers : \A i, j \in DOMAIN batch[c] : batch[c][i] = batch[c][j] => i = j
  /\ \A c \in Consumers : \A i \in DOMAIN batch[c] : lease_owner[batch[c][i]] = c
  /\ \A u \in Updates : lease_owner[u] # Nobody
       => \E i \in DOMAIN batch[lease_owner[u]] : batch[lease_owner[u]][i] = u

(* A handler that committed has its row closed, or is just about to.       *)
Returned(u) ==
  \E c \in Consumers : Busy(c) /\ phase[c] = "returned" /\ Head(batch[c]) = u

AppliedOnce ==
  \A u \in Updates :
    \/ applied[u] = 0
    \/ applied[u] = 1 /\ (row_status[u] \in {"done", "purged"} \/ Returned(u))

Quiet == inbox_faults = 0 => BatchesAgree /\ AppliedOnce

QuietInv == InboxInv /\ Quiet

LEMMA QuietInitially == InboxInit => QuietInv
<1> SUFFICES ASSUME InboxInit PROVE Quiet
  BY InboxInitially DEF QuietInv
<1>1. BatchesAgree
  BY DEF InboxInit, BatchesAgree
<1>2. AppliedOnce
  BY DEF InboxInit, AppliedOnce
<1> QED BY <1>1, <1>2 DEF Quiet

(* With no lease over, the rows that can be claimed belong to nobody.      *)
LEMMA QuietClaim ==
  ASSUME InboxInv, BatchesAgree, AppliedOnce, NEW c \in Consumers, ClaimBatch(c)
  PROVE  (BatchesAgree /\ AppliedOnce)'
<1> USE DEF InboxInv, InboxTypeOK
<1>1. PICK s \in Ascending(FirstEligible) : batch' = [batch EXCEPT ![c] = s]
  BY DEF ClaimBatch
<1>2. FirstEligible \subseteq Updates /\ Cardinality(FirstEligible) \in Nat
  BY RowsAreFinite
<1>3. /\ s \in Seq(Updates)
      /\ \A i \in DOMAIN s : s[i] \in FirstEligible
      /\ \A i, j \in DOMAIN s : s[i] = s[j] => i = j
      /\ \A u \in FirstEligible : \E i \in DOMAIN s : s[i] = u
  BY AscendingIsSequence
<1>4. \A u \in FirstEligible : lease_owner[u] = Nobody /\ row_status[u] \in {"pending", "retry"}
  BY <1>2 DEF FirstEligible, Eligible, BatchesAgree, OwnerIffProcessing
<1>5. \A d \in Consumers : batch[d] \in Seq(Updates) /\ \A i \in DOMAIN batch[d] : batch[d][i] \in Updates
  BY ElementOfSeq, LenProperties
<1>6. \A d \in Consumers : batch[d] # <<>> => 1 \in DOMAIN batch[d] /\ Head(batch[d]) = batch[d][1]
  BY <1>5, TailOfBatch
<1>7. batch[c] = <<>> /\ DOMAIN batch[c] = {}
  BY <1>5 DEF ClaimBatch, Busy
<1>8. \A u \in Updates : lease_owner'[u] = IF u \in FirstEligible THEN c ELSE lease_owner[u]
  BY DEF ClaimBatch
<1>9. BatchesAgree'
  <2>1. \A u \in Updates : ~lease_over'[u]
    BY DEF ClaimBatch, BatchesAgree
  <2>2. \A d \in Consumers : \A i, j \in DOMAIN batch'[d] : batch'[d][i] = batch'[d][j] => i = j
    BY <1>1, <1>3 DEF BatchesAgree
  <2>3. \A d \in Consumers : \A i \in DOMAIN batch'[d] : lease_owner'[batch'[d][i]] = d
    <3> SUFFICES ASSUME NEW d \in Consumers, NEW i \in DOMAIN batch'[d]
                 PROVE lease_owner'[batch'[d][i]] = d
      OBVIOUS
    <3>1. CASE d = c
      BY <1>1, <1>2, <1>3, <1>8, <3>1
    <3>2. CASE d # c
      <4>1. batch'[d] = batch[d] /\ batch[d][i] \in Updates /\ lease_owner[batch[d][i]] = d
        BY <1>1, <1>5, <3>2 DEF BatchesAgree
      <4>2. batch[d][i] \notin FirstEligible
        BY <1>4, <4>1, InboxAssumption
      <4>3. lease_owner'[batch[d][i]] = lease_owner[batch[d][i]]
        BY <1>8, <4>1, <4>2
      <4> QED BY <4>1, <4>3
    <3> QED BY <3>1, <3>2
  <2>4. ASSUME NEW u \in Updates, lease_owner'[u] # Nobody
        PROVE \E i \in DOMAIN batch'[lease_owner'[u]] : batch'[lease_owner'[u]][i] = u
    <3>1. CASE u \in FirstEligible
      <4>1. lease_owner'[u] = c
        BY <1>8, <3>1
      <4>2. batch'[c] = s
        BY <1>1
      <4>3. \E i \in DOMAIN s : s[i] = u
        BY <1>3, <3>1
      <4> QED BY <4>1, <4>2, <4>3
    <3>2. CASE u \notin FirstEligible
      <4>1. lease_owner'[u] = lease_owner[u] /\ lease_owner[u] \in Consumers
        BY <1>8, <2>4, <3>2
      <4>2. PICK i \in DOMAIN batch[lease_owner[u]] : batch[lease_owner[u]][i] = u
        BY <2>4, <4>1 DEF BatchesAgree
      <4>3. lease_owner[u] # c
        BY <1>7, <4>2
      <4> QED BY <1>1, <4>1, <4>2, <4>3
    <3> QED BY <3>1, <3>2
  <2> QED BY <2>1, <2>2, <2>3, <2>4 DEF BatchesAgree
<1>10. AppliedOnce'
  <2> SUFFICES ASSUME NEW u \in Updates, applied[u] # 0
               PROVE applied[u] = 1 /\ (row_status'[u] \in {"done", "purged"} \/ Returned(u)')
    BY DEF AppliedOnce, ClaimBatch
  <2>1. applied[u] = 1 /\ (row_status[u] \in {"done", "purged"} \/ Returned(u))
    BY DEF AppliedOnce
  <2>2. ASSUME NEW d \in Consumers, Busy(d), phase[d] = "returned", Head(batch[d]) = u
        PROVE Returned(u)'
    <3>1. d # c /\ batch'[d] = batch[d] /\ phase'[d] = phase[d]
      BY <1>1, <1>7, <2>2 DEF Busy, ClaimBatch
    <3> QED BY <2>2, <3>1 DEF Returned, Busy
  <2>3. ASSUME NEW d \in Consumers, Busy(d), Head(batch[d]) = u
        PROVE u \notin FirstEligible
    <3>1. lease_owner[u] = d
      BY <1>6, <2>3 DEF Busy, BatchesAgree
    <3> QED BY <1>4, <3>1, InboxAssumption
  <2>4. u \notin FirstEligible
    BY <1>4, <2>1, <2>3 DEF Returned
  <2>5. row_status'[u] = row_status[u]
    BY <2>4 DEF ClaimBatch
  <2> QED BY <2>1, <2>2, <2>5 DEF Returned
<1> QED BY <1>9, <1>10

(* The head of a batch belongs to one consumer.                            *)
LEMMA OwnHead ==
  ASSUME InboxInv, BatchesAgree
  PROVE  /\ \A d \in Consumers : Busy(d) => /\ Head(batch[d]) \in Updates
                                            /\ lease_owner[Head(batch[d])] = d
                                            /\ row_status[Head(batch[d])] = "processing"
         /\ \A d, e \in Consumers :
              Busy(d) /\ Busy(e) /\ Head(batch[d]) = Head(batch[e]) => d = e
<1>1. ASSUME NEW d \in Consumers, Busy(d)
      PROVE /\ Head(batch[d]) \in Updates /\ lease_owner[Head(batch[d])] = d
            /\ row_status[Head(batch[d])] = "processing"
  <2>1. batch[d] \in Seq(Updates) /\ batch[d] # <<>>
    BY <1>1 DEF InboxInv, InboxTypeOK, Busy
  <2>2. Head(batch[d]) \in Updates /\ 1 \in DOMAIN batch[d] /\ Head(batch[d]) = batch[d][1]
    BY <2>1, TailOfBatch
  <2>3. lease_owner[Head(batch[d])] = d
    BY <2>2 DEF BatchesAgree
  <2> QED BY <2>2, <2>3, InboxAssumption DEF InboxInv, OwnerIffProcessing
<1>2. ASSUME NEW d \in Consumers, NEW e \in Consumers, Busy(d), Busy(e),
             Head(batch[d]) = Head(batch[e])
      PROVE d = e
  <2>1. lease_owner[Head(batch[d])] = d /\ lease_owner[Head(batch[e])] = e
    BY <1>1, <1>2
  <2> QED BY <1>2, <2>1
<1> QED BY <1>1, <1>2

LEMMA QuietHandler ==
  ASSUME InboxInv, BatchesAgree, AppliedOnce, NEW c \in Consumers,
         TurnAway(c) \/ HandlerCommits(c) \/ HandlerRaises(c)
  PROVE  (BatchesAgree /\ AppliedOnce)'
<1> USE DEF InboxInv, InboxTypeOK
<1>1. /\ Busy(c) /\ phase[c] = "feed"
      /\ UNCHANGED <<row_status, lease_owner, lease_over, batch>>
      /\ \A d \in Consumers \ {c} : phase'[d] = phase[d]
  BY DEF TurnAway, HandlerCommits, HandlerRaises
<1>2. BatchesAgree'
  BY <1>1 DEF BatchesAgree
<1>3. PICK u \in Updates : u = Head(batch[c]) /\ row_status[u] = "processing"
  BY <1>1, OwnHead
<1>4. \A v \in Updates : Returned(v) => Returned(v)'
  BY <1>1 DEF Returned, Busy
<1>5. CASE applied' = applied
  <2>1. \A v \in Updates : applied'[v] = applied[v] /\ row_status'[v] = row_status[v]
    BY <1>1, <1>5
  <2>2. AppliedOnce'
    BY <1>4, <2>1 DEF AppliedOnce
  <2> QED BY <1>2, <2>2
<1>6. CASE HandlerCommits(c)
  <2>1. applied' = [applied EXCEPT ![u] = @ + 1] /\ phase'[c] = "returned"
    BY <1>3, <1>6 DEF HandlerCommits
  <2>2. ~Returned(u)
    BY <1>1, <1>3, OwnHead DEF Returned
  <2>3. applied[u] = 0
    BY <1>3, <2>2 DEF AppliedOnce
  <2>4. applied'[u] = 1 /\ Returned(u)'
    BY <1>1, <1>3, <2>1, <2>3 DEF Returned, Busy
  <2>5. \A v \in Updates \ {u} : applied'[v] = applied[v]
    BY <2>1
  <2> QED BY <1>1, <1>2, <1>4, <2>4, <2>5 DEF AppliedOnce
<1> QED BY <1>2, <1>5, <1>6 DEF TurnAway, HandlerRaises

LEMMA QuietMark ==
  ASSUME InboxInv, BatchesAgree, AppliedOnce, NEW c \in Consumers,
         MarkDone(c) \/ MarkFailed(c)
  PROVE  (BatchesAgree /\ AppliedOnce)'
<1> USE DEF InboxInv, InboxTypeOK
<1>1. Busy(c) /\ NextOfBatch(c) /\ UNCHANGED <<applied, refused>>
  BY DEF MarkDone, MarkFailed
<1>2. PICK u \in Updates :
        u = Head(batch[c]) /\ lease_owner[u] = c /\ row_status[u] = "processing"
  BY <1>1, OwnHead
<1>3. ReleaseRow(u) /\ \A v \in Updates \ {u} : row_status'[v] = row_status[v]
  BY <1>2 DEF MarkDone, MarkFailed
<1>4. batch[c] \in Seq(Updates) /\ batch[c] # <<>>
  BY <1>1 DEF Busy
<1>5. batch' = [batch EXCEPT ![c] = Tail(batch[c])]
  BY <1>1 DEF NextOfBatch
<1>6. \A d \in Consumers \ {c} : batch'[d] = batch[d] /\ phase'[d] = phase[d]
  BY <1>1 DEF NextOfBatch
<1>7. \A d \in Consumers : \A i \in DOMAIN batch[d] : batch[d][i] \in Updates
  BY ElementOfSeq, LenProperties
<1>8. BatchesAgree'
  <2>1. \A v \in Updates : ~lease_over'[v]
    BY <1>3 DEF BatchesAgree, ReleaseRow
  <2>2. \A d \in Consumers : \A i, j \in DOMAIN batch'[d] : batch'[d][i] = batch'[d][j] => i = j
    <3> SUFFICES ASSUME NEW d \in Consumers, NEW i \in DOMAIN batch'[d],
                        NEW j \in DOMAIN batch'[d], batch'[d][i] = batch'[d][j]
                 PROVE i = j
      OBVIOUS
    <3>1. CASE d = c
      <4>1. i + 1 = j + 1
        BY <1>4, <1>5, <3>1, TailOfBatch DEF BatchesAgree
      <4> QED BY <1>4, <1>5, <3>1, <4>1, TailOfBatch
    <3>2. CASE d # c
      BY <1>6, <3>2 DEF BatchesAgree
    <3> QED BY <3>1, <3>2
  <2>3. \A d \in Consumers : \A i \in DOMAIN batch'[d] : lease_owner'[batch'[d][i]] = d
    <3> SUFFICES ASSUME NEW d \in Consumers, NEW i \in DOMAIN batch'[d]
                 PROVE lease_owner'[batch'[d][i]] = d
      OBVIOUS
    <3>1. \A v \in Updates \ {u} : lease_owner'[v] = lease_owner[v]
      BY <1>3 DEF ReleaseRow
    <3>2. CASE d = c
      <4>1. /\ 1 \in DOMAIN batch[c] /\ batch[c][1] = u
            /\ i + 1 \in DOMAIN batch[c] /\ i + 1 # 1 /\ batch'[c][i] = batch[c][i + 1]
        BY <1>2, <1>4, <1>5, <3>2, TailOfBatch
      <4>2. batch[c][i + 1] # u /\ lease_owner[batch[c][i + 1]] = c
        BY <4>1 DEF BatchesAgree
      <4> QED BY <1>7, <3>1, <3>2, <4>1, <4>2
    <3>3. CASE d # c
      <4>1. batch[d][i] \in Updates /\ lease_owner[batch[d][i]] = d /\ batch'[d] = batch[d]
        BY <1>6, <1>7, <3>3 DEF BatchesAgree
      <4> QED BY <1>2, <3>1, <3>3, <4>1
    <3> QED BY <3>2, <3>3
  <2>4. ASSUME NEW v \in Updates, lease_owner'[v] # Nobody
        PROVE \E i \in DOMAIN batch'[lease_owner'[v]] : batch'[lease_owner'[v]][i] = v
    <3>1. v # u /\ lease_owner'[v] = lease_owner[v] /\ lease_owner[v] \in Consumers
      BY <1>3, <2>4 DEF ReleaseRow
    <3>2. PICK i \in DOMAIN batch[lease_owner[v]] : batch[lease_owner[v]][i] = v
      BY <2>4, <3>1 DEF BatchesAgree
    <3>3. CASE lease_owner[v] = c
      <4>1. i # 1
        BY <1>2, <1>4, <3>1, <3>2, <3>3, TailOfBatch
      <4>2. i - 1 \in DOMAIN Tail(batch[c]) /\ Tail(batch[c])[i - 1] = v
        BY <1>4, <3>2, <3>3, <4>1, TailOfBatch
      <4>3. batch'[c] = Tail(batch[c])
        BY <1>5
      <4> QED BY <3>1, <3>3, <4>2, <4>3
    <3>4. CASE lease_owner[v] # c
      BY <1>6, <3>1, <3>2, <3>4
    <3> QED BY <3>3, <3>4
  <2> QED BY <2>1, <2>2, <2>3, <2>4 DEF BatchesAgree
<1>9. AppliedOnce'
  <2>1. ASSUME NEW v \in Updates \ {u}, Returned(v) PROVE Returned(v)'
    BY <1>2, <1>6, <2>1 DEF Returned, Busy
  <2>2. applied[u] = 0 \/ (applied[u] = 1 /\ row_status'[u] = "done")
    <3>1. applied[u] = 0 \/ (applied[u] = 1 /\ Returned(u))
      BY <1>2 DEF AppliedOnce
    <3>2. CASE MarkDone(c)
      BY <1>2, <3>1, <3>2 DEF MarkDone
    <3>3. CASE MarkFailed(c)
      BY <1>1, <1>2, <3>1, <3>3, OwnHead DEF MarkFailed, Returned
    <3> QED BY <3>2, <3>3
  <2> QED BY <1>1, <1>3, <2>1, <2>2 DEF AppliedOnce
<1> QED BY <1>8, <1>9

LEMMA QuietStep == QuietInv /\ [InboxNext]_inboxVars => Quiet'
<1> SUFFICES ASSUME QuietInv, [InboxNext]_inboxVars, inbox_faults' = 0
             PROVE (BatchesAgree /\ AppliedOnce)'
  BY DEF Quiet
<1> USE DEF QuietInv, InboxInv, InboxTypeOK
<1>0. inbox_faults \in Nat
  BY InboxAssumption
<1>1. inbox_faults = 0 => BatchesAgree /\ AppliedOnce
  BY DEF Quiet
<1>2. ASSUME NEW u \in Updates, Enqueue(u) PROVE (BatchesAgree /\ AppliedOnce)'
  <2>1. BatchesAgree'
    BY <1>1, <1>2 DEF Enqueue, BatchesAgree
  <2>2. ~Returned(u)
    BY <1>2, HeadStored DEF Enqueue, Returned
  <2>3. \A v \in Updates : Returned(v)' <=> Returned(v)
    BY <1>2 DEF Enqueue, Returned, Busy
  <2>4. AppliedOnce'
    BY <1>1, <1>2, <2>2, <2>3 DEF Enqueue, AppliedOnce
  <2> QED BY <2>1, <2>4
(* Nothing lapses: every row that is processed is in its owner's batch. *)
<1>3. ASSUME NEW u \in Updates, RowLeaseLapses(u) PROVE FALSE
  <2>1. BatchesAgree /\ lease_owner[u] # Nobody
    BY <1>1, <1>3 DEF RowLeaseLapses, OwnerIffProcessing
  <2>2. u \in Held(lease_owner[u])
    BY <2>1 DEF BatchesAgree, Held
  <2> QED BY <1>3, <2>1, <2>2 DEF RowLeaseLapses, RowAbandoned
<1>4. ASSUME NEW u \in Updates, Purge(u) PROVE (BatchesAgree /\ AppliedOnce)'
  <2>1. BatchesAgree'
    BY <1>1, <1>4 DEF Purge, BatchesAgree
  <2>2. \A v \in Updates : Returned(v)' <=> Returned(v)
    BY <1>4 DEF Purge, Returned, Busy
  <2>3. AppliedOnce'
    BY <1>1, <1>4, <2>2 DEF Purge, AppliedOnce
  <2> QED BY <2>1, <2>3
<1>5. ASSUME NEW c \in Consumers, ClaimBatch(c) PROVE (BatchesAgree /\ AppliedOnce)'
  BY <1>1, <1>5, QuietClaim DEF ClaimBatch
<1>6. ASSUME NEW c \in Consumers, TurnAway(c) \/ HandlerCommits(c) \/ HandlerRaises(c)
      PROVE (BatchesAgree /\ AppliedOnce)'
  BY <1>1, <1>6, QuietHandler DEF TurnAway, HandlerCommits, HandlerRaises
<1>7. ASSUME NEW c \in Consumers, MarkDone(c) \/ MarkFailed(c)
      PROVE (BatchesAgree /\ AppliedOnce)'
  BY <1>1, <1>7, QuietMark DEF MarkDone, MarkFailed
<1>8. ASSUME NEW c \in Consumers,
             DoneLost(c) \/ FailureLost(c) \/ ConsumerCrash(c) \/ SlowBatch(c)
      PROVE FALSE
  BY <1>0, <1>8 DEF DoneLost, FailureLost, ConsumerCrash, SlowBatch
<1>9. CASE IntervalEnds \/ UNCHANGED inboxVars
  <2>1. BatchesAgree'
    BY <1>1, <1>9 DEF IntervalEnds, inboxVars, BatchesAgree
  <2>2. \A v \in Updates : Returned(v)' <=> Returned(v)
    BY <1>9 DEF IntervalEnds, inboxVars, Returned, Busy
  <2>3. AppliedOnce'
    BY <1>1, <1>9, <2>2 DEF IntervalEnds, inboxVars, AppliedOnce
  <2> QED BY <2>1, <2>3
<1> QED BY <1>2, <1>3, <1>4, <1>5, <1>6, <1>7, <1>8, <1>9 DEF InboxNext, Consume

(* As long as no consumer dies, overruns its lease or loses its final      *)
(* write, no update is handled twice, with any number of consumers,        *)
(* batches, retries and repeated deliveries.                               *)
THEOREM HandledOnce == InboxSpec => []OnceWithoutFaults
<1>1. QuietInv => OnceWithoutFaults
  BY DEF QuietInv, Quiet, AppliedOnce, OnceWithoutFaults
<1>2. QuietInv /\ [InboxNext]_inboxVars => QuietInv'
  BY InboxStep, QuietStep DEF QuietInv
<1> QED BY <1>1, <1>2, QuietInitially, PTL DEF InboxSpec
=============================================================================
