----------------------------- MODULE MCReplicas -----------------------------
(***************************************************************************)
(* What the replicas of one deployment share, in one run: the update inbox,*)
(* the queue of AI questions, the delivery outbox, the polling lease, the  *)
(* scheduler's cycle and the notices it sends.  The parts meet in no row   *)
(* of the database, so a behaviour of one is a behaviour of the system in  *)
(* which the others stand still; "part" says which one moves, and every    *)
(* part moves in some behaviour.                                           *)
(***************************************************************************)
EXTENDS UpdateInbox, AISupport, DeliveryOutbox, RuntimeLease, SchedulerCycle, Announcements

CONSTANTS first, second, third     (* three processes                        *)

VARIABLE part

One == {first}
Two == {first, second}
Three == {first, second, third}
SomeReleases == [Two -> {1, 2}]

systemVars == <<part, inboxVars, aiVars, outboxVars, leaseVars, cycleVars,
                announcementVars>>

SystemInit ==
  /\ part \in {"inbox", "ai", "outbox", "lease", "cycle", "notices"}
  /\ InboxInit /\ AIInit /\ OutboxInit /\ LeaseInit /\ CycleInit
  /\ AnnouncementInit
  /\ part # "outbox" => ~guide_read
  /\ part # "cycle" => release = CHOOSE f \in Deployments : TRUE

Only(name) == part = name /\ UNCHANGED part

SystemNext ==
  \/ /\ Only("inbox")
     /\ InboxNext
     /\ UNCHANGED <<aiVars, outboxVars, leaseVars, cycleVars, announcementVars>>
  \/ /\ Only("ai")
     /\ AINext
     /\ UNCHANGED <<inboxVars, outboxVars, leaseVars, cycleVars, announcementVars>>
  \/ /\ Only("outbox")
     /\ OutboxNext
     /\ UNCHANGED <<inboxVars, aiVars, leaseVars, cycleVars, announcementVars>>
  \/ /\ Only("lease")
     /\ LeaseNext
     /\ UNCHANGED <<inboxVars, aiVars, outboxVars, cycleVars, announcementVars>>
  \/ /\ Only("cycle")
     /\ CycleNext
     /\ UNCHANGED <<inboxVars, aiVars, outboxVars, leaseVars, announcementVars>>
  \/ /\ Only("notices")
     /\ AnnouncementNext
     /\ UNCHANGED <<inboxVars, aiVars, outboxVars, leaseVars, cycleVars>>

(* Consumers, workers and couriers run as long as their process does, the  *)
(* scheduler repeats its cycle and time passes; a part that does not move  *)
(* owes nothing.                                                           *)
SystemFairness ==
  /\ \A x \in Consumers : WF_inboxVars(part = "inbox" /\ Consume(x))
  /\ \A u \in Updates : WF_inboxVars(part = "inbox" /\ RowLeaseLapses(u))
  /\ \A w \in Workers : WF_aiVars(part = "ai" /\ ClaimJobs(w))
  /\ \A w \in Workers, j \in Jobs : WF_aiVars(part = "ai" /\ Process(w, j))
  /\ \A j \in Jobs : WF_aiVars(part = "ai" /\ JobLeaseLapses(j))
  /\ \A x \in Couriers : WF_outboxVars(part = "outbox" /\ Courier(x))
  /\ WF_outboxVars(part = "outbox" /\ DeliveryLeaseLapses)
  /\ \A r \in Pollers : WF_leaseVars(part = "lease" /\ Heartbeat(r))
  /\ \A r \in Cycles : SF_announcementVars(part = "notices" /\ BeginDispatch(r))
  /\ \A s \in Senders : WF_announcementVars(part = "notices" /\ Goes(s))

SystemSpec == SystemInit /\ [][SystemNext]_systemVars /\ SystemFairness

-----------------------------------------------------------------------------
(* Every row of every part has a value of its type.                        *)
SystemTypeOK ==
  /\ InboxTypeOK /\ AITypeOK /\ OutboxTypeOK /\ LeaseTypeOK /\ CycleTypeOK
  /\ AnnouncementTypeOK

(* Every durable queue drains: updates are settled, questions end, a       *)
(* delivery whose guide was read is shipped or handed to support.          *)
QueuesDrain == EventuallySettled /\ EventuallyEnds /\ EventuallyShipped
=============================================================================
