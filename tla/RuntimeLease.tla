---------------------------- MODULE RuntimeLease ----------------------------
(***************************************************************************)
(* RuntimeLeaseGuard: one replica polls Telegram at a time.  A replica is  *)
(* one process with an owner_id of its own and is started once.  It waits  *)
(* for the lease, starts up and polls while its heartbeat renews the lease,*)
(* and finds out that it lost the lease at a heartbeat only.               *)
(***************************************************************************)
EXTENDS Naturals, FiniteSets, Owners

CONSTANTS
  Pollers,
  MaxStalls          (* bound: leases that lapse although the owner is alive*)

ASSUME LeaseAssumption == MaxStalls \in Nat /\ Nobody \notin Pollers

VARIABLES
  lease,             (* RuntimeLease.owner_id; Nobody when there is no row  *)
  late,              (* has expires_at passed?                              *)
  poller,            (* what each process does                              *)
  stalls

leaseVars == <<lease, late, poller, stalls>>

LeaseTypeOK ==
  /\ lease \in Pollers \cup {Nobody}
  /\ late \in BOOLEAN
  /\ poller \in [Pollers -> {"new", "waiting", "starting", "polling", "stopping", "gone"}]
  /\ stalls \in 0..MaxStalls

LeaseInit ==
  /\ lease = Nobody
  /\ late = FALSE
  /\ poller = [r \in Pollers |-> "new"]
  /\ stalls = 0

-----------------------------------------------------------------------------
PollerMoves(r, from, to) == poller[r] = from /\ poller' = [poller EXCEPT ![r] = to]
Beating == {r \in Pollers : poller[r] \in {"starting", "polling"}}
Polling == {r \in Pollers : poller[r] = "polling"}

StartPoller(r) == PollerMoves(r, "new", "waiting") /\ UNCHANGED <<lease, late, stalls>>

LeaseFree == lease = Nobody \/ late

Acquire(r) ==
  /\ LeaseFree
  /\ PollerMoves(r, "waiting", "starting")
  /\ lease' = r
  /\ late' = FALSE
  /\ UNCHANGED stalls

(* The deadline is twice the lease: an owner that renews it is alive. *)
GiveUpWaiting(r) ==
  /\ lease \in Beating
  /\ PollerMoves(r, "waiting", "gone")
  /\ UNCHANGED <<lease, late, stalls>>

StartPolling(r) == PollerMoves(r, "starting", "polling") /\ UNCHANGED <<lease, late,
                                                                        stalls>>

(* _heartbeat renews the lease it owns, also a lapsed one nobody took, or  *)
(* cancels the replica's own task.                                         *)
Renew(r) ==
  /\ r \in Beating
  /\ lease = r
  /\ late' = FALSE
  /\ UNCHANGED <<lease, poller, stalls>>

FindLost_OnlyLogs(r) == r \in Beating /\ lease # r /\ UNCHANGED leaseVars

FindLost(r) ==
  /\ r \in Beating
  /\ lease # r
  /\ poller' = [poller EXCEPT ![r] = "stopping"]
  /\ UNCHANGED <<lease, late, stalls>>

(* SIGTERM, or a heartbeat that cannot reach the database. *)
StopPoller(r) ==
  /\ r \in Beating
  /\ poller' = [poller EXCEPT ![r] = "stopping"]
  /\ UNCHANGED <<lease, late, stalls>>

ReleaseLease_AnyOwner(r) ==
  /\ PollerMoves(r, "stopping", "gone")
  /\ lease' = Nobody
  /\ late' = FALSE
  /\ UNCHANGED stalls

(* release, in the finally block after polling has ended. *)
ReleaseLease(r) ==
  /\ PollerMoves(r, "stopping", "gone")
  /\ lease' = IF lease = r THEN Nobody ELSE lease
  /\ late' = (late /\ lease # r)
  /\ UNCHANGED stalls

PollerCrash(r) ==
  /\ poller[r] \in {"waiting", "starting", "polling", "stopping"}
  /\ poller' = [poller EXCEPT ![r] = "gone"]
  /\ UNCHANGED <<lease, late, stalls>>

(* No heartbeat for ttl_seconds. *)
LeaseExpires ==
  /\ lease # Nobody /\ ~late
  /\ late' = TRUE
  /\ \/ lease \notin Beating /\ UNCHANGED stalls
     \/ lease \in Beating /\ stalls < MaxStalls /\ stalls' = stalls + 1
  /\ UNCHANGED <<lease, poller>>

Heartbeat(r) == Renew(r) \/ FindLost(r)

LeaseNext ==
  \/ \E r \in Pollers :
       \/ StartPoller(r) \/ Acquire(r) \/ GiveUpWaiting(r) \/ StartPolling(r)
       \/ Heartbeat(r) \/ StopPoller(r) \/ ReleaseLease(r) \/ PollerCrash(r)
  \/ LeaseExpires

LeaseSpec == LeaseInit /\ [][LeaseNext]_leaseVars

-----------------------------------------------------------------------------
(* Properties.                                                             *)

(* "both replicas calling getUpdates with the same bot token" is what the  *)
(* lease prevents, as long as no living owner misses its heartbeats for a  *)
(* whole lease.                                                            *)
OnePollerUnlessStalled == stalls = 0 => Cardinality(Polling) <= 1

(* After a stall the replica that lost the lease stops by itself.          *)
OverlapEnds == Cardinality(Polling) > 1 ~> Cardinality(Polling) <= 1
=============================================================================
