----------------------------- MODULE ConfigCache -----------------------------
(***************************************************************************)
(* How a setting that the owner changes reaches the processes that cache   *)
(* it: FeatureService over CacheCoherenceService, one flag of it.  Every   *)
(* process keeps the flag's value, the generation it believes in, and for  *)
(* two seconds the generation it last read; the row of the generation is   *)
(* raised in the transaction that changes the flag.                        *)
(*                                                                         *)
(* Coroutines of a process give way to each other wherever they wait for   *)
(* the database, so a read is up to three actions and a change is three.   *)
(* MenuService caches the menus in the same way.                           *)
(***************************************************************************)
EXTENDS Naturals, Owners

CONSTANTS
  Processes,
  Askers,            (* coroutines in FeatureService.enabled                *)
  MaxGeneration      (* bound: changes that are begun                       *)

ASSUME ConfigCacheAssumption ==
  MaxGeneration \in Nat /\ Nobody \notin Processes

VARIABLES
  flag,              (* FeatureFlag.is_enabled, as committed                *)
  generation,        (* RuntimeConfigGeneration.generation, as committed    *)
  changing,          (* the process whose toggle has the flag's row         *)
  bumped,            (* has that toggle raised the generation yet?          *)
  changes,           (* toggles so far                                      *)
  cache,             (* a process's copies of the flag: none or one         *)
  believed,          (* FeatureService._generation                          *)
  snapshot_valid,    (* processes whose snapshot is not two seconds old     *)
  snapshots,         (* CacheCoherenceService._local                        *)
  asker,             (* where a coroutine waits, and what it was answered   *)
  overrun            (* processes a change met in the middle                *)

dbVars == <<flag, generation, changing, bumped, changes>>
cacheVars == <<dbVars, cache, believed, snapshot_valid, snapshots, asker, overrun>>

Away == [at |-> "away", in |-> Nobody, generation |-> 0, value |-> FALSE]

CacheTypeOK ==
  /\ flag \in BOOLEAN /\ bumped \in BOOLEAN
  /\ generation \in Nat /\ changes \in Nat
  /\ changing \in Processes \cup {Nobody}
  /\ cache \in [Processes -> SUBSET BOOLEAN]
  /\ believed \in [Processes -> Nat] /\ snapshots \in [Processes -> Nat]
  /\ snapshot_valid \subseteq Processes
  /\ asker \in [Askers -> [at : {"away", "asked", "missed", "answered"},
                           in : Processes \cup {Nobody},
                           generation : Nat, value : BOOLEAN]]
  /\ overrun \subseteq Processes

CacheInit ==
  /\ flag = FALSE /\ generation = 1
  /\ changing = Nobody /\ bumped = FALSE /\ changes = 0
  /\ cache = [p \in Processes |-> {}]
  /\ believed = [p \in Processes |-> 0]
  /\ snapshot_valid = {} /\ snapshots = [p \in Processes |-> 0]
  /\ asker = [a \in Askers |-> Away]
  /\ overrun = {}

-----------------------------------------------------------------------------
(* A read of the flag                                                      *)

(* With generation g the process drops what it cached under another one;   *)
(* a coroutine that finds no value asks the database for the flag.         *)
Learn_KeepsCache(a, p, g) ==
  /\ believed' = [believed EXCEPT ![p] = g]
  /\ asker' = [asker EXCEPT ![a] =
       IF cache[p] = {} THEN [Away EXCEPT !.at = "missed", !.in = p] ELSE Away]
  /\ UNCHANGED cache

Learn(a, p, g) ==
  LET kept == IF g = believed[p] THEN cache[p] ELSE {} IN
  /\ believed' = [believed EXCEPT ![p] = g]
  /\ cache' = [cache EXCEPT ![p] = kept]
  /\ asker' = [asker EXCEPT ![a] =
       IF kept = {} THEN [Away EXCEPT !.at = "missed", !.in = p] ELSE Away]

AskBySnapshot(a, p) ==
  /\ asker[a] = Away /\ p \in snapshot_valid
  /\ Learn(a, p, snapshots[p])
  /\ UNCHANGED <<dbVars, snapshot_valid, snapshots, overrun>>

AskGeneration(a, p) ==
  /\ asker[a] = Away /\ p \notin snapshot_valid
  /\ asker' = [asker EXCEPT ![a] =
       [Away EXCEPT !.at = "asked", !.in = p, !.generation = generation]]
  /\ UNCHANGED <<dbVars, cache, believed, snapshot_valid, snapshots, overrun>>

TakeGeneration(a) ==
  LET p == asker[a].in IN
  /\ asker[a].at = "asked"
  /\ snapshots' = [snapshots EXCEPT ![p] = asker[a].generation]
  /\ snapshot_valid' = snapshot_valid \cup {p}
  /\ Learn(a, p, asker[a].generation)
  /\ UNCHANGED <<dbVars, overrun>>

AskFlag(a) ==
  /\ asker[a].at = "missed"
  /\ asker' = [asker EXCEPT ![a].at = "answered", ![a].value = flag]
  /\ UNCHANGED <<dbVars, cache, believed, snapshot_valid, snapshots, overrun>>

CacheFlag(a) ==
  /\ asker[a].at = "answered"
  /\ cache' = [cache EXCEPT ![asker[a].in] = {asker[a].value}]
  /\ asker' = [asker EXCEPT ![a] = Away]
  /\ UNCHANGED <<dbVars, believed, snapshot_valid, snapshots, overrun>>

(* Sixty seconds for a value, two for the snapshot. *)
ValueLapses(p) ==
  /\ cache[p] # {}
  /\ cache' = [cache EXCEPT ![p] = {}]
  /\ UNCHANGED <<dbVars, believed, snapshot_valid, snapshots, asker, overrun>>

SnapshotLapses(p) ==
  /\ p \in snapshot_valid
  /\ snapshot_valid' = snapshot_valid \ {p}
  /\ UNCHANGED <<dbVars, cache, believed, snapshots, asker, overrun>>

-----------------------------------------------------------------------------
(* A change of the flag                                                    *)

(* toggle locks the flag's row, changes it and drops the local value.      *)
BeginToggle(p) ==
  /\ changing = Nobody /\ changes < MaxGeneration
  /\ changing' = p /\ bumped' = FALSE /\ changes' = changes + 1
  /\ cache' = [cache EXCEPT ![p] = {}]
  /\ UNCHANGED <<flag, generation, believed, snapshot_valid, snapshots, asker, overrun>>

(* bump: the process believes in the new generation before the commit.     *)
Bump ==
  LET p == changing IN
  /\ p # Nobody /\ ~bumped
  /\ bumped' = TRUE
  /\ believed' = [believed EXCEPT ![p] = generation + 1]
  /\ snapshots' = [snapshots EXCEPT ![p] = generation + 1]
  /\ snapshot_valid' = snapshot_valid \cup {p}
  /\ UNCHANGED <<flag, generation, changing, changes, cache, asker, overrun>>

(* The commit finds a process overrun that has the old value at hand:      *)
(* on its way to the cache, or cached under the number now committed.      *)
Overrun ==
  {p \in Processes :
     \/ \E a \in Askers : asker[a].in = p /\ asker[a].at = "answered"
     \/ believed[p] = generation + 1 /\ cache[p] # {}}

CommitToggle ==
  /\ changing # Nobody /\ bumped
  /\ flag' = ~flag
  /\ generation' = generation + 1
  /\ changing' = Nobody /\ bumped' = FALSE
  /\ overrun' = overrun \cup Overrun
  /\ UNCHANGED <<changes, cache, believed, snapshot_valid, snapshots, asker>>

(* The handler fails after it: neither row changes, the process does not   *)
(* unlearn the number.                                                     *)
RollBackToggle ==
  /\ changing # Nobody
  /\ changing' = Nobody /\ bumped' = FALSE
  /\ UNCHANGED <<flag, generation, changes, cache, believed, snapshot_valid, snapshots,
                 asker, overrun>>

CacheNext ==
  \/ \E a \in Askers :
       \/ \E p \in Processes : AskBySnapshot(a, p) \/ AskGeneration(a, p)
       \/ TakeGeneration(a) \/ AskFlag(a) \/ CacheFlag(a)
  \/ \E p \in Processes : ValueLapses(p) \/ SnapshotLapses(p) \/ BeginToggle(p)
  \/ Bump \/ CommitToggle \/ RollBackToggle

CacheSpec == CacheInit /\ [][CacheNext]_cacheVars

-----------------------------------------------------------------------------
(* Properties.                                                             *)

(* features.py, lines 15 to 17: a change is visible to every process after *)
(* a short time.  A process that has come to the committed generation      *)
(* serves the committed value, unless a commit overran a read of it or a   *)
(* generation it had taken from a change that failed.                      *)
CurrentGenerationIsFresh ==
  \A p \in Processes \ overrun : believed[p] = generation => cache[p] \subseteq {flag}
=============================================================================
