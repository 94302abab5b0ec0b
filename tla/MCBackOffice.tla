---------------------------- MODULE MCBackOffice ----------------------------
(***************************************************************************)
(* The books and the settings around the orders, in one run: the wallets,  *)
(* the collection of revenue, the plans of platforms and of students, and  *)
(* the cached settings.  As in MCReplicas the parts meet in no row of the  *)
(* database and "part" says which one moves.                               *)
(*                                                                         *)
(* No liveness is checked here, so members of a set that differ in nothing *)
(* but their name are interchangeable: the first two orders, sales,        *)
(* platforms and processes; settlements; administrators, desks, askers.    *)
(***************************************************************************)
EXTENDS WalletFees, Collections, ProviderPlans, StudentPlans, ConfigCache, TLC

VARIABLE part

officeWalletVars == vars
officeVars == <<part, officeWalletVars, collectionVars, planVars, studentVars, cacheVars>>

Parts == {"wallets", "collections", "plans", "students", "settings"}

OfficeInit ==
  /\ part \in Parts
  /\ Init /\ CollectionsInit /\ PlanInit /\ StudentInit /\ CacheInit
  /\ part # "students" =>
       start_trigger = "delivery" /\ validity = "fixed" /\ date = "over"

Only(name) == part = name /\ UNCHANGED part

OfficeNext ==
  \/ /\ Only("wallets")
     /\ Next
     /\ UNCHANGED <<collectionVars, planVars, studentVars, cacheVars>>
  \/ /\ Only("collections")
     /\ CollectionsNext
     /\ UNCHANGED <<officeWalletVars, planVars, studentVars, cacheVars>>
  \/ /\ Only("plans")
     /\ PlanNext
     /\ UNCHANGED <<officeWalletVars, collectionVars, studentVars, cacheVars>>
  \/ /\ Only("students")
     /\ StudentNext
     /\ UNCHANGED <<officeWalletVars, collectionVars, planVars, cacheVars>>
  \/ /\ Only("settings")
     /\ CacheNext
     /\ UNCHANGED <<officeWalletVars, collectionVars, planVars, studentVars>>

OfficeSpec == OfficeInit /\ [][OfficeNext]_officeVars

(* BackOffice.cfg gives sets of different parts the same members.          *)
Symmetry ==
  Permutations(Orders) \cup Permutations(Dues) \cup Permutations(Admins)

-----------------------------------------------------------------------------
(* Every row of every part has a value of its type.                        *)
OfficeTypeOK ==
  TypeOK /\ CollectionsTypeOK /\ PlanTypeOK /\ StudentTypeOK /\ CacheTypeOK
=============================================================================
