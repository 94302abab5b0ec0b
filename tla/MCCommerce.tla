----------------------------- MODULE MCCommerce -----------------------------
(***************************************************************************)
(* The sales beside the plain order, in one run: friends' groups, warranty *)
(* claims, codes that arrive by mail, bundles of several platforms, and    *)
(* the invoices of the platforms.  As in MCReplicas the parts meet in no   *)
(* row of the database and "part" says which one moves.  The codes move    *)
(* twice: two replicas read for one tap at a time, and two taps overlap    *)
(* while one replica reads one mail or fails to.                           *)
(***************************************************************************)
EXTENDS FriendPackages, Warranty, EmailCodes, HybridBundles, ProviderBilling

VARIABLE part

friendVars == vars
commerceVars == <<part, friendVars, warrantyVars, codeVars, bundleVars, billingVars>>

CommerceInit ==
  /\ part \in {"friends", "warranty", "codes", "taps", "bundles", "billing"}
  /\ Init /\ WarrantyInit /\ CodeInit /\ BundleInit /\ BillingInit
  /\ part # "friends" => ~autoflush

Only(name) == part = name /\ UNCHANGED part

OneTap == CHOOSE t \in Taps : TRUE
OneReader == CHOOSE d \in Readers : TRUE

CodesAtOnce ==
  /\ part = "codes" => \A t \in Taps \ {OneTap} : tap'[t] = NoTap
  /\ part = "taps" =>
       /\ \A d \in Readers \ {OneReader} : reader'[d] = NoRead
       /\ arrived' + mail_faults' <= 1

CommerceNext ==
  \/ /\ Only("friends")
     /\ Next
     /\ UNCHANGED <<warrantyVars, codeVars, bundleVars, billingVars>>
  \/ /\ Only("warranty")
     /\ WarrantyNext
     /\ UNCHANGED <<friendVars, codeVars, bundleVars, billingVars>>
  \/ /\ Only("codes") \/ Only("taps")
     /\ CodeNext /\ CodesAtOnce
     /\ UNCHANGED <<friendVars, warrantyVars, bundleVars, billingVars>>
  \/ /\ Only("bundles")
     /\ BundleNext
     /\ UNCHANGED <<friendVars, warrantyVars, codeVars, billingVars>>
  \/ /\ Only("billing")
     /\ BillingNext
     /\ UNCHANGED <<friendVars, warrantyVars, codeVars, bundleVars>>

(* The scheduler repeats its cycle, its hourly job runs, time passes, and  *)
(* a transaction that has begun ends.                                      *)
CommerceFairness ==
  /\ \A x \in Claims : SF_warrantyVars(part = "warranty" /\ Trip(x))
  /\ \A x \in Claims : WF_warrantyVars(part = "warranty" /\ ParcelLeaseLapses(x))
  /\ \A r \in Reservations :
       WF_codeVars(part \in {"codes", "taps"} /\ ~Poisoned /\ OverdueExpires(r))
  /\ \A p \in Purchases : WF_bundleVars(part = "bundles" /\ DeadlinePasses(p))
  /\ \A p \in Purchases : WF_bundleVars(part = "bundles" /\ ExpirePurchases(p))
  /\ WF_billingVars(part = "billing" /\ EnforceOverdue)
  /\ \A t \in Transfers : WF_billingVars(part = "billing" /\ ApproveTransfer(t))

CommerceSpec == CommerceInit /\ [][CommerceNext]_commerceVars /\ CommerceFairness

-----------------------------------------------------------------------------
(* What is held for a customer, a mailbox by a reservation or an item by a *)
(* bundle, is not held for ever by one who does not get or pay for it.     *)
HeldIsReleased == ReservationEnds /\ HoldsEnd

(* Every row of every part has a value of its type.                        *)
CommerceTypeOK ==
  TypeOK /\ WarrantyTypeOK /\ CodeTypeOK /\ BundleTypeOK /\ BillingTypeOK
=============================================================================
