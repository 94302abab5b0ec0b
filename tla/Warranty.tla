------------------------------ MODULE Warranty ------------------------------
(***************************************************************************)
(* Warranty claims on one delivered subscription: the student opens a      *)
(* claim, the provider's staff allow a new code, answer in text or reserve *)
(* a replacement account, the delivery outbox sends that account, and the  *)
(* student confirms or complains from the buttons of a message.            *)
(*                                                                         *)
(* A staff handler loads the claim before it checks the access and locks   *)
(* the row, and the lock does not refresh what was loaded; the courier     *)
(* loads claim and order before it sends.  What both write therefore rests *)
(* on statuses that may be stale.  Sessions do not write a column that is  *)
(* set to the value they loaded.                                           *)
(***************************************************************************)
EXTENDS Naturals, FiniteSets, Owners

CONSTANTS
  Claims,            (* ids of the claims the student may open, in order    *)
  Spares,            (* inventory items of the offer, in the order of sale  *)
  First,             (* the item the subscription was sold with             *)
  Staff,             (* provider handlers that run at the same time         *)
  MaxTripFaults      (* bound: courier crashes and refused messages         *)

ASSUME WarrantyAssumption ==
  /\ Claims \subseteq Nat /\ Spares \subseteq Nat
  /\ First \notin Spares /\ Nobody \notin Spares \cup Claims
  /\ MaxTripFaults \in Nat

VARIABLES
  sold,              (* status of the order the subscription belongs to     *)
  bound,             (* inventory_item_id of the subscription               *)
  spare,             (* status of each other item                           *)
  claim,             (* WarrantyClaim.status                                *)
  replacement,       (* WarrantyReplacement.new_inventory_item_id           *)
  parcel,            (* DeliveryJob.status of the replacement               *)
  proved,            (* is there a committed row for its message?           *)
  buttons,           (* claims whose confirm and problem buttons the        *)
                     (* student holds                                       *)
  desk,              (* what each staff handler loaded                      *)
  trip,              (* what the courier loaded                             *)
  trip_faults

parcelVars == <<parcel, proved>>
tripVars == <<trip, trip_faults>>
warrantyVars ==
  <<sold, bound, spare, claim, replacement, parcelVars, buttons, desk, tripVars>>

(* "open" also stands for IN_REVIEW: no handler tells them apart. *)
Active == {"open", "waiting_action", "waiting_confirm"}
ClaimStatus == Active \cup {"none", "resolved"}
(* The items whose credentials the student was sent. *)
Received == {First} \cup {replacement[c] : c \in {d \in Claims : proved[d]}}

Idle == [claim |-> Nobody, saw |-> "none"]
Parked == [claim |-> Nobody, saw |-> "none", order |-> "none", sent |-> FALSE]

WarrantyTypeOK ==
  /\ sold \in {"delivered", "completed", "needs_support"}
  /\ bound \in Spares \cup {First}
  /\ spare \in [Spares -> {"available", "reserved", "delivered", "taken"}]
  /\ claim \in [Claims -> ClaimStatus]
  /\ replacement \in [Claims -> Spares \cup {Nobody}]
  /\ parcel \in [Claims -> {"none", "pending", "leased", "lapsed", "sent", "failed"}]
  /\ proved \in [Claims -> BOOLEAN]
  /\ buttons \subseteq Claims
  /\ desk \in [Staff -> [claim : Claims \cup {Nobody}, saw : ClaimStatus]]
  /\ trip.claim \in Claims \cup {Nobody} /\ trip.sent \in BOOLEAN
  /\ trip_faults \in 0..MaxTripFaults

WarrantyInit ==
  /\ sold = "delivered"
  /\ bound = First
  /\ spare = [i \in Spares |-> "available"]
  /\ claim = [c \in Claims |-> "none"]
  /\ replacement = [c \in Claims |-> Nobody]
  /\ parcel = [c \in Claims |-> "none"]
  /\ proved = [c \in Claims |-> FALSE]
  /\ buttons = {}
  /\ desk = [s \in Staff |-> Idle]
  /\ trip = Parked
  /\ trip_faults = 0

-----------------------------------------------------------------------------
(* The claim row.                                                          *)

OtherActive(c) == \E d \in Claims \ {c} : claim[d] \in Active

(* A session that loaded status "saw" sets the claim to "new".  The unique *)
(* index on the active claims of a subscription refuses a second one, and  *)
(* with it the whole transaction.                                          *)
SetClaim(c, saw, new) ==
  LET row == IF saw = new THEN claim[c] ELSE new
  IN /\ ~(row \in Active /\ OtherActive(c))
     /\ claim' = [claim EXCEPT ![c] = row]

Refused(c, saw, new) == saw # new /\ OtherActive(c)

-----------------------------------------------------------------------------
(* The student.                                                            *)

(* open_claim, with eligibility under the lock of the subscription.  The   *)
(* covered period may end at any time, after which no claim is opened.     *)
OpenClaim(c) ==
  /\ claim[c] = "none"
  /\ \A d \in Claims : d < c => claim[d] # "none"
  /\ ~OtherActive(c)
  /\ claim' = [claim EXCEPT ![c] = "open"]
  /\ UNCHANGED <<sold, bound, spare, replacement, parcelVars, buttons,
                 desk, tripVars>>

(* student_confirm_success rebinds the subscription to the replacement. *)
StudentConfirms(c) ==
  /\ c \in buttons
  /\ claim[c] \in {"waiting_confirm", "waiting_action"}
  /\ claim' = [claim EXCEPT ![c] = "resolved"]
  /\ bound' = IF replacement[c] # Nobody THEN replacement[c] ELSE bound
  /\ UNCHANGED <<sold, spare, replacement, parcelVars, buttons, desk,
                 tripVars>>

(* student_reports_problem looks at no status: an old button reopens a     *)
(* resolved claim.                                                         *)
StudentReports(c) ==
  /\ c \in buttons
  /\ SetClaim(c, claim[c], "open")
  /\ UNCHANGED <<sold, bound, spare, replacement, parcelVars, buttons,
                 desk, tripVars>>

-----------------------------------------------------------------------------
(* The provider's staff.                                                   *)

LoadClaim(s, c) ==
  /\ desk[s] = Idle
  /\ claim[c] # "none"
  /\ desk' = [desk EXCEPT ![s] = [claim |-> c, saw |-> claim[c]]]
  /\ UNCHANGED <<sold, bound, spare, claim, replacement, parcelVars, buttons, tripVars>>

Leave(s) == desk' = [desk EXCEPT ![s] = Idle]

(* _lock_claim checks the status that was loaded. *)
LockClaim(s, new) ==
  /\ desk[s].saw \in Active
  /\ SetClaim(desk[s].claim, desk[s].saw, new)
  /\ Leave(s)

(* A closed claim, a refused transaction, a handler without access. *)
GiveUpClaim(s) ==
  /\ desk[s] # Idle
  /\ Leave(s)
  /\ UNCHANGED <<sold, bound, spare, claim, replacement, parcelVars, buttons, tripVars>>

AllowNewOtp(s) ==
  /\ LockClaim(s, "waiting_action")
  /\ UNCHANGED <<sold, bound, spare, replacement, parcelVars, buttons,
                 tripVars>>

(* The message carries the buttons that confirm or complain. *)
TextResponse(s) ==
  /\ LockClaim(s, "waiting_confirm")
  /\ buttons' = buttons \cup {desk[s].claim}
  /\ UNCHANGED <<sold, bound, spare, replacement, parcelVars, tripVars>>

FirstAvailable(i) ==
  /\ spare[i] = "available"
  /\ \A k \in Spares : spare[k] = "available" => i <= k

AllocateReplacement_AnyItem(s) ==
  LET c == desk[s].claim
  IN /\ LockClaim(s, "waiting_confirm")
     /\ replacement[c] = Nobody
     /\ \E i \in Spares :
          /\ spare[i] \in {"available", "reserved"}
          /\ spare' = [spare EXCEPT ![i] = "reserved"]
          /\ replacement' = [replacement EXCEPT ![c] = i]
     /\ parcel' = [parcel EXCEPT ![c] = "pending"]
     /\ UNCHANGED <<sold, bound, proved, buttons, tripVars>>

(* change_status refuses waiting_fulfillment for an order that was once    *)
(* delivered; the handler answers with the text of that error, and what    *)
(* was done before it is committed all the same.                           *)
AllocateReplacement(s) ==
  LET c == desk[s].claim
  IN /\ LockClaim(s, "waiting_confirm")
     /\ replacement[c] = Nobody
     /\ \E i \in Spares :
          /\ FirstAvailable(i)
          /\ spare' = [spare EXCEPT ![i] = "reserved"]
          /\ replacement' = [replacement EXCEPT ![c] = i]
     /\ parcel' = [parcel EXCEPT ![c] = "pending"]
     /\ UNCHANGED <<sold, bound, proved, buttons, tripVars>>

AllocateAgain(s) ==
  /\ LockClaim(s, "waiting_confirm")
  /\ replacement[desk[s].claim] # Nobody
  /\ UNCHANGED <<sold, bound, spare, replacement, parcelVars, buttons,
                 tripVars>>

-----------------------------------------------------------------------------
(* The courier: process_next_delivery for a warranty_replacement job.      *)

Due_OnlyPending(c) == parcel[c] = "pending"
Due(c) == parcel[c] \in {"pending", "lapsed"}

Fault == trip_faults < MaxTripFaults /\ trip_faults' = trip_faults + 1

SetOut(c) ==
  /\ trip = Parked
  /\ Due(c)
  /\ parcel' = [parcel EXCEPT ![c] = "leased"]
  /\ trip' = [claim |-> c, saw |-> claim[c], order |-> sold, sent |-> FALSE]
  /\ UNCHANGED <<sold, bound, spare, claim, replacement, proved, buttons,
                 desk, trip_faults>>

OnTrip(c, sent) == trip.claim = c /\ trip.sent = sent

(* send_user, and the commit of its proof; a proved message is not sent    *)
(* again.                                                                  *)
SendParcel(c) ==
  /\ OnTrip(c, FALSE)
  /\ trip' = [trip EXCEPT !.sent = TRUE]
  /\ proved' = [proved EXCEPT ![c] = TRUE]
  /\ buttons' = buttons \cup {c}
  /\ UNCHANGED <<sold, bound, spare, claim, replacement, parcel, desk, trip_faults>>

(* Telegram refuses.  After the last attempt, which is not counted here,   *)
(* the order goes to support, which a completed order does not allow: then *)
(* nothing is committed.                                                   *)
ParcelRefused(c) ==
  /\ OnTrip(c, FALSE) /\ ~proved[c]
  /\ Fault
  /\ trip' = Parked
  /\ \/ parcel' = [parcel EXCEPT ![c] = "pending"] /\ UNCHANGED sold
     \/ /\ trip.order # "completed"
        /\ parcel' = [parcel EXCEPT ![c] = "failed"]
        /\ sold' = IF trip.order = "delivered" THEN "needs_support" ELSE sold
     \/ trip.order = "completed" /\ UNCHANGED <<parcel, sold>>
  /\ UNCHANGED <<bound, spare, claim, replacement, proved, buttons, desk>>

FinishParcel(c) ==
  /\ OnTrip(c, TRUE)
  /\ trip.order # "completed"
  /\ SetClaim(c, trip.saw, "waiting_confirm")
  /\ parcel' = [parcel EXCEPT ![c] = "sent"]
  /\ spare' = [spare EXCEPT ![replacement[c]] = "delivered"]
  /\ sold' = IF trip.order = "delivered" THEN sold ELSE "delivered"
  /\ trip' = Parked
  /\ UNCHANGED <<bound, replacement, proved, buttons, desk, trip_faults>>

(* The order is completed and does not go back to delivered, or the index  *)
(* refuses the claim: the exception ends the cycle, the job stays leased.  *)
FinishRaises(c) ==
  /\ OnTrip(c, TRUE)
  /\ trip.order = "completed" \/ Refused(c, trip.saw, "waiting_confirm")
  /\ trip' = Parked
  /\ UNCHANGED <<sold, bound, spare, claim, replacement, parcelVars, buttons, desk,
                 trip_faults>>

TripCrash ==
  /\ trip # Parked
  /\ Fault
  /\ trip' = Parked
  /\ UNCHANGED <<sold, bound, spare, claim, replacement, parcelVars, buttons, desk>>

ParcelLeaseLapses(c) ==
  /\ parcel[c] = "leased" /\ trip.claim # c
  /\ parcel' = [parcel EXCEPT ![c] = "lapsed"]
  /\ UNCHANGED <<sold, bound, spare, claim, replacement, proved, buttons, desk, tripVars>>

-----------------------------------------------------------------------------
(* What else happens to the order and the items.                           *)

(* complete_order: confirm_activation. *)
CompleteOrder ==
  /\ sold = "delivered"
  /\ sold' = "completed"
  /\ UNCHANGED <<bound, spare, claim, replacement, parcelVars, buttons,
                 desk, tripVars>>

(* order_problem_reason; a completed order does not go to support. *)
OrderProblem ==
  /\ sold \in {"delivered", "needs_support"}
  /\ sold' = "needs_support"
  /\ UNCHANGED <<bound, spare, claim, replacement, parcelVars, buttons,
                 desk, tripVars>>

(* Another order of the offer reserves the item. *)
OtherOrderTakes(i) ==
  /\ FirstAvailable(i)
  /\ spare' = [spare EXCEPT ![i] = "taken"]
  /\ UNCHANGED <<sold, bound, claim, replacement, parcelVars, buttons,
                 desk, tripVars>>

-----------------------------------------------------------------------------
Respond(s) ==
  AllowNewOtp(s) \/ TextResponse(s) \/ AllocateReplacement(s) \/ AllocateAgain(s)

Trip(c) == SetOut(c) \/ SendParcel(c) \/ FinishParcel(c) \/ FinishRaises(c)

WarrantyNext ==
  \/ \E c \in Claims :
       \/ OpenClaim(c) \/ StudentConfirms(c) \/ StudentReports(c)
       \/ \E s \in Staff : LoadClaim(s, c)
       \/ Trip(c) \/ ParcelRefused(c) \/ ParcelLeaseLapses(c)
  \/ \E s \in Staff : desk[s] # Idle /\ (Respond(s) \/ GiveUpClaim(s))
  \/ TripCrash
  \/ CompleteOrder \/ OrderProblem
  \/ \E i \in Spares : OtherOrderTakes(i)

(* The scheduler repeats its cycle, and time passes.  A job whose last     *)
(* step raised is leased for longer than a cycle, so that the next cycle   *)
(* takes another job.                                                      *)
WarrantyFairness ==
  \A c \in Claims : SF_warrantyVars(Trip(c)) /\ WF_warrantyVars(ParcelLeaseLapses(c))

WarrantySpec == WarrantyInit /\ [][WarrantyNext]_warrantyVars

-----------------------------------------------------------------------------
(* Properties.                                                             *)

(* An account reserved for a warranty belongs to one claim, which still    *)
(* has to receive it; an account a claim received is sold to no one else.  *)
ReplacementsOwned ==
  /\ \A c, d \in Claims :
       replacement[c] = replacement[d] /\ c # d => replacement[c] = Nobody
  /\ \A c \in Claims : replacement[c] # Nobody =>
       spare[replacement[c]] = IF parcel[c] = "sent" THEN "delivered" ELSE "reserved"
  /\ \A i \in Spares : spare[i] = "reserved" => \E c \in Claims : replacement[c] = i

(* A reserved replacement is sent or given up, unless the order was        *)
(* completed, which the courier's last step refuses again and again, or    *)
(* another claim holds the place of this one.                              *)
ReplacementFinishes ==
  \A c \in Claims : parcel[c] \in {"pending", "leased", "lapsed"} ~>
    \/ parcel[c] \in {"sent", "failed"}
    \/ sold = "completed"
    \/ OtherActive(c)
=============================================================================
