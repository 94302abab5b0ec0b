---------------------------- MODULE SaleContract ----------------------------
(***************************************************************************)
(* What the shop promises about one sale, whatever happens in between:     *)
(* goods are handed over only against money that was received, and each is *)
(* recorded once.  OrderFlow is shown to implement this specification.     *)
(***************************************************************************)

CONSTANT Orders

VARIABLES
  paid,    (* orders for which a confirmed payment is recorded             *)
  handed   (* orders whose goods were sent to the student                  *)

TypeOK == paid \subseteq Orders /\ handed \subseteq Orders

Init == paid = {} /\ handed = {}

ReceiveMoney(o) ==
  /\ o \notin paid
  /\ paid' = paid \cup {o}
  /\ UNCHANGED handed

HandOver(o) ==
  /\ o \in paid \ handed
  /\ handed' = handed \cup {o}
  /\ UNCHANGED paid

Next == \E o \in Orders : ReceiveMoney(o) \/ HandOver(o)

Spec == Init /\ [][Next]_<<paid, handed>>

=============================================================================
