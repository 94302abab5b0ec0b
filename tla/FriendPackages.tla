--------------------------- MODULE FriendPackages ---------------------------
(***************************************************************************)
(* One friends-only group: FriendPackageService with the handlers of the   *)
(* members' orders, the reviewer, the gateway and the scheduler.  One      *)
(* stock item is reserved for the group by its creator's order, everybody  *)
(* pays a share into escrow, and the item is sent to all when all paid, or *)
(* everybody gets the money back after a day.                              *)
(*                                                                         *)
(* join, mark_order_paid and expire_groups lock the group's row before     *)
(* they read its members: an action is a whole transaction.                *)
(***************************************************************************)
EXTENDS Naturals, FiniteSetsExt, Workflow

CONSTANTS
  Friends,      (* students who may join                                   *)
  Creator,      (* the one who opens the group                             *)
  Required,     (* required_members                                        *)
  Price,        (* Offer.price_iqd, shared by the members                  *)
  Fee,          (* bot_fee_per_member_iqd, paid by each                    *)
  Autoflush     (* autoflush settings to look at: the session factory of   *)
                (* app/core/database.py says FALSE; with TRUE the group    *)
                (* works as the comment in mark_order_paid intends         *)

ASSUME GroupAssumption ==
  /\ IsFiniteSet(Friends)
  /\ Creator \in Friends
  /\ Required \in Nat \ {0, 1}
  /\ Price \in Nat
  /\ Fee \in Nat
  /\ Autoflush \subseteq BOOLEAN

VARIABLES
  group,         (* FriendGroup.status, "none" before it is opened         *)
  lapsed,        (* has FriendGroup.expires_at passed?                     *)
  member,        (* FriendGroupMember.status, "none" without a row         *)
  index,         (* FriendGroupMember.member_index                         *)
  order,         (* status of the member's order                           *)
  paid_members,  (* FriendGroup.paid_members                               *)
  escrow,        (* escrow_service_iqd + escrow_bot_fee_iqd                *)
  wallet,        (* refunds credited to the member's wallet                *)
  job,           (* the member's DeliveryJob                               *)
  item,          (* the group's inventory item and who reserved it         *)
  autoflush      (* does a query see the changes not flushed yet?          *)

vars == <<group, lapsed, member, index, order, paid_members, escrow, wallet, job,
          item, autoflush>>

TypeOK ==
  /\ group \in {"none", "open", "delivering", "delivered", "expired"}
  /\ lapsed \in BOOLEAN
  /\ member \in [Friends -> {"none", "awaiting_payment", "paid", "delivered",
                             "refunded", "cancelled"}]
  /\ index \in [Friends -> 0..(Required - 1)]
  /\ order \in [Friends -> OrderStatus]
  /\ paid_members \in 0..Required
  /\ escrow \in Nat
  /\ wallet \in [Friends -> Nat]
  /\ job \in [Friends -> {"none", "pending", "sent"}]
  /\ item \in {"available", "group", "other", "delivered"}
  /\ autoflush \in BOOLEAN

Init ==
  /\ group = "none"
  /\ lapsed = FALSE
  /\ member = [f \in Friends |-> "none"]
  /\ index = [f \in Friends |-> 0]
  /\ order = [f \in Friends |-> "draft"]
  /\ paid_members = 0
  /\ escrow = 0
  /\ wallet = [f \in Friends |-> 0]
  /\ job = [f \in Friends |-> "none"]
  /\ item = "available"
  /\ autoflush \in Autoflush

-----------------------------------------------------------------------------
(* Helpers *)

\* service_share_for_index: the first positions pay the remainder.
Share(i) == Price \div Required + (IF i < Price % Required THEN 1 ELSE 0)

Members == {f \in Friends : member[f] # "none"}
PaidSet == {f \in Friends : member[f] \in {"paid", "delivered"}}
Payable == {"waiting_payment", "payment_rejected", "payment_review"}

\* An item in status RESERVED, for the group's order or for somebody else's.
Reserved == item \in {"group", "other"}

\* Paid members whose orders the workflow does not let into the outbox.
Stuck(f) == {g \in PaidSet \ {f} : ~CanMove(order[g], "waiting_fulfillment")}

\* Members that _complete_group reaches, in an order that the query does not
\* fix: all of them, or any before the first one whose move is refused.
Served(f) ==
  LET now == PaidSet \cup {f} IN
  IF Stuck(f) = {} THEN {now} ELSE SUBSET (now \ Stuck(f))

\* _complete_group: escrow is released, the served orders go to the outbox.
CompleteGroup(f, served) ==
  /\ group' = "delivering"
  /\ escrow' = 0
  /\ order' = [g \in Friends |-> IF g \in served THEN "waiting_fulfillment"
                                 ELSE IF g = f THEN "paid" ELSE order[g]]
  /\ job' = [g \in Friends |-> IF g \in served THEN "pending" ELSE job[g]]

\* Mutant of MarkPaid: the deposit of a member is booked without the fee.
MarkPaid_NoFee(f, served) ==
  /\ group = "open"
  /\ member' = [member EXCEPT ![f] = "paid"]
  /\ order' = [order EXCEPT ![f] = "paid"]
  /\ escrow' = escrow + Share(index[f])
  /\ paid_members' = Cardinality(PaidSet \cup {f})
  /\ UNCHANGED <<group, job>>

\* Mutant of MarkPaid: the group is complete one payment early.
MarkPaid_CompletesEarly(f, served) ==
  /\ group = "open"
  /\ member' = [member EXCEPT ![f] = "paid"]
  /\ paid_members' = Cardinality(PaidSet \cup {f})
  /\ IF paid_members' + 1 >= Required
     THEN CompleteGroup(f, served)
     ELSE /\ order' = [order EXCEPT ![f] = "paid"]
          /\ escrow' = escrow + Share(index[f]) + Fee
          /\ UNCHANGED <<group, job>>

\* Does the payment of f complete the group?  The members are counted by a
\* query, and without autoflush it does not see f's new status yet.
Counted(f) == Cardinality(IF autoflush THEN PaidSet \cup {f} ELSE PaidSet)

Completes(f) == Counted(f) >= Required /\ Cardinality(PaidSet \cup {f}) = Required

\* mark_order_paid on an order that just became PAID.
MarkPaid(f, served) ==
  /\ group = "open"
  /\ member' = [member EXCEPT ![f] = "paid"]
  /\ paid_members' = Min({Required, Counted(f)})
  /\ IF Completes(f)
     THEN CompleteGroup(f, served)
     ELSE /\ order' = [order EXCEPT ![f] = "paid"]
          /\ escrow' = escrow + Share(index[f]) + Fee
          /\ UNCHANGED <<group, job>>

\* _add_member: the next free position.
AddMember(f) ==
  /\ member' = [member EXCEPT ![f] = "awaiting_payment"]
  /\ index' = [index EXCEPT ![f] = Cardinality(Members)]
  /\ order' = [order EXCEPT ![f] = "waiting_payment"]

-----------------------------------------------------------------------------
(* The students *)

OpenGroup ==
  /\ group = "none"
  /\ item = "available"
  /\ group' = "open"
  /\ item' = "group"
  /\ AddMember(Creator)
  /\ UNCHANGED <<lapsed, paid_members, escrow, wallet, job, autoflush>>

\* Mutant of Join: the seats are not counted.
Join_Unbounded(f) ==
  /\ group = "open" /\ ~lapsed
  /\ member[f] = "none"
  /\ AddMember(f)
  /\ UNCHANGED <<group, lapsed, paid_members, escrow, wallet, job, item, autoflush>>

\* join: the row of a member who cancelled still takes a seat.
Join(f) ==
  /\ group = "open" /\ ~lapsed
  /\ member[f] = "none"
  /\ Cardinality(Members) < Required
  /\ AddMember(f)
  /\ UNCHANGED <<group, lapsed, paid_members, escrow, wallet, job, item, autoflush>>

SubmitProof(f) ==
  /\ order[f] \in {"waiting_payment", "payment_rejected"}
  /\ order' = [order EXCEPT ![f] = "payment_review"]
  /\ UNCHANGED <<group, lapsed, member, index, paid_members, escrow, wallet, job, item,
                 autoflush>>

\* cancel_order: release_reservation finds a reservation on the creator's order
\* only, and frees the item while the group stays open.
CancelOrder(f) ==
  /\ order[f] \in {"waiting_payment", "payment_rejected"}
  /\ order' = [order EXCEPT ![f] = "cancelled"]
  /\ item' = IF f = Creator /\ Reserved THEN "available" ELSE item
  /\ UNCHANGED <<group, lapsed, member, index, paid_members, escrow, wallet, job,
                 autoflush>>

\* A paid member asks for support while the group waits.
AskSupport(f) ==
  /\ order[f] # "needs_support"
  /\ CanMove(order[f], "needs_support")
  /\ order' = [order EXCEPT ![f] = "needs_support"]
  /\ UNCHANGED <<group, lapsed, member, index, paid_members, escrow, wallet, job, item,
                 autoflush>>

\* Another student's order reserves the item that was freed.
OtherOrder ==
  /\ group # "none"
  /\ item = "available"
  /\ item' = "other"
  /\ UNCHANGED <<group, lapsed, member, index, order, paid_members, escrow, wallet, job,
                 autoflush>>

-----------------------------------------------------------------------------
(* Payment *)

Reject(f) ==
  /\ order[f] = "payment_review"
  /\ order' = [order EXCEPT ![f] = "payment_rejected"]
  /\ UNCHANGED <<group, lapsed, member, index, paid_members, escrow, wallet, job, item,
                 autoflush>>

\* process_gateway_notification: the order becomes PAID and mark_order_paid
\* runs in the same transaction, which rolls back when it raises.
CardPaid(f) ==
  /\ order[f] \in Payable
  /\ Completes(f) => Stuck(f) = {}
  /\ MarkPaid(f, PaidSet \cup {f})
  /\ UNCHANGED <<lapsed, index, wallet, item, autoflush>>

\* review_confirm_final: the handler catches the error of mark_order_paid, and
\* what was done up to it is committed.  An order to be reviewed is one of an
\* open group, as expire_groups ends the orders of all members and a complete
\* group has none; the refusal of a group that is not open is never met.
ConfirmProof(f) ==
  /\ order[f] = "payment_review"
  /\ \E served \in Served(f) : MarkPaid(f, served)
  /\ UNCHANGED <<lapsed, index, wallet, item, autoflush>>

-----------------------------------------------------------------------------
(* The scheduler *)

Lapse ==
  /\ group = "open"
  /\ ~lapsed
  /\ lapsed' = TRUE
  /\ UNCHANGED <<group, member, index, order, paid_members, escrow, wallet, job, item,
                 autoflush>>

\* The status expire_groups gives to a member's order.
Ending(f) == IF member[f] = "paid" THEN "refunded" ELSE "cancelled"

\* Mutant of ExpireGroup: the refund is the share without the bot fee.
ExpireGroup_RefundsShareOnly ==
  /\ group = "open" /\ lapsed
  /\ \A f \in Members : CanMove(order[f], Ending(f))
  /\ group' = "expired"
  /\ escrow' = 0
  /\ order' = [f \in Friends |-> IF f \in Members THEN Ending(f) ELSE order[f]]
  /\ member' = [f \in Friends |-> IF f \in Members THEN Ending(f) ELSE member[f]]
  /\ wallet' = [f \in Friends |-> wallet[f] +
                  (IF member[f] = "paid" THEN Share(index[f]) ELSE 0)]
  /\ item' = IF Reserved THEN "available" ELSE item
  /\ UNCHANGED <<lapsed, index, paid_members, job, autoflush>>

\* expire_groups: one change_status that the workflow refuses makes the whole
\* scheduler cycle roll back.
ExpireGroup ==
  /\ group = "open" /\ lapsed
  /\ \A f \in Members : CanMove(order[f], Ending(f))
  /\ group' = "expired"
  /\ escrow' = 0
  /\ order' = [f \in Friends |-> IF f \in Members THEN Ending(f) ELSE order[f]]
  /\ member' = [f \in Friends |-> IF f \in Members THEN Ending(f) ELSE member[f]]
  /\ wallet' = [f \in Friends |-> wallet[f] +
                  (IF member[f] = "paid" THEN Share(index[f]) + Fee ELSE 0)]
  /\ item' = IF Reserved THEN "available" ELSE item
  /\ UNCHANGED <<lapsed, index, paid_members, job, autoflush>>

\* process_next_delivery on a friend_group_delivery job; the item stays in
\* status RESERVED until the last member has it.
Deliver(f) ==
  LET done == \A g \in Members \ {f} : member[g] = "delivered" IN
  /\ job[f] = "pending"
  /\ CanMove(order[f], "delivered")
  /\ job' = [job EXCEPT ![f] = "sent"]
  /\ member' = [member EXCEPT ![f] = "delivered"]
  /\ order' = [order EXCEPT ![f] = "delivered"]
  /\ group' = IF done THEN "delivered" ELSE group
  /\ item' = IF done THEN "delivered" ELSE IF item = "other" THEN "other" ELSE "group"
  /\ UNCHANGED <<lapsed, index, paid_members, escrow, wallet, autoflush>>

-----------------------------------------------------------------------------

Next ==
  \/ OpenGroup \/ OtherOrder \/ Lapse \/ ExpireGroup
  \/ \E f \in Friends :
       \/ Join(f) \/ SubmitProof(f) \/ CancelOrder(f) \/ AskSupport(f)
       \/ Reject(f) \/ CardPaid(f) \/ ConfirmProof(f) \/ Deliver(f)

Spec == Init /\ [][Next]_vars

\* Every scheduler cycle runs expire_groups.
FairSpec == Spec /\ WF_vars(ExpireGroup)

-----------------------------------------------------------------------------
(* What is checked *)

\* What each member pays for the account, and pays in all.
Shares == [f \in Friends |-> Share(index[f])]
Deposits == [f \in Friends |-> Shares[f] + Fee]

\* Escrow holds exactly what the paid members of an open group deposited, and
\* nothing once the group was completed or expired; and a full group collects
\* the price to the dinar: concurrent joins never give two members one
\* position, and the shares add up.
EscrowExact ==
  /\ escrow = IF group = "open" THEN SumFunctionOnSet(Deposits, PaidSet) ELSE 0
  /\ Cardinality(Members) = Required => SumFunctionOnSet(Shares, Members) = Price

\* Every member is refunded the whole deposit once, and nobody else anything.
RefundsExact ==
  \A f \in Friends :
    wallet[f] = IF member[f] = "refunded" THEN Share(index[f]) + Fee ELSE 0

\* The account is sent to nobody before all the members have paid.
AllPaidBeforeDelivery ==
  (\E f \in Friends : job[f] # "none") => Cardinality(PaidSet) = Required

-----------------------------------------------------------------------------
(* What the code's comment and the documents say and the code does not keep *)

\* The comment in mark_order_paid: the aggregate query includes the current
\* member, so the counter of an open group is up to date.
CountIncludesPayer == group = "open" => paid_members = Cardinality(PaidSet)

\* A group whose time is over is cancelled and refunded.
LapsedGroupEnds == (group = "open" /\ lapsed) ~> group = "expired"

=============================================================================
