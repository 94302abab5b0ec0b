----------------------- MODULE FriendPackages_proofs -----------------------
(***************************************************************************)
(* Theorems about FriendPackages, for every finite set of friends, size of *)
(* group, price and fee, with and without autoflush.                       *)
(***************************************************************************)
EXTENDS FriendPackages, SumTheorems

Status == {"none", "awaiting_payment", "paid", "delivered", "refunded", "cancelled"}

(* What the status of the group says of its members: an open group has     *)
(* shipped and refunded nothing, a completed one has all its payments, and *)
(* only a completed one has jobs.                                          *)
Stage ==
  /\ group = "none" => \A f \in Friends : member[f] = "none"
  /\ group = "open" => \A f \in Friends : member[f] \in {"none", "awaiting_payment", "paid"}
  /\ group \in {"delivering", "delivered"} =>
       Cardinality(PaidSet) = Required /\ \A f \in Friends : member[f] # "refunded"
  /\ \A f \in Friends :
       job[f] # "none" => f \in PaidSet /\ group \in {"delivering", "delivered"}

GroupInv == TypeOK /\ Stage /\ RefundsExact

-----------------------------------------------------------------------------
(* Helpers *)

LEMMA ShareType ==
  ASSUME NEW i \in 0..(Required - 1)
  PROVE  Share(i) \in Nat
<1>1. Price \div Required \in Nat /\ Price % Required \in Nat
  BY GroupAssumption
<1> QED BY <1>1 DEF Share

LEMMA CountType ==
  /\ Cardinality(PaidSet) \in Nat /\ Cardinality(Members) \in Nat
  /\ \A f \in Friends : Counted(f) \in Nat
<1>1. IsFiniteSet(Friends)
  BY GroupAssumption
<1>2. \A S \in SUBSET Friends : Cardinality(S) \in Nat
  BY <1>1, FS_Subset, FS_CardinalityType
<1>3. PaidSet \subseteq Friends /\ Members \subseteq Friends
  BY DEF PaidSet, Members
<1>4. \A f \in Friends : PaidSet \cup {f} \subseteq Friends
  BY <1>3
<1> QED BY <1>2, <1>3, <1>4 DEF Counted

LEMMA MinType ==
  ASSUME NEW m \in Nat, NEW n \in Nat
  PROVE  Min({m, n}) \in 0..m
<1>1. \E x \in {m, n} : \A y \in {m, n} : x =< y
  <2>1. CASE m =< n
    BY <2>1
  <2>2. CASE n =< m
    BY <2>2
  <2> QED BY <2>1, <2>2
<1>2. Min({m, n}) \in {m, n} /\ \A y \in {m, n} : Min({m, n}) =< y
  BY <1>1 DEF Min
<1> QED BY <1>2

(* A payment: the member counts as paid, and either the group is complete  *)
(* or nothing is shipped.                                                  *)
LEMMA MarkPaidStep ==
  ASSUME GroupInv, NEW f \in Friends, NEW served \in SUBSET (PaidSet \cup {f}),
         MarkPaid(f, served), UNCHANGED <<lapsed, index, wallet, item, autoflush>>
  PROVE  GroupInv'
<1> USE DEF GroupInv
<1>1. group = "open" /\ member' = [member EXCEPT ![f] = "paid"]
  BY DEF MarkPaid
<1>2. PaidSet' = PaidSet \cup {f}
  BY <1>1 DEF PaidSet, TypeOK
<1>3. served \subseteq Friends
  BY DEF PaidSet
<1>4. member' \in [Friends -> Status] /\ paid_members' \in 0..Required
  <2>1. member' \in [Friends -> Status]
    BY <1>1 DEF TypeOK, Status
  <2>2. paid_members' \in 0..Required
    BY CountType, MinType, GroupAssumption DEF MarkPaid
  <2> QED BY <2>1, <2>2
<1>5. \A g \in Friends : member'[g] \in {"none", "awaiting_payment", "paid"}
  BY <1>1 DEF Stage, TypeOK
<1>6. \A g \in Friends : job[g] = "none"
  BY <1>1 DEF Stage
<1>7. CASE Completes(f)
  <2>1. /\ group' = "delivering" /\ escrow' = 0
        /\ order' = [g \in Friends |-> IF g \in served THEN "waiting_fulfillment"
                                       ELSE IF g = f THEN "paid" ELSE order[g]]
        /\ job' = [g \in Friends |-> IF g \in served THEN "pending" ELSE job[g]]
    BY <1>7 DEF MarkPaid, CompleteGroup
  <2>2. order' \in [Friends -> OrderStatus]
    BY <2>1 DEF TypeOK, OrderStatus
  <2>3. job' \in [Friends -> {"none", "pending", "sent"}]
    BY <2>1 DEF TypeOK
  <2>4. TypeOK'
    BY <1>4, <2>1, <2>2, <2>3 DEF TypeOK, Status
  <2>5. Cardinality(PaidSet') = Required
    BY <1>2, <1>7 DEF Completes
  <2>6. \A g \in Friends : job'[g] # "none" => g \in PaidSet'
    BY <1>2, <1>6, <2>1
  <2>7. Stage'
    BY <1>5, <2>1, <2>5, <2>6 DEF Stage
  <2>8. RefundsExact'
    BY <1>1, <1>5 DEF RefundsExact, Stage, Share
  <2> QED BY <2>4, <2>7, <2>8
<1>8. CASE ~Completes(f)
  <2>1. /\ UNCHANGED <<group, job>>
        /\ order' = [order EXCEPT ![f] = "paid"]
        /\ escrow' = escrow + Share(index[f]) + Fee
    BY <1>8 DEF MarkPaid
  <2>2. escrow' \in Nat
    BY <2>1, ShareType, GroupAssumption DEF TypeOK
  <2>3. order' \in [Friends -> OrderStatus]
    BY <2>1 DEF TypeOK, OrderStatus
  <2>4. TypeOK'
    BY <1>4, <2>1, <2>2, <2>3 DEF TypeOK, Status
  <2>5. Stage'
    BY <1>1, <1>5, <1>6, <2>1 DEF Stage
  <2>6. RefundsExact'
    BY <1>1, <1>5 DEF RefundsExact, Stage, Share
  <2> QED BY <2>4, <2>5, <2>6
<1> QED BY <1>7, <1>8

(* A new member comes to an open group.                                    *)
LEMMA AddMemberStep ==
  ASSUME GroupInv, NEW f \in Friends, AddMember(f), member[f] = "none",
         group \in {"none", "open"}, group' = "open",
         Cardinality(Members) < Required, item' \in {item, "group"},
         UNCHANGED <<lapsed, paid_members, escrow, wallet, job, autoflush>>
  PROVE  GroupInv'
<1> USE DEF GroupInv, AddMember
<1>1. index' \in [Friends -> 0..(Required - 1)]
  <2>1. Cardinality(Members) \in 0..(Required - 1)
    BY CountType, GroupAssumption
  <2> QED BY <2>1 DEF TypeOK
<1>2. member' \in [Friends -> Status] /\ order' \in [Friends -> OrderStatus]
  BY DEF TypeOK, Status, OrderStatus
<1>3. TypeOK'
  BY <1>1, <1>2 DEF TypeOK, Status
<1>4. \A g \in Friends : member'[g] \in {"none", "awaiting_payment", "paid"}
  BY DEF Stage, TypeOK
<1>5. \A g \in Friends : job'[g] = "none"
  BY DEF Stage
<1>6. Stage'
  BY <1>4, <1>5 DEF Stage
<1>7. RefundsExact'
  <2>1. ASSUME NEW g \in Friends PROVE wallet'[g] = 0
    BY DEF RefundsExact, Stage
  <2> QED BY <1>4, <2>1 DEF RefundsExact
<1> QED BY <1>3, <1>6, <1>7

(* A step of one order that touches no member, share or job.               *)
LEMMA OrderStep ==
  ASSUME GroupInv, order' \in [Friends -> OrderStatus], lapsed' \in BOOLEAN,
         item' \in {"available", "group", "other", "delivered"},
         UNCHANGED <<group, member, index, paid_members, escrow, wallet, job, autoflush>>
  PROVE  GroupInv'
<1>1. TypeOK'
  BY DEF GroupInv, TypeOK
<1>2. Stage'
  BY DEF GroupInv, Stage, PaidSet
<1>3. RefundsExact'
  BY DEF GroupInv, RefundsExact, Share
<1> QED BY <1>1, <1>2, <1>3 DEF GroupInv

(* The group is over: everybody who paid gets the deposit.                 *)
LEMMA ExpireStep ==
  ASSUME GroupInv, ExpireGroup
  PROVE  GroupInv'
<1> USE DEF GroupInv
<1>1. group = "open" /\ \A f \in Friends : member[f] \in {"none", "awaiting_payment", "paid"}
  BY DEF ExpireGroup, Stage
<1>2. /\ member' = [f \in Friends |-> IF f \in Members THEN Ending(f) ELSE member[f]]
      /\ order' = [f \in Friends |-> IF f \in Members THEN Ending(f) ELSE order[f]]
      /\ wallet' = [f \in Friends |-> wallet[f] +
                      (IF member[f] = "paid" THEN Share(index[f]) + Fee ELSE 0)]
      /\ group' = "expired" /\ escrow' = 0
      /\ UNCHANGED <<lapsed, index, paid_members, job, autoflush>>
  BY DEF ExpireGroup
<1>3. \A f \in Friends : wallet[f] = 0
  BY <1>1 DEF RefundsExact
<1>4. \A f \in Friends : Share(index[f]) + Fee \in Nat
  BY ShareType, GroupAssumption DEF TypeOK
<1>5. \A f \in Friends :
        /\ member'[f] = IF member[f] = "none" THEN "none"
                        ELSE IF member[f] = "paid" THEN "refunded" ELSE "cancelled"
        /\ wallet'[f] = IF member[f] = "paid" THEN Share(index[f]) + Fee ELSE 0
  BY <1>2, <1>3, <1>4 DEF Members, Ending
<1>6. TypeOK'
  <2>1. member' \in [Friends -> Status]
    BY <1>1, <1>2 DEF Ending, Status
  <2>2. order' \in [Friends -> OrderStatus]
    BY <1>2 DEF Ending, OrderStatus, TypeOK
  <2>3. wallet' \in [Friends -> Nat]
    BY <1>2, <1>4 DEF TypeOK
  <2>4. item' \in {"available", "group", "other", "delivered"}
    BY DEF ExpireGroup, TypeOK
  <2> QED BY <1>2, <2>1, <2>2, <2>3, <2>4 DEF TypeOK, Status
<1>7. Stage'
  BY <1>1, <1>2 DEF Stage
<1>8. RefundsExact'
  <2>1. \A f \in Friends : Share(index[f])' = Share(index[f])
    BY <1>2 DEF Share
  <2> QED BY <1>1, <1>2, <1>5, <2>1 DEF RefundsExact, Share
<1> QED BY <1>6, <1>7, <1>8

LEMMA DeliverStep ==
  ASSUME GroupInv, NEW f \in Friends, Deliver(f)
  PROVE  GroupInv'
<1> USE DEF GroupInv
<1>1. /\ job[f] = "pending"
      /\ job' = [job EXCEPT ![f] = "sent"]
      /\ member' = [member EXCEPT ![f] = "delivered"]
      /\ order' = [order EXCEPT ![f] = "delivered"]
      /\ group' \in {group, "delivered"}
      /\ item' \in {"delivered", "other", "group"}
      /\ UNCHANGED <<lapsed, index, paid_members, escrow, wallet, autoflush>>
  BY DEF Deliver
<1>2. f \in PaidSet /\ group \in {"delivering", "delivered"}
  BY <1>1 DEF Stage
<1>3. PaidSet' = PaidSet
  BY <1>1, <1>2 DEF PaidSet, TypeOK
<1>4. \A g \in Friends : member'[g] # "refunded" /\ member[g] # "refunded"
  BY <1>1, <1>2 DEF Stage, TypeOK
<1>5. TypeOK'
  <2>1. /\ member' \in [Friends -> Status] /\ order' \in [Friends -> OrderStatus]
        /\ job' \in [Friends -> {"none", "pending", "sent"}]
    BY <1>1 DEF TypeOK, Status, OrderStatus
  <2> QED BY <1>1, <2>1 DEF TypeOK, Status
<1>6. Stage'
  <2>1. group' \in {"delivering", "delivered"} /\ Cardinality(PaidSet') = Required
    BY <1>1, <1>2, <1>3 DEF Stage
  <2>2. \A g \in Friends : job'[g] # "none" => g \in PaidSet'
    BY <1>1, <1>2, <1>3 DEF Stage, TypeOK
  <2> QED BY <1>4, <2>1, <2>2 DEF Stage
<1>7. RefundsExact'
  BY <1>1, <1>4 DEF RefundsExact
<1> QED BY <1>5, <1>6, <1>7

LEMMA GroupInitially == Init => GroupInv
<1> SUFFICES ASSUME Init PROVE GroupInv
  OBVIOUS
<1>1. TypeOK
  <2>1. index \in [Friends -> 0..(Required - 1)] /\ paid_members \in 0..Required
    BY GroupAssumption DEF Init
  <2>2. /\ member \in [Friends -> Status] /\ order \in [Friends -> OrderStatus]
        /\ wallet \in [Friends -> Nat] /\ escrow \in Nat
        /\ job \in [Friends -> {"none", "pending", "sent"}]
    BY DEF Init, Status, OrderStatus
  <2>3. lapsed \in BOOLEAN /\ autoflush \in BOOLEAN
    BY GroupAssumption DEF Init
  <2> QED BY <2>1, <2>2, <2>3 DEF Init, TypeOK, Status
<1>2. Stage
  BY DEF Init, Stage
<1>3. RefundsExact
  BY DEF Init, RefundsExact
<1> QED BY <1>1, <1>2, <1>3 DEF GroupInv

LEMMA GroupStep == GroupInv /\ [Next]_vars => GroupInv'
<1> SUFFICES ASSUME GroupInv, [Next]_vars PROVE GroupInv'
  OBVIOUS
<1>1. CASE OpenGroup
  <2>1. Members = {}
    BY <1>1 DEF OpenGroup, GroupInv, Stage, Members
  <2>2. Cardinality(Members) < Required
    BY <2>1, FS_EmptySet, GroupAssumption
  <2>3. member[Creator] = "none"
    BY <1>1, GroupAssumption DEF OpenGroup, GroupInv, Stage
  <2> QED BY <1>1, <2>2, <2>3, AddMemberStep, GroupAssumption DEF OpenGroup
<1>2. ASSUME NEW f \in Friends, Join(f) PROVE GroupInv'
  BY <1>2, AddMemberStep DEF Join
<1>3. ASSUME NEW f \in Friends,
             SubmitProof(f) \/ CancelOrder(f) \/ AskSupport(f) \/ Reject(f)
      PROVE  GroupInv'
  <2>1. order' \in [Friends -> OrderStatus]
    BY <1>3 DEF SubmitProof, CancelOrder, AskSupport, Reject, GroupInv, TypeOK, OrderStatus
  <2>2. item' \in {"available", "group", "other", "delivered"} /\ lapsed' \in BOOLEAN
    BY <1>3 DEF SubmitProof, CancelOrder, AskSupport, Reject, GroupInv, TypeOK
  <2>3. UNCHANGED <<group, member, index, paid_members, escrow, wallet, job, autoflush>>
    BY <1>3 DEF SubmitProof, CancelOrder, AskSupport, Reject
  <2> QED BY <2>1, <2>2, <2>3, OrderStep
<1>4. CASE OtherOrder \/ Lapse \/ UNCHANGED vars
  <2>1. /\ order' \in [Friends -> OrderStatus] /\ lapsed' \in BOOLEAN
        /\ item' \in {"available", "group", "other", "delivered"}
    BY <1>4 DEF OtherOrder, Lapse, vars, GroupInv, TypeOK
  <2>2. UNCHANGED <<group, member, index, paid_members, escrow, wallet, job, autoflush>>
    BY <1>4 DEF OtherOrder, Lapse, vars
  <2> QED BY <2>1, <2>2, OrderStep
<1>5. ASSUME NEW f \in Friends, CardPaid(f) PROVE GroupInv'
  <2>1. PaidSet \cup {f} \in SUBSET (PaidSet \cup {f})
    OBVIOUS
  <2> QED BY <1>5, <2>1, MarkPaidStep DEF CardPaid
<1>6. ASSUME NEW f \in Friends, ConfirmProof(f) PROVE GroupInv'
  <2>1. PICK served \in Served(f) : MarkPaid(f, served)
    BY <1>6 DEF ConfirmProof
  <2>2. served \in SUBSET (PaidSet \cup {f})
    BY <2>1 DEF Served
  <2> QED BY <1>6, <2>1, <2>2, MarkPaidStep DEF ConfirmProof
<1>7. ASSUME NEW f \in Friends, Deliver(f) PROVE GroupInv'
  BY <1>7, DeliverStep
<1>8. CASE ExpireGroup
  BY <1>8, ExpireStep
<1> QED BY <1>1, <1>2, <1>3, <1>4, <1>5, <1>6, <1>7, <1>8 DEF Next

-----------------------------------------------------------------------------
(* The escrow                                                              *)

(* Members have the positions 0, 1, ... one each, and only a member who    *)
(* has not paid has an order that can be paid.                             *)
Positions ==
  /\ {index[f] : f \in Members} = 0..(Cardinality(Members) - 1)
  /\ \A f, g \in Members : index[f] = index[g] => f = g

PayersWait == \A f \in Friends : order[f] \in Payable => member[f] = "awaiting_payment"

EscrowInv == GroupInv /\ Positions /\ PayersWait /\ EscrowExact

(* The shares of all the positions add up to the price: the first ones pay *)
(* the remainder.                                                          *)
LEMMA SharesAddUp == SumFunctionOnSet([i \in 0..(Required - 1) |-> Share(i)], 0..(Required - 1)) = Price
<1> DEFINE q == Price \div Required
           m == Price % Required
           w == [i \in 0..(Required - 1) |-> Share(i)]
           First == 0..(m - 1)
           Rest == m..(Required - 1)
<1>1. /\ q \in Nat /\ m \in 0..(Required - 1) /\ Price = Required * q + m
      /\ Required \in Nat /\ Required > 1 /\ Price \in Nat
  BY GroupAssumption
<1>2. /\ First \cup Rest = 0..(Required - 1) /\ First \cap Rest = {}
      /\ \A i \in First : w[i] = q + 1
      /\ \A i \in Rest : w[i] = q
  BY <1>1 DEF Share
<1> HIDE DEF q, w
<1>3. /\ IsFiniteSet(First) /\ Cardinality(First) = m
      /\ IsFiniteSet(Rest) /\ Cardinality(Rest) = Required - m
  <2>1. m \in Nat /\ m - 1 \in Int /\ Required - 1 \in Int /\ m <= Required - 1
    BY <1>1
  <2> HIDE DEF m
  <2>2. IsFiniteSet(0..(m - 1)) /\ Cardinality(0..(m - 1)) = m
    <3> DEFINE b == m - 1
    <3>1. b \in Int /\ 0 \in Int /\ m = IF 0 > b THEN 0 ELSE b - 0 + 1
      BY <2>1
    <3> HIDE DEF b
    <3>2. IsFiniteSet(0..b) /\ Cardinality(0..b) = IF 0 > b THEN 0 ELSE b - 0 + 1
      BY ONLY <3>1, FS_Interval
    <3> QED BY <3>1, <3>2 DEF b
  <2>3. IsFiniteSet(m..(Required - 1)) /\ Cardinality(m..(Required - 1)) = Required - m
    BY <1>1, <2>1, FS_Interval
  <2> QED BY <2>2, <2>3
<1> HIDE DEF m, First, Rest
<1>4. q + 1 \in Int /\ q \in Int
  BY <1>1
<1>5. SumFunctionOnSet(w, First) = (q + 1) * m
  BY <1>2, <1>3, <1>4, SumConstant
<1>6. SumFunctionOnSet(w, Rest) = q * (Required - m)
  BY <1>2, <1>3, <1>4, SumConstant
<1>7. SumFunctionOnSet(w, First \cup Rest) = (q + 1) * m + q * (Required - m)
  <2>1. \A i \in First \cup Rest : w[i] \in Int
    BY <1>2, <1>4
  <2> QED BY <2>1, <1>2, <1>3, <1>5, <1>6, SumDisjoint
<1>8. \A a, b, c \in Int : (a + 1) * b + a * (c - b) = c * a + b
  OBVIOUS
<1>9. (q + 1) * m + q * (Required - m) = Required * q + m
  BY <1>1, <1>8
<1> QED BY <1>1, <1>2, <1>7, <1>9 DEF w

LEMMA FullGroupPays ==
  ASSUME TypeOK, Positions, Cardinality(Members) = Required
  PROVE  SumFunctionOnSet(Shares, Members) = Price
<1> DEFINE w == [i \in 0..(Required - 1) |-> Share(i)]
<1>1. IsFiniteSet(Members) /\ Members \subseteq Friends
  BY GroupAssumption, FS_Subset DEF Members
<1>2. \A f \in Members : Shares[f] \in Int /\ w[index[f]] = Shares[f]
  <2>1. \A f \in Members : index[f] \in 0..(Required - 1)
    BY <1>1 DEF TypeOK
  <2> QED BY <1>1, <2>1, ShareType DEF Shares
<1>3. SumFunctionOnSet(Shares, Members) = SumFunctionOnSet(w, {index[f] : f \in Members})
  <2>1. \A f, g \in Members : index[f] = index[g] => f = g
    BY DEF Positions
  <2> HIDE DEF w
  <2> QED BY <1>1, <1>2, <2>1, SumIndexed
<1> QED BY <1>3, SharesAddUp DEF Positions

LEMMA DepositType ==
  ASSUME TypeOK
  PROVE  \A f \in Friends : Deposits[f] \in Int
BY ShareType, GroupAssumption DEF TypeOK, Deposits, Shares

LEMMA PaidSetFinite == IsFiniteSet(PaidSet) /\ PaidSet \subseteq Friends
BY GroupAssumption, FS_Subset DEF PaidSet

(* Nothing that the escrow depends on changes.                             *)
LEMMA EscrowStays ==
  ASSUME EscrowInv, Members' = Members, UNCHANGED index,
         group = "open" <=> group' = "open", group = "open" => PaidSet' = PaidSet,
         UNCHANGED escrow
  PROVE  Positions' /\ EscrowExact'
<1>1. Positions'
  BY DEF EscrowInv, Positions
<1>2. Shares' = Shares /\ Deposits' = Deposits
  BY DEF Shares, Deposits, Share
<1> QED BY <1>1, <1>2 DEF EscrowInv, EscrowExact

(* A deposit goes into the escrow of an open group, or the group is        *)
(* complete and the escrow empty.                                          *)
LEMMA PaymentEscrowed ==
  ASSUME EscrowInv, NEW f \in Friends, order[f] \in Payable,
         NEW served \in SUBSET (PaidSet \cup {f}), MarkPaid(f, served), UNCHANGED index
  PROVE  Positions' /\ PayersWait' /\ EscrowExact'
<1> USE DEF EscrowInv, GroupInv
<1>1. /\ group = "open" /\ member[f] = "awaiting_payment"
      /\ member' = [member EXCEPT ![f] = "paid"]
  BY DEF MarkPaid, PayersWait
<1>2. f \notin PaidSet /\ PaidSet' = PaidSet \cup {f} /\ Members' = Members
  BY <1>1 DEF PaidSet, Members, TypeOK
<1>3. Positions' /\ Shares' = Shares /\ Deposits' = Deposits
  BY <1>2 DEF Positions, Shares, Deposits, Share
<1>4. PayersWait'
  <2>1. \A g \in Friends : order'[g] \in Payable => g # f /\ order[g] \in Payable
    BY DEF MarkPaid, CompleteGroup, Payable, TypeOK
  <2> QED BY <1>1, <2>1 DEF PayersWait, TypeOK
<1>5. CASE Completes(f)
  <2>1. group' = "delivering" /\ escrow' = 0
    BY <1>5 DEF MarkPaid, CompleteGroup
  <2> QED BY <2>1, <1>2, <1>3, <1>4 DEF EscrowExact
<1>6. CASE ~Completes(f)
  <2>1. group' = "open" /\ escrow' = escrow + Share(index[f]) + Fee
    BY <1>1, <1>6 DEF MarkPaid
  <2>2. SumFunctionOnSet(Deposits, PaidSet \cup {f}) =
          Deposits[f] + SumFunctionOnSet(Deposits, PaidSet)
    BY <1>2, DepositType, PaidSetFinite, SumAdd
  <2>3. Deposits[f] = Share(index[f]) + Fee /\ Share(index[f]) \in Nat /\ Fee \in Nat
    BY ShareType, GroupAssumption DEF Deposits, Shares, TypeOK
  <2>4. escrow = SumFunctionOnSet(Deposits, PaidSet) /\ escrow \in Nat
    BY <1>1 DEF EscrowExact, TypeOK
  <2>5. escrow' = SumFunctionOnSet(Deposits, PaidSet \cup {f})
    BY <2>1, <2>2, <2>3, <2>4
  <2> QED BY <2>1, <2>5, <1>2, <1>3, <1>4 DEF EscrowExact
<1> QED BY <1>5, <1>6

(* A new member takes the next position and no money moves.                *)
LEMMA NextPosition ==
  ASSUME EscrowInv, NEW f \in Friends, AddMember(f), member[f] = "none",
         group \in {"none", "open"}, group' = "open", TypeOK', UNCHANGED escrow
  PROVE  Positions' /\ PayersWait' /\ EscrowExact'
<1> USE DEF EscrowInv, GroupInv
<1> DEFINE n == Cardinality(Members)
<1>1. /\ member' = [member EXCEPT ![f] = "awaiting_payment"]
      /\ index' = [index EXCEPT ![f] = n]
      /\ order' = [order EXCEPT ![f] = "waiting_payment"]
  BY DEF AddMember
<1>2. f \notin Members /\ Members' = Members \cup {f} /\ PaidSet' = PaidSet
  BY <1>1 DEF Members, PaidSet, TypeOK
<1>3. IsFiniteSet(Members) /\ n \in Nat /\ Cardinality(Members') = n + 1
  BY <1>2, GroupAssumption, FS_Subset, FS_CardinalityType, FS_AddElement DEF Members
<1>4. /\ index'[f] = n
      /\ \A g \in Friends \ {f} : index'[g] = index[g]
      /\ Members \subseteq Friends
  BY <1>1 DEF TypeOK, Members
<1>5. Positions'
  <2> HIDE DEF n
  <2>1. {index'[g] : g \in Members'} = {index[g] : g \in Members} \cup {n}
    BY <1>2, <1>4
  <2>2. {index[g] : g \in Members} = 0..(n - 1)
    BY DEF Positions, n
  <2>3. 0..((n + 1) - 1) = 0..(n - 1) \cup {n}
    BY <1>3
  <2>4. \A g, h \in Members' : index'[g] = index'[h] => g = h
    <3>1. \A g \in Members : index[g] # n
      <4>1. \A g \in Members : index[g] \in 0..(n - 1)
        BY <2>2
      <4> QED BY <4>1, <1>3
    <3>2. \A g, h \in Members : index[g] = index[h] => g = h
      BY DEF Positions
    <3> QED BY <1>2, <1>4, <3>1, <3>2
  <2> QED BY <1>3, <2>1, <2>2, <2>3, <2>4 DEF Positions
<1>6. PayersWait'
  BY <1>1 DEF PayersWait, TypeOK
<1>7. escrow' = SumFunctionOnSet(Deposits', PaidSet')
  <2>1. \A g \in PaidSet : Deposits[g] \in Int /\ Deposits'[g] = Deposits[g]
    <3>1. \A g \in PaidSet : g \in Friends \ {f}
      BY DEF PaidSet
    <3> QED BY <3>1, <1>4, DepositType DEF Deposits, Shares, Share
  <2>2. SumFunctionOnSet(Deposits', PaidSet) = SumFunctionOnSet(Deposits, PaidSet)
    BY <2>1, PaidSetFinite, SumEqual
  <2>3. CASE group = "none"
    <3>1. PaidSet = {} /\ escrow = 0
      BY <2>3 DEF Stage, PaidSet, EscrowExact
    <3> QED BY <3>1, <1>2, SumEmpty
  <2>4. CASE group = "open"
    BY <2>2, <2>4, <1>2 DEF EscrowExact
  <2> QED BY <2>3, <2>4
<1>8. Cardinality(Members') = Required => SumFunctionOnSet(Shares', Members') = Price
  <2>1. TypeOK /\ Positions /\ Cardinality(Members) = Required =>
          SumFunctionOnSet(Shares, Members) = Price
    BY FullGroupPays
  <2>2. (TypeOK /\ Positions /\ Cardinality(Members) = Required =>
          SumFunctionOnSet(Shares, Members) = Price)'
    BY FullGroupPays, PTL
  <2> QED BY <2>2, <1>5
<1> QED BY <1>5, <1>6, <1>7, <1>8 DEF EscrowExact

LEMMA EscrowInitially == Init => Positions /\ PayersWait /\ EscrowExact
<1> SUFFICES ASSUME Init PROVE Positions /\ PayersWait /\ EscrowExact
  OBVIOUS
<1>1. Members = {} /\ Cardinality({}) = 0
  BY FS_EmptySet DEF Init, Members
<1>2. Positions
  BY <1>1 DEF Positions
<1>3. PayersWait
  BY DEF Init, PayersWait, Payable
<1>4. EscrowExact
  BY <1>1, GroupAssumption DEF Init, EscrowExact
<1> QED BY <1>2, <1>3, <1>4

LEMMA EscrowStep == EscrowInv /\ GroupInv' /\ [Next]_vars => EscrowInv'
<1> SUFFICES ASSUME EscrowInv, GroupInv', [Next]_vars
             PROVE  Positions' /\ PayersWait' /\ EscrowExact'
  BY DEF EscrowInv
<1> USE DEF EscrowInv, GroupInv
<1>1. CASE OpenGroup
  <2>1. member[Creator] = "none" /\ Creator \in Friends
    BY <1>1, GroupAssumption DEF OpenGroup, Stage
  <2> QED BY <1>1, <2>1, NextPosition DEF OpenGroup
<1>2. ASSUME NEW f \in Friends, Join(f) PROVE Positions' /\ PayersWait' /\ EscrowExact'
  BY <1>2, NextPosition DEF Join
<1>3. ASSUME UNCHANGED <<group, member, index, escrow>>,
             \A f \in Friends : order'[f] \in Payable => order[f] \in Payable
      PROVE  Positions' /\ PayersWait' /\ EscrowExact'
  <2>1. Members' = Members /\ PaidSet' = PaidSet
    BY <1>3 DEF Members, PaidSet
  <2> QED BY <1>3, <2>1, EscrowStays DEF PayersWait
<1>4. ASSUME NEW f \in Friends, SubmitProof(f) \/ CancelOrder(f) \/ AskSupport(f) \/ Reject(f)
      PROVE  Positions' /\ PayersWait' /\ EscrowExact'
  <2>1. \A g \in Friends : order'[g] \in Payable => order[g] \in Payable
    BY <1>4 DEF SubmitProof, CancelOrder, AskSupport, Reject, Payable, TypeOK
  <2> QED BY <1>3, <1>4, <2>1 DEF SubmitProof, CancelOrder, AskSupport, Reject
<1>5. CASE OtherOrder \/ Lapse \/ UNCHANGED vars
  BY <1>3, <1>5 DEF OtherOrder, Lapse, vars
<1>6. ASSUME NEW f \in Friends, CardPaid(f) PROVE Positions' /\ PayersWait' /\ EscrowExact'
  <2>1. PaidSet \cup {f} \in SUBSET (PaidSet \cup {f})
    OBVIOUS
  <2> QED BY <1>6, <2>1, PaymentEscrowed DEF CardPaid
<1>7. ASSUME NEW f \in Friends, ConfirmProof(f)
      PROVE  Positions' /\ PayersWait' /\ EscrowExact'
  <2>1. PICK served \in Served(f) : MarkPaid(f, served)
    BY <1>7 DEF ConfirmProof
  <2>2. served \in SUBSET (PaidSet \cup {f}) /\ order[f] \in Payable /\ UNCHANGED index
    BY <1>7, <2>1 DEF Served, ConfirmProof, Payable
  <2> QED BY <2>1, <2>2, PaymentEscrowed
<1>8. ASSUME NEW f \in Friends, Deliver(f) PROVE Positions' /\ PayersWait' /\ EscrowExact'
  <2>1. /\ f \in PaidSet /\ group \in {"delivering", "delivered"}
        /\ group' \in {group, "delivered"}
        /\ member' = [member EXCEPT ![f] = "delivered"]
        /\ order' = [order EXCEPT ![f] = "delivered"]
        /\ UNCHANGED <<index, escrow>>
    BY <1>8 DEF Deliver, Stage
  <2>2. Members' = Members
    BY <2>1 DEF Members, PaidSet, TypeOK
  <2>3. PayersWait'
    BY <2>1 DEF PayersWait, Payable, TypeOK
  <2> QED BY <2>1, <2>2, <2>3, EscrowStays
<1>9. CASE ExpireGroup
  <2>1. /\ group' = "expired" /\ escrow' = 0 /\ UNCHANGED index
        /\ member' = [f \in Friends |-> IF f \in Members THEN Ending(f) ELSE member[f]]
        /\ order' = [f \in Friends |-> IF f \in Members THEN Ending(f) ELSE order[f]]
    BY <1>9 DEF ExpireGroup
  <2>2. Members' = Members
    BY <2>1 DEF Members, Ending
  <2>3. PayersWait'
    BY <2>1 DEF PayersWait, Payable, Members, Ending
  <2>4. Positions' /\ Shares' = Shares
    BY <2>1, <2>2 DEF Positions, Shares, Share
  <2> QED BY <2>1, <2>2, <2>3, <2>4 DEF EscrowExact
<1> QED BY <1>1, <1>2, <1>4, <1>5, <1>6, <1>7, <1>8, <1>9 DEF Next

-----------------------------------------------------------------------------
(* Theorems                                                                *)

LEMMA GroupAlways == Spec => [](GroupInv /\ EscrowInv)
<1>1. Init => GroupInv /\ EscrowInv
  BY GroupInitially, EscrowInitially DEF EscrowInv
<1> QED BY <1>1, GroupStep, EscrowStep, PTL DEF Spec

(* Joining, paying, cancelling, expiring and delivering keep the group,    *)
(* its members, orders and jobs in their types.                            *)
THEOREM TypeCorrect == Spec => []TypeOK
<1>1. GroupInv => TypeOK
  BY DEF GroupInv
<1> QED BY <1>1, GroupAlways, PTL

(* _complete_group is the only way into the outbox: for a group of any     *)
(* size nobody's account is sent before every member has paid, also when   *)
(* the confirmation of a proof stops half way through the members.         *)
THEOREM NobodyBeforeAllPaid == Spec => []AllPaidBeforeDelivery
<1>1. GroupInv => AllPaidBeforeDelivery
  BY DEF GroupInv, Stage, AllPaidBeforeDelivery
<1> QED BY <1>1, GroupAlways, PTL

(* expire_groups gives each member the deposit back once and no other      *)
(* member anything, for every price, fee and size of group.                *)
THEOREM DepositsReturned == Spec => []RefundsExact
<1>1. GroupInv => RefundsExact
  BY DEF GroupInv
<1> QED BY <1>1, GroupAlways, PTL

(* The escrow of an open group is exactly what its paid members deposited  *)
(* and nothing is left of it afterwards, whatever order students join,     *)
(* pay and cancel in; and the shares of a full group add up to the price,  *)
(* for every price and size of group.                                      *)
THEOREM EscrowAddsUp == Spec => []EscrowExact
<1>1. EscrowInv => EscrowExact
  BY DEF EscrowInv
<1> QED BY <1>1, GroupAlways, PTL
=============================================================================
