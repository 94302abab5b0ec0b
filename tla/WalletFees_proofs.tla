-------------------------- MODULE WalletFees_proofs -------------------------
(***************************************************************************)
(* Proofs about WalletFees, for every price, fee, set of coupons, starting *)
(* balance and number of orders.                                           *)
(***************************************************************************)
EXTENDS WalletFees, SumTheorems

USE AmountsAssumption

-----------------------------------------------------------------------------
(* Helpers *)

LEMMA EffectiveType ==
  ASSUME NEW c \in Versions
  PROVE  /\ Effective(c) \in Nat
         /\ c.snapshot \in Snapshots
         /\ c.snapshot.deducted \in Nat
         /\ c.snapshot.refunded \in Nat
         /\ c.snapshot.deducted >= c.snapshot.refunded
              => Effective(c) = c.snapshot.deducted - c.snapshot.refunded
<1>1. c.snapshot \in Snapshots
  BY DEF Versions
<1>2. c.snapshot.deducted \in Nat /\ c.snapshot.refunded \in Nat
  BY <1>1 DEF Snapshots
<1> QED
  BY <1>1, <1>2 DEF Effective, AtLeastZero

\* What sessions have loaded are versions of the row.
LEMMA LoadedType ==
  ASSUME TypeOK, NEW o \in Orders, NEW c \in loaded[o]
  PROVE  /\ c \in Versions
         /\ c.subtotal \in Nat /\ c.fee \in Nat /\ c.total \in Nat
<1>1. c \in Versions
  BY DEF TypeOK
<1> QED
  BY <1>1 DEF Versions

\* What Post does: one entry of one order, and never twice.
LEMMA PostEffect ==
  ASSUME TypeOK, NEW o \in Orders, NEW key \in Keys, NEW amount \in Nat,
         NEW sign \in {1, -1}, Post(o, key, amount, sign)
  PROVE  /\ balance' \in Nat
         /\ ledger' \in [Orders -> [Keys -> Nat]]
         /\ \A p \in Orders : p # o => ledger'[p] = ledger[p]
         /\ \A k \in Keys : k # key => ledger'[o][k] = ledger[o][k]
         /\ ledger'[o][key] = IF ledger[o][key] > 0 THEN ledger[o][key] ELSE amount
<1> USE DEF TypeOK, walletVars
<1>1. CASE amount = 0 \/ ledger[o][key] > 0
  BY <1>1 DEF Post
<1>2. CASE ~(amount = 0 \/ ledger[o][key] > 0)
  <2>1. balance' \in Nat
    BY <1>2 DEF Post
  <2>2. ledger' = [ledger EXCEPT ![o][key] = amount]
    BY <1>2 DEF Post
  <2>3. [ledger[o] EXCEPT ![key] = amount] \in [Keys -> Nat]
    OBVIOUS
  <2>4. ledger' = [ledger EXCEPT ![o] = [ledger[o] EXCEPT ![key] = amount]]
    BY <2>2
  <2> QED
    BY <1>2, <2>1, <2>3, <2>4
<1> QED
  BY <1>1, <1>2

\* RefundFee is a Post of what the version shows, noted in its snapshot.
LEMMA RefundEffect ==
  ASSUME TypeOK, NEW o \in Orders, NEW c \in Versions, RefundFee(o, c)
  PROVE  /\ balance' \in Nat
         /\ ledger' \in [Orders -> [Keys -> Nat]]
         /\ snapshot' \in [Orders -> Snapshots]
         /\ \A p \in Orders : p # o => ledger'[p] = ledger[p] /\ snapshot'[p] = snapshot[p]
         /\ ledger'[o]["bot_fee"] = ledger[o]["bot_fee"]
         /\ ledger'[o]["overpayment"] = ledger[o]["overpayment"]
         /\ ledger'[o]["bot_fee_refund"] = IF ledger[o]["bot_fee_refund"] > 0
                                           THEN ledger[o]["bot_fee_refund"]
                                           ELSE Effective(c)
         /\ snapshot'[o].deducted = c.snapshot.deducted
         /\ snapshot'[o].refunded = c.snapshot.refunded + Effective(c)
<1>1. Effective(c) \in Nat /\ c.snapshot \in Snapshots /\ snapshot \in [Orders -> Snapshots]
  BY EffectiveType DEF TypeOK
<1>2. Post(o, "bot_fee_refund", Effective(c), 1)
  BY DEF RefundFee
<1>3. \A k \in {"bot_fee", "overpayment"} : k \in Keys /\ k # "bot_fee_refund"
  BY DEF Keys
<1>4. "bot_fee_refund" \in Keys
  BY DEF Keys
<1> DEFINE noted == [c.snapshot EXCEPT !.refunded = c.snapshot.refunded + Effective(c)]
<1>5. snapshot' = [snapshot EXCEPT ![o] = noted]
  BY DEF RefundFee
<1> HIDE DEF Effective
<1>6. noted = [deducted |-> c.snapshot.deducted, refunded |-> c.snapshot.refunded + Effective(c)]
  BY <1>1 DEF Snapshots
<1>7. /\ noted \in Snapshots
      /\ noted.deducted = c.snapshot.deducted
      /\ noted.refunded = c.snapshot.refunded + Effective(c)
  BY <1>1, <1>6, EffectiveType DEF Snapshots
<1> HIDE DEF noted
<1> QED
  BY <1>1, <1>2, <1>3, <1>4, <1>5, <1>7, PostEffect

-----------------------------------------------------------------------------
(* Type correctness *)

LEMMA TypeInit == Init => TypeOK
  BY DEF Init, TypeOK, NoFee, Keys, OrderStates, Snapshots, Versions

LEMMA TypeStep == TypeOK /\ [Next]_vars => TypeOK'
<1> SUFFICES ASSUME TypeOK, [Next]_vars
             PROVE  TypeOK'
  OBVIOUS
<1> USE DEF TypeOK, invoiceVars, walletVars, paymentVars, Unpaid, OrderStates
<1>1. ASSUME NEW o \in Orders, Create(o)
      PROVE  TypeOK'
  <2> DEFINE used == IF balance >= Fee THEN Fee ELSE 0
  <2>1. used \in Nat /\ used <= Fee
    OBVIOUS
  <2>2. Post(o, "bot_fee", used, -1)
    BY <1>1 DEF Create
  <2>3. balance' \in Nat /\ ledger' \in [Orders -> [Keys -> Nat]]
    BY <2>1, <2>2, PostEffect DEF Keys
  <2>4. /\ total' = [total EXCEPT ![o] = Price + Fee - used]
        /\ snapshot' = [snapshot EXCEPT ![o] = [deducted |-> used, refunded |-> 0]]
    BY <1>1 DEF Create
  <2>5. total' \in [Orders -> Nat] /\ snapshot' \in [Orders -> Snapshots]
    <3> HIDE DEF used
    <3>1. Price + Fee - used \in Nat
      BY <2>1
    <3>2. [deducted |-> used, refunded |-> 0] \in Snapshots
      BY <2>1 DEF Snapshots
    <3> QED
      BY <2>4, <3>1, <3>2
  <2> QED
    BY <1>1, <2>3, <2>5 DEF Create
<1>2. ASSUME NEW o \in Orders, NEW c \in loaded[o], ChooseMethod(o, c)
      PROVE  TypeOK'
  BY <1>2, LoadedType DEF ChooseMethod, NoFee, Snapshots
<1>3. ASSUME NEW o \in Orders, NEW c \in loaded[o], NEW value \in Discounts,
             FixedCoupon(o, c, value)
      PROVE  TypeOK'
  <2> DEFINE new == AtLeastZero(c.subtotal - value)
             due == AtLeastZero(new + c.fee - Effective(c))
  <2>1. new \in Nat /\ due \in Nat /\ c.snapshot \in Snapshots
    <3>1. c.subtotal \in Nat /\ c.fee \in Nat /\ value \in Nat /\ c.snapshot \in Snapshots
          /\ Effective(c) \in Nat
      BY LoadedType, EffectiveType
    <3> HIDE DEF Effective
    <3>2. new \in Nat
      BY <3>1 DEF AtLeastZero
    <3> HIDE DEF new
    <3> QED
      BY <3>1, <3>2 DEF AtLeastZero
  <2>2. /\ subtotal' = [subtotal EXCEPT ![o] = new] /\ total' = [total EXCEPT ![o] = due]
        /\ snapshot' = [snapshot EXCEPT ![o] = c.snapshot]
    BY <1>3 DEF FixedCoupon
  <2> HIDE DEF new, due
  <2> QED
    BY <1>3, <2>1, <2>2 DEF FixedCoupon
<1>4. ASSUME NEW o \in Orders, NEW c \in loaded[o], FeeWaiver(o, c)
      PROVE  TypeOK'
  BY <1>4, LoadedType, RefundEffect DEF FeeWaiver
<1>5. ASSUME NEW o \in Orders, NEW c \in loaded[o], SubmitProof(o, c) \/ Cancel(o, c)
      PROVE  TypeOK'
  BY <1>5 DEF SubmitProof, Cancel
<1>6. ASSUME NEW o \in Orders, NEW excess \in 0..MaxExcess, Confirm(o, excess)
      PROVE  TypeOK'
  <2>1. balance' \in Nat /\ ledger' \in [Orders -> [Keys -> Nat]]
    BY <1>6, PostEffect DEF Confirm, Keys
  <2>2. cash' \in [Orders -> Nat]
    <3>1. cash' = [cash EXCEPT ![o] = cash[o] + (total[o] + excess)] /\ total[o] + excess \in Nat
      BY <1>6 DEF Confirm, Receive
    <3> QED
      BY <3>1
  <2>3. /\ status' = [status EXCEPT ![o] = "paid"]
        /\ pending' = [pending EXCEPT ![o] = FALSE]
        /\ UNCHANGED <<hold, subtotal, fee, total, coupon, snapshot, checkout, captured, swept,
                       loaded>>
    BY <1>6 DEF Confirm
  <2> QED
    BY <2>1, <2>2, <2>3
<1>7. ASSUME NEW o \in Orders, CardPaid(o)
      PROVE  TypeOK'
  <2>1. cash' \in [Orders -> Nat]
    BY <1>7 DEF CardPaid, Capture, Receive
  <2> QED
    BY <1>7, <2>1 DEF CardPaid, Capture
<1>8. ASSUME NEW o \in Orders, NEW c \in loaded[o], Expire(o, c)
      PROVE  TypeOK'
  <2>1. /\ balance' \in Nat
        /\ ledger' \in [Orders -> [Keys -> Nat]]
        /\ snapshot' \in [Orders -> Snapshots]
    BY <1>8, LoadedType, RefundEffect DEF Expire
  <2> QED
    BY <1>8, <2>1 DEF Expire
<1>9. ASSUME NEW o \in Orders, LoadRow(o)
      PROVE  TypeOK'
  <2>1. Row(o) \in Versions
    BY DEF Row, Versions
  <2> QED
    BY <1>9, <2>1 DEF LoadRow
<1>10. ASSUME NEW o \in Orders, Reject(o)
       PROVE  TypeOK'
  BY <1>10 DEF Reject
<1>11. CASE UNCHANGED vars
  BY <1>11 DEF vars
<1> QED
  BY <1>1, <1>2, <1>3, <1>4, <1>5, <1>6, <1>7, <1>8, <1>9, <1>10, <1>11 DEF Next, Session

\* No step gives a row a value outside its type: in particular the balance,
\* the subtotal and the total never go below zero, whatever the discount.
THEOREM TypeCorrect == Spec => []TypeOK
  BY TypeInit, TypeStep, PTL DEF Spec

-----------------------------------------------------------------------------
(* The money of an order.  RefundWithinFee, NeverUndercharged and           *)
(* ChargedExactly speak of the ledger; the code decides by a version of the *)
(* row that may be old.  MoneyInv says how these go together.               *)

\* A snapshot shows the deduction of the ledger or has forgotten it, a deduction
\* it shows is refunded in full or not at all, and a refund it shows was booked.
Noted(o, s) ==
  /\ s.deducted \in {0, ledger[o]["bot_fee"]}
  /\ s.refunded \in {0, s.deducted}
  /\ s.refunded <= ledger[o]["bot_fee_refund"]

\* As long as no coupon is redeemed, what sessions have loaded is the invoice.
Versioned(o) ==
  \A c \in loaded[o] :
    /\ Noted(o, c.snapshot)
    /\ coupon[o] = "none" => c.subtotal = subtotal[o] /\ c.fee = fee[o]

\* Nothing is booked for an order before it exists, an excess only with a
\* payment, a refund only by a waiver or the sweep.
Booked(o) ==
  /\ ledger[o]["bot_fee_refund"] \in {0, ledger[o]["bot_fee"]}
  /\ ledger[o]["bot_fee_refund"] > 0 => coupon[o] = "waiver" \/ o \in swept
  /\ coupon[o] # "waiver" => ledger[o]["bot_fee"] <= fee[o]
  /\ cash[o] = 0 => ledger[o]["overpayment"] = 0 /\ o \notin captured /\ status[o] # "paid"
  /\ status[o] = "draft" => /\ ledger[o]["bot_fee"] = 0
                            /\ coupon[o] = "none" /\ checkout[o] = 0 /\ cash[o] = 0
                            /\ loaded[o] = {}

\* The total and what the wallet paid cover the invoice, exactly so unless a
\* coupon was redeemed and the snapshot has forgotten what the wallet paid;
\* and so does what was paid, if anything was.
Invoiced(o) ==
  o \notin swept =>
    /\ total[o] + WalletFee(o) >= subtotal[o] + fee[o]
    /\ coupon[o] = "none" \/ snapshot[o].deducted = ledger[o]["bot_fee"]
         => total[o] + WalletFee(o) = subtotal[o] + fee[o]
    /\ cash[o] > 0 => Charge(o) >= subtotal[o] + fee[o]

Sound(o) == Noted(o, snapshot[o]) /\ Versioned(o) /\ Booked(o) /\ Invoiced(o)

MoneyInv == \A o \in Orders : Sound(o)

LEMMA MoneyInit == Init => MoneyInv
  BY DEF Init, MoneyInv, Sound, Noted, Versioned, Booked, Invoiced, WalletFee, Charge, NoFee, Keys

\* The amounts of an order are natural numbers.
LEMMA Amounts ==
  ASSUME TypeOK, NEW o \in Orders
  PROVE  /\ ledger[o]["bot_fee"] \in Nat
         /\ ledger[o]["bot_fee_refund"] \in Nat
         /\ ledger[o]["overpayment"] \in Nat
         /\ subtotal[o] \in Nat /\ fee[o] \in Nat /\ total[o] \in Nat
         /\ cash[o] \in Nat /\ checkout[o] \in Nat
         /\ snapshot[o].deducted \in Nat /\ snapshot[o].refunded \in Nat
  BY DEF TypeOK, Keys, Snapshots

\* An order is sound as long as nothing of it changes.
LEMMA Frame ==
  ASSUME NEW p \in Orders, Sound(p),
         status'[p] = status[p], subtotal'[p] = subtotal[p], fee'[p] = fee[p],
         total'[p] = total[p], snapshot'[p] = snapshot[p], cash'[p] = cash[p],
         ledger'[p] = ledger[p], coupon'[p] = coupon[p], checkout'[p] = checkout[p],
         loaded'[p] = loaded[p], p \in captured' <=> p \in captured, p \in swept' <=> p \in swept
  PROVE  Sound(p)'
  BY DEF Sound, Noted, Versioned, Booked, Invoiced, WalletFee, Charge

LEMMA PrimedAmounts ==
  ASSUME TypeOK', NEW o \in Orders
  PROVE  /\ ledger'[o]["bot_fee"] \in Nat
         /\ ledger'[o]["bot_fee_refund"] \in Nat
         /\ ledger'[o]["overpayment"] \in Nat
  BY DEF TypeOK, Keys

\* What a sound version shows as deducted is the fee of the ledger or nothing.
LEMMA VersionAmounts ==
  ASSUME TypeOK, NEW o \in Orders, Sound(o), NEW c \in loaded[o]
  PROVE  /\ Noted(o, c.snapshot)
         /\ c.snapshot.deducted \in Nat /\ c.snapshot.refunded \in Nat
         /\ Effective(c) = c.snapshot.deducted - c.snapshot.refunded
         /\ coupon[o] = "none" => c.subtotal = subtotal[o] /\ c.fee = fee[o]
         /\ status[o] # "draft"
<1>1. c \in Versions
  BY LoadedType
<1>2. c.snapshot.deducted \in Nat /\ c.snapshot.refunded \in Nat
  BY <1>1, EffectiveType
<1>3. Noted(o, c.snapshot) /\ (coupon[o] = "none" => c.subtotal = subtotal[o] /\ c.fee = fee[o])
  BY DEF Sound, Versioned
<1>4. c.snapshot.deducted >= c.snapshot.refunded
  BY <1>2, <1>3 DEF Noted
<1>5. status[o] # "draft"
  BY DEF Sound, Booked
<1> QED
  BY <1>1, <1>2, <1>3, <1>4, <1>5, EffectiveType

\* A refund keeps every snapshot and the ledger in step, and leaves nothing of
\* a deduction that the version shows.
LEMMA RefundNoted ==
  ASSUME TypeOK, NEW o \in Orders, Sound(o), NEW c \in loaded[o], RefundFee(o, c)
  PROVE  /\ Noted(o, snapshot[o])'
         /\ \A x \in loaded[o] : Noted(o, x.snapshot)'
         /\ ledger'[o]["bot_fee"] = ledger[o]["bot_fee"]
         /\ ledger'[o]["overpayment"] = ledger[o]["overpayment"]
         /\ ledger'[o]["bot_fee_refund"] \in {0, ledger[o]["bot_fee"]}
         /\ ledger'[o]["bot_fee_refund"] >= ledger[o]["bot_fee_refund"]
         /\ snapshot'[o].deducted = c.snapshot.deducted
         /\ ledger[o]["bot_fee_refund"] = 0 /\ c.snapshot.deducted = ledger[o]["bot_fee"]
              => ledger'[o]["bot_fee_refund"] = ledger[o]["bot_fee"]
<1> DEFINE bf == ledger[o]["bot_fee"]
           rf == ledger[o]["bot_fee_refund"]
           d == c.snapshot.deducted
           r == c.snapshot.refunded
<1>1. /\ ledger'[o]["bot_fee"] = bf
      /\ ledger'[o]["overpayment"] = ledger[o]["overpayment"]
      /\ ledger'[o]["bot_fee_refund"] = IF rf > 0 THEN rf ELSE Effective(c)
      /\ snapshot'[o].deducted = d
      /\ snapshot'[o].refunded = r + Effective(c)
  BY LoadedType, RefundEffect
<1>2. bf \in Nat /\ rf \in Nat /\ d \in Nat /\ r \in Nat
  BY Amounts, VersionAmounts
<1>3. d \in {0, bf} /\ r \in {0, d} /\ r <= rf /\ Effective(c) = d - r /\ rf \in {0, bf}
  BY VersionAmounts DEF Sound, Noted, Booked
<1> HIDE DEF Effective
<1>4. /\ snapshot'[o].refunded = d
      /\ ledger'[o]["bot_fee_refund"] \in {0, bf}
      /\ ledger'[o]["bot_fee_refund"] >= rf
      /\ d <= ledger'[o]["bot_fee_refund"]
      /\ rf = 0 /\ d = bf => ledger'[o]["bot_fee_refund"] = bf
  <2> HIDE DEF bf, rf, d, r
  <2> QED BY <1>1, <1>2, <1>3
<1>5. Noted(o, snapshot[o])'
  BY <1>1, <1>2, <1>3, <1>4 DEF Noted
<1>6. ASSUME NEW x \in loaded[o] PROVE Noted(o, x.snapshot)'
  <2>1. Noted(o, x.snapshot) /\ x.snapshot.refunded \in Nat
    BY VersionAmounts
  <2>2. ledger'[o]["bot_fee_refund"] \in Nat
    BY <1>2, <1>4
  <2> QED BY <1>1, <1>2, <1>4, <2>1, <2>2 DEF Noted
<1> QED
  BY <1>1, <1>4, <1>5, <1>6

\* Before a coupon or the sweep, the wallet has paid its part and no more.
LEMMA Unrefunded ==
  ASSUME TypeOK, NEW o \in Orders, Sound(o), coupon[o] = "none", o \notin swept
  PROVE  /\ ledger[o]["bot_fee_refund"] = 0
         /\ WalletFee(o) = ledger[o]["bot_fee"]
         /\ ledger[o]["bot_fee"] <= fee[o]
  BY Amounts DEF Sound, Booked, WalletFee

LEMMA MoneyStep == TypeOK /\ MoneyInv /\ [Next]_vars => MoneyInv'
<1> SUFFICES ASSUME TypeOK, MoneyInv, [Next]_vars, NEW p \in Orders
             PROVE  Sound(p)'
  BY DEF MoneyInv
<1>0. Sound(p)
  BY DEF MoneyInv
<1>a. TypeOK'
  BY TypeStep
<1> USE DEF TypeOK, invoiceVars, walletVars, paymentVars, Unpaid
<1>1. ASSUME NEW o \in Orders, Create(o)
      PROVE  Sound(p)'
  <2> DEFINE used == IF balance >= Fee THEN Fee ELSE 0
  <2>1. used \in Nat /\ used <= Fee
    OBVIOUS
  <2>2. Post(o, "bot_fee", used, -1)
    BY <1>1 DEF Create
  <2>3. CASE p # o
    <3>1. ledger'[p] = ledger[p]
      BY <2>1, <2>2, <2>3, PostEffect DEF Keys
    <3> QED
      BY <1>0, <1>1, <2>3, <3>1, Frame DEF Create
  <2>4. CASE p = o
    <3>1. /\ status[o] = "draft" /\ status'[o] = "waiting_payment"
          /\ subtotal'[o] = Price /\ fee'[o] = Fee
          /\ total'[o] = Price + Fee - used
          /\ snapshot'[o] = [deducted |-> used, refunded |-> 0]
          /\ UNCHANGED <<coupon, checkout, captured, cash, swept, loaded>>
      BY <1>1 DEF Create
    <3>2. /\ ledger[o]["bot_fee"] = 0 /\ ledger[o]["bot_fee_refund"] = 0
          /\ ledger[o]["overpayment"] = 0
          /\ coupon[o] = "none" /\ checkout[o] = 0 /\ cash[o] = 0 /\ o \notin captured
          /\ loaded[o] = {}
      BY <1>0, <2>4, <3>1, Amounts DEF Sound, Booked
    <3>3. /\ ledger'[o]["bot_fee"] = used
          /\ ledger'[o]["bot_fee_refund"] = 0
          /\ ledger'[o]["overpayment"] = 0
      BY <2>1, <2>2, <3>2, PostEffect DEF Keys
    <3> HIDE DEF used
    <3>4. Noted(o, snapshot[o])' /\ Versioned(o)'
      BY <2>1, <3>1, <3>2, <3>3 DEF Noted, Versioned
    <3>5. Booked(o)'
      BY <2>1, <3>1, <3>2, <3>3 DEF Booked
    <3>6. Invoiced(o)'
      BY <2>1, <3>1, <3>2, <3>3 DEF Invoiced, WalletFee
    <3> QED
      BY <2>4, <3>4, <3>5, <3>6 DEF Sound
  <2> QED
    BY <2>3, <2>4
<1>2. ASSUME NEW o \in Orders, NEW c \in loaded[o], ChooseMethod(o, c)
      PROVE  Sound(p)'
  <2>1. CASE p # o
    BY <1>0, <1>2, <2>1, Frame DEF ChooseMethod
  <2>2. CASE p = o
    <3>1. /\ snapshot'[o] = [deducted |-> 0, refunded |-> 0]
          /\ UNCHANGED <<status, subtotal, fee, total, coupon, cash, swept, ledger, loaded>>
          /\ captured' \subseteq captured
      BY <1>2 DEF ChooseMethod, NoFee
    <3>2. snapshot'[o].deducted = 0 /\ snapshot'[o].refunded = 0
      BY <3>1
    <3>3. Noted(o, snapshot[o])'
      BY <3>1, <3>2, Amounts DEF Noted
    <3>4. Versioned(o)'
      BY <1>0, <2>2, <3>1 DEF Sound, Versioned, Noted
    <3>5. Booked(o)'
      BY <1>0, <2>2, <3>1, VersionAmounts DEF Sound, Booked
    <3>6. Invoiced(o)'
      <4>1. snapshot[o].deducted = ledger[o]["bot_fee"] \/ ledger[o]["bot_fee"] # 0
        BY <1>0, <2>2 DEF Sound, Noted
      <4> QED
        BY <1>0, <2>2, <3>1, <3>2, <4>1 DEF Sound, Invoiced, WalletFee, Charge
    <3> QED
      BY <2>2, <3>3, <3>4, <3>5, <3>6 DEF Sound
  <2> QED
    BY <2>1, <2>2
<1>3. ASSUME NEW o \in Orders, NEW c \in loaded[o], NEW value \in Discounts,
             FixedCoupon(o, c, value)
      PROVE  Sound(p)'
  <2>1. CASE p # o
    BY <1>0, <1>3, <2>1, Frame DEF FixedCoupon
  <2>2. CASE p = o
    <3> DEFINE new == AtLeastZero(c.subtotal - value)
               due == AtLeastZero(new + c.fee - Effective(c))
    <3>1. /\ subtotal'[o] = new /\ total'[o] = due
          /\ snapshot'[o] = c.snapshot
          /\ coupon[o] = "none" /\ coupon'[o] = "fixed"
          /\ UNCHANGED <<status, fee, cash, checkout, captured, swept, ledger, loaded>>
      BY <1>3 DEF FixedCoupon
    <3>2. /\ Noted(o, c.snapshot) /\ c.subtotal = subtotal[o] /\ c.fee = fee[o]
          /\ c.snapshot.deducted \in Nat /\ c.snapshot.refunded \in Nat
          /\ Effective(c) = c.snapshot.deducted - c.snapshot.refunded
          /\ status[o] # "draft"
      BY <1>0, <2>2, <3>1, VersionAmounts
    <3>3. Noted(o, snapshot[o])'
      BY <3>1, <3>2 DEF Noted
    <3>4. Versioned(o)'
      BY <1>0, <2>2, <3>1 DEF Sound, Versioned, Noted
    <3>5. Booked(o)'
      BY <1>0, <2>2, <3>1, <3>2 DEF Sound, Booked
    <3>6. new \in Nat /\ new <= subtotal[o] /\ fee[o] \in Nat
      <4>1. subtotal[o] \in Nat /\ fee[o] \in Nat /\ value \in Nat /\ c.subtotal = subtotal[o]
        BY <3>2, Amounts
      <4> QED
        BY <4>1 DEF AtLeastZero
    <3>7. Invoiced(o)'
      <4> SUFFICES ASSUME o \notin swept
                   PROVE  Invoiced(o)'
        BY <3>1 DEF Invoiced
      <4>1. /\ ledger[o]["bot_fee_refund"] = 0 /\ WalletFee(o) = ledger[o]["bot_fee"]
            /\ ledger[o]["bot_fee"] <= fee[o] /\ ledger[o]["bot_fee"] \in Nat
        BY <1>0, <2>2, <3>1, Unrefunded, Amounts
      <4>2. Effective(c) = c.snapshot.deducted /\ c.snapshot.deducted \in {0, ledger[o]["bot_fee"]}
        BY <3>2, <4>1 DEF Noted
      <4> HIDE DEF new
      <4>3. due = new + fee[o] - c.snapshot.deducted
        BY <3>2, <3>6, <4>1, <4>2 DEF AtLeastZero
      <4>4. WalletFee(o)' = ledger[o]["bot_fee"] /\ Charge(o)' = Charge(o)
        BY <3>1, <4>1 DEF WalletFee, Charge
      <4>5. Charge(o) \in Int /\ (cash[o] > 0 => Charge(o) >= subtotal[o] + fee[o])
        BY <1>0, <2>2, <4>1, Amounts DEF Sound, Invoiced, Charge
      <4>6. subtotal[o] \in Nat
        BY Amounts
      <4> HIDE DEF due
      <4> QED
        BY <3>1, <3>6, <4>1, <4>2, <4>3, <4>4, <4>5, <4>6 DEF Invoiced
    <3> QED
      BY <2>2, <3>3, <3>4, <3>5, <3>7 DEF Sound
  <2> QED
    BY <2>1, <2>2
<1>4. ASSUME NEW o \in Orders, NEW c \in loaded[o], FeeWaiver(o, c)
      PROVE  Sound(p)'
  <2>1. RefundFee(o, c)
    BY <1>4 DEF FeeWaiver
  <2>2. CASE p # o
    BY <1>0, <1>4, <2>1, <2>2, LoadedType, RefundEffect, Frame DEF FeeWaiver
  <2>3. CASE p = o
    <3>1. /\ fee'[o] = 0 /\ total'[o] = c.subtotal
          /\ coupon[o] = "none" /\ coupon'[o] = "waiver"
          /\ UNCHANGED <<status, subtotal, checkout, captured, cash, swept, loaded>>
      BY <1>4 DEF FeeWaiver
    <3>2. /\ Noted(o, snapshot[o])'
          /\ \A x \in loaded[o] : Noted(o, x.snapshot)'
          /\ ledger'[o]["bot_fee"] = ledger[o]["bot_fee"]
          /\ ledger'[o]["overpayment"] = ledger[o]["overpayment"]
          /\ ledger'[o]["bot_fee_refund"] \in {0, ledger[o]["bot_fee"]}
          /\ snapshot'[o].deducted = c.snapshot.deducted
          /\ ledger[o]["bot_fee_refund"] = 0 /\ c.snapshot.deducted = ledger[o]["bot_fee"]
               => ledger'[o]["bot_fee_refund"] = ledger[o]["bot_fee"]
      BY <1>0, <2>1, <2>3, RefundNoted
    <3>3. Versioned(o)'
      BY <3>1, <3>2 DEF Versioned
    <3>4. c.subtotal = subtotal[o] /\ status[o] # "draft"
      BY <1>0, <2>3, <3>1, VersionAmounts
    <3>5. Booked(o)'
      BY <1>0, <2>3, <3>1, <3>2, <3>4 DEF Sound, Booked
    <3>6. Invoiced(o)'
      <4> SUFFICES ASSUME o \notin swept
                   PROVE  Invoiced(o)'
        BY <3>1 DEF Invoiced
      <4>1. /\ ledger[o]["bot_fee_refund"] = 0 /\ WalletFee(o) = ledger[o]["bot_fee"]
            /\ ledger[o]["bot_fee"] <= fee[o] /\ ledger[o]["bot_fee"] \in Nat
        BY <1>0, <2>3, <3>1, Unrefunded, Amounts
      <4>2. /\ WalletFee(o)' = ledger[o]["bot_fee"] - ledger'[o]["bot_fee_refund"]
            /\ WalletFee(o)' >= 0 /\ WalletFee(o)' \in Int
        BY <3>2, <4>1 DEF WalletFee
      <4>3. snapshot'[o].deducted = ledger'[o]["bot_fee"] => WalletFee(o)' = 0
        BY <3>2, <4>1, <4>2
      <4>4. /\ subtotal[o] \in Nat /\ fee[o] \in Nat
            /\ cash[o] \in Nat /\ ledger[o]["overpayment"] \in Nat
        BY Amounts
      <4>5. /\ cash[o] > 0 => cash[o] - ledger[o]["overpayment"] + ledger[o]["bot_fee"]
                                >= subtotal[o] + fee[o]
            /\ Charge(o)' = cash[o] - ledger[o]["overpayment"] + WalletFee(o)'
        BY <1>0, <2>3, <3>1, <3>2, <4>1 DEF Sound, Invoiced, Charge
      <4>6. cash[o] > 0 => Charge(o)' >= subtotal[o]
        BY <4>1, <4>2, <4>4, <4>5
      <4> QED
        BY <3>1, <3>4, <4>2, <4>3, <4>4, <4>6 DEF Invoiced
    <3> QED
      BY <2>3, <3>2, <3>3, <3>5, <3>6 DEF Sound
  <2> QED
    BY <2>2, <2>3
<1>5. ASSUME NEW o \in Orders,
             (\E c \in loaded[o] : SubmitProof(o, c) \/ Cancel(o, c)) \/ Reject(o)
      PROVE  Sound(p)'
  <2>1. /\ UNCHANGED <<subtotal, fee, total, coupon, snapshot, checkout, captured, cash, swept,
                       ledger, loaded>>
        /\ status'[p] = status[p] \/ (status[p] # "draft" /\ status'[p] \notin {"draft", "paid"})
    BY <1>0, <1>5, VersionAmounts DEF SubmitProof, Cancel, Reject
  <2> QED
    BY <1>0, <2>1 DEF Sound, Noted, Versioned, Booked, Invoiced, WalletFee, Charge
<1>6. ASSUME NEW o \in Orders, NEW excess \in 0..MaxExcess, Confirm(o, excess)
      PROVE  Sound(p)'
  <2>1. /\ Post(o, "overpayment", excess, 1) /\ excess \in Nat
        /\ UNCHANGED <<subtotal, fee, total, coupon, snapshot, checkout, captured, swept, loaded>>
        /\ status[o] = "payment_review" /\ total[o] + excess > 0
        /\ status' = [status EXCEPT ![o] = "paid"]
        /\ cash' = [cash EXCEPT ![o] = cash[o] + (total[o] + excess)]
    BY <1>6 DEF Confirm, Receive
  <2>2. CASE p # o
    <3>1. ledger'[p] = ledger[p]
      BY <2>1, <2>2, PostEffect DEF Keys
    <3> QED
      BY <1>0, <2>1, <2>2, <3>1, Frame
  <2>3. CASE p = o
    <3>1. /\ ledger'[o]["bot_fee"] = ledger[o]["bot_fee"]
          /\ ledger'[o]["bot_fee_refund"] = ledger[o]["bot_fee_refund"]
          /\ ledger'[o]["overpayment"] = IF ledger[o]["overpayment"] > 0
                                         THEN ledger[o]["overpayment"] ELSE excess
      BY <2>1, PostEffect DEF Keys
    <3>2. status'[o] = "paid" /\ cash'[o] = cash[o] + (total[o] + excess) /\ cash'[o] > 0
      BY <2>1, Amounts
    <3>3. Noted(o, snapshot[o])' /\ Versioned(o)'
      BY <1>0, <2>1, <2>3, <3>1 DEF Sound, Noted, Versioned
    <3>4. Booked(o)'
      BY <1>0, <2>1, <2>3, <3>1, <3>2 DEF Sound, Booked
    <3>5. Invoiced(o)'
      <4>1. WalletFee(o)' = WalletFee(o)
        BY <3>1 DEF WalletFee
      <4>2. /\ WalletFee(o) \in Int /\ cash[o] \in Nat /\ total[o] \in Nat
            /\ ledger[o]["overpayment"] \in Nat /\ subtotal[o] \in Nat /\ fee[o] \in Nat
            /\ cash[o] = 0 => ledger[o]["overpayment"] = 0
        BY <1>0, <2>3, Amounts DEF Sound, Booked, WalletFee
      <4>3. o \notin swept =>
              /\ total[o] + WalletFee(o) >= subtotal[o] + fee[o]
              /\ cash[o] > 0 => cash[o] - ledger[o]["overpayment"] + WalletFee(o)
                                  >= subtotal[o] + fee[o]
        BY <1>0, <2>3 DEF Sound, Invoiced, Charge
      <4>4. Charge(o)' = cash[o] + (total[o] + excess) - ledger'[o]["overpayment"] + WalletFee(o)
        <5>1. Charge(o)' = cash'[o] - ledger'[o]["overpayment"] + WalletFee(o)'
          BY DEF Charge
        <5> QED
          BY <2>1, <3>1, <3>2, <4>1, <4>2, <5>1
      <4>5. o \notin swept => Charge(o)' >= subtotal[o] + fee[o]
        BY <2>1, <3>1, <4>2, <4>3, <4>4
      <4> QED
        BY <1>0, <2>1, <2>3, <3>1, <4>1, <4>5 DEF Sound, Invoiced
    <3> QED
      BY <2>3, <3>3, <3>4, <3>5 DEF Sound
  <2> QED
    BY <2>2, <2>3
<1>7. ASSUME NEW o \in Orders, CardPaid(o)
      PROVE  Sound(p)'
  <2>1. /\ UNCHANGED <<subtotal, fee, total, coupon, snapshot, checkout, swept, ledger, loaded>>
        /\ checkout[o] > 0 /\ checkout[o] = total[o]
        /\ captured' = captured \cup {o}
        /\ status' = [status EXCEPT ![o] = IF status[o] = "cancelled" THEN status[o] ELSE "paid"]
        /\ \/ o \in captured /\ cash' = cash
           \/ o \notin captured /\ cash' = [cash EXCEPT ![o] = cash[o] + checkout[o]]
    BY <1>7 DEF CardPaid, Capture, Receive
  <2>2. CASE p # o
    BY <1>0, <2>1, <2>2, Frame
  <2>3. CASE p = o
    <3>1. /\ cash'[o] = cash[o] \/ cash'[o] = cash[o] + total[o]
          /\ cash'[o] > 0 /\ cash'[o] = cash[o] => cash[o] > 0
      BY <2>1, Amounts
    <3>2. cash'[o] > 0
      BY <1>0, <2>1, <2>3, Amounts DEF Sound, Booked
    <3>3. status[o] # "draft" /\ status'[o] # "draft"
      BY <1>0, <2>1, <2>3 DEF Sound, Booked
    <3>4. Noted(o, snapshot[o])' /\ Versioned(o)'
      BY <1>0, <2>1, <2>3 DEF Sound, Noted, Versioned
    <3>5. Booked(o)'
      BY <1>0, <2>1, <2>3, <3>2, <3>3 DEF Sound, Booked
    <3>6. Invoiced(o)'
      <4>1. /\ WalletFee(o) \in Int /\ cash[o] \in Nat /\ total[o] \in Nat
            /\ ledger[o]["overpayment"] \in Nat /\ subtotal[o] \in Nat /\ fee[o] \in Nat
            /\ cash[o] = 0 => ledger[o]["overpayment"] = 0
        BY <1>0, <2>3, Amounts DEF Sound, Booked, WalletFee
      <4>2. o \notin swept =>
              /\ total[o] + WalletFee(o) >= subtotal[o] + fee[o]
              /\ cash[o] > 0 => cash[o] - ledger[o]["overpayment"] + WalletFee(o)
                                  >= subtotal[o] + fee[o]
        BY <1>0, <2>3 DEF Sound, Invoiced, Charge
      <4>3. /\ WalletFee(o)' = WalletFee(o)
            /\ Charge(o)' = cash'[o] - ledger[o]["overpayment"] + WalletFee(o)
        BY <2>1 DEF WalletFee, Charge
      <4>4. o \notin swept => Charge(o)' >= subtotal[o] + fee[o]
        BY <3>1, <3>2, <4>1, <4>2, <4>3
      <4> QED
        BY <1>0, <2>1, <2>3, <4>3, <4>4 DEF Sound, Invoiced
    <3> QED
      BY <2>3, <3>4, <3>5, <3>6 DEF Sound
  <2> QED
    BY <2>2, <2>3
<1>8. ASSUME NEW o \in Orders, NEW c \in loaded[o], Expire(o, c)
      PROVE  Sound(p)'
  <2>0. UNCHANGED <<subtotal, fee, total, coupon, checkout, captured, cash, loaded>>
    BY <1>8 DEF Expire
  <2>1. CASE p # o
    <3>1. status'[p] = status[p] /\ (p \in swept' <=> p \in swept)
      BY <1>8, <2>1 DEF Expire
    <3>2. snapshot'[p] = snapshot[p] /\ ledger'[p] = ledger[p]
      BY <1>8, <2>1, LoadedType, RefundEffect DEF Expire
    <3> QED
      BY <1>0, <2>0, <3>1, <3>2, Frame
  <2>2. CASE p = o /\ UNCHANGED <<status, swept, snapshot, walletVars>>
    BY <1>0, <2>0, <2>2, Frame
  <2>3. CASE p = o /\ status' = [status EXCEPT ![o] = "cancelled"] /\ swept' = swept \cup {o}
    <3>1. Invoiced(o)'
      BY <2>3 DEF Invoiced
    <3>2. status'[o] = "cancelled"
      BY <2>3
    <3>3. CASE UNCHANGED <<snapshot, walletVars>>
      <4>1. Noted(o, snapshot[o])' /\ Versioned(o)' /\ Booked(o)'
        BY <1>0, <2>0, <2>3, <3>2, <3>3 DEF Sound, Noted, Versioned, Booked
      <4> QED BY <2>3, <3>1, <4>1 DEF Sound
    <3>4. CASE RefundFee(o, c)
      <4>1. /\ Noted(o, snapshot[o])'
            /\ \A x \in loaded[o] : Noted(o, x.snapshot)'
            /\ ledger'[o]["bot_fee"] = ledger[o]["bot_fee"]
            /\ ledger'[o]["overpayment"] = ledger[o]["overpayment"]
            /\ ledger'[o]["bot_fee_refund"] \in {0, ledger[o]["bot_fee"]}
        BY <1>0, <2>3, <3>4, RefundNoted
      <4>2. Versioned(o)'
        BY <1>0, <2>0, <2>3, <4>1 DEF Sound, Versioned
      <4>3. Booked(o)'
        BY <1>0, <2>0, <2>3, <3>2, <4>1 DEF Sound, Booked
      <4> QED BY <2>3, <3>1, <4>1, <4>2, <4>3 DEF Sound
    <3> QED
      BY <1>8, <2>3, <3>3, <3>4 DEF Expire
  <2> QED
    BY <1>8, <2>1, <2>2, <2>3 DEF Expire
<1>9. ASSUME NEW o \in Orders, LoadRow(o)
      PROVE  Sound(p)'
  <2>1. /\ UNCHANGED <<status, subtotal, fee, total, coupon, snapshot, checkout, captured, cash,
                       swept, ledger>>
        /\ status[o] # "draft" /\ loaded' = [loaded EXCEPT ![o] = loaded[o] \cup {Row(o)}]
    BY <1>9 DEF LoadRow
  <2>2. CASE p # o
    BY <1>0, <2>1, <2>2, Frame
  <2>3. CASE p = o
    <3>1. Noted(o, snapshot[o])' /\ Booked(o)' /\ Invoiced(o)'
      BY <1>0, <2>1, <2>3 DEF Sound, Noted, Booked, Invoiced, WalletFee, Charge
    <3>2. ASSUME NEW x \in loaded'[o]
          PROVE  /\ Noted(o, x.snapshot)'
                 /\ coupon[o] = "none" => x.subtotal = subtotal[o] /\ x.fee = fee[o]
      <4>1. CASE x \in loaded[o]
        BY <1>0, <2>1, <2>3, <4>1 DEF Sound, Versioned, Noted
      <4>2. CASE x = Row(o)
        BY <1>0, <2>1, <2>3, <4>2 DEF Sound, Noted, Row
      <4> QED BY <2>1, <4>1, <4>2
    <3>3. Versioned(o)'
      BY <2>1, <3>2 DEF Versioned
    <3> QED
      BY <2>3, <3>1, <3>3 DEF Sound
  <2> QED
    BY <2>2, <2>3
<1>10. CASE UNCHANGED vars
  BY <1>0, <1>10, Frame DEF vars
<1> QED
  BY <1>1, <1>2, <1>3, <1>4, <1>5, <1>6, <1>7, <1>8, <1>9, <1>10 DEF Next, Session

LEMMA MoneyAlways == Spec => [](TypeOK /\ MoneyInv)
<1>1. Init => TypeOK /\ MoneyInv
  BY TypeInit, MoneyInit
<1>2. TypeOK /\ MoneyInv /\ [Next]_vars => (TypeOK /\ MoneyInv)'
  BY TypeStep, MoneyStep
<1> QED
  BY <1>1, <1>2, PTL DEF Spec

-----------------------------------------------------------------------------
(* The balance and the ledger *)

\* The column of the wallet an entry stands in, and the sign it is posted with.
Postings == {<<"bot_fee", -1>>, <<"bot_fee_refund", 1>>, <<"overpayment", 1>>}

LEMMA CreditType ==
  ASSUME TypeOK
  PROVE  \A o \in Orders : Credit[o] \in Int
  BY Amounts DEF Credit, WalletFee

\* An entry moves the balance by what it adds to the ledger.
LEMMA PostBalanced ==
  ASSUME TypeOK, TypeOK', LedgerExplainsBalance, NEW o \in Orders, NEW amount \in Nat,
         NEW p \in Postings, Post(o, p[1], amount, p[2])
  PROVE  LedgerExplainsBalance'
<1>1. CASE UNCHANGED walletVars
  BY <1>1 DEF LedgerExplainsBalance, Credit, WalletFee, walletVars
<1>2. CASE ~(amount = 0 \/ ledger[o][p[1]] > 0)
  <2>1. balance' = balance + p[2] * amount /\ ledger' = [ledger EXCEPT ![o][p[1]] = amount]
    BY <1>2 DEF Post
  <2>2. p[1] \in Keys /\ ledger[o] \in [Keys -> Nat] /\ ledger[o][p[1]] = 0
    BY <1>2 DEF Postings, Keys, TypeOK
  <2>3. \A x \in Orders \ {o} : Credit'[x] = Credit[x]
    BY <2>1 DEF Credit, WalletFee
  <2>4. Credit'[o] - Credit[o] = p[2] * amount
    <3>1. /\ Credit[o] = ledger[o]["overpayment"]
                           - (ledger[o]["bot_fee"] - ledger[o]["bot_fee_refund"])
          /\ Credit'[o] = ledger'[o]["overpayment"]
                            - (ledger'[o]["bot_fee"] - ledger'[o]["bot_fee_refund"])
      BY DEF Credit, WalletFee
    <3>2. \A k \in Keys : ledger'[o][k] = IF k = p[1] THEN amount ELSE ledger[o][k]
      BY <2>1, <2>2 DEF TypeOK
    <3>3. CASE p = <<"bot_fee", -1>>
      BY <2>2, <3>1, <3>2, <3>3, Amounts DEF Keys
    <3>4. CASE p = <<"bot_fee_refund", 1>>
      BY <2>2, <3>1, <3>2, <3>4, Amounts DEF Keys
    <3>5. CASE p = <<"overpayment", 1>>
      BY <2>2, <3>1, <3>2, <3>5, Amounts DEF Keys
    <3> QED BY <3>3, <3>4, <3>5 DEF Postings
  <2>5. \A x \in Orders : Credit[x] \in Int /\ Credit'[x] \in Int
    BY CreditType, PrimedAmounts DEF Credit, WalletFee
  <2>6. SumFunctionOnSet(Credit', Orders)
          = SumFunctionOnSet(Credit, Orders) + Credit'[o] - Credit[o]
    BY <2>3, <2>5, SumChange
  <2>7. SumFunctionOnSet(Credit, Orders) \in Int /\ balance \in Int /\ p[2] * amount \in Int
    BY <2>5, SumType DEF TypeOK, Postings
  <2>8. \A s, c, d, e \in Int : d - c = e => s + d - c = s + e
    OBVIOUS
  <2>9. SumFunctionOnSet(Credit', Orders) = SumFunctionOnSet(Credit, Orders) + p[2] * amount
    BY <2>4, <2>5, <2>6, <2>7, <2>8
  <2> QED BY <2>1, <2>7, <2>9 DEF LedgerExplainsBalance
<1> QED BY <1>1, <1>2 DEF Post

LEMMA BalanceInitially == Init => LedgerExplainsBalance
<1> SUFFICES ASSUME Init PROVE LedgerExplainsBalance
  OBVIOUS
<1>1. \A o \in Orders : Credit[o] = 0
  BY DEF Init, Credit, WalletFee, Keys
<1>2. SumFunctionOnSet(Credit, Orders) = 0
  BY <1>1, SumZero
<1> QED BY <1>2 DEF Init, LedgerExplainsBalance

LEMMA BalanceStep ==
  TypeOK /\ LedgerExplainsBalance /\ [Next]_vars => LedgerExplainsBalance'
<1> SUFFICES ASSUME TypeOK, LedgerExplainsBalance, [Next]_vars
             PROVE  LedgerExplainsBalance'
  OBVIOUS
<1>0. TypeOK'
  BY TypeStep
<1>1. ASSUME UNCHANGED walletVars PROVE LedgerExplainsBalance'
  BY <1>1 DEF LedgerExplainsBalance, Credit, WalletFee, walletVars
<1>2. ASSUME NEW o \in Orders, Create(o) PROVE LedgerExplainsBalance'
  <2> DEFINE used == IF balance >= Fee THEN Fee ELSE 0
             p == <<"bot_fee", -1>>
  <2>1. used \in Nat /\ p \in Postings /\ Post(o, p[1], used, p[2])
    BY <1>2 DEF Create, Postings
  <2> HIDE DEF used, p
  <2> QED BY <1>0, <2>1, PostBalanced
<1>3. ASSUME NEW o \in Orders, NEW c \in loaded[o], RefundFee(o, c) PROVE LedgerExplainsBalance'
  <2> DEFINE p == <<"bot_fee_refund", 1>>
  <2>1. Effective(c) \in Nat /\ p \in Postings /\ Post(o, p[1], Effective(c), p[2])
    BY <1>3, LoadedType, EffectiveType DEF RefundFee, Postings
  <2> HIDE DEF p
  <2> QED BY <1>0, <2>1, PostBalanced
<1>4. ASSUME NEW o \in Orders, NEW excess \in 0..MaxExcess, Confirm(o, excess)
      PROVE  LedgerExplainsBalance'
  <2> DEFINE p == <<"overpayment", 1>>
  <2>1. excess \in Nat /\ p \in Postings /\ Post(o, p[1], excess, p[2])
    BY <1>4 DEF Confirm, Postings
  <2> HIDE DEF p
  <2> QED BY <1>0, <2>1, PostBalanced
<1>5. ASSUME NEW o \in Orders, LoadRow(o) \/ Reject(o) \/ CardPaid(o)
      PROVE  LedgerExplainsBalance'
  BY <1>1, <1>5 DEF LoadRow, Reject, CardPaid, Capture
<1>6. ASSUME NEW o \in Orders, NEW c \in loaded[o],
             \/ ChooseMethod(o, c) \/ SubmitProof(o, c) \/ Cancel(o, c)
             \/ \E value \in Discounts : FixedCoupon(o, c, value)
      PROVE  LedgerExplainsBalance'
  BY <1>1, <1>6 DEF ChooseMethod, SubmitProof, Cancel, FixedCoupon
<1>7. ASSUME NEW o \in Orders, NEW c \in loaded[o], FeeWaiver(o, c) PROVE LedgerExplainsBalance'
  BY <1>3, <1>7 DEF FeeWaiver
<1>8. ASSUME NEW o \in Orders, NEW c \in loaded[o], Expire(o, c) PROVE LedgerExplainsBalance'
  BY <1>1, <1>3, <1>8 DEF Expire, walletVars
<1>9. CASE UNCHANGED vars
  BY <1>1, <1>9 DEF vars, walletVars
<1> QED
  BY <1>2, <1>4, <1>5, <1>6, <1>7, <1>8, <1>9 DEF Next, Session

-----------------------------------------------------------------------------
(* The theorems *)

\* For every price, fee, discount and balance: the refund of an order is never
\* more than the fee the wallet paid for it, and what its snapshot says was
\* refunded really is in the ledger.
THEOREM FeeRefundedAtMostOnce == Spec => []RefundWithinFee
<1>1. TypeOK /\ MoneyInv => RefundWithinFee
  BY Amounts DEF MoneyInv, Sound, Noted, Booked, RefundWithinFee, WalletFee
<1> QED
  BY <1>1, MoneyAlways, PTL

\* For every number of orders, the balance is what it was at first plus the sum
\* of all entries: no wallet loses or wins a dinar that no entry explains.
THEOREM LedgerExplained == Spec => []LedgerExplainsBalance
<1>1. TypeOK /\ LedgerExplainsBalance /\ [Next]_vars => (TypeOK /\ LedgerExplainsBalance)'
  BY TypeStep, BalanceStep
<1> QED
  BY <1>1, TypeInit, BalanceInitially, PTL DEF Spec

\* An order paid for and not swept was never sold under its price, whichever
\* coupons, payment methods and wallet movements came before the payment and
\* however the sessions overlapped.
THEOREM NeverUnderPrice == Spec => []NeverUndercharged
<1>1. TypeOK /\ MoneyInv => NeverUndercharged
  <2> SUFFICES ASSUME TypeOK, MoneyInv, NEW o \in Orders, status[o] = "paid", o \notin swept
               PROVE  Charge(o) >= subtotal[o] + fee[o]
    BY DEF NeverUndercharged
  <2> QED
    BY Amounts DEF MoneyInv, Sound, Booked, Invoiced
<1> QED
  BY <1>1, MoneyAlways, PTL

\* The payment that makes an order paid charges to the dinar, from whatever
\* versions of the row the coupon and the payment method were computed.
THEOREM ExactCharge == Spec => ChargedExactly
<1>1. ASSUME TypeOK, MoneyInv, [Next]_vars, NEW o \in Orders,
             cash[o] = 0, status'[o] = "paid", o \notin swept,
             coupon[o] = "none" \/ snapshot[o].deducted = ledger[o]["bot_fee"]
      PROVE  Charge(o)' = subtotal[o] + fee[o]
  <2>1. /\ status[o] # "paid" /\ o \notin captured /\ ledger[o]["overpayment"] = 0
        /\ total[o] + WalletFee(o) = subtotal[o] + fee[o]
    BY <1>1 DEF MoneyInv, Sound, Booked, Invoiced
  <2>2. WalletFee(o) \in Int /\ total[o] \in Nat /\ subtotal[o] \in Nat /\ fee[o] \in Nat
    BY <1>1, Amounts DEF WalletFee
  <2>3. CASE \E excess \in 0..MaxExcess : Confirm(o, excess)
    <3>1. PICK excess \in 0..MaxExcess : Confirm(o, excess)
      BY <2>3
    <3>2. /\ Post(o, "overpayment", excess, 1) /\ excess \in Nat
          /\ cash'[o] = total[o] + excess
      BY <1>1, <2>2, <3>1 DEF Confirm, Receive, TypeOK
    <3>3. WalletFee(o)' = WalletFee(o) /\ ledger'[o]["overpayment"] = excess
      BY <1>1, <2>1, <3>2, PostEffect DEF Keys, WalletFee
    <3> QED
      BY <2>1, <2>2, <3>2, <3>3 DEF Charge
  <2>4. CASE CardPaid(o)
    <3>1. cash'[o] = total[o] /\ ledger' = ledger
      BY <1>1, <2>1, <2>2, <2>4 DEF CardPaid, Capture, Receive, TypeOK, walletVars
    <3> QED
      BY <2>1, <2>2, <3>1 DEF Charge, WalletFee
  <2>5. (\E excess \in 0..MaxExcess : Confirm(o, excess)) \/ CardPaid(o)
    <3>1. ASSUME NEW p \in Orders, Create(p) \/ LoadRow(p) \/ Reject(p)
                                     \/ \E c \in loaded[p] : Session(p, c)
          PROVE  FALSE
      BY <1>1, <2>1, <3>1 DEF Create, LoadRow, Reject, Session, ChooseMethod, FeeWaiver, FixedCoupon,
                              SubmitProof, Cancel, Expire, TypeOK
    <3>2. ASSUME NEW p \in Orders, p # o,
                 (\E excess \in 0..MaxExcess : Confirm(p, excess)) \/ CardPaid(p)
          PROVE  FALSE
      BY <1>1, <2>1, <3>2 DEF Confirm, CardPaid, Capture, TypeOK
    <3>3. ~UNCHANGED vars
      BY <1>1, <2>1 DEF vars
    <3> QED
      BY <1>1, <3>1, <3>2, <3>3 DEF Next
  <2> QED
    BY <2>3, <2>4, <2>5
<1> DEFINE Exact == \A o \in Orders :
       /\ cash[o] = 0 /\ status'[o] = "paid"
       /\ o \notin swept
       /\ coupon[o] = "none" \/ snapshot[o].deducted = ledger[o]["bot_fee"]
       => Charge(o)' = subtotal[o] + fee[o]
<1>2. TypeOK /\ MoneyInv /\ [Next]_vars => [Exact]_vars
  BY <1>1
<1> QED
  BY <1>2, MoneyAlways, PTL DEF Spec, ChargedExactly

=============================================================================
