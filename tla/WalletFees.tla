----------------------------- MODULE WalletFees -----------------------------
(***************************************************************************)
(* The money of one student's orders: the invoice, the wallet that may     *)
(* cover the bot fee, coupons, and what is paid, refunded and credited     *)
(* until the order is paid or cancelled.  It follows OrderService.create,  *)
(* set_payment_method, refund_wallet_fee_if_unpaid, expire_reservations,   *)
(* OrderCouponService.apply, PaymentService.confirm,                       *)
(* process_gateway_notification and WalletService.                         *)
(*                                                                         *)
(* The student's handlers and the sweep load the row of the order without  *)
(* a lock; the SELECT ... FOR UPDATE that follows waits for other writers  *)
(* but leaves the loaded object as it was.  "loaded" holds the versions of *)
(* a row that sessions have loaded, and their steps take a version c of    *)
(* it: they decide and compute by c and write the columns they change.  A  *)
(* session may take any time and several may have loaded the same version, *)
(* so a version can be used for ever.  The reviewer and the gateway lock   *)
(* the row before they load it, as all do with the row of the wallet.      *)
(***************************************************************************)
EXTENDS Integers, FiniteSetsExt

CONSTANTS
  Orders,        (* the orders of the student                              *)
  Price,         (* Offer.price_iqd                                        *)
  Fee,           (* Offer.service_fee_iqd                                  *)
  Discounts,     (* values of the FIXED coupons                            *)
  StartBalance,  (* balance of the wallet before the first order           *)
  MaxExcess,     (* bound: how much more than the total is transferred     *)
  MaxVersions,   (* bound: versions of rows that sessions load             *)
  MaxCash        (* bound: all that the student pays                       *)

ASSUME AmountsAssumption ==
  /\ IsFiniteSet(Orders)
  /\ Price \in Nat
  /\ Fee \in Nat
  /\ Discounts \subseteq Nat \ {0}
  /\ StartBalance \in Nat
  /\ MaxExcess \in Nat

VARIABLES
  status,      (* Order.status, "draft" before the order exists            *)
  hold,        (* is the stock reservation of the order HELD?              *)
  subtotal,    (* Order.subtotal_iqd                                       *)
  fee,         (* Order.service_fee_iqd                                    *)
  total,       (* Order.total_iqd: what must be transferred                *)
  snapshot,    (* wallet fee deduction and refund in payment_snapshot      *)
  coupon,      (* the coupon redeemed on the order                         *)
  pending,     (* is a PaymentProof of the order PENDING?                  *)
  checkout,    (* amount of the card checkout, 0 if there is none          *)
  captured,    (* orders whose checkout's Payment is CONFIRMED             *)
  cash,        (* sum of the confirmed Payments                            *)
  swept,       (* orders that expire_reservations cancelled                *)
  balance,     (* Wallet.balance_iqd                                       *)
  ledger,      (* WalletEntry amounts under the three keys of an order,    *)
               (* 0 if there is no entry of that key                       *)
  loaded       (* the versions of the order's row that sessions loaded     *)

vars == <<status, hold, subtotal, fee, total, snapshot, coupon, pending, checkout,
          captured, cash, swept, balance, ledger, loaded>>
invoiceVars == <<subtotal, fee, total, coupon>>
paymentVars == <<checkout, captured, cash>>
walletVars  == <<balance, ledger>>

Keys == {"bot_fee", "bot_fee_refund", "overpayment"}
NoFee == [deducted |-> 0, refunded |-> 0]

OrderStates == {"draft", "waiting_payment", "payment_review", "payment_rejected",
                "paid", "cancelled"}
Snapshots == [deducted : Nat, refunded : Nat]
Versions == [status : OrderStates, hold : BOOLEAN, subtotal : Nat, fee : Nat,
             total : Nat, snapshot : Snapshots]

TypeOK ==
  /\ status \in [Orders -> OrderStates]
  /\ hold \in [Orders -> BOOLEAN]
  /\ subtotal \in [Orders -> Nat]
  /\ fee \in [Orders -> Nat]
  /\ total \in [Orders -> Nat]
  /\ snapshot \in [Orders -> Snapshots]
  /\ coupon \in [Orders -> {"none", "fixed", "waiver"}]
  /\ pending \in [Orders -> BOOLEAN]
  /\ checkout \in [Orders -> Nat]
  /\ captured \subseteq Orders
  /\ cash \in [Orders -> Nat]
  /\ swept \subseteq Orders
  /\ balance \in Nat
  /\ ledger \in [Orders -> [Keys -> Nat]]
  /\ loaded \in [Orders -> SUBSET Versions]

Init ==
  /\ status = [o \in Orders |-> "draft"]
  /\ hold = [o \in Orders |-> FALSE]
  /\ subtotal = [o \in Orders |-> 0]
  /\ fee = [o \in Orders |-> 0]
  /\ total = [o \in Orders |-> 0]
  /\ snapshot = [o \in Orders |-> NoFee]
  /\ coupon = [o \in Orders |-> "none"]
  /\ pending = [o \in Orders |-> FALSE]
  /\ checkout = [o \in Orders |-> 0]
  /\ captured = {}
  /\ cash = [o \in Orders |-> 0]
  /\ swept = {}
  /\ balance = StartBalance
  /\ ledger = [o \in Orders |-> [k \in Keys |-> 0]]
  /\ loaded = [o \in Orders |-> {}]

-----------------------------------------------------------------------------
(* Helpers *)

Unpaid == {"waiting_payment", "payment_rejected"}

AtLeastZero(n) == IF n < 0 THEN 0 ELSE n

\* What the snapshot of version c says is still deducted from the wallet.
Effective(c) == AtLeastZero(c.snapshot.deducted - c.snapshot.refunded)

\* Mutant of Post: the entry is written, the balance is not.
Post_KeepsBalance(o, key, amount, sign) ==
  /\ ledger' = [ledger EXCEPT ![o][key] = IF @ > 0 THEN @ ELSE amount]
  /\ UNCHANGED balance

\* WalletService.post: an entry whose key exists is returned as it is; sign is
\* 1 for a credit and -1 for a debit, and a debit needs the balance.
Post(o, key, amount, sign) ==
  IF amount = 0 \/ ledger[o][key] > 0
  THEN UNCHANGED walletVars
  ELSE /\ balance + sign * amount >= 0
       /\ balance' = balance + sign * amount
       /\ ledger' = [ledger EXCEPT ![o][key] = amount]

\* refund_wallet_fee_if_unpaid and the fee waiver: give back what version c of
\* the snapshot still shows, and write c's snapshot with a note of it.
RefundFee(o, c) ==
  /\ Post(o, "bot_fee_refund", Effective(c), 1)
  /\ snapshot' = [snapshot EXCEPT ![o] =
                    [c.snapshot EXCEPT !.refunded = @ + Effective(c)]]

Row(o) == [status |-> status[o], hold |-> hold[o], subtotal |-> subtotal[o],
           fee |-> fee[o], total |-> total[o], snapshot |-> snapshot[o]]

-----------------------------------------------------------------------------
(* Sessions *)

\* orders.get of a handler, session.get of the sweep: no lock.
LoadRow(o) ==
  /\ status[o] # "draft"
  /\ Row(o) \notin loaded[o]
  /\ SumFunctionOnSet([p \in Orders |-> Cardinality(loaded[p])], Orders) < MaxVersions
  /\ loaded' = [loaded EXCEPT ![o] = @ \cup {Row(o)}]
  /\ UNCHANGED <<status, hold, invoiceVars, snapshot, pending, paymentVars, swept, walletVars>>

-----------------------------------------------------------------------------
(* The student *)

\* OrderService.create with apply_service_fee_only: the wallet covers the
\* whole bot fee or nothing of it.
Create(o) ==
  LET used == IF balance >= Fee THEN Fee ELSE 0 IN
  /\ status[o] = "draft"
  /\ status' = [status EXCEPT ![o] = "waiting_payment"]
  /\ hold' = [hold EXCEPT ![o] = TRUE]
  /\ subtotal' = [subtotal EXCEPT ![o] = Price]
  /\ fee' = [fee EXCEPT ![o] = Fee]
  /\ Post(o, "bot_fee", used, -1)
  /\ total' = [total EXCEPT ![o] = Price + Fee - used]
  /\ snapshot' = [snapshot EXCEPT ![o] = [deducted |-> used, refunded |-> 0]]
  /\ UNCHANGED <<coupon, pending, paymentVars, swept, loaded>>

\* choose_payment_method: set_payment_method writes a new snapshot, in which
\* the wallet deduction is missing; a card method also opens a checkout over
\* the total that was loaded.
ChooseMethod(o, c) ==
  /\ c.status \in Unpaid
  /\ snapshot' = [snapshot EXCEPT ![o] = NoFee]
  /\ \/ UNCHANGED <<checkout, captured>>
     \/ /\ checkout' = [checkout EXCEPT ![o] = c.total]
        /\ captured' = captured \ {o}
  /\ UNCHANGED <<status, hold, invoiceVars, pending, cash, swept, walletVars, loaded>>

\* Mutant of FixedCoupon: the new total leaves the fee out.
FixedCoupon_DropsFee(o, c, value) ==
  LET new == AtLeastZero(c.subtotal - value) IN
  /\ c.status \in Unpaid
  /\ coupon[o] = "none"
  /\ coupon' = [coupon EXCEPT ![o] = "fixed"]
  /\ subtotal' = [subtotal EXCEPT ![o] = new]
  /\ total' = [total EXCEPT ![o] = new]
  /\ snapshot' = [snapshot EXCEPT ![o] = c.snapshot]
  /\ UNCHANGED <<status, hold, fee, pending, paymentVars, swept, walletVars, loaded>>

\* Mutant of FixedCoupon: the discount is not limited to the subtotal.
FixedCoupon_Unlimited(o, c, value) ==
  LET new == c.subtotal - value IN
  /\ c.status \in Unpaid
  /\ coupon[o] = "none"
  /\ coupon' = [coupon EXCEPT ![o] = "fixed"]
  /\ subtotal' = [subtotal EXCEPT ![o] = new]
  /\ total' = [total EXCEPT ![o] = AtLeastZero(new + c.fee - Effective(c))]
  /\ snapshot' = [snapshot EXCEPT ![o] = c.snapshot]
  /\ UNCHANGED <<status, hold, fee, pending, paymentVars, swept, walletVars, loaded>>

\* A FIXED coupon lowers the subtotal, to zero at the least; the total is
\* computed again from the fee and from the deduction the loaded snapshot
\* shows, and that snapshot is written back.  Whether a coupon was redeemed on
\* the order is asked of the database, under the lock.
FixedCoupon(o, c, value) ==
  LET new == AtLeastZero(c.subtotal - value) IN
  /\ c.status \in Unpaid
  /\ coupon[o] = "none"
  /\ c.subtotal > 0
  /\ coupon' = [coupon EXCEPT ![o] = "fixed"]
  /\ subtotal' = [subtotal EXCEPT ![o] = new]
  /\ total' = [total EXCEPT ![o] = AtLeastZero(new + c.fee - Effective(c))]
  /\ snapshot' = [snapshot EXCEPT ![o] = c.snapshot]
  /\ UNCHANGED <<status, hold, fee, pending, paymentVars, swept, walletVars, loaded>>

\* Mutant of FeeWaiver: the wallet gets the fee back, deducted or not.
FeeWaiver_AlwaysRefunds(o, c) ==
  /\ c.status \in Unpaid
  /\ coupon[o] = "none"
  /\ coupon' = [coupon EXCEPT ![o] = "waiver"]
  /\ Post(o, "bot_fee_refund", c.fee, 1)
  /\ fee' = [fee EXCEPT ![o] = 0]
  /\ total' = [total EXCEPT ![o] = c.subtotal]
  /\ UNCHANGED <<status, hold, subtotal, snapshot, pending, paymentVars, swept, loaded>>

\* A FEE_WAIVER coupon removes the fee and returns what the wallet paid of it.
FeeWaiver(o, c) ==
  /\ c.status \in Unpaid
  /\ coupon[o] = "none"
  /\ c.fee > 0
  /\ coupon' = [coupon EXCEPT ![o] = "waiver"]
  /\ RefundFee(o, c)
  /\ fee' = [fee EXCEPT ![o] = 0]
  /\ total' = [total EXCEPT ![o] = c.subtotal]
  /\ UNCHANGED <<status, hold, subtotal, pending, paymentVars, swept, loaded>>

\* submit_proof: the status is the loaded one, pending receipts are queried.
SubmitProof(o, c) ==
  /\ c.status \in Unpaid
  /\ ~pending[o]
  /\ pending' = [pending EXCEPT ![o] = TRUE]
  /\ status' = [status EXCEPT ![o] = "payment_review"]
  /\ UNCHANGED <<hold, invoiceVars, snapshot, paymentVars, swept, walletVars, loaded>>

\* cancel_order: the hold is released; the wallet is not touched.
Cancel(o, c) ==
  /\ c.status \in Unpaid
  /\ status' = [status EXCEPT ![o] = "cancelled"]
  /\ hold' = [hold EXCEPT ![o] = FALSE]
  /\ UNCHANGED <<invoiceVars, snapshot, pending, paymentVars, swept, walletVars, loaded>>

-----------------------------------------------------------------------------
(* The reviewer, the gateway and the scheduler *)

Reject(o) ==
  /\ status[o] = "payment_review"
  /\ status' = [status EXCEPT ![o] = "payment_rejected"]
  /\ pending' = [pending EXCEPT ![o] = FALSE]
  /\ UNCHANGED <<hold, invoiceVars, snapshot, paymentVars, swept, walletVars, loaded>>

\* A further payment is confirmed, within the bound.
Receive(o, amount) ==
  /\ SumFunctionOnSet(cash, Orders) + amount <= MaxCash
  /\ cash' = [cash EXCEPT ![o] = @ + amount]

\* confirm() of a transfer: less than the total is refused, the excess is
\* credited to the wallet.
Confirm(o, excess) ==
  /\ status[o] = "payment_review"
  /\ total[o] + excess > 0
  /\ status' = [status EXCEPT ![o] = "paid"]
  /\ pending' = [pending EXCEPT ![o] = FALSE]
  /\ Receive(o, total[o] + excess)
  /\ Post(o, "overpayment", excess, 1)
  /\ UNCHANGED <<hold, invoiceVars, snapshot, checkout, captured, swept, loaded>>

\* The gateway's payment is confirmed; a repeated notice is the same payment.
\* An order that is paid stays so, and one that is cancelled as well: its
\* event is left for review.
Capture(o) ==
  /\ checkout[o] > 0
  /\ captured' = captured \cup {o}
  /\ \/ o \in captured /\ UNCHANGED cash
     \/ o \notin captured /\ Receive(o, checkout[o])
  /\ status' = [status EXCEPT ![o] = IF @ = "cancelled" THEN @ ELSE "paid"]
  /\ UNCHANGED <<hold, invoiceVars, snapshot, pending, checkout, swept, walletVars, loaded>>

\* Mutant of CardPaid: the amount of the notice is not compared.
CardPaid_AnyAmount(o) == Capture(o)

\* process_gateway_notification of a success: only the order's present total
\* is accepted.  A notice of another amount is rejected before it touches the
\* payment; one of a failure, or of no final status, confirms nothing.
CardPaid(o) ==
  /\ checkout[o] = total[o]
  /\ Capture(o)

\* expire_reservations: an order that was loaded unpaid is cancelled and
\* refunded, any other one only loses its hold.
Expire(o, c) ==
  /\ c.hold
  /\ hold' = [hold EXCEPT ![o] = FALSE]
  /\ \/ /\ c.status \in Unpaid
        /\ status' = [status EXCEPT ![o] = "cancelled"]
        /\ swept' = swept \cup {o}
        /\ IF Effective(c) = 0 THEN UNCHANGED <<snapshot, walletVars>> ELSE RefundFee(o, c)
     \/ /\ c.status \notin Unpaid
        /\ UNCHANGED <<status, swept, snapshot, walletVars>>
  /\ UNCHANGED <<invoiceVars, pending, paymentVars, loaded>>

-----------------------------------------------------------------------------

Session(o, c) ==
  \/ ChooseMethod(o, c) \/ FeeWaiver(o, c)
  \/ \E value \in Discounts : FixedCoupon(o, c, value)
  \/ SubmitProof(o, c) \/ Cancel(o, c) \/ Expire(o, c)

Next ==
  \E o \in Orders :
    \/ Create(o) \/ LoadRow(o)
    \/ \E c \in loaded[o] : Session(o, c)
    \/ Reject(o)
    \/ \E excess \in 0..MaxExcess : Confirm(o, excess)
    \/ CardPaid(o)

Spec == Init /\ [][Next]_vars

-----------------------------------------------------------------------------
(* What is checked *)

\* The part of the bot fee that the wallet really paid and did not get back.
WalletFee(o) == ledger[o]["bot_fee"] - ledger[o]["bot_fee_refund"]

\* What the entries of each order add to the wallet.
Credit == [o \in Orders |-> ledger[o]["overpayment"] - WalletFee(o)]

\* The balance is what the entries say: no operation changes one without the
\* other, repeated callbacks included.
LedgerExplainsBalance == balance = StartBalance + SumFunctionOnSet(Credit, Orders)

\* No sequence of coupons, payment methods and expiry refunds more fee than
\* the wallet paid, or refunds it twice.
RefundWithinFee ==
  \A o \in Orders : WalletFee(o) >= 0 /\ snapshot[o].refunded <= ledger[o]["bot_fee_refund"]

\* What the student has paid for the order: transfers and card, less what
\* went to the wallet, and the fee the wallet covered.
Charge(o) == cash[o] - ledger[o]["overpayment"] + WalletFee(o)

\* A paid order was never sold under its price: transfer and wallet together
\* cover the discounted price and the fee that was not waived.  An order that
\* the sweep cancelled got its fee back; a receipt that crosses the sweep
\* revives it with the total as it was.
NeverUndercharged ==
  \A o \in Orders : status[o] = "paid" /\ o \notin swept => Charge(o) >= subtotal[o] + fee[o]

\* The payment that makes an order paid charges the discounted price and the
\* fee left to the dinar, any excess going to the wallet: whatever handlers
\* overlapped, and unless a coupon meets a snapshot that has forgotten the
\* wallet's deduction, or the sweep has cancelled the order before.
ChargedExactly ==
  [][\A o \in Orders :
       /\ cash[o] = 0 /\ status'[o] = "paid"
       /\ o \notin swept
       /\ coupon[o] = "none" \/ snapshot[o].deducted = ledger[o]["bot_fee"]
       => Charge(o)' = subtotal[o] + fee[o]]_vars

-----------------------------------------------------------------------------
(* What a document says and the code does not keep *)

\* The fee the wallet paid is returned when an unpaid order expires and when a
\* waiver coupon is applied.
FeeReturned ==
  \A o \in Orders : o \in swept \/ coupon[o] = "waiver" => WalletFee(o) = 0

=============================================================================
