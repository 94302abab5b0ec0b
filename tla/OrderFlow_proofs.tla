-------------------------- MODULE OrderFlow_proofs --------------------------
(***************************************************************************)
(* Proofs about OrderFlow, for every set of orders and items, every bound  *)
(* on receipts and with or without overlapping transactions.               *)
(***************************************************************************)
EXTENDS OrderFlow, TLAPS

USE ConstantsAssumption DEF Idle

-----------------------------------------------------------------------------
(* Type correctness.  SubmitProof needs the room OpenProof found, and what  *)
(* reads the item of an order needs it to have one.                         *)

\* A student whose receipt is being stored has not used up the bound.
ReceiptRoom == \A o \in Orders : desk[o] = "proof" => proofs[o] < MaxProofs

\* Whatever a handler, the sweep or the courier is busy with has an item.
ItemKnown ==
  /\ \A o \in Orders :
       \/ status[o] # "draft" \/ reservation[o] # "none"
       \/ job[o] # "none" \/ desk[o] # "none"
       => item[o] \in Items
  /\ sweep # Idle => item[sweep.order] \in Items
  /\ courier # Idle => item[courier.order] \in Items

TypeInv == TypeOK /\ ReceiptRoom /\ ItemKnown

LEMMA TypeInit == Init => TypeInv
  BY DEF Init, TypeInv, TypeOK, ReceiptRoom, ItemKnown, OrderStatus, ReservationStatus,
         InventoryStatus

\* FreeItem and what is built on it keep the stock rows well typed.
LEMMA FreeItemType ==
  ASSUME TypeOK, NEW o \in Orders, NEW read, FreeItem(o, read)
  PROVE  /\ inventory' \in [Items -> InventoryStatus]
         /\ reserved_order' \in [Items -> Orders \cup {None}]
  BY DEF TypeOK, FreeItem, InventoryStatus

\* Fulfill changes the order's status, its reservation and its job only.
LEMMA FulfillType ==
  ASSUME TypeOK, NEW o \in Orders, Fulfill(o)
  PROVE  /\ status' \in [Orders -> OrderStatus]
         /\ reservation' \in [Orders -> ReservationStatus]
         /\ job' \in [Orders -> {"none", "pending", "processing", "sent", "failed"}]
         /\ UNCHANGED <<inventory, reserved_order>>
  BY DEF TypeOK, Fulfill, SetStatus, OrderStatus, ReservationStatus

\* Orders without an item stay untouched until create() gives them one.
LEMMA KnownStep == TypeOK /\ ItemKnown /\ [Next]_vars => ItemKnown'
<1> SUFFICES ASSUME TypeOK, ItemKnown, [Next]_vars
             PROVE  ItemKnown'
  OBVIOUS
<1> USE DEF TypeOK, ItemKnown, stockVars, moneyVars, courierVars, deskVars
<1>1. ASSUME NEW o \in Orders, NEW i \in Items, Create(o, i)
      PROVE  ItemKnown'
  BY <1>1 DEF Create, SetStatus
<1>2. ASSUME NEW o \in Orders, item[o] \in Items, UNCHANGED item,
             sweep' \in {sweep, Idle} \/ sweep'.order = o,
             courier' \in {courier, Idle} \/ courier'.order = o,
             \A p \in Orders \ {o} : /\ status'[p] = status[p]
                                     /\ reservation'[p] = reservation[p]
                                     /\ job'[p] = job[p]
                                     /\ desk'[p] = desk[p]
      PROVE  ItemKnown'
  BY <1>2
<1>3. ASSUME NEW o \in Orders, Cancel(o) \/ SubmitProof(o)
      PROVE  ItemKnown'
  BY <1>2, <1>3 DEF Cancel, ReleaseReservation, SubmitProof, SetStatus
<1>4. ASSUME NEW o \in Orders, RefuseLate(o) \/ ConfirmProof(o)
      PROVE  ItemKnown'
  BY <1>2, <1>4 DEF RefuseLate, ConfirmProof, Fulfill, Decide, SetStatus
<1>5. ASSUME NEW o \in Orders, SweepLoad(o) \/ SweepItem(o) \/ SweepCommit(o)
      PROVE  ItemKnown'
  <2>1. item[o] \in Items
    BY <1>5 DEF SweepLoad, SweepItem, SweepCommit
  <2>2. CASE SweepLoad(o)
    BY <1>2, <2>1, <2>2 DEF SweepLoad
  <2>3. CASE SweepItem(o)
    <3>1. sweep'.order = o
      BY <2>3 DEF SweepItem
    <3>2. QED
      BY <1>2, <2>1, <2>3, <3>1 DEF SweepItem
  <2>4. CASE SweepCommit(o)
    BY <1>2, <2>1, <2>4 DEF SweepCommit, SetStatus
  <2>5. QED
    BY <1>5, <2>2, <2>3, <2>4
<1>6. ASSUME NEW o \in Orders, CourierClaim(o) \/ CourierFinish(o) \/ CourierRetry(o)
      PROVE  ItemKnown'
  <2>1. item[o] \in Items
    BY <1>6 DEF CourierClaim, CourierFinish, CourierRetry
  <2>2. QED
    BY <1>2, <1>6, <2>1 DEF CourierClaim, CourierFinish, CourierRetry, SetStatus
<1>7. ASSUME NEW o \in Orders, OpenCancel(o) \/ OpenProof(o)
      PROVE  ItemKnown'
  BY <1>2, <1>7 DEF OpenCancel, OpenProof, Unpaid
<1>8. ASSUME NEW o \in Orders,
             \/ Complete(o) \/ AskSupport(o) \/ RejectProof(o)
             \/ CardSuccess(o) \/ WebhookFulfill(o)
      PROVE  ItemKnown'
  <2>1. item[o] \in Items \/ UNCHANGED <<status, reservation, job>>
    BY <1>8 DEF Complete, AskSupport, CanMove, Transitions, RejectProof, CardSuccess,
       WebhookFulfill
  <2>2. CASE UNCHANGED <<status, reservation, job>>
    BY <1>8, <2>2 DEF Complete, AskSupport, RejectProof, CardSuccess, WebhookFulfill
  <2>3. CASE item[o] \in Items
    BY <1>2, <1>8, <2>3 DEF Complete, AskSupport, RejectProof, CardSuccess, WebhookFulfill,
       Fulfill, SetStatus
  <2>4. QED
    BY <2>1, <2>2, <2>3
<1>9. ASSUME UNCHANGED <<status, reservation, item, job, desk, sweep>>,
             courier' \in {courier, Idle}
      PROVE  ItemKnown'
  BY <1>9
<1>10. QED
  BY <1>1, <1>3, <1>4, <1>5, <1>6, <1>7, <1>8, <1>9
     DEF Next, CommitStep, StartStep, ReadStock, Acknowledge, ConfirmTooLate, CardDuplicate,
     CardFailure, WebhookCrash, Lapse, CourierSend, CourierCrash, vars

LEMMA TypeStep == TypeInv /\ [Next]_vars => TypeInv'
<1> SUFFICES ASSUME TypeInv, [Next]_vars
             PROVE  TypeInv'
  OBVIOUS
<1>0. SUFFICES (TypeOK /\ ReceiptRoom)'
  BY KnownStep DEF TypeInv
<1> USE DEF TypeInv, TypeOK, ReceiptRoom, stockVars, moneyVars, courierVars, deskVars
<1>1. ASSUME NEW o \in Orders, NEW i \in Items, Create(o, i)
      PROVE  (TypeOK /\ ReceiptRoom)'
  BY <1>1 DEF Create, SetStatus, OrderStatus, ReservationStatus, InventoryStatus
<1>2. ASSUME NEW o \in Orders, OpenCancel(o)
      PROVE  (TypeOK /\ ReceiptRoom)'
  BY <1>2 DEF OpenCancel
<1>3. ASSUME NEW o \in Orders, Cancel(o)
      PROVE  (TypeOK /\ ReceiptRoom)'
  <2>1. /\ status' \in [Orders -> OrderStatus]
        /\ reservation' \in [Orders -> ReservationStatus]
        /\ copy' \in [Orders -> {"unread", "ended"} \cup InventoryStatus]
    BY <1>3 DEF Cancel, ReleaseReservation, SetStatus, OrderStatus, ReservationStatus
  <2>2. /\ inventory' \in [Items -> InventoryStatus]
        /\ reserved_order' \in [Items -> Orders \cup {None}]
    BY <1>3, FreeItemType DEF Cancel, ReleaseReservation
  <2>3. QED
    BY <1>3, <2>1, <2>2 DEF Cancel
<1>4. ASSUME NEW o \in Orders, OpenProof(o)
      PROVE  (TypeOK /\ ReceiptRoom)'
  BY <1>4 DEF OpenProof
<1>5. ASSUME NEW o \in Orders, SubmitProof(o)
      PROVE  (TypeOK /\ ReceiptRoom)'
  <2>1. lapsed' \in [Orders -> BOOLEAN]
    BY <1>5, Zenon DEF SubmitProof
  <2>2. status' \in [Orders -> OrderStatus]
    BY <1>5 DEF SubmitProof, SetStatus, OrderStatus
  <2>3. CASE proof[o] = "pending"
    BY <1>5, <2>1, <2>2, <2>3 DEF SubmitProof
  <2>4. CASE proof[o] # "pending"
    <3>1. /\ proofs' \in [Orders -> 0..MaxProofs]
          /\ ReceiptRoom'
      BY <1>5, <2>4 DEF SubmitProof
    <3>2. QED
      BY <1>5, <2>1, <2>2, <2>4, <3>1 DEF SubmitProof
  <2>5. QED
    BY <2>3, <2>4
<1>6. ASSUME NEW o \in Orders, Acknowledge(o) \/ Complete(o) \/ AskSupport(o)
      PROVE  (TypeOK /\ ReceiptRoom)'
  <2>1. CASE Acknowledge(o)
    BY <2>1 DEF Acknowledge
  <2>2. CASE Complete(o)
    BY <2>2 DEF Complete, SetStatus, OrderStatus
  <2>3. CASE AskSupport(o)
    BY <2>3 DEF AskSupport, SetStatus, OrderStatus
  <2>4. QED
    BY <1>6, <2>1, <2>2, <2>3
<1>7. ASSUME NEW o \in Orders, ConfirmProof(o)
      PROVE  (TypeOK /\ ReceiptRoom)'
  <2>1. /\ proof' \in [Orders -> {"none", "pending", "confirmed", "rejected"}]
        /\ manual' \in [Orders -> Nat]
    BY <1>7 DEF ConfirmProof, Decide, RecordPayment
  <2>2. QED
    BY <1>7, <2>1, FulfillType DEF ConfirmProof
<1>20. ASSUME NEW o \in Orders, RefuseLate(o)
       PROVE  (TypeOK /\ ReceiptRoom)'
  <2>1. /\ proof' \in [Orders -> {"none", "pending", "confirmed", "rejected"}]
        /\ manual' \in [Orders -> Nat]
    BY <1>20 DEF RefuseLate, Decide, RecordPayment
  <2>2. /\ status' \in [Orders -> OrderStatus]
        /\ reservation' \in [Orders -> ReservationStatus]
        /\ late' \in [Orders -> {"none"} \cup InventoryStatus]
    BY <1>20 DEF RefuseLate, SetStatus, OrderStatus, ReservationStatus
  <2>3. QED
    BY <1>20, <2>1, <2>2, FreeItemType DEF RefuseLate
<1>21. ASSUME NEW o \in Orders, ReadStock(o) \/ ConfirmTooLate(o) \/ SweepItem(o)
       PROVE  (TypeOK /\ ReceiptRoom)'
  <2>1. CASE ReadStock(o)
    BY <2>1 DEF ReadStock, ItemKnown
  <2>2. CASE ConfirmTooLate(o)
    BY <2>2 DEF ConfirmTooLate, ItemKnown
  <2>3. CASE SweepItem(o)
    <3>1. inventory[item[o]] \in InventoryStatus
      BY <2>3 DEF SweepItem, ItemKnown
    <3>2. sweep' \in [order : Orders, unpaid : BOOLEAN, item : {"unread"} \cup InventoryStatus]
      BY <2>3, <3>1 DEF SweepItem
    <3>3. QED
      BY <2>3, <3>2 DEF SweepItem
  <2>4. QED
    BY <1>21, <2>1, <2>2, <2>3
<1>8. ASSUME NEW o \in Orders, RejectProof(o)
      PROVE  (TypeOK /\ ReceiptRoom)'
  BY <1>8 DEF RejectProof, SetStatus, OrderStatus
<1>9. ASSUME NEW o \in Orders, CardSuccess(o)
      PROVE  (TypeOK /\ ReceiptRoom)'
  BY <1>9 DEF CardSuccess, SetStatus, OrderStatus
<1>10. ASSUME NEW o \in Orders, CardDuplicate(o) \/ CardFailure(o) \/ WebhookCrash(o)
       PROVE  (TypeOK /\ ReceiptRoom)'
  BY <1>10 DEF CardDuplicate, CardFailure, WebhookCrash
<1>11. ASSUME NEW o \in Orders, WebhookFulfill(o)
       PROVE  (TypeOK /\ ReceiptRoom)'
  <2>1. CASE Fulfill(o)
    BY <1>11, <2>1, FulfillType DEF WebhookFulfill
  <2>2. CASE ~Fulfill(o)
    BY <1>11, <2>2 DEF WebhookFulfill, SetStatus, OrderStatus
  <2>3. QED
    BY <2>1, <2>2
<1>12. ASSUME NEW o \in Orders, Lapse(o) \/ SweepLoad(o)
       PROVE  (TypeOK /\ ReceiptRoom)'
  <2>1. CASE Lapse(o)
    BY <2>1 DEF Lapse
  <2>2. CASE SweepLoad(o)
    <3>1. sweep' \in [order : Orders, unpaid : BOOLEAN, item : {"unread"} \cup InventoryStatus]
      <4>1. (status[o] \in Unpaid) \in BOOLEAN
        OBVIOUS
      <4>2. QED
        BY <2>2, <4>1, Zenon DEF SweepLoad
    <3>2. QED
      BY <2>2, <3>1 DEF SweepLoad
  <2>3. QED
    BY <1>12, <2>1, <2>2
<1>13. ASSUME NEW o \in Orders, SweepCommit(o)
       PROVE  (TypeOK /\ ReceiptRoom)'
  <2>1. status' \in [Orders -> OrderStatus]
    BY <1>13 DEF SweepCommit, SetStatus, OrderStatus
  <2>2. reservation' \in [Orders -> ReservationStatus]
    BY <1>13 DEF SweepCommit, ReservationStatus
  <2>3. QED
    BY <1>13, <2>1, <2>2, FreeItemType DEF SweepCommit
<1>14. ASSUME NEW o \in Orders, CourierClaim(o) \/ CourierSend(o)
       PROVE  (TypeOK /\ ReceiptRoom)'
  <2>1. CASE CourierClaim(o)
    <3>1. courier' \in [order : Orders, seen : OrderStatus, item : InventoryStatus]
      BY <2>1 DEF CourierClaim, ItemKnown
    <3>2. QED
      BY <2>1, <3>1 DEF CourierClaim
  <2>2. CASE CourierSend(o)
    BY <2>2 DEF CourierSend
  <2>3. QED
    BY <1>14, <2>1, <2>2
<1>15. ASSUME NEW o \in Orders, CourierFinish(o)
       PROVE  (TypeOK /\ ReceiptRoom)'
  <2>1. status' \in [Orders -> OrderStatus]
    BY <1>15 DEF CourierFinish, SetStatus, OrderStatus
  <2>2. inventory' \in [Items -> InventoryStatus]
    BY <1>15 DEF CourierFinish, InventoryStatus
  <2>3. QED
    BY <1>15, <2>1, <2>2 DEF CourierFinish
<1>16. ASSUME NEW o \in Orders, CourierRetry(o)
       PROVE  (TypeOK /\ ReceiptRoom)'
  <2>1. status' \in [Orders -> OrderStatus]
    BY <1>16 DEF CourierRetry, SetStatus, OrderStatus
  <2>2. QED
    BY <1>16, <2>1 DEF CourierRetry
<1>17. CASE CourierCrash
  BY <1>17 DEF CourierCrash
<1>18. CASE UNCHANGED vars
  BY <1>18 DEF vars
<1>19. QED
  BY <1>20, <1>21, <1>1, <1>2, <1>3, <1>4, <1>5, <1>6, <1>7, <1>8, <1>9, <1>10, <1>11, <1>12,
     <1>13, <1>14, <1>15, <1>16, <1>17, <1>18
     DEF Next, CommitStep, StartStep

\* Every variable of the order flow keeps its type in every reachable state.
THEOREM TypeCorrect == Spec => []TypeOK
<1>1. TypeInv => TypeOK
  BY DEF TypeInv
<1>2. QED
  BY TypeInit, TypeStep, <1>1, PTL DEF Spec

-----------------------------------------------------------------------------
(* Stock.  An item can only be found unowned if a reservation ended without *)
(* giving it back; the drafts matter because Create overwrites the item of  *)
(* its order, which must not have been the owner of another one.  What ends *)
(* a reservation works on copies, so the copies of an order that owns its   *)
(* item have to be true: nobody else can take an item from its owner and    *)
(* give it back to the same order.                                          *)

\* An order that does not exist yet has nothing and nobody works on it.
DraftUntouched ==
  \A o \in Orders : status[o] = "draft" =>
    /\ reservation[o] = "none" /\ item[o] = None
    /\ desk[o] = "none" /\ late[o] = "none"

\* The sweep only ever loads reservations of orders that exist.
SweptExists == sweep # Idle => status[sweep.order] # "draft"

\* The item of the order is kept for this very order.
Owns(o) ==
  /\ item[o] \in Items
  /\ inventory[item[o]] = "reserved"
  /\ reserved_order[item[o]] = o

\* Whoever has read the item of an order that still owns it read "reserved".
CopiesTrue ==
  \A o \in Orders : Owns(o) =>
    /\ copy[o] \in {"unread", "reserved"}
    /\ late[o] \in {"none", "reserved"}
    /\ (sweep # Idle /\ sweep.order = o) => sweep.item \in {"unread", "reserved"}

\* Only a cancellation has read anything, and what it found ended stays so.
CopyOfCancel ==
  \A o \in Orders :
    /\ desk[o] # "cancel" => copy[o] = "unread"
    /\ copy[o] = "ended" => ~Live(o)

StockInv ==
  /\ StockOwned /\ CancelledHoldsNothing /\ DraftUntouched
  /\ SweptExists /\ CopiesTrue /\ CopyOfCancel

\* An item that is given back loses its owner, and nobody gains it.
LEMMA FreeItemOwners ==
  ASSUME TypeOK, NEW o \in Orders, NEW read, FreeItem(o, read), UNCHANGED item,
         NEW p \in Orders, Owns(p)'
  PROVE  Owns(p) /\ (p = o => read # "reserved")
  BY DEF Owns, FreeItem, TypeOK

\* Ending a reservation with FreeItem leaves no item without an owner.
LEMMA EndedReservationFreesItem ==
  ASSUME TypeOK, StockOwned, NEW o \in Orders, NEW read, FreeItem(o, read), UNCHANGED item,
         Owns(o) => read = "reserved",
         NEW end \in {"released", "expired"},
         reservation' = [reservation EXCEPT ![o] = end]
  PROVE  StockOwned'
<1>1. SUFFICES ASSUME NEW i \in Items, inventory'[i] = "reserved"
               PROVE  \E p \in Orders : /\ reserved_order'[i] = p
                                        /\ item'[p] = i
                                        /\ Live(p)'
  BY DEF StockOwned
<1>2. inventory[i] = "reserved" /\ reserved_order'[i] = reserved_order[i]
  BY <1>1 DEF FreeItem, TypeOK, InventoryStatus
<1>3. PICK p \in Orders : reserved_order[i] = p /\ item[p] = i /\ Live(p)
  BY <1>2 DEF StockOwned
<1>4. p # o
  BY <1>1, <1>2, <1>3 DEF Owns, FreeItem, TypeOK, InventoryStatus
<1>5. reservation'[p] = reservation[p]
  BY <1>3, <1>4 DEF TypeOK
<1>6. QED
  BY <1>2, <1>3, <1>5 DEF Live

\* Steps that only confirm or extend holds keep every owner.
LEMMA LiveStaysOwner ==
  ASSUME TypeOK, StockOwned, UNCHANGED <<inventory, reserved_order, item>>,
         \A p \in Orders : Live(p) => Live(p)'
  PROVE  StockOwned'
  BY DEF StockOwned

LEMMA StockInit == Init => StockInv
  BY DEF Init, StockInv, StockOwned, CancelledHoldsNothing, DraftUntouched, SweptExists,
     CopiesTrue, CopyOfCancel, Owns, Live

\* The reads of an order's stock keep the copies true, the writes give up theirs.
LEMMA CopiesStep == TypeInv /\ StockInv /\ [Next]_vars => CopiesTrue'
<1> SUFFICES ASSUME TypeInv, StockInv, [Next]_vars
             PROVE  CopiesTrue'
  OBVIOUS
<1> USE DEF TypeInv, TypeOK, StockInv, CopiesTrue, stockVars, moneyVars, courierVars, deskVars
<1>1. ASSUME \A p \in Orders : Owns(p)' => Owns(p),
             UNCHANGED <<copy, late>>, sweep' \in {sweep, Idle}
      PROVE  CopiesTrue'
  BY <1>1
<1>2. ASSUME NEW o \in Orders, NEW i \in Items, Create(o, i)
      PROVE  CopiesTrue'
  <2>1. copy[o] = "unread" /\ late[o] = "none" /\ ~(sweep # Idle /\ sweep.order = o)
    BY <1>2 DEF Create, DraftUntouched, CopyOfCancel, SweptExists
  <2>2. \A p \in Orders \ {o} : Owns(p)' => Owns(p)
    BY <1>2 DEF Create, Owns
  <2>3. UNCHANGED <<copy, late, sweep>>
    BY <1>2 DEF Create
  <2>4. QED
    BY <2>1, <2>2, <2>3
<1>3. ASSUME NEW o \in Orders, Cancel(o)
      PROVE  CopiesTrue'
  <2>1. \A p \in Orders : Owns(p)' => Owns(p)
    BY <1>3, FreeItemOwners DEF Cancel, ReleaseReservation, Owns
  <2>2. copy' = [copy EXCEPT ![o] = "unread"] /\ UNCHANGED <<late, sweep>>
    BY <1>3 DEF Cancel
  <2>3. QED
    BY <2>1, <2>2
<1>4. ASSUME NEW o \in Orders, RefuseLate(o)
      PROVE  CopiesTrue'
  <2>1. \A p \in Orders : Owns(p)' => Owns(p)
    BY <1>4, FreeItemOwners DEF RefuseLate
  <2>2. late' = [late EXCEPT ![o] = "none"] /\ UNCHANGED <<copy, sweep>>
    BY <1>4 DEF RefuseLate
  <2>3. QED
    BY <2>1, <2>2
<1>5. ASSUME NEW o \in Orders, SweepCommit(o)
      PROVE  CopiesTrue'
  <2>1. \A p \in Orders : Owns(p)' => Owns(p)
    BY <1>5, FreeItemOwners DEF SweepCommit
  <2>2. QED
    BY <1>1, <1>5, <2>1 DEF SweepCommit
<1>6. ASSUME NEW o \in Orders, ReadStock(o) \/ ConfirmTooLate(o) \/ SweepItem(o)
      PROVE  CopiesTrue'
  <2>1. \A p \in Orders : Owns(p)' <=> Owns(p)
    BY <1>6 DEF ReadStock, ConfirmTooLate, SweepItem, Owns
  <2>2. Owns(o) => Live(o) /\ inventory[item[o]] = "reserved"
    BY DEF StockOwned, Owns
  <2>3. CASE ReadStock(o)
    BY <2>1, <2>2, <2>3 DEF ReadStock
  <2>4. CASE ConfirmTooLate(o)
    BY <2>1, <2>2, <2>4 DEF ConfirmTooLate
  <2>5. CASE SweepItem(o)
    <3>1. Owns(o) => sweep'.item = "reserved"
      BY <2>2, <2>5 DEF SweepItem
    <3>2. sweep'.order = o /\ UNCHANGED <<copy, late>>
      BY <2>5 DEF SweepItem
    <3>3. QED
      BY <2>1, <3>1, <3>2
  <2>6. QED
    BY <1>6, <2>3, <2>4, <2>5
<1>7. ASSUME NEW o \in Orders, SweepLoad(o)
      PROVE  CopiesTrue'
  BY <1>7 DEF SweepLoad, Owns
<1>8. ASSUME NEW o \in Orders, CourierFinish(o)
      PROVE  CopiesTrue'
  <2>1. \A p \in Orders : Owns(p)' => Owns(p)
    BY <1>8 DEF CourierFinish, Owns
  <2>2. QED
    BY <1>1, <1>8, <2>1 DEF CourierFinish
<1>9. ASSUME UNCHANGED <<item, inventory, reserved_order, copy, late, sweep>>
      PROVE  CopiesTrue'
  BY <1>1, <1>9 DEF Owns
<1>10. QED
  BY <1>2, <1>3, <1>4, <1>5, <1>6, <1>7, <1>8, <1>9
     DEF Next, CommitStep, StartStep, OpenCancel, OpenProof, SubmitProof, Acknowledge,
     Complete, AskSupport, ConfirmProof, Fulfill, RejectProof, CardSuccess, CardDuplicate,
     CardFailure, WebhookFulfill, WebhookCrash, Lapse, CourierClaim, CourierSend,
     CourierRetry, CourierCrash, vars

LEMMA StockStep == TypeInv /\ StockInv /\ [Next]_vars => StockInv'
<1> SUFFICES ASSUME TypeInv, StockInv, [Next]_vars
             PROVE  (/\ StockOwned /\ CancelledHoldsNothing /\ DraftUntouched
                     /\ SweptExists /\ CopyOfCancel)'
  BY CopiesStep DEF StockInv
<1> DEFINE Rest == /\ StockOwned /\ CancelledHoldsNothing /\ DraftUntouched
                   /\ SweptExists /\ CopyOfCancel
<1> USE DEF TypeInv, StockInv, stockVars, moneyVars, courierVars, deskVars
<1>1. ASSUME NEW o \in Orders, NEW i \in Items, Create(o, i)
      PROVE  Rest'
  <2>1. ~Live(o)
    BY <1>1 DEF Create, DraftUntouched, Live
  <2>2. StockOwned'
    <3>1. SUFFICES ASSUME NEW j \in Items, inventory'[j] = "reserved"
                   PROVE  \E p \in Orders : /\ reserved_order'[j] = p
                                            /\ item'[p] = j
                                            /\ Live(p)'
      BY DEF StockOwned
    <3>2. CASE j = i
      BY <1>1, <3>2 DEF Create, Live, TypeOK
    <3>3. CASE j # i
      <4>1. PICK p \in Orders : reserved_order[j] = p /\ item[p] = j /\ Live(p)
        BY <1>1, <3>1, <3>3 DEF Create, StockOwned, TypeOK
      <4>2. p # o
        BY <2>1, <4>1
      <4>3. QED
        BY <1>1, <3>3, <4>1, <4>2 DEF Create, Live, TypeOK
    <3>4. QED
      BY <3>2, <3>3
  <2>3. CancelledHoldsNothing' /\ DraftUntouched' /\ SweptExists'
    BY <1>1 DEF Create, SetStatus, TypeOK, CancelledHoldsNothing, DraftUntouched,
       SweptExists, Live
  <2>4. CopyOfCancel'
    BY <1>1 DEF Create, TypeOK, DraftUntouched, CopyOfCancel, Live
  <2>5. QED
    BY <2>2, <2>3, <2>4
<1>2. ASSUME NEW o \in Orders, Cancel(o)
      PROVE  Rest'
  <2>1. /\ copy[o] = "ended" => ~Live(o) /\ UNCHANGED reservation
        /\ copy[o] # "ended" => reservation' = [reservation EXCEPT ![o] = "released"]
        /\ \A p \in Orders \ {o} : reservation'[p] = reservation[p]
        /\ ~Live(o)'
    BY <1>2 DEF Cancel, ReleaseReservation, CopyOfCancel, TypeOK, Live
  <2>2. StockOwned'
    <3>1. CASE copy[o] = "ended"
      BY <1>2, <2>1, <3>1, LiveStaysOwner DEF Cancel, ReleaseReservation, Live
    <3>2. CASE copy[o] # "ended"
      <4>1. Owns(o) => copy[o] = "reserved"
        BY <1>2, <3>2 DEF Cancel, CopiesTrue
      <4>2. QED
        BY <1>2, <2>1, <3>2, <4>1, EndedReservationFreesItem DEF Cancel, ReleaseReservation
    <3>3. QED
      BY <3>1, <3>2
  <2>3. CancelledHoldsNothing' /\ CopyOfCancel'
    BY <1>2, <2>1 DEF Cancel, SetStatus, TypeOK, CancelledHoldsNothing, CopyOfCancel, Live
  <2>4. DraftUntouched' /\ SweptExists'
    BY <1>2, <2>1 DEF Cancel, SetStatus, TypeOK, DraftUntouched, SweptExists
  <2>5. QED
    BY <2>2, <2>3, <2>4
<1>3. ASSUME NEW o \in Orders, SweepCommit(o)
      PROVE  Rest'
  <2>1. StockOwned'
    <3>1. Owns(o) => sweep.item = "reserved"
      BY <1>3 DEF SweepCommit, CopiesTrue
    <3>2. QED
      BY <1>3, <3>1, EndedReservationFreesItem DEF SweepCommit
  <2>2. CancelledHoldsNothing' /\ CopyOfCancel'
    BY <1>3 DEF SweepCommit, SetStatus, TypeOK, CancelledHoldsNothing, CopyOfCancel, Live
  <2>3. DraftUntouched' /\ SweptExists'
    BY <1>3 DEF SweepCommit, SetStatus, TypeOK, DraftUntouched, SweptExists
  <2>4. QED
    BY <2>1, <2>2, <2>3
<1>4. ASSUME NEW o \in Orders, ConfirmProof(o)
      PROVE  Rest'
  <2>1. status[o] # "draft" /\ status'[o] \in {"paid", "waiting_fulfillment"}
    BY <1>4 DEF ConfirmProof, Decide, Fulfill, SetStatus, TypeOK
  <2>2. \A p \in Orders \ {o} : status'[p] = status[p] /\ reservation'[p] = reservation[p]
    BY <1>4 DEF ConfirmProof, Fulfill, SetStatus, TypeOK
  <2>3. \/ Live(o) /\ UNCHANGED <<stockVars, deskVars, late, sweep>>
        \/ Live(o)' /\ Live(o)
    BY <1>4 DEF ConfirmProof, Fulfill, CanConfirm, Live, TypeOK
  <2>4. StockOwned'
    BY <1>4, <2>2, <2>3, LiveStaysOwner DEF ConfirmProof, Fulfill, Live, TypeOK
  <2>5. CancelledHoldsNothing' /\ DraftUntouched'
    BY <1>4, <2>1, <2>2 DEF ConfirmProof, CancelledHoldsNothing, DraftUntouched, Live
  <2>6. SweptExists'
    BY <1>4, <2>1, <2>2 DEF ConfirmProof, SweptExists, TypeOK
  <2>7. CopyOfCancel'
    BY <1>4, <2>2, <2>3 DEF ConfirmProof, CopyOfCancel, Live
  <2>8. QED
    BY <2>4, <2>5, <2>6, <2>7
<1>16. ASSUME NEW o \in Orders, RefuseLate(o)
       PROVE  Rest'
  <2>1. status[o] # "draft" /\ status'[o] = "paid"
    BY <1>16 DEF RefuseLate, Decide, SetStatus, TypeOK
  <2>2. \A p \in Orders \ {o} : status'[p] = status[p] /\ reservation'[p] = reservation[p]
    BY <1>16 DEF RefuseLate, SetStatus, TypeOK
  <2>3. StockOwned'
    <3>1. Owns(o) => late[o] = "reserved"
      BY <1>16 DEF RefuseLate, CopiesTrue
    <3>2. QED
      BY <1>16, <3>1, EndedReservationFreesItem DEF RefuseLate
  <2>4. CancelledHoldsNothing' /\ DraftUntouched'
    BY <1>16, <2>1, <2>2 DEF RefuseLate, CancelledHoldsNothing, DraftUntouched, Live, TypeOK
  <2>5. SweptExists'
    BY <1>16, <2>1, <2>2 DEF RefuseLate, SweptExists, TypeOK
  <2>6. CopyOfCancel'
    BY <1>16, <2>2 DEF RefuseLate, CopyOfCancel, Live, TypeOK
  <2>7. QED
    BY <2>3, <2>4, <2>5, <2>6
<1>5. ASSUME NEW o \in Orders, WebhookFulfill(o)
      PROVE  Rest'
  <2>1. CASE status[o] = "paid"
    <3>1. /\ status'[o] \in {"paid", "waiting_fulfillment", "needs_support"}
          /\ \A p \in Orders \ {o} : status'[p] = status[p] /\ reservation'[p] = reservation[p]
          /\ Live(o)' <=> Live(o)
      BY <1>5, <2>1 DEF WebhookFulfill, Fulfill, CanConfirm, SetStatus, Live, TypeOK
    <3>2. StockOwned'
      BY <1>5, <2>1, <3>1, LiveStaysOwner DEF WebhookFulfill, Fulfill, Live, TypeOK
    <3>3. CancelledHoldsNothing' /\ DraftUntouched'
      BY <1>5, <2>1, <3>1 DEF WebhookFulfill, CancelledHoldsNothing, DraftUntouched, Live
    <3>4. SweptExists'
      BY <1>5, <3>1 DEF WebhookFulfill, SweptExists, TypeOK
    <3>5. CopyOfCancel'
      BY <1>5, <3>1 DEF WebhookFulfill, CopyOfCancel, Live
    <3>6. QED
      BY <3>2, <3>3, <3>4, <3>5
  <2>2. CASE status[o] # "paid"
    BY <1>5, <2>2 DEF WebhookFulfill, StockOwned, CancelledHoldsNothing, DraftUntouched,
       SweptExists, CopyOfCancel, Live
  <2>3. QED
    BY <2>1, <2>2
<1>6. ASSUME NEW o \in Orders, SubmitProof(o)
      PROVE  Rest'
  <2>1. (status'[o] # "draft" /\ status'[o] # "cancelled") \/ UNCHANGED status
    BY <1>6 DEF SubmitProof, SetStatus, TypeOK
  <2>2. \A p \in Orders \ {o} : status'[p] = status[p] /\ desk'[p] = desk[p]
    BY <1>6 DEF SubmitProof, SetStatus, TypeOK
  <2>3. desk'[o] = "none" /\ copy[o] = "unread"
    BY <1>6 DEF SubmitProof, CopyOfCancel, TypeOK
  <2>4. UNCHANGED <<reservation, item, inventory, reserved_order, copy, late, sweep>>
    BY <1>6 DEF SubmitProof
  <2>5. StockOwned' /\ CopyOfCancel'
    BY <2>2, <2>3, <2>4 DEF StockOwned, CopyOfCancel, Live
  <2>6. CancelledHoldsNothing' /\ DraftUntouched' /\ SweptExists'
    BY <2>1, <2>2, <2>3, <2>4 DEF CancelledHoldsNothing, DraftUntouched, SweptExists, Live, TypeOK
  <2>7. QED
    BY <2>5, <2>6
<1>7. ASSUME NEW o \in Orders, SweepLoad(o) \/ SweepItem(o)
      PROVE  Rest'
  <2>1. status[o] # "draft" /\ sweep'.order = o
    BY <1>7 DEF SweepLoad, SweepItem, DraftUntouched, SweptExists, TypeOK
  <2>2. UNCHANGED <<status, stockVars, deskVars, late>>
    BY <1>7 DEF SweepLoad, SweepItem
  <2>3. QED
    BY <2>1, <2>2 DEF StockOwned, CancelledHoldsNothing, DraftUntouched, SweptExists,
       CopyOfCancel, Live
<1>8. ASSUME NEW o \in Orders, CourierFinish(o)
      PROVE  Rest'
  <2>1. StockOwned'
    BY <1>8 DEF CourierFinish, StockOwned, TypeOK, Live
  <2>2. CancelledHoldsNothing' /\ DraftUntouched' /\ SweptExists' /\ CopyOfCancel'
    BY <1>8 DEF CourierFinish, SetStatus, TypeOK, CancelledHoldsNothing, DraftUntouched,
       SweptExists, CopyOfCancel, Live
  <2>3. QED
    BY <2>1, <2>2
<1>9. ASSUME NEW o \in Orders, NEW new \in OrderStatus \ {"draft", "cancelled"},
             SetStatus(o, new), UNCHANGED <<stockVars, deskVars, late, sweep>>
      PROVE  Rest'
  BY <1>9 DEF SetStatus, TypeOK, StockOwned, CancelledHoldsNothing, DraftUntouched,
     SweptExists, CopyOfCancel, Live
<1>10. ASSUME UNCHANGED <<status, reservation, item, inventory, reserved_order, deskVars,
                          late, sweep>>
       PROVE  Rest'
  BY <1>10 DEF StockOwned, CancelledHoldsNothing, DraftUntouched, SweptExists, CopyOfCancel, Live
<1>17. ASSUME NEW o \in Orders, OpenCancel(o) \/ OpenProof(o) \/ ReadStock(o) \/ ConfirmTooLate(o)
       PROVE  Rest'
  <2>1. status[o] # "draft"
    BY <1>17 DEF OpenCancel, OpenProof, ReadStock, ConfirmTooLate, Unpaid, DraftUntouched
  <2>2. /\ UNCHANGED <<status, stockVars, sweep>>
        /\ \A p \in Orders \ {o} : /\ desk'[p] = desk[p] /\ copy'[p] = copy[p]
                                    /\ late'[p] = late[p]
    BY <1>17 DEF OpenCancel, OpenProof, ReadStock, ConfirmTooLate, TypeOK
  <2>3. /\ desk'[o] # "cancel" => copy'[o] = "unread"
        /\ copy'[o] = "ended" => ~Live(o)
    BY <1>17 DEF OpenCancel, OpenProof, ReadStock, ConfirmTooLate, CopyOfCancel, TypeOK,
       ItemKnown, InventoryStatus
  <2>4. QED
    BY <2>1, <2>2, <2>3 DEF StockOwned, CancelledHoldsNothing, DraftUntouched, SweptExists,
       CopyOfCancel, Live
<1>11. ASSUME NEW o \in Orders,
              \/ Acknowledge(o) \/ Lapse(o)
              \/ CardDuplicate(o) \/ CardFailure(o) \/ WebhookCrash(o)
              \/ CourierClaim(o) \/ CourierSend(o)
       PROVE  Rest'
  BY <1>10, <1>11 DEF Acknowledge, Lapse, CardDuplicate,
     CardFailure, WebhookCrash, CourierClaim, CourierSend
<1>12. ASSUME NEW o \in Orders,
              Complete(o) \/ AskSupport(o) \/ RejectProof(o) \/ CardSuccess(o) \/ CourierRetry(o)
       PROVE  Rest'
  <2>1. {"completed", "needs_support", "payment_rejected", "paid"}
          \subseteq OrderStatus \ {"draft", "cancelled"}
    BY DEF OrderStatus
  <2>2. \/ UNCHANGED <<status, stockVars, deskVars, late, sweep>>
        \/ \E new \in {"completed", "needs_support", "payment_rejected", "paid"} :
              SetStatus(o, new) /\ UNCHANGED <<stockVars, deskVars, late, sweep>>
    BY <1>12 DEF Complete, AskSupport, RejectProof, CardSuccess, CourierRetry
  <2>3. QED
    BY <1>9, <1>10, <2>1, <2>2
<1>13. CASE CourierCrash
  BY <1>10, <1>13 DEF CourierCrash
<1>14. CASE UNCHANGED vars
  BY <1>10, <1>14 DEF vars
<1>15. QED
  BY <1>1, <1>2, <1>3, <1>4, <1>5, <1>6, <1>7, <1>8, <1>11, <1>12, <1>13, <1>14,
     <1>16, <1>17 DEF Next, CommitStep, StartStep

\* No interleaving of checkout, cancel, review, webhook and sweep loses stock:
\* an item that is out of the shop belongs to a live reservation.
THEOREM NoLostStock == Spec => []StockOwned
<1>1. StockInv => StockOwned
  BY DEF StockInv
<1>2. QED
  BY TypeInit, TypeStep, StockInit, StockStep, <1>1, PTL DEF Spec

\* No interleaving leaves a cancelled order with a live reservation.
THEOREM CancelledOrdersHoldNothing == Spec => []CancelledHoldsNothing
<1>1. StockInv => CancelledHoldsNothing
  BY DEF StockInv
<1>2. QED
  BY TypeInit, TypeStep, StockInit, StockStep, <1>1, PTL DEF Spec

\* A reservation that gave its item back is never confirmed or held again.
THEOREM EndedReservationsStayEnded == Spec => EndedStaysEnded
<1>1. ASSUME TypeInv, StockInv, Next, NEW o \in Orders,
             reservation[o] \in {"released", "expired"}
      PROVE  reservation'[o] \in {"released", "expired"}
  <2> USE DEF TypeInv, TypeOK, stockVars
  <2>1. ASSUME NEW p \in Orders, CommitStep(p)
        PROVE  reservation'[o] \in {"released", "expired"}
    BY <1>1, <2>1 DEF CommitStep, ReadStock, Cancel, ReleaseReservation, SubmitProof,
       RefuseLate, SweepItem, SweepCommit, CourierSend, CourierFinish, CourierRetry
  <2>2. ASSUME NEW p \in Orders, NEW i \in Items, Create(p, i)
        PROVE  reservation'[o] \in {"released", "expired"}
    BY <1>1, <2>2 DEF Create, StockInv, DraftUntouched
  <2>3. ASSUME NEW p \in Orders, ConfirmProof(p) \/ WebhookFulfill(p)
        PROVE  reservation'[o] \in {"released", "expired"}
    BY <1>1, <2>3 DEF ConfirmProof, WebhookFulfill, Fulfill, CanConfirm
  <2>4. CASE UNCHANGED reservation
    BY <1>1, <2>4
  <2>5. QED
    BY <1>1, <2>1, <2>2, <2>3, <2>4 DEF Next, StartStep, OpenCancel, OpenProof,
       Acknowledge, Complete, AskSupport, ConfirmTooLate, RejectProof, CardSuccess,
       CardDuplicate, CardFailure, WebhookCrash, Lapse, SweepLoad, CourierClaim, CourierCrash
<1>2. TypeInv /\ StockInv /\ [Next]_vars =>
        [\A o \in Orders : reservation[o] \in {"released", "expired"} =>
            reservation'[o] \in {"released", "expired"}]_vars
  BY <1>1
<1>3. QED
  BY TypeInit, TypeStep, StockInit, StockStep, <1>2, PTL DEF Spec, EndedStaysEnded

\* An order that has ended its reservation has done so for good, and keeps the
\* name of the item it had.
LEMMA EndedHolderStays ==
  ASSUME TypeInv, StockInv, Next, NEW o \in Orders, item[o] \in Items, ~Live(o)
  PROVE  item'[o] = item[o] /\ ~Live(o)'
<1> USE DEF TypeInv, TypeOK, stockVars, Live
<1>1. ASSUME NEW p \in Orders, CommitStep(p)
      PROVE  item'[o] = item[o] /\ ~Live(o)'
  BY <1>1 DEF CommitStep, ReadStock, Cancel, ReleaseReservation, SubmitProof,
     RefuseLate, SweepItem, SweepCommit, CourierSend, CourierFinish, CourierRetry
<1>2. ASSUME NEW p \in Orders, NEW i \in Items, Create(p, i)
      PROVE  item'[o] = item[o] /\ ~Live(o)'
  BY <1>2 DEF Create, StockInv, DraftUntouched
<1>3. ASSUME NEW p \in Orders, ConfirmProof(p) \/ WebhookFulfill(p)
      PROVE  item'[o] = item[o] /\ ~Live(o)'
  BY <1>3 DEF ConfirmProof, WebhookFulfill, Fulfill, CanConfirm
<1>4. CASE UNCHANGED <<reservation, item>>
  BY <1>4
<1>5. QED
  BY <1>1, <1>2, <1>3, <1>4 DEF Next, StartStep, OpenCancel, OpenProof,
     Acknowledge, Complete, AskSupport, ConfirmTooLate, RejectProof, CardSuccess,
     CardDuplicate, CardFailure, WebhookCrash, Lapse, SweepLoad, CourierClaim, CourierCrash

LEMMA ReturnedStep ==
  TypeInv /\ StockInv /\ ReturnedThroughAnEnd /\ [Next]_vars => ReturnedThroughAnEnd'
<1> SUFFICES ASSUME TypeInv, StockInv, ReturnedThroughAnEnd, [Next]_vars
             PROVE  ReturnedThroughAnEnd'
  OBVIOUS
<1> USE DEF TypeInv, TypeOK, stockVars, moneyVars, courierVars, deskVars
<1>1. CASE UNCHANGED vars
  BY <1>1 DEF vars, ReturnedThroughAnEnd, Live
<1>2. CASE Next
  <2>1. ASSUME NEW i \in Items, NEW o \in Orders, item[o] = i, ~Live(o)
        PROVE  \E p \in Orders : item'[p] = i /\ ~Live(p)'
    BY <1>2, <2>1, EndedHolderStays
  <2>2. SUFFICES ASSUME NEW i \in Items,
                        \A o \in Orders : item[o] = i => Live(o),
                        \A o \in Orders : item'[o] = i => Live(o)'
                 PROVE  /\ ~\E o \in Orders : item'[o] = i /\ inventory'[i] = "available"
                        /\ \A o, p \in Orders : item'[o] = i /\ item'[p] = i => o = p
    <3>1. ASSUME NEW i \in Items,
                 \/ inventory'[i] = "available" /\ \E o \in Orders : item'[o] = i
                 \/ \E o, p \in Orders : item'[o] = i /\ item'[p] = i /\ o # p
          PROVE  \E o \in Orders : item'[o] = i /\ ~Live(o)'
      BY <2>1, <3>1, Zenon
    <3>2. QED
      BY <3>1 DEF ReturnedThroughAnEnd
  <2>3. /\ ~\E o \in Orders : item[o] = i /\ inventory[i] = "available"
        /\ \A o, p \in Orders : item[o] = i /\ item[p] = i => o = p
    BY <2>2 DEF ReturnedThroughAnEnd
  <2>4. ASSUME NEW o \in Orders, NEW j \in Items, Create(o, j)
        PROVE  /\ ~\E p \in Orders : item'[p] = i /\ inventory'[i] = "available"
               /\ \A p, q \in Orders : item'[p] = i /\ item'[q] = i => p = q
    BY <2>3, <2>4 DEF Create
  <2>5. ASSUME NEW o \in Orders, NEW read, FreeItem(o, read), ~Live(o)', UNCHANGED item
        PROVE  inventory'[i] = inventory[i]
    BY <2>2, <2>5 DEF FreeItem
  <2>6. ASSUME NEW o \in Orders, Cancel(o) \/ RefuseLate(o) \/ SweepCommit(o)
        PROVE  UNCHANGED item /\ inventory'[i] = inventory[i]
    <3>1. ~Live(o)' \/ UNCHANGED inventory
      BY <2>6 DEF Cancel, ReleaseReservation, RefuseLate, SweepCommit, Live
    <3>2. (\E read : FreeItem(o, read)) \/ UNCHANGED inventory
      BY <2>6 DEF Cancel, ReleaseReservation, RefuseLate, SweepCommit
    <3>3. QED
      BY <2>5, <2>6, <3>1, <3>2 DEF Cancel, RefuseLate, SweepCommit
  <2>7. ASSUME NEW o \in Orders, CourierFinish(o)
        PROVE  UNCHANGED item /\ (inventory'[i] = "available" => inventory[i] = "available")
    BY <2>7 DEF CourierFinish
  <2>8. CASE UNCHANGED item /\ (inventory'[i] = "available" => inventory[i] = "available")
    BY <2>3, <2>8
  <2>9. QED
    BY <1>2, <2>4, <2>6, <2>7, <2>8 DEF Next, CommitStep, StartStep, OpenCancel, OpenProof,
       ReadStock, SubmitProof, Acknowledge, Complete, AskSupport, ConfirmProof, Fulfill,
       ConfirmTooLate, RejectProof, CardSuccess, CardDuplicate, CardFailure, WebhookFulfill,
       WebhookCrash, Lapse, SweepLoad, SweepItem, CourierClaim, CourierSend, CourierRetry,
       CourierCrash
<1>3. QED
  BY <1>1, <1>2

\* Whatever stale copies overwrite, stock comes back to the shop, or into a
\* second student's hands, only through a reservation that has ended.
THEOREM StockReturnsThroughAnEnd == Spec => []ReturnedThroughAnEnd
<1>1. Init => ReturnedThroughAnEnd
  BY DEF Init, ReturnedThroughAnEnd
<1>2. QED
  BY TypeInit, TypeStep, StockInit, StockStep, ReturnedStep, <1>1, PTL DEF Spec

-----------------------------------------------------------------------------
(* Money.  Every path to the outbox goes through status "paid" or through a *)
(* reviewer's confirmation, and each of them recorded a payment first.      *)

PaidStatus == \A o \in Orders : status[o] = "paid" => Paid(o)
JobPaid    == \A o \in Orders : job[o] # "none" => Paid(o)
ClaimedJob == courier # Idle => job[courier.order] # "none"

MoneyInv == PaidBeforeGoods /\ PaidStatus /\ JobPaid /\ ClaimedJob

\* A recorded payment is never taken back.
LEMMA PaidIsStable ==
  ASSUME TypeInv, Next, NEW o \in Orders, Paid(o)
  PROVE  Paid(o)'
<1> USE DEF TypeInv, TypeOK, moneyVars, Paid
<1>1. ASSUME NEW p \in Orders, ConfirmProof(p) \/ RefuseLate(p)
      PROVE  Paid(o)'
  BY <1>1 DEF ConfirmProof, RefuseLate, Decide, RecordPayment
<1>2. ASSUME NEW p \in Orders, CardSuccess(p) \/ CardFailure(p)
      PROVE  Paid(o)'
  BY <1>2 DEF CardSuccess, CardFailure
<1>3. CASE UNCHANGED <<manual, card>>
  BY <1>3
<1>4. QED
  BY <1>1, <1>2, <1>3 DEF Next, CommitStep, StartStep, Create, OpenCancel, OpenProof,
     ReadStock, Cancel, SubmitProof, Acknowledge, Complete, AskSupport, ConfirmTooLate,
     RejectProof, CardDuplicate, WebhookFulfill, WebhookCrash, Lapse, SweepLoad, SweepItem,
     SweepCommit, CourierClaim,
     CourierSend, CourierFinish, CourierRetry, CourierCrash

LEMMA MoneyInit == Init => MoneyInv
  BY DEF Init, MoneyInv, PaidBeforeGoods, PaidStatus, JobPaid, ClaimedJob

LEMMA MoneyStep == TypeInv /\ MoneyInv /\ [Next]_vars => MoneyInv'
<1> SUFFICES ASSUME TypeInv, MoneyInv, [Next]_vars
             PROVE  MoneyInv'
  OBVIOUS
<1> USE DEF TypeInv, TypeOK, MoneyInv, PaidBeforeGoods, PaidStatus, JobPaid, ClaimedJob,
            courierVars
<1>1. CASE UNCHANGED vars
  BY <1>1 DEF vars, moneyVars, Paid
<1>2. CASE Next
  <2>1. \A o \in Orders : Paid(o) => Paid(o)'
    BY <1>2, PaidIsStable
  <2>2. ASSUME NEW o \in Orders, ConfirmProof(o) \/ RefuseLate(o)
        PROVE  MoneyInv'
    <3>1. Paid(o)'
      BY <2>1, <2>2 DEF ConfirmProof, RefuseLate, Decide, RecordPayment, Paid
    <3>2. \A p \in Orders \ {o} : status'[p] = status[p] /\ job'[p] = job[p]
      BY <2>2 DEF ConfirmProof, RefuseLate, Fulfill, SetStatus
    <3>3. ClaimedJob'
      BY <2>2 DEF ConfirmProof, RefuseLate, Fulfill
    <3>4. QED
      BY <2>1, <2>2, <3>1, <3>2, <3>3 DEF ConfirmProof, RefuseLate
  <2>3. ASSUME NEW o \in Orders, WebhookFulfill(o)
        PROVE  MoneyInv'
    <3>1. CASE status[o] = "paid"
      <4>1. Paid(o)'
        BY <2>1, <3>1
      <4>2. \A p \in Orders \ {o} : status'[p] = status[p] /\ job'[p] = job[p]
        BY <2>3 DEF WebhookFulfill, Fulfill, SetStatus
      <4>3. ClaimedJob'
        BY <2>3 DEF WebhookFulfill, Fulfill
      <4>4. QED
        BY <2>1, <2>3, <4>1, <4>2, <4>3 DEF WebhookFulfill
    <3>2. CASE status[o] # "paid"
      BY <2>1, <2>3, <3>2 DEF WebhookFulfill
    <3>3. QED
      BY <3>1, <3>2
  <2>4. ASSUME NEW o \in Orders, CardSuccess(o)
        PROVE  MoneyInv'
    <3>1. Paid(o)'
      BY <2>4 DEF CardSuccess, Paid
    <3>2. QED
      BY <2>1, <2>4, <3>1 DEF CardSuccess, SetStatus
  <2>5. ASSUME NEW o \in Orders, CourierClaim(o) \/ CourierSend(o)
        PROVE  MoneyInv'
    BY <2>1, <2>5 DEF CourierClaim, CourierSend
  <2>6. ASSUME NEW o \in Orders, CourierFinish(o) \/ CourierRetry(o)
        PROVE  MoneyInv'
    <3>1. job[o] # "none" /\ courier' = Idle
      BY <2>6 DEF CourierFinish, CourierRetry
    <3>2. \A p \in Orders : status'[p] = "paid" => status[p] = "paid"
      BY <2>6 DEF CourierFinish, CourierRetry, SetStatus
    <3>3. UNCHANGED delivered_msg /\ \A p \in Orders \ {o} : job'[p] = job[p]
      BY <2>6 DEF CourierFinish, CourierRetry
    <3>4. QED
      BY <2>1, <3>1, <3>2, <3>3
  <2>7. ASSUME UNCHANGED <<delivered_msg, job>>, courier' \in {courier, Idle},
               \A p \in Orders : status'[p] = "paid" => status[p] = "paid"
        PROVE  MoneyInv'
    BY <2>1, <2>7
  <2>8. ASSUME NEW o \in Orders,
               \/ \E i \in Items : Create(o, i)
               \/ Cancel(o) \/ SubmitProof(o) \/ Complete(o) \/ AskSupport(o)
               \/ RejectProof(o) \/ SweepCommit(o)
        PROVE  MoneyInv'
    <3>1. \A p \in Orders : status'[p] = "paid" => status[p] = "paid"
      BY <2>8 DEF Create, Cancel, SubmitProof, Complete, AskSupport, RejectProof,
         SweepCommit, SetStatus
    <3>2. UNCHANGED <<delivered_msg, job, courier>>
      BY <2>8 DEF Create, Cancel, SubmitProof, Complete, AskSupport, RejectProof,
         SweepCommit
    <3>3. QED
      BY <2>7, <3>1, <3>2
  <2>9. ASSUME NEW o \in Orders,
               \/ OpenCancel(o) \/ OpenProof(o) \/ Acknowledge(o) \/ CardDuplicate(o)
               \/ CardFailure(o) \/ WebhookCrash(o) \/ Lapse(o) \/ SweepLoad(o)
               \/ ReadStock(o) \/ ConfirmTooLate(o) \/ SweepItem(o)
        PROVE  MoneyInv'
    BY <2>7, <2>9 DEF OpenCancel, OpenProof, Acknowledge, CardDuplicate, CardFailure,
       WebhookCrash, Lapse, SweepLoad, ReadStock, ConfirmTooLate, SweepItem
  <2>10. CASE CourierCrash
    BY <2>7, <2>10 DEF CourierCrash
  <2>11. QED
    BY <1>2, <2>2, <2>3, <2>4, <2>5, <2>6, <2>8, <2>9, <2>10
       DEF Next, CommitStep, StartStep
<1>3. QED
  BY <1>1, <1>2

\* No path hands goods over before a payment is recorded.
THEOREM NoGoodsBeforePayment == Spec => []PaidBeforeGoods
<1>1. MoneyInv => PaidBeforeGoods
  BY DEF MoneyInv
<1>2. QED
  BY TypeInit, TypeStep, MoneyInit, MoneyStep, <1>1, PTL DEF Spec

-----------------------------------------------------------------------------
(* Receipts *)

LEMMA ReceiptStep == TypeInv /\ ReceiptDecidedOnce /\ [Next]_vars => ReceiptDecidedOnce'
<1> SUFFICES ASSUME TypeInv, ReceiptDecidedOnce, [Next]_vars
             PROVE  ReceiptDecidedOnce'
  OBVIOUS
<1> USE DEF TypeInv, TypeOK, ReceiptDecidedOnce
<1>1. ASSUME UNCHANGED <<proof, proofs, manual>>,
             \A p \in Orders : status'[p] = "payment_review" => status[p] = "payment_review"
      PROVE  ReceiptDecidedOnce'
  BY <1>1
<1>2. ASSUME NEW o \in Orders, ConfirmProof(o) \/ RefuseLate(o)
      PROVE  ReceiptDecidedOnce'
  <2>1. status' = [status EXCEPT ![o] = status'[o]] /\ status'[o] # "payment_review"
    BY <1>2 DEF ConfirmProof, RefuseLate, Fulfill, SetStatus
  <2>2. CASE status[o] = "payment_review"
    <3>1. proof[o] = "pending" /\ RecordPayment(o) /\ UNCHANGED proofs
      BY <1>2, <2>2 DEF ConfirmProof, RefuseLate, Decide
    <3>2. QED
      BY <2>1, <3>1 DEF RecordPayment
  <2>3. CASE status[o] # "payment_review"
    BY <1>1, <1>2, <2>1, <2>3 DEF ConfirmProof, RefuseLate, Decide
  <2>4. QED
    BY <2>2, <2>3
<1>3. ASSUME NEW o \in Orders, RejectProof(o)
      PROVE  ReceiptDecidedOnce'
  BY <1>3 DEF RejectProof, SetStatus
<1>4. ASSUME NEW o \in Orders, SubmitProof(o)
      PROVE  ReceiptDecidedOnce'
  <2>1. CASE proof[o] = "pending"
    BY <1>1, <1>4, <2>1 DEF SubmitProof, moneyVars
  <2>2. CASE proof[o] # "pending"
    <3>1. /\ proof' = [proof EXCEPT ![o] = "pending"]
          /\ proofs' = [proofs EXCEPT ![o] = @ + 1]
          /\ SetStatus(o, "payment_review")
          /\ UNCHANGED manual
      BY <1>4, <2>2 DEF SubmitProof
    <3>2. manual[o] <= proofs[o] /\ manual[o] \in Nat /\ proofs[o] \in Nat
      BY <2>2
    <3>3. QED
      BY <3>1, <3>2 DEF SetStatus
  <2>3. QED
    BY <2>1, <2>2
<1>5. ASSUME NEW o \in Orders,
             \/ \E i \in Items : Create(o, i)
             \/ Cancel(o) \/ Complete(o) \/ AskSupport(o) \/ CardSuccess(o)
             \/ WebhookFulfill(o) \/ SweepCommit(o) \/ CourierFinish(o) \/ CourierRetry(o)
      PROVE  ReceiptDecidedOnce'
  <2>1. \A p \in Orders : status'[p] = "payment_review" => status[p] = "payment_review"
    BY <1>5 DEF Create, Cancel, Complete, AskSupport, CardSuccess, WebhookFulfill, Fulfill,
       SweepCommit, CourierFinish, CourierRetry, SetStatus
  <2>2. UNCHANGED <<proof, proofs, manual>>
    BY <1>5 DEF Create, Cancel, Complete, AskSupport, CardSuccess, WebhookFulfill,
       SweepCommit, CourierFinish, CourierRetry, moneyVars
  <2>3. QED
    BY <1>1, <2>1, <2>2
<1>6. CASE UNCHANGED <<status, proof, proofs, manual>>
  BY <1>1, <1>6
<1>7. QED
  BY <1>2, <1>3, <1>4, <1>5, <1>6 DEF Next, CommitStep, StartStep, OpenCancel, OpenProof,
     ReadStock, Acknowledge, ConfirmTooLate, CardDuplicate, CardFailure, WebhookCrash, Lapse,
     SweepLoad, SweepItem, CourierClaim, CourierSend, CourierCrash, moneyVars, vars

\* Whatever overlaps, a receipt is confirmed for at most one payment, and an
\* order under review always has a receipt to decide.
THEOREM ReceiptsDecidedOnce == Spec => []ReceiptDecidedOnce
<1>1. Init => ReceiptDecidedOnce
  BY DEF Init, ReceiptDecidedOnce
<1>2. QED
  BY TypeInit, TypeStep, ReceiptStep, <1>1, PTL DEF Spec

-----------------------------------------------------------------------------
(* Refinement.  A step receives money for one order, or hands over the      *)
(* goods of one paid order, or is a stutter of the contract.                *)

PaidOrders   == {o \in Orders : Paid(o)}
HandedOrders == {o \in Orders : delivered_msg[o]}

LEMMA ContractInit == Init => Contract!Init
  BY DEF Init, Contract!Init, Paid

\* The only steps that record a payment or a sent message do nothing else.
LEMMA ContractStep == TypeInv /\ MoneyInv /\ [Next]_vars => [Contract!Next]_<<PaidOrders, HandedOrders>>
<1> SUFFICES ASSUME TypeInv, MoneyInv, [Next]_vars
             PROVE  [Contract!Next]_<<PaidOrders, HandedOrders>>
  OBVIOUS
<1> USE DEF TypeInv, TypeOK, PaidOrders, HandedOrders, moneyVars, courierVars
<1>1. ASSUME NEW o \in Orders, UNCHANGED delivered_msg, Paid(o)',
             \A p \in Orders \ {o} : Paid(p)' <=> Paid(p)
      PROVE  [Contract!Next]_<<PaidOrders, HandedOrders>>
  <2>1. CASE Paid(o)
    BY <1>1, <2>1
  <2>2. CASE ~Paid(o)
    <3>1. PaidOrders' = PaidOrders \cup {o} /\ o \notin PaidOrders
      BY <1>1, <2>2
    <3>2. UNCHANGED HandedOrders
      BY <1>1
    <3>3. QED
      BY <3>1, <3>2 DEF Contract!Next, Contract!ReceiveMoney
  <2>3. QED
    BY <2>1, <2>2
<1>2. ASSUME NEW o \in Orders, ConfirmProof(o) \/ RefuseLate(o)
      PROVE  [Contract!Next]_<<PaidOrders, HandedOrders>>
  <2>1. Paid(o)' /\ \A p \in Orders \ {o} : Paid(p)' <=> Paid(p)
    BY <1>2 DEF ConfirmProof, RefuseLate, Decide, RecordPayment, Paid
  <2>2. QED
    BY <1>1, <1>2, <2>1 DEF ConfirmProof, RefuseLate
<1>3. ASSUME NEW o \in Orders, CardSuccess(o)
      PROVE  [Contract!Next]_<<PaidOrders, HandedOrders>>
  <2>1. Paid(o)' /\ \A p \in Orders \ {o} : Paid(p)' <=> Paid(p)
    BY <1>3 DEF CardSuccess, Paid
  <2>2. QED
    BY <1>1, <1>3, <2>1 DEF CardSuccess
<1>4. ASSUME NEW o \in Orders, CardFailure(o)
      PROVE  [Contract!Next]_<<PaidOrders, HandedOrders>>
  <2>1. \A p \in Orders : Paid(p)' <=> Paid(p)
    BY <1>4 DEF CardFailure, Paid
  <2>2. QED
    BY <1>4, <2>1 DEF CardFailure
<1>5. ASSUME NEW o \in Orders, CourierSend(o)
      PROVE  [Contract!Next]_<<PaidOrders, HandedOrders>>
  <2>1. o \in PaidOrders \ HandedOrders
    BY <1>5 DEF CourierSend, MoneyInv, JobPaid, ClaimedJob
  <2>2. HandedOrders' = HandedOrders \cup {o} /\ UNCHANGED PaidOrders
    BY <1>5 DEF CourierSend, Paid
  <2>3. QED
    BY <2>1, <2>2 DEF Contract!Next, Contract!HandOver
<1>6. CASE UNCHANGED <<manual, card, delivered_msg>>
  BY <1>6 DEF Paid
<1>7. QED
  BY <1>2, <1>3, <1>4, <1>5, <1>6 DEF Next, CommitStep, StartStep, Create, OpenCancel,
     OpenProof, Cancel, SubmitProof, Acknowledge, Complete, AskSupport, RejectProof,
     ReadStock, ConfirmTooLate, CardDuplicate, WebhookFulfill, WebhookCrash, Lapse, SweepLoad,
     SweepItem, SweepCommit, CourierClaim, CourierFinish, CourierRetry, CourierCrash, vars

\* The order flow implements the contract of SaleContract.
THEOREM ImplementsContract == Spec => ContractSpec
  BY TypeInit, TypeStep, MoneyInit, MoneyStep, ContractInit, ContractStep, PTL
     DEF Spec, ContractSpec, Contract!Spec, PaidOrders, HandedOrders

=============================================================================
