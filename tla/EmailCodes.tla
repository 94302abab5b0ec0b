----------------------------- MODULE EmailCodes -----------------------------
(***************************************************************************)
(* Verification codes from a provider's mailbox: an order reserves the     *)
(* mailbox, poll_pending reads it for every waiting reservation, tells the *)
(* student the code of an unused mail and records the mail as used.        *)
(*                                                                         *)
(* Students tap "new code" while replicas read the mailbox.  A reader has  *)
(* loaded the reservation, and later the order, before it waits for the    *)
(* IMAP server; a tap has loaded the order and its waiting reservation     *)
(* before it writes the row of the mailbox.  Both write over what they     *)
(* loaded.  One mailbox is followed, which also serves orders elsewhere;   *)
(* its daily limit is left out.                                            *)
(***************************************************************************)
EXTENDS Naturals, FiniteSets, Owners

CONSTANTS
  CodeOrders,
  MaxCodes,          (* max_code_attempts                                   *)
  Taps,              (* handlers of "new code" that run at the same time    *)
  Readers,           (* replicas in poll_pending at the same time           *)
  MaxRows,           (* bound: reservation rows of an order                 *)
  MaxMails,          (* bound: mails that arrive                            *)
  MaxMailFaults      (* bound: IMAP failures and transactions that are lost *)

ASSUME CodeAssumption ==
  /\ MaxCodes \in Nat \ {0} /\ MaxRows \in Nat
  /\ MaxMails \in Nat /\ MaxMailFaults \in Nat
  /\ Nobody \notin CodeOrders \cup (CodeOrders \X (1..MaxRows))

(* The k-th reservation row of an order.  No key binds the rows to the     *)
(* attempts that are counted: taps that overlap make a row each.           *)
Reservations == CodeOrders \X (1..MaxRows)
Mails == 1..MaxMails

Elsewhere == "elsewhere"     \* the lease of an order that is not followed

VARIABLES
  code_order,        (* Order.status                                        *)
  code_attempts,     (* Order.code_attempts                                 *)
  wait,              (* EmailReservation.status                             *)
  older,             (* mails that had arrived when the reservation started *)
  otp,               (* order of the active OtpAccountLease                 *)
  mailbox,           (* EmailAccount.status                                 *)
  arrived,           (* mails in the mailbox                                *)
  used,              (* VerificationMessage: the reservation of a used mail *)
  told,              (* reservations whose student was told the mail's code *)
  unproved,          (* mails told by a transaction that was rolled back    *)
  tap,               (* what each handler loaded                            *)
  reader,            (* what each replica loaded                            *)
  mail_faults

mailVars == <<arrived, used, told, unproved, mail_faults>>
codeVars == <<code_order, code_attempts, wait, older, otp, mailbox, mailVars, tap, reader>>

NoTap == [order |-> Nobody, saw |-> "none", attempts |-> 0, active |-> Nobody]
NoRead == [res |-> Nobody, saw |-> "none", mail |-> 0]

CodeOrderStatus == {"paid", "waiting_code", "delivered", "needs_support", "completed"}

CodeTypeOK ==
  /\ code_order \in [CodeOrders -> CodeOrderStatus]
  /\ code_attempts \in [CodeOrders -> 0..MaxCodes]
  /\ wait \in [Reservations -> {"none", "waiting", "delivered", "expired", "cancelled",
                                "review"}]
  /\ older \in [Reservations -> 0..MaxMails]
  /\ otp \in CodeOrders \cup {Nobody, Elsewhere}
  /\ mailbox \in {"available", "paused", "reconnect"}
  /\ arrived \in 0..MaxMails
  /\ used \in [Mails -> Reservations \cup {Nobody}]
  /\ told \in [Mails -> SUBSET Reservations]
  /\ unproved \subseteq Mails
  /\ \A t \in Taps : tap[t].order \in CodeOrders \cup {Nobody}
  /\ \A d \in Readers : reader[d].res \in Reservations \cup {Nobody}
  /\ mail_faults \in 0..MaxMailFaults

CodeInit ==
  /\ code_order = [o \in CodeOrders |-> "paid"]
  /\ code_attempts = [o \in CodeOrders |-> 0]
  /\ wait = [r \in Reservations |-> "none"]
  /\ older = [r \in Reservations |-> 0]
  /\ otp = Nobody
  /\ mailbox = "available"
  /\ arrived = 0
  /\ used = [m \in Mails |-> Nobody]
  /\ told = [m \in Mails |-> {}]
  /\ unproved = {}
  /\ tap = [t \in Taps |-> NoTap]
  /\ reader = [d \in Readers |-> NoRead]
  /\ mail_faults = 0

-----------------------------------------------------------------------------
(* change_status from the status a session loaded: the workflow's moves    *)
(* between the statuses of an order with a code.  Setting what was loaded  *)
(* writes nothing.                                                         *)
CodeMoves ==
  { <<"paid", "waiting_code">>, <<"paid", "needs_support">>,
    <<"waiting_code", "delivered">>, <<"waiting_code", "needs_support">>,
    <<"delivered", "waiting_code">>, <<"delivered", "needs_support">>,
    <<"delivered", "completed">>,
    <<"needs_support", "waiting_code">>, <<"needs_support", "delivered">>,
    <<"needs_support", "completed">> }

MayBecome(saw, new) == saw = new \/ <<saw, new>> \in CodeMoves

Becomes(o, saw, new) ==
  code_order' = IF saw # new /\ MayBecome(saw, new)
                THEN [code_order EXCEPT ![o] = new] ELSE code_order

FreedBy(o) == IF otp = o THEN Nobody ELSE otp

-----------------------------------------------------------------------------
(* reserve                                                                 *)

(* The row the next reservation of o takes; at MaxRows there is none. *)
NextRow(o) ==
  {r \in Reservations :
     r[1] = o /\ wait[r] = "none" /\ \A k \in 1..(r[2] - 1) : wait[<<o, k>>] # "none"}

(* The order is not checked before the lease, the attempt and the          *)
(* reservation are there; where its status does not allow waiting_code,    *)
(* change_status raises, the handler shows the text of the error and       *)
(* commits what was done.                                                  *)
ReserveRow(o, saw, attempts, rows) ==
  \E r \in NextRow(o) :
    /\ wait' = [rows EXCEPT ![r] = "waiting"]
    /\ older' = [older EXCEPT ![r] = arrived]
    /\ otp' = o
    /\ code_attempts' = [code_attempts EXCEPT ![o] = attempts + 1]
    /\ Becomes(o, saw, "waiting_code")

(* The first reservation, when the payment is approved. *)
FirstCode(o) ==
  /\ code_order[o] = "paid"
  /\ mailbox = "available" /\ otp \in {Nobody, o}
  /\ ReserveRow(o, "paid", code_attempts[o], wait)
  /\ UNCHANGED <<mailbox, mailVars, tap, reader>>

WaitingOf(o) == {r \in Reservations : r[1] = o /\ wait[r] = "waiting"}

TapNewCode(t, o) ==
  /\ tap[t] = NoTap
  /\ code_attempts[o] < MaxCodes
  /\ code_order[o] # "paid"
  /\ \E a \in IF WaitingOf(o) = {} THEN {Nobody} ELSE WaitingOf(o) :
       tap' = [tap EXCEPT ![t] = [order |-> o, saw |-> code_order[o],
                                  attempts |-> code_attempts[o], active |-> a]]
  /\ UNCHANGED <<code_order, code_attempts, wait, older, otp, mailbox, mailVars, reader>>

(* request_new_code cancels the active reservation, also when no new one   *)
(* can be had: the mailbox is not to be had, or another transaction has    *)
(* its row locked, which the search skips.  The limit was checked by the   *)
(* tap, and the lease may be the order's own.                              *)
RequestNewCode(t) ==
  LET o == tap[t].order
      rows == IF tap[t].active = Nobody THEN wait
              ELSE [wait EXCEPT ![tap[t].active] = "cancelled"]
      lease == IF tap[t].active = Nobody THEN otp ELSE FreedBy(o)
  IN /\ tap[t] # NoTap
     /\ tap' = [tap EXCEPT ![t] = NoTap]
     /\ \/ /\ mailbox = "available" /\ lease \in {Nobody, o}
           /\ ReserveRow(o, tap[t].saw, tap[t].attempts, rows)
        \/ /\ wait' = rows
           /\ otp' = lease
           /\ UNCHANGED <<code_order, code_attempts, older>>
     /\ UNCHANGED <<mailbox, mailVars, reader>>

(* The lease of a minute runs out; the reservation goes on. *)
OtpLapses ==
  /\ otp # Nobody
  /\ otp' = Nobody
  /\ UNCHANGED <<code_order, code_attempts, wait, older, mailbox, mailVars, tap, reader>>

(* Another order of the mailbox reserves it, and its reservation ends. *)
ElsewhereReserves ==
  /\ mailbox = "available" /\ otp = Nobody
  /\ otp' = Elsewhere
  /\ UNCHANGED <<code_order, code_attempts, wait, older, mailbox, mailVars, tap, reader>>

ElsewhereEnds ==
  /\ otp = Elsewhere \/ mailbox # "available"
  /\ otp' = FreedBy(Elsewhere)
  /\ mailbox' = "available"
  /\ UNCHANGED <<code_order, code_attempts, wait, older, mailVars, tap, reader>>

-----------------------------------------------------------------------------
(* poll_pending                                                            *)

Reading(d, r) == reader[d].res = r
Rest(d) == reader' = [reader EXCEPT ![d] = NoRead]

LoadReservation(d, r) ==
  /\ Reading(d, Nobody)
  /\ wait[r] = "waiting"
  /\ reader' = [reader EXCEPT ![d].res = r]
  /\ UNCHANGED <<code_order, code_attempts, wait, older, otp, mailbox, mailVars, tap>>

(* A reservation ends: the mailbox is free whatever it was, the lease of   *)
(* the order is released, the order moves.                                 *)
EndReservation(r, status, account, saw, new) ==
  /\ wait' = [wait EXCEPT ![r] = status]
  /\ mailbox' = account
  /\ otp' = FreedBy(r[1])
  /\ Becomes(r[1], saw, new)

(* An exception that poll_pending does not absorb ends the cycle and its   *)
(* transaction.                                                            *)
Raise(d) ==
  /\ Rest(d)
  /\ UNCHANGED <<code_order, code_attempts, wait, older, otp, mailbox, tap>>

OverdueExpires_WhileOrderWaits(r) ==
  /\ wait[r] = "waiting"
  /\ code_order[r[1]] = "waiting_code"
  /\ EndReservation(r, "expired", "available", code_order[r[1]], "needs_support")
  /\ UNCHANGED <<code_attempts, older, mailVars, tap, reader>>

(* _expire, in a cycle that loaded the reservation a moment ago. *)
OverdueExpires(r) ==
  /\ wait[r] = "waiting"
  /\ MayBecome(code_order[r[1]], "needs_support")
  /\ EndReservation(r, "expired", "available", code_order[r[1]], "needs_support")
  /\ UNCHANGED <<code_attempts, older, mailVars, tap, reader>>

(* _expire, when the reservation was loaded before others were read. *)
Expire(d, r) ==
  /\ Reading(d, r) /\ reader[d].saw = "none"
  /\ MayBecome(code_order[r[1]], "needs_support")
  /\ EndReservation(r, "expired", "available", code_order[r[1]], "needs_support")
  /\ Rest(d)
  /\ UNCHANGED <<code_attempts, older, mailVars, tap>>

ExpireRaises(d, r) ==
  /\ Reading(d, r) /\ reader[d].saw = "none"
  /\ ~MayBecome(code_order[r[1]], "needs_support")
  /\ Raise(d)
  /\ UNCHANGED mailVars

(* The order is loaded, then the IMAP server answers in its own time. *)
Fetch(d, r) ==
  /\ Reading(d, r) /\ reader[d].saw = "none"
  /\ reader' = [reader EXCEPT ![d].saw = code_order[r[1]]]
  /\ UNCHANGED <<code_order, code_attempts, wait, older, otp, mailbox, mailVars, tap>>

Fetched(d, r) == Reading(d, r) /\ reader[d].saw # "none" /\ reader[d].mail = 0

Unused(r) == {m \in Mails : older[r] < m /\ m <= arrived /\ used[m] = Nobody}

NoMail(d, r) ==
  /\ Fetched(d, r)
  /\ Unused(r) = {}
  /\ Rest(d)
  /\ UNCHANGED <<code_order, code_attempts, wait, older, otp, mailbox, mailVars, tap>>

(* Under the policy "review" more than one mail stops the mailbox. *)
Ambiguous(d, r) ==
  /\ Fetched(d, r)
  /\ Cardinality(Unused(r)) > 1
  /\ MayBecome(reader[d].saw, "needs_support")
  /\ wait' = [wait EXCEPT ![r] = "review"]
  /\ mailbox' = "paused"
  /\ Becomes(r[1], reader[d].saw, "needs_support")
  /\ Rest(d)
  /\ UNCHANGED <<code_attempts, older, otp, mailVars, tap>>

(* Rows that another transaction has inserted and not committed. *)
Inserting(m, r) ==
  \E d \in Readers : reader[d].mail # 0 /\ (reader[d].mail = m \/ reader[d].res = r)
Taken(m, r) == used[m] # Nobody \/ \E k \in Mails : used[k] = r

TellCode_NoFlush(d, r) ==
  \E m \in Unused(r) :
    /\ Fetched(d, r)
    /\ Unused(r) = {m}
    /\ reader' = [reader EXCEPT ![d].mail = m]
    /\ told' = [told EXCEPT ![m] = @ \cup {r}]
    /\ UNCHANGED <<code_order, code_attempts, wait, older, otp, mailbox, arrived, used,
                   unproved, mail_faults, tap>>

(* The row of the used mail is flushed before the student is told, and its *)
(* two unique keys wait for, or refuse, a second one.                      *)
TellCode(d, r) ==
  \E m \in Unused(r) :
    /\ Fetched(d, r)
    /\ Unused(r) = {m}
    /\ ~Inserting(m, r) /\ ~Taken(m, r)
    /\ reader' = [reader EXCEPT ![d].mail = m]
    /\ told' = [told EXCEPT ![m] = @ \cup {r}]
    /\ UNCHANGED <<code_order, code_attempts, wait, older, otp, mailbox, arrived, used,
                   unproved, mail_faults, tap>>

InsertRefused(d, r) ==
  /\ Fetched(d, r)
  /\ \E m \in Unused(r) : Taken(m, r)
  /\ Raise(d)
  /\ UNCHANGED mailVars

CommitCode(d, r) ==
  /\ Reading(d, r) /\ reader[d].mail # 0
  /\ MayBecome(reader[d].saw, "delivered")
  /\ used' = [used EXCEPT ![reader[d].mail] = r]
  /\ EndReservation(r, "delivered", "available", reader[d].saw, "delivered")
  /\ Rest(d)
  /\ UNCHANGED <<code_attempts, older, arrived, told, unproved, mail_faults, tap>>

(* A completed order goes neither to delivered nor, in _recover_failure,   *)
(* to support: the code was told, and nothing is recorded.                 *)
CommitRaises(d, r) ==
  /\ Reading(d, r) /\ reader[d].mail # 0
  /\ ~MayBecome(reader[d].saw, "delivered")
  /\ unproved' = unproved \cup {reader[d].mail}
  /\ Raise(d)
  /\ UNCHANGED <<arrived, used, told, mail_faults>>

MailFault == mail_faults < MaxMailFaults /\ mail_faults' = mail_faults + 1

(* _recover_failure after an IMAP error. *)
ImapFails(d, r) ==
  /\ Fetched(d, r)
  /\ MailFault
  /\ IF MayBecome(reader[d].saw, "needs_support")
     THEN \E account \in {"available", "reconnect"} :
            /\ EndReservation(r, "cancelled", account, reader[d].saw, "needs_support")
            /\ Rest(d)
            /\ UNCHANGED <<code_attempts, older, tap>>
     ELSE Raise(d)
  /\ UNCHANGED <<arrived, used, told, unproved>>

(* The transaction is lost after the code was told: a crash, or an         *)
(* exception in a later step of the cycle.                                 *)
CodeLost(d, r) ==
  /\ Reading(d, r) /\ reader[d].mail # 0
  /\ MailFault
  /\ unproved' = unproved \cup {reader[d].mail}
  /\ Raise(d)
  /\ UNCHANGED <<arrived, used, told>>

-----------------------------------------------------------------------------
MailArrives ==
  /\ arrived < MaxMails
  /\ arrived' = arrived + 1
  /\ UNCHANGED <<code_order, code_attempts, wait, older, otp, mailbox, used, told, unproved,
                 mail_faults, tap, reader>>

(* complete_order, or a ticket that sends the order to support. *)
OrderMovesOn(o) ==
  /\ \/ code_order[o] = "delivered" /\ code_order' = [code_order EXCEPT ![o] = "completed"]
     \/ /\ code_order[o] \in {"waiting_code", "delivered"}
        /\ code_order' = [code_order EXCEPT ![o] = "needs_support"]
  /\ UNCHANGED <<code_attempts, wait, older, otp, mailbox, mailVars, tap, reader>>

Poll(d, r) ==
  \/ Expire(d, r) \/ ExpireRaises(d, r)
  \/ Fetch(d, r) \/ NoMail(d, r) \/ Ambiguous(d, r)
  \/ TellCode(d, r) \/ InsertRefused(d, r)
  \/ CommitCode(d, r) \/ CommitRaises(d, r)

CodeNext ==
  \/ \E o \in CodeOrders :
       \/ FirstCode(o) \/ OrderMovesOn(o)
       \/ \E t \in Taps : TapNewCode(t, o)
  \/ \E t \in Taps : RequestNewCode(t)
  \/ \E d \in Readers, r \in Reservations :
       LoadReservation(d, r) \/ Poll(d, r) \/ ImapFails(d, r) \/ CodeLost(d, r)
  \/ \E r \in Reservations : OverdueExpires(r)
  \/ OtpLapses \/ ElsewhereReserves \/ ElsewhereEnds
  \/ MailArrives

(* A reservation of a completed order can neither be answered nor expire:  *)
(* the exception ends the cycle before those that started later.           *)
Poisoned == \E r \in Reservations : wait[r] = "waiting" /\ code_order[r[1]] = "completed"

(* Deadlines pass, the IMAP server has a timeout, and every cycle goes     *)
(* through all waiting reservations unless one of them raises.             *)
CodeFairness == \A r \in Reservations : WF_codeVars(~Poisoned /\ OverdueExpires(r))

CodeSpec == CodeInit /\ [][CodeNext]_codeVars
CodeFairSpec == CodeSpec /\ CodeFairness

-----------------------------------------------------------------------------
(* Properties.                                                             *)

(* A mail's code is told to one reservation and a reservation is told one  *)
(* code, although replicas read the mailbox at the same time: unless the   *)
(* transaction that told it was lost.                                      *)
CodeOnce ==
  /\ \A m \in Mails \ unproved : Cardinality(told[m]) <= 1
  /\ \A m, k \in Mails \ unproved : m # k => told[m] \cap told[k] = {}

(* A reservation does not wait for ever, unless one whose order is         *)
(* completed ends every cycle.                                             *)
ReservationEnds ==
  \A r \in Reservations : wait[r] = "waiting" ~> wait[r] # "waiting" \/ Poisoned
=============================================================================
