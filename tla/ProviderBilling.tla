-------------------------- MODULE ProviderBilling ---------------------------
(***************************************************************************)
(* What one platform owes the owner of the bot, period by period: the      *)
(* hourly job issues invoices and suspends a platform that pays late, the  *)
(* platform uploads proofs, an administrator reviews them in the bot or    *)
(* marks an invoice as paid through the HTTP API.                          *)
(*                                                                         *)
(* A review locks the proof and the invoice, counts the overdue invoices   *)
(* of the platform and only then writes: two reviews, or a review and the  *)
(* hourly job, meet between the count and the commit.  The policy of the   *)
(* platform has auto_suspend.                                              *)
(***************************************************************************)
EXTENDS Naturals, FiniteSets, Owners

CONSTANTS
  Invoices,          (* one for every period                                *)
  Transfers,         (* uploaded proofs, by the fingerprint of the file     *)
  ApiInvoices        (* invoices the owner settles through the HTTP API     *)

ASSUME BillingAssumption ==
  /\ ApiInvoices \subseteq Invoices
  /\ Nobody \notin Invoices
  /\ "api" \notin Transfers

VARIABLES
  invoice,           (* BusinessInvoice.status                              *)
  past_due,          (* invoices whose due_at has passed                    *)
  transfer,          (* BusinessInvoiceProof.status                         *)
  transfer_of,       (* BusinessInvoiceProof.invoice_id                     *)
  review,            (* an open review's answer to "nothing is overdue"     *)
  api,               (* API calls that loaded an unpaid invoice             *)
  ledger,            (* idempotency keys of the payments booked for it      *)
  raced,             (* invoices an API call paid again, see ApiPaid        *)
  platform           (* Provider.status                                     *)

billingVars ==
  <<invoice, past_due, transfer, transfer_of, review, api, ledger, raced, platform>>

BillingTypeOK ==
  /\ invoice \in [Invoices -> {"none", "issued", "overdue", "paid"}]
  /\ past_due \subseteq Invoices
  /\ transfer \in [Transfers -> {"none", "pending", "approved", "rejected"}]
  /\ transfer_of \in [Transfers -> Invoices \cup {Nobody}]
  /\ review \in [Transfers -> {"closed", "clear", "owing"}]
  /\ api \subseteq ApiInvoices
  /\ ledger \in [Invoices -> SUBSET (Transfers \cup {"api"})]
  /\ raced \subseteq Invoices
  /\ platform \in {"active", "suspended"}

BillingInit ==
  /\ invoice = [i \in Invoices |-> "none"]
  /\ past_due = {}
  /\ transfer = [t \in Transfers |-> "none"]
  /\ transfer_of = [t \in Transfers |-> Nobody]
  /\ review = [t \in Transfers |-> "closed"]
  /\ api = {}
  /\ ledger = [i \in Invoices |-> {}]
  /\ raced = {}
  /\ platform = "active"

-----------------------------------------------------------------------------
(* The hourly job                                                          *)

(* The row of an invoice under review is locked. *)
Locked(i) == \E t \in Transfers : transfer_of[t] = i /\ review[t] # "closed"

(* issue_due_invoices: the policy row is locked and its next date moves    *)
(* on, so a period is invoiced once.                                       *)
IssueInvoice(i) ==
  /\ invoice[i] = "none"
  /\ invoice' = [invoice EXCEPT ![i] = "issued"]
  /\ UNCHANGED <<past_due, transfer, transfer_of, review, api, ledger, raced, platform>>

DueDatePasses(i) ==
  /\ invoice[i] # "none" /\ i \notin past_due
  /\ past_due' = past_due \cup {i}
  /\ UNCHANGED <<invoice, transfer, transfer_of, review, api, ledger, raced, platform>>

Late == {i \in past_due : invoice[i] = "issued" /\ ~Locked(i)}

UnderReview(i) == \E t \in Transfers : transfer_of[t] = i /\ transfer[t] = "pending"

Suspend(late) ==
  /\ late # {}
  /\ invoice' = [i \in Invoices |-> IF i \in late THEN "overdue" ELSE invoice[i]]
  /\ platform' = "suspended"
  /\ UNCHANGED <<past_due, transfer, transfer_of, review, api, ledger, raced>>

EnforceOverdue_NotUnderReview == Suspend({i \in Late : ~UnderReview(i)})

(* enforce_overdue_billing skips the locked rows. *)
EnforceOverdue == Suspend(Late)

-----------------------------------------------------------------------------
(* The platform                                                            *)

(* submit_invoice_proof waits for the lock of the invoice.  It makes an    *)
(* overdue invoice an issued one again; the platform stays suspended.      *)
UploadTransfer(t, i) ==
  /\ transfer[t] = "none"
  /\ invoice[i] \in {"issued", "overdue"} /\ ~Locked(i)
  /\ transfer' = [transfer EXCEPT ![t] = "pending"]
  /\ transfer_of' = [transfer_of EXCEPT ![t] = i]
  /\ invoice' = [invoice EXCEPT ![i] = "issued"]
  /\ UNCHANGED <<past_due, review, api, ledger, raced, platform>>

-----------------------------------------------------------------------------
(* The owner                                                               *)

(* review_invoice_proof up to the count in _restore_provider_if_clear.     *)
(* The session does not flush before a query, so the invoice that is being *)
(* paid counts with the status it still has in the database.               *)
OpenReview(t) ==
  /\ transfer[t] = "pending" /\ ~Locked(transfer_of[t])
  /\ review' = [review EXCEPT ![t] =
       IF \E i \in Invoices : invoice[i] = "overdue" THEN "owing" ELSE "clear"]
  /\ UNCHANGED <<invoice, past_due, transfer, transfer_of, api, ledger, raced, platform>>

(* mark_invoice_paid: an invoice that is paid is not paid again. *)
BookPayment_Again(i, key) ==
  /\ ledger' = [ledger EXCEPT ![i] = @ \cup {key}]
  /\ invoice' = [invoice EXCEPT ![i] = "paid"]

BookPayment(i, key) ==
  IF invoice[i] = "paid" THEN UNCHANGED <<invoice, ledger>>
  ELSE /\ ledger' = [ledger EXCEPT ![i] = @ \cup {key}]
       /\ invoice' = [invoice EXCEPT ![i] = "paid"]

ApproveTransfer(t) ==
  /\ review[t] # "closed"
  /\ review' = [review EXCEPT ![t] = "closed"]
  /\ transfer' = [transfer EXCEPT ![t] = "approved"]
  /\ BookPayment(transfer_of[t], t)
  /\ platform' = IF review[t] = "clear" THEN "active" ELSE platform
  /\ UNCHANGED <<past_due, transfer_of, api, raced>>

(* A refusal changes nothing but the proof.  (An approval of less than the *)
(* amount due raises, and leaves the proof as it was.)                     *)
RejectTransfer(t) ==
  /\ transfer[t] = "pending" /\ ~Locked(transfer_of[t])
  /\ transfer' = [transfer EXCEPT ![t] = "rejected"]
  /\ UNCHANGED <<invoice, past_due, transfer_of, review, api, ledger, raced, platform>>

(* POST /admin/enterprise/invoices/{id}/paid loads the invoice without a   *)
(* lock ...  Bound: one call for an invoice at a time.  Two that overlap   *)
(* with different keys would book it twice as a call and a review do.      *)
ApiLoad(i) ==
  /\ i \in ApiInvoices \ api
  /\ invoice[i] \in {"issued", "overdue"}
  /\ api' = api \cup {i}
  /\ UNCHANGED <<invoice, past_due, transfer, transfer_of, review, ledger, raced, platform>>

(* ... and books the payment under a key of its own: twice, when a review  *)
(* paid it in the meantime.  It restores no platform.                      *)
ApiPaid(i) ==
  /\ i \in api /\ ~Locked(i)
  /\ api' = api \ {i}
  /\ ledger' = [ledger EXCEPT ![i] = @ \cup {"api"}]
  /\ raced' = IF invoice[i] = "paid" THEN raced \cup {i} ELSE raced
  /\ invoice' = [invoice EXCEPT ![i] = "paid"]
  /\ UNCHANGED <<past_due, transfer, transfer_of, review, platform>>

BillingNext ==
  \/ EnforceOverdue
  \/ \E i \in Invoices : IssueInvoice(i) \/ DueDatePasses(i) \/ ApiLoad(i) \/ ApiPaid(i)
  \/ \E t \in Transfers :
       \/ OpenReview(t) \/ ApproveTransfer(t) \/ RejectTransfer(t)
       \/ \E i \in Invoices : UploadTransfer(t, i)

(* The job runs every hour, and a transaction that has begun ends. *)
BillingFairness ==
  /\ WF_billingVars(EnforceOverdue)
  /\ \A t \in Transfers : WF_billingVars(ApproveTransfer(t))

BillingSpec == BillingInit /\ [][BillingNext]_billingVars

-----------------------------------------------------------------------------
(* Properties.                                                             *)

(* However many proofs are uploaded and approved for an invoice, it is     *)
(* booked once, and it stays paid.  Only an API call that overlaps a       *)
(* review books it a second time (an API call that overlaps another one    *)
(* would too, and is left out at ApiLoad).                                 *)
InvoiceBookedOnce ==
  \A i \in Invoices :
    /\ invoice[i] = "paid" <=> ledger[i] # {}
    /\ Cardinality(ledger[i]) <= (IF i \in raced THEN 2 ELSE 1)
    /\ \A t \in Transfers :
         transfer_of[t] = i /\ transfer[t] = "approved" => invoice[i] = "paid"

(* An invoice that is not paid in time suspends the platform, whatever it  *)
(* uploads.                                                                *)
DebtIsEnforced ==
  \A i \in Invoices :
    (i \in past_due /\ invoice[i] = "issued")
      ~> (invoice[i] = "paid" \/ platform = "suspended")

(* docs/releases/v11_4/CHANGELOG_V11_4_OWNER_COMMERCE_AR.md, line 6: a     *)
(* platform that passes its deadline is suspended and hidden, and comes    *)
(* back after the payment.                                                 *)
BackAfterPayment ==
  platform = "suspended" => \E i \in Invoices : invoice[i] \in {"issued", "overdue"}
=============================================================================
