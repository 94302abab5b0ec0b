------------------------------ MODULE Workflow ------------------------------
(***************************************************************************)
(* The order workflow of app/services/workflows.py: the statuses an order  *)
(* can have and the table of moves that change_status consults.            *)
(***************************************************************************)

OrderStatus ==
  { "draft", "waiting_payment", "payment_proof_received", "payment_review",
    "payment_rejected", "paid", "waiting_fulfillment", "email_reserved",
    "waiting_code", "code_found", "processing", "delivered", "needs_support",
    "disputed", "completed", "cancelled", "refunded" }

\* COMMON_TRANSITIONS as a relation: one row of the table per line.
Transitions ==
       ({"draft"} \X {"waiting_payment"})
  \cup ({"waiting_payment"} \X {"payment_review", "paid", "cancelled"})
  \cup ({"payment_proof_received"} \X {"payment_review"})
  \cup ({"payment_review"} \X {"paid", "payment_rejected", "cancelled"})
  \cup ({"payment_rejected"} \X {"payment_review", "paid", "cancelled"})
  \cup ({"paid"} \X {"waiting_fulfillment", "email_reserved", "waiting_code",
                     "processing", "needs_support"})
  \cup ({"waiting_fulfillment"} \X {"delivered", "processing", "needs_support"})
  \cup ({"email_reserved"} \X {"waiting_code", "code_found", "needs_support"})
  \cup ({"waiting_code"} \X {"code_found", "delivered", "needs_support"})
  \cup ({"code_found"} \X {"delivered", "needs_support"})
  \cup ({"processing"} \X {"delivered", "needs_support", "cancelled"})
  \cup ({"delivered"} \X {"waiting_code", "completed", "needs_support", "disputed"})
  \cup ({"needs_support"} \X {"waiting_code", "processing", "delivered", "completed",
                              "disputed", "refunded", "cancelled"})
  \cup ({"disputed"} \X {"processing", "delivered", "needs_support", "completed",
                         "refunded"})
  \cup ({"completed"} \X {"disputed", "refunded"})

\* assert_transition: a status may always be "changed" to itself, which
\* change_status turns into a no-op before it consults the table.
CanMove(old, new) == old = new \/ <<old, new>> \in Transitions

=============================================================================
