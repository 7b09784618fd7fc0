----------------------------- MODULE MCCheckout -----------------------------
(***************************************************************************)
(* Two chains and one worker, invoices that outlive the margin, and a      *)
(* cooldown longer than it.                                                *)
(***************************************************************************)
EXTENDS Checkout
=============================================================================
