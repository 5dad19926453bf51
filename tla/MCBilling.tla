----------------------------- MODULE MCBilling -----------------------------
(* Small instances of Billing for TLC.  Where there are two accounts they   *)
(* differ in nothing but their tickets, so that the invoice of POST         *)
(* /invoices is issued to the first of them; of the two tickets the first   *)
(* is deleted.  Expense requests differ in nothing but their names: if any  *)
(* is of the first ticket, e1 is.                                           *)
EXTENDS Billing

CONSTANTS p1, p2, e1, e2, e3, i1, t1, t2, acct, other

MCTicketAccount == [t \in Tickets |-> IF t = t1 THEN acct ELSE other]

MCNext ==
    /\ Next
    /\ inv'[i1].account # other /\ t2 \in tickets' /\ exp'[e1].ticket # t2
MCSpec == Init /\ [][MCNext]_vars /\ Fairness
=============================================================================
