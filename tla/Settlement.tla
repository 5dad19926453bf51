----------------------------- MODULE Settlement -----------------------------
(***************************************************************************)
(* What the billing code promises a client about one invoice whose total  *)
(* does not change after it was issued: money received is never lost, an   *)
(* invoice that received money is never withdrawn, and the platform books  *)
(* its commission (the invoice is settled) only once the money received    *)
(* covers what is owed.  Every operation is one step here; module Billing, *)
(* whose operations are several awaited database calls, implements it.     *)
(***************************************************************************)
EXTENDS Integers

CONSTANTS
    Invoices,   \* identities of invoices
    Totals,     \* totals an invoice can be issued for, integers
    Amounts     \* amounts a client can pay, positive

VARIABLES
    open,       \* the issued invoices
    owed,       \* what each issued invoice asks for
    received,   \* what each invoice received
    settled     \* the invoices whose commission is booked

vars == <<open, owed, received, settled>>

TypeOK ==
    /\ open \subseteq Invoices
    /\ owed \in [Invoices -> Int]
    /\ received \in [Invoices -> Nat]
    /\ settled \subseteq Invoices

Init ==
    /\ open = {}
    /\ owed = [i \in Invoices |-> 0]
    /\ received = [i \in Invoices |-> 0]
    /\ settled = {}

Issue(i, t) ==
    /\ i \notin open
    /\ open' = open \cup {i}
    /\ owed' = [owed EXCEPT ![i] = t]
    /\ UNCHANGED <<received, settled>>

\* An invoice can be withdrawn only while it has received nothing.
Withdraw(i) ==
    /\ i \in open
    /\ received[i] = 0
    /\ open' = open \ {i}
    /\ owed' = [owed EXCEPT ![i] = 0]
    /\ UNCHANGED <<received, settled>>

Receive(i, a) ==
    /\ i \in open
    /\ received' = [received EXCEPT ![i] = @ + a]
    /\ UNCHANGED <<open, owed, settled>>

Settle(i) ==
    /\ i \in open
    /\ received[i] > 0
    /\ received[i] >= owed[i]
    /\ settled' = settled \cup {i}
    /\ UNCHANGED <<open, owed, received>>

Next ==
    \E i \in Invoices :
        \/ \E t \in Totals : Issue(i, t)
        \/ Withdraw(i)
        \/ \E a \in Amounts : Receive(i, a)
        \/ Settle(i)

Spec == Init /\ [][Next]_vars

-----------------------------------------------------------------------------
\* A settled invoice is still there, and what it received covers what it asked
\* for (the "fully paid, then create the commission" of payments.service.ts).
SettledIsFunded ==
    \A i \in settled : i \in open /\ received[i] > 0 /\ received[i] >= owed[i]
=============================================================================
