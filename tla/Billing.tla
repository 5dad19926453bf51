------------------------------ MODULE Billing ------------------------------
(***************************************************************************)
(* Expenses, invoices, payments and commissions: PaymentsService.create,   *)
(* ExpensesService.createWithInvoice, InvoicesService.create and remove,   *)
(* over the tables they share.                                             *)
(*                                                                         *)
(* Every `await` on the database is one action, so the handlers of         *)
(* concurrent requests interleave between any two awaits; what a handler   *)
(* read before an await it keeps in its own record (pay, exp) and may find *)
(* stale after it.  None of these handlers uses a transaction.             *)
(*                                                                         *)
(* A row is identified by the request that inserted it (each request       *)
(* inserts at most one row per table), in place of the autoincrement id.   *)
(* Amounts are integers; the amount of a commission, a percentage of the   *)
(* total of its invoice, is left out.                                      *)
(***************************************************************************)
EXTENDS Integers, FiniteSets, FiniteSetsExt

CONSTANTS
    PaymentReqs,    \* POST /payments requests
    ExpenseReqs,    \* POST /expenses requests
    InvoiceReqs,    \* POST /invoices requests
    Tickets,        \* maintenance tickets that exist when the model starts
    Accounts,       \* (property, client) pairs
    TicketAccount,  \* the pair each ticket belongs to
    Totals,         \* totals of invoices issued by POST /invoices
    ExpenseAmounts, \* amounts suppliers report (not validated by the code)
    PaymentAmounts, \* amounts sent to POST /payments (validated by the code)
    None            \* no row, SQL NULL

InvoiceIds == InvoiceReqs \cup ExpenseReqs

ASSUME BillingAssumption ==
    /\ InvoiceReqs \cap ExpenseReqs = {}
    /\ TicketAccount \in [Tickets -> Accounts]
    /\ Totals \subseteq Int
    /\ ExpenseAmounts \subseteq Int
    /\ PaymentAmounts \subseteq Int
    /\ None \notin InvoiceIds \cup Tickets \cup Accounts

VARIABLES
    tickets,     \* ids of the rows of MaintenanceTicket
    invoices,    \* ids of the rows of Invoice
    inv,         \* their columns [account, type, total, status]
    expenses,    \* ids of the rows of Expense
    link,        \* their invoiceId column
    payments,    \* ids of the rows of Payment
    commissions, \* ids of the rows of Commission
    pay,         \* the payment requests, with their local variables
    exp,         \* the expense requests, with their local variables
    rivals       \* history: who was about to insert a commission for the
                 \* same invoice when a request looked for one

vars == <<tickets, invoices, inv, expenses, link, payments, commissions,
          pay, exp, rivals>>

\* The columns of the row payment p inserted are the request's own inputs,
\* which do not change: pay[p].invoice and pay[p].amount.  The same holds of
\* the amount of expense e (exp[e].amount) and of the invoice of the commission
\* p inserted (pay[p].invoice).

Types == {"RENT_OR_SALE", "SERVICE"}

PayPC == {"idle", "insert", "reread", "write", "find", "create",
          "done", "failed", "crashed"}
ExpPC == {"idle", "insert", "lookup", "create", "grow", "link",
          "done", "failed", "crashed"}
Stopped == {"idle", "done", "failed", "crashed"}

Statuses == {"PENDING", "PAID"}  \* no operation writes OVERDUE or CANCELLED

InvoiceRow == [account : Accounts \cup {None}, type : Types \cup {"none"},
               total : Int, status : Statuses]
PayLocals == [pc : PayPC, invoice : InvoiceIds \cup {None}, amount : Int,
              status : Statuses]
ExpLocals == [pc : ExpPC, ticket : Tickets \cup {None}, amount : Int,
              invoice : InvoiceIds \cup {None}, total : Int]

Blank == [account |-> None, type |-> "none", total |-> 0, status |-> "PENDING"]

Init ==
    /\ tickets = Tickets
    /\ invoices = {}
    /\ inv = [i \in InvoiceIds |-> Blank]
    /\ expenses = {}
    /\ link = [e \in ExpenseReqs |-> None]
    /\ payments = {}
    /\ commissions = {}
    /\ pay = [p \in PaymentReqs |-> [pc |-> "idle", invoice |-> None, amount |-> 0,
                                     status |-> "PENDING"]]
    /\ exp = [e \in ExpenseReqs |-> [pc |-> "idle", ticket |-> None, amount |-> 0,
                                     invoice |-> None, total |-> 0]]
    /\ rivals = [p \in PaymentReqs |-> {}]

PaymentsOf(i) == {p \in payments : pay[p].invoice = i}
CommissionsOf(i) == {p \in commissions : pay[p].invoice = i}

TotalOf(a, S) == MapThenSumSet(LAMBDA x : a[x], S)

\* invoice.payments.reduce(...)
PaidSum(i) == TotalOf([p \in PaymentReqs |-> pay[p].amount], PaymentsOf(i))

-----------------------------------------------------------------------------
\* PaymentsService.create

PayTo(p, pc) == pay' = [pay EXCEPT ![p].pc = pc]

\* The body is validated and the invoice must exist; nothing is written before.
PayStart(p, i, a) ==
    /\ pay[p].pc = "idle"
    /\ \/ /\ a > 0 /\ i \in invoices
          /\ pay' = [pay EXCEPT ![p] = [@ EXCEPT !.pc = "insert", !.invoice = i,
                                                 !.amount = a]]
       \/ /\ ~(a > 0 /\ i \in invoices)
          /\ PayTo(p, "failed")
    /\ UNCHANGED <<tickets, invoices, inv, expenses, link, payments, commissions,
                   exp, rivals>>

\* The foreign key refuses a payment for an invoice removed meanwhile.
PayInsert(p) ==
    /\ pay[p].pc = "insert"
    /\ \/ /\ pay[p].invoice \in invoices
          /\ payments' = payments \cup {p}
          /\ PayTo(p, "reread")
       \/ /\ pay[p].invoice \notin invoices
          /\ PayTo(p, "failed")
          /\ UNCHANGED payments
    /\ UNCHANGED <<tickets, invoices, inv, expenses, link, commissions, exp, rivals>>

\* Faulty variants of definitions, named Bad..., are used by no specification:
\* each replaces a definition in turn to see that a property notices.
BadNewStatusStrict(i) == IF PaidSum(i) > inv[i].total THEN "PAID" ELSE "PENDING"
BadNewStatusPartial(i) == IF PaidSum(i) > 0 THEN "PAID" ELSE "PENDING"

NewStatus(i) == IF PaidSum(i) >= inv[i].total THEN "PAID" ELSE "PENDING"

\* updateInvoiceStatus reads the invoice with its payments and derives the
\* status it will write.
PayReread(p) ==
    /\ pay[p].pc = "reread"
    /\ LET i == pay[p].invoice IN
       pay' = [pay EXCEPT ![p] =
                 [@ EXCEPT !.pc = IF i \in invoices THEN "write" ELSE "done",
                           !.status = NewStatus(i)]]
    /\ UNCHANGED <<tickets, invoices, inv, expenses, link, payments, commissions,
                   exp, rivals>>

\* The status derived from the earlier read is written, whatever happened since.
PayWriteStatus(p) ==
    /\ pay[p].pc = "write"
    /\ LET i == pay[p].invoice IN
       \/ /\ i \in invoices
          /\ inv' = [inv EXCEPT ![i].status = pay[p].status]
          /\ PayTo(p, IF pay[p].status = "PAID" THEN "find" ELSE "done")
       \/ /\ i \notin invoices
          /\ PayTo(p, "failed")
          /\ UNCHANGED inv
    /\ UNCHANGED <<tickets, invoices, expenses, link, payments, commissions, exp, rivals>>

BadPayFindCommission(p) ==
    /\ pay[p].pc = "find"
    /\ PayTo(p, "create")
    /\ rivals' = [rivals EXCEPT ![p] =
                    {q \in PaymentReqs : pay[q].pc = "create"
                                         /\ pay[q].invoice = pay[p].invoice}]
    /\ UNCHANGED <<tickets, invoices, inv, expenses, link, payments, commissions, exp>>

\* Is there a commission for this invoice already?
PayFindCommission(p) ==
    /\ pay[p].pc = "find"
    /\ PayTo(p, IF CommissionsOf(pay[p].invoice) = {} THEN "create" ELSE "done")
    /\ rivals' = [rivals EXCEPT ![p] =
                    {q \in PaymentReqs : pay[q].pc = "create"
                                         /\ pay[q].invoice = pay[p].invoice}]
    /\ UNCHANGED <<tickets, invoices, inv, expenses, link, payments, commissions, exp>>

PayCreateCommission(p) ==
    /\ pay[p].pc = "create"
    /\ \/ /\ pay[p].invoice \in invoices
          /\ commissions' = commissions \cup {p}
          /\ PayTo(p, "done")
       \/ /\ pay[p].invoice \notin invoices
          /\ PayTo(p, "failed")
          /\ UNCHANGED commissions
    /\ UNCHANGED <<tickets, invoices, inv, expenses, link, payments, exp, rivals>>

PayStep(p) ==
    \/ PayInsert(p)
    \/ PayReread(p)
    \/ PayWriteStatus(p)
    \/ PayFindCommission(p)
    \/ PayCreateCommission(p)

-----------------------------------------------------------------------------
\* ExpensesService.createWithInvoice

ExpTo(e, pc) == exp' = [exp EXCEPT ![e].pc = pc]

ExpStart(e, t, a) ==
    /\ exp[e].pc = "idle"
    /\ \/ /\ t \in tickets
          /\ exp' = [exp EXCEPT ![e] = [@ EXCEPT !.pc = "insert", !.ticket = t,
                                                 !.amount = a]]
       \/ /\ t \notin tickets
          /\ ExpTo(e, "failed")
    /\ UNCHANGED <<tickets, invoices, inv, expenses, link, payments, commissions,
                   pay, rivals>>

ExpInsert(e) ==
    /\ exp[e].pc = "insert"
    /\ \/ /\ exp[e].ticket \in tickets
          /\ expenses' = expenses \cup {e}
          /\ ExpTo(e, "lookup")
       \/ /\ exp[e].ticket \notin tickets
          /\ ExpTo(e, "failed")
          /\ UNCHANGED expenses
    /\ UNCHANGED <<tickets, invoices, inv, link, payments, commissions, pay, rivals>>

(* Mistake: the property and the client are left out of the condition.      *)
BadServiceInvoices(account) == {i \in invoices : inv[i].type = "SERVICE"}

\* findFirst has no orderBy: any SERVICE invoice of the ticket's property and
\* client, whichever ticket it was opened for and whatever its status.
ServiceInvoices(account) ==
    {i \in invoices : inv[i].type = "SERVICE" /\ inv[i].account = account}

ExpLookup(e) ==
    /\ exp[e].pc = "lookup"
    /\ LET found == ServiceInvoices(TicketAccount[exp[e].ticket]) IN
       \/ /\ found = {}
          /\ ExpTo(e, "create")
       \/ \E i \in found :
             exp' = [exp EXCEPT ![e] = [@ EXCEPT !.pc = "grow", !.invoice = i,
                                                 !.total = inv[i].total]]
    /\ UNCHANGED <<tickets, invoices, inv, expenses, link, payments, commissions,
                   pay, rivals>>

BadExpCreateInvoice(e) ==
    /\ exp[e].pc = "create"
    /\ invoices' = invoices \cup {e}
    /\ inv' = [inv EXCEPT ![e] = [account |-> TicketAccount[exp[e].ticket],
                                  type |-> "SERVICE", total |-> exp[e].amount,
                                  status |-> "PENDING"]]
    /\ exp' = [exp EXCEPT ![e] = [@ EXCEPT !.pc = "grow", !.invoice = e,
                                           !.total = exp[e].amount]]
    /\ UNCHANGED <<tickets, expenses, link, payments, commissions, pay, rivals>>

ExpCreateInvoice(e) ==
    /\ exp[e].pc = "create"
    /\ invoices' = invoices \cup {e}
    /\ inv' = [inv EXCEPT ![e] = [account |-> TicketAccount[exp[e].ticket],
                                  type |-> "SERVICE", total |-> exp[e].amount,
                                  status |-> "PENDING"]]
    /\ exp' = [exp EXCEPT ![e] = [@ EXCEPT !.pc = "link", !.invoice = e]]
    /\ UNCHANGED <<tickets, expenses, link, payments, commissions, pay, rivals>>

\* The new total is the one the lookup returned plus this amount.
ExpGrowInvoice(e) ==
    /\ exp[e].pc = "grow"
    /\ \/ /\ exp[e].invoice \in invoices
          /\ inv' = [inv EXCEPT ![exp[e].invoice].total = exp[e].total + exp[e].amount]
          /\ ExpTo(e, "link")
       \/ /\ exp[e].invoice \notin invoices
          /\ ExpTo(e, "failed")
          /\ UNCHANGED inv
    /\ UNCHANGED <<tickets, invoices, expenses, link, payments, commissions, pay, rivals>>

ExpLink(e) ==
    /\ exp[e].pc = "link"
    /\ \/ /\ exp[e].invoice \in invoices
          /\ link' = [link EXCEPT ![e] = exp[e].invoice]
          /\ ExpTo(e, "done")
       \/ /\ exp[e].invoice \notin invoices
          /\ ExpTo(e, "failed")
          /\ UNCHANGED link
    /\ UNCHANGED <<tickets, invoices, inv, expenses, payments, commissions, pay, rivals>>

ExpStep(e) ==
    \/ ExpInsert(e)
    \/ ExpLookup(e)
    \/ ExpCreateInvoice(e)
    \/ ExpGrowInvoice(e)
    \/ ExpLink(e)

-----------------------------------------------------------------------------
\* InvoicesService, TicketsService.delete, and a request cut short

CreateInvoice(i, account, type, total) ==
    /\ inv[i] = Blank
    /\ i \notin invoices
    /\ invoices' = invoices \cup {i}
    /\ inv' = [inv EXCEPT ![i] = [account |-> account, type |-> type, total |-> total,
                                  status |-> "PENDING"]]
    /\ UNCHANGED <<tickets, expenses, link, payments, commissions, pay, exp, rivals>>

BadRemoveInvoice(i) ==
    /\ i \in invoices
    /\ CommissionsOf(i) = {}
    /\ invoices' = invoices \ {i}
    /\ link' = [e \in ExpenseReqs |-> IF link[e] = i THEN None ELSE link[e]]
    /\ UNCHANGED <<tickets, inv, expenses, payments, commissions, pay, exp, rivals>>

\* Payments and commissions of an invoice restrict its deletion; the optional
\* invoiceId of an expense is set to null.
RemoveInvoice(i) ==
    /\ i \in invoices
    /\ PaymentsOf(i) = {}
    /\ CommissionsOf(i) = {}
    /\ invoices' = invoices \ {i}
    /\ link' = [e \in ExpenseReqs |-> IF link[e] = i THEN None ELSE link[e]]
    /\ UNCHANGED <<tickets, inv, expenses, payments, commissions, pay, exp, rivals>>

\* The optional ticketId of the ticket's expenses is set to null; nothing here
\* reads it again.
DeleteTicket(t) ==
    /\ t \in tickets
    /\ tickets' = tickets \ {t}
    /\ UNCHANGED <<invoices, inv, expenses, link, payments, commissions, pay, exp, rivals>>

\* The process stops or the connection fails between two awaits; there is no
\* retry and nothing resumes the request.
CrashPayment(p) ==
    /\ pay[p].pc \notin Stopped
    /\ PayTo(p, "crashed")
    /\ UNCHANGED <<tickets, invoices, inv, expenses, link, payments, commissions,
                   exp, rivals>>

CrashExpense(e) ==
    /\ exp[e].pc \notin Stopped
    /\ ExpTo(e, "crashed")
    /\ UNCHANGED <<tickets, invoices, inv, expenses, link, payments, commissions,
                   pay, rivals>>

Next ==
    \/ \E p \in PaymentReqs :
          \/ \E i \in InvoiceIds, a \in PaymentAmounts : PayStart(p, i, a)
          \/ PayStep(p)
          \/ CrashPayment(p)
    \/ \E e \in ExpenseReqs :
          \/ \E t \in Tickets, a \in ExpenseAmounts : ExpStart(e, t, a)
          \/ ExpStep(e)
          \/ CrashExpense(e)
    \/ \E i \in InvoiceReqs, c \in Accounts, y \in Types, t \in Totals :
          CreateInvoice(i, c, y, t)
    \/ \E i \in InvoiceIds : RemoveInvoice(i)
    \/ \E t \in Tickets : DeleteTicket(t)

\* A request the process has begun to serve is carried on unless it crashes:
\* its database call returns and the event loop resumes the handler.
Fairness ==
    /\ \A p \in PaymentReqs : WF_vars(PayStep(p))
    /\ \A e \in ExpenseReqs : WF_vars(ExpStep(e))

Spec == Init /\ [][Next]_vars /\ Fairness

-----------------------------------------------------------------------------
\* The tables hold rows of the declared types and every request is at a step of
\* its handler.
TypeOK ==
    /\ tickets \subseteq Tickets
    /\ invoices \subseteq InvoiceIds
    /\ inv \in [InvoiceIds -> InvoiceRow]
    /\ expenses \subseteq ExpenseReqs
    /\ link \in [ExpenseReqs -> InvoiceIds \cup {None}]
    /\ payments \subseteq PaymentReqs
    /\ commissions \subseteq PaymentReqs
    /\ pay \in [PaymentReqs -> PayLocals]
    /\ exp \in [ExpenseReqs -> ExpLocals]
    /\ rivals \in [PaymentReqs -> SUBSET PaymentReqs]

\* Once the payment row is written the rest of PaymentsService.create cannot
\* fail on a missing invoice: the row keeps the invoice from being removed, so
\* a client is never told that a payment failed which was in fact recorded.
RecordedPaymentCompletes ==
    [][\A p \in PaymentReqs :
          p \in payments /\ pay[p].pc # "failed" => pay'[p].pc # "failed"]_vars

\* Commissions are not duplicated by payments served one after the other: two
\* commissions of one invoice come from two requests of which one had looked for
\* a commission and not yet inserted its own when the other looked.
DuplicateNeedsOverlap ==
    \A p, q \in commissions :
        p # q /\ pay[p].invoice = pay[q].invoice => p \in rivals[q] \/ q \in rivals[p]

\* A paid invoice cannot be removed by DELETE /invoices/:id: only a payment
\* makes it PAID, and its row outlives every later request.
PaidInvoiceKept ==
    [][\A i \in invoices : inv[i].status = "PAID" => i \in invoices']_vars

\* However expenses, removals of invoices and of tickets interleave, an expense
\* is only ever billed on a SERVICE invoice of its own property and client.
LinkedToOwnAccount ==
    \A e \in ExpenseReqs : link[e] # None =>
        /\ link[e] \in invoices
        /\ inv[link[e]].type = "SERVICE"
        /\ inv[link[e]].account = TicketAccount[exp[e].ticket]

\* The clients of an invoice opened by createWithInvoice are never asked for more
\* than the charges that reached it, whatever order the stale totals are written
\* in.  (They may be asked for less: see ExpensesAreBilled.)  A negative amount,
\* which no validation refuses, charges nothing: its deduction can be lost.
Charge(e) == IF exp[e].amount > 0 THEN exp[e].amount ELSE 0
NeverOverbilled ==
    \A i \in invoices \cap ExpenseReqs :
        inv[i].total <= TotalOf([e \in ExpenseReqs |-> Charge(e)],
                                {e \in expenses : exp[e].invoice = i})

\* Reading line 8 and line 50 of expenses.service.ts as a promise: what suppliers
\* billed on an invoice is what its total asks for.
ExpensesAreBilled ==
    \A i \in invoices \cap ExpenseReqs :
        inv[i].total >= TotalOf([e \in ExpenseReqs |-> exp[e].amount],
                                {e \in expenses : link[e] = i})

\* The comment on line 97 of payments.service.ts: no second commission for the
\* same invoice.
OneCommissionPerInvoice == \A i \in InvoiceIds : Cardinality(CommissionsOf(i)) <= 1

-----------------------------------------------------------------------------
\* Invoices whose total never changes: those no expense can be added to.
Fixed == {i \in invoices \cap InvoiceReqs : inv[i].type # "SERVICE"}

Covered(i) == PaymentsOf(i) # {} /\ PaidSum(i) >= inv[i].total

\* A fully paid invoice gets its commission, whichever of the concurrent payments
\* notices it, unless the process dies while serving one of them.
CoveredInvoiceIsCommissioned ==
    \A i \in InvoiceReqs :
        i \in Fixed /\ Covered(i)
            ~> CommissionsOf(i) # {} \/ \E p \in PaymentsOf(i) : pay[p].pc = "crashed"

\* Seen from one fixed invoice, billing keeps the promise of module Settlement.
Promise == INSTANCE Settlement WITH
    Invoices <- InvoiceReqs,
    Amounts  <- {a \in PaymentAmounts : a > 0},
    open     <- Fixed,
    owed     <- [i \in InvoiceReqs |-> IF i \in Fixed THEN inv[i].total ELSE 0],
    received <- [i \in InvoiceReqs |-> IF i \in Fixed THEN PaidSum(i) ELSE 0],
    settled  <- {i \in Fixed : CommissionsOf(i) # {}}

KeepsPromise == Promise!Spec
=============================================================================
