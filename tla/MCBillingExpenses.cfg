\* Expenses of one property and client: the lost update of the invoice total.
INIT Init
NEXT Next
CONSTANTS
    p1 = p1
    p2 = p2
    e1 = e1
    e2 = e2
    e3 = e3
    i1 = i1
    t1 = t1
    t2 = t2
    acct = acct
    other = other
    None = None
    PaymentReqs = {}
    ExpenseReqs = {e1, e2, e3}
    InvoiceReqs = {}
    Tickets = {t1}
    Accounts = {acct}
    TicketAccount <- MCTicketAccount
    Totals = {2}
    ExpenseAmounts = {1}
    PaymentAmounts = {0, 1}
INVARIANT ExpensesAreBilled
CHECK_DEADLOCK FALSE
