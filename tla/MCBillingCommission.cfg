\* Two payments of one invoice and nothing else: the duplicate commission.
INIT Init
NEXT Next
CONSTANTS
    p1 = p1
    p2 = p2
    e1 = e1
    e2 = e2
    e3 = e3
    i1 = i1
    t1 = t1
    t2 = t2
    acct = acct
    other = other
    None = None
    PaymentReqs = {p1, p2}
    ExpenseReqs = {}
    InvoiceReqs = {i1}
    Tickets = {t1}
    Accounts = {acct}
    TicketAccount <- MCTicketAccount
    Totals = {2}
    ExpenseAmounts = {1}
    PaymentAmounts = {0, 1}
INVARIANT OneCommissionPerInvoice
CHECK_DEADLOCK FALSE
