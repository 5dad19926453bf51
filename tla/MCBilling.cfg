\* Two payments and two expenses race over one issued invoice and the SERVICE
\* invoices the expenses open; two tickets, of two (property, client)
\* pairs.
SPECIFICATION MCSpec
CONSTANTS
    p1 = p1
    p2 = p2
    e1 = e1
    e2 = e2
    e3 = e3
    i1 = i1
    t1 = t1
    t2 = t2
    acct = acct
    other = other
    None = None
    PaymentReqs = {p1, p2}
    ExpenseReqs = {e1, e2}
    InvoiceReqs = {i1}
    Tickets = {t1, t2}
    Accounts = {acct, other}
    TicketAccount <- MCTicketAccount
    Totals = {2}
    ExpenseAmounts = {1}
    PaymentAmounts = {0, 1}
INVARIANTS
    DuplicateNeedsOverlap
    LinkedToOwnAccount
    NeverOverbilled
PROPERTIES
    RecordedPaymentCompletes
    KeepsPromise
    CoveredInvoiceIsCommissioned
CHECK_DEADLOCK FALSE
