--------------------------- MODULE BillingProofs ---------------------------
(***************************************************************************)
(* Proofs about Billing for every number of requests, invoices, tickets    *)
(* and accounts and every amount: type correctness, that a recorded        *)
(* payment completes, that a paid invoice is kept, that duplicate          *)
(* commissions need overlapping requests, that an expense is billed to its *)
(* own account, that no invoice asks for more than was charged, and that   *)
(* the payments implement module Settlement.                               *)
(***************************************************************************)
EXTENDS Billing, FiniteSetTheorems, WellFoundedInduction, TLAPS

\* Rows referenced by rows exist; who has passed an insert has its row.
PaymentInv ==
    \A p \in PaymentReqs :
        /\ pay[p].pc = "insert" => pay[p].invoice \in InvoiceIds
        /\ pay[p].pc \in {"idle", "insert"} => p \notin payments
        /\ pay[p].pc \in {"reread", "write", "find", "create"} => p \in payments
        /\ p \in payments => pay[p].invoice \in invoices
        /\ p \in commissions => p \in payments /\ pay[p].pc = "done"

\* Only a payment makes an invoice PAID.
PaidInv ==
    \A i \in InvoiceIds :
        inv[i].status = "PAID" => \E p \in payments : pay[p].invoice = i

\* p has a commission or is about to insert one.
Booked(p) == p \in commissions \/ pay[p].pc = "create"

OverlapInv ==
    \A p, q \in PaymentReqs :
        /\ p # q
        /\ pay[p].invoice = pay[q].invoice
        /\ Booked(p)
        /\ Booked(q)
        => p \in rivals[q] \/ q \in rivals[p]

OwnAccount(e, i) ==
    /\ i \in InvoiceIds
    /\ inv[i].type = "SERVICE"
    /\ inv[i].account = TicketAccount[exp[e].ticket]

\* The invoice an expense request holds is its own account's, even when the row
\* is gone: an invoice id is never issued again.
ExpenseInv ==
    \A e \in ExpenseReqs :
        /\ exp[e].pc \in {"insert", "lookup", "create", "grow", "link"}
              => exp[e].ticket \in Tickets
        /\ exp[e].pc \in {"idle", "insert", "lookup", "create"}
              => inv[e] = Blank /\ e \notin invoices
        /\ exp[e].pc \in {"grow", "link"} => OwnAccount(e, exp[e].invoice)
        /\ link[e] # None => /\ exp[e].pc = "done"
                             /\ link[e] \in invoices
                             /\ OwnAccount(e, link[e])

\* The inductive invariant.
IInv == TypeOK /\ PaymentInv /\ PaidInv /\ OverlapInv /\ ExpenseInv

-----------------------------------------------------------------------------
\* A sum of natural numbers counts coins: a[x] of them for each x.
Coins(a, S) == {c \in S \X Nat : 1 <= c[2] /\ c[2] <= a[c[1]]}

LEMMA CoinsAdd ==
    ASSUME NEW S, IsFiniteSet(S), NEW a, \A x \in S : a[x] \in Nat
    PROVE  /\ IsFiniteSet(Coins(a, S)) /\ Cardinality(Coins(a, S)) \in Nat
           /\ \A x \in S : Cardinality(Coins(a, S))
                             = a[x] + Cardinality(Coins(a, S \ {x}))
<1> DEFINE Purse(x) == {x} \X (1 .. a[x])
<1>1. ASSUME NEW x \in S
      PROVE  /\ IsFiniteSet(Purse(x)) /\ Cardinality(Purse(x)) = a[x]
             /\ Coins(a, S) = Purse(x) \cup Coins(a, S \ {x})
             /\ Purse(x) \cap Coins(a, S \ {x}) = {}
  <2>1. IsFiniteSet(1 .. a[x]) /\ Cardinality(1 .. a[x]) = a[x]
    BY FS_Interval
  <2>2. IsFiniteSet({x}) /\ Cardinality({x}) = 1
    BY FS_Singleton
  <2>3. Coins(a, S) = Purse(x) \cup Coins(a, S \ {x})
    BY DEF Coins
  <2>4. Purse(x) \cap Coins(a, S \ {x}) = {}
    BY DEF Coins
  <2>5. IsFiniteSet(Purse(x)) /\ Cardinality(Purse(x)) = 1 * a[x]
    BY <2>1, <2>2, FS_Product
  <2>6. a[x] \in Nat
    OBVIOUS
  <2>7. 1 * a[x] = a[x]
    BY <2>6
  <2> HIDE DEF Purse
  <2> QED
    BY <2>3, <2>4, <2>5, <2>7
<1>2. IsFiniteSet(Coins(a, S))
  <2> DEFINE value == [x \in S |-> Purse(x)]
             Purses == {Purse(x) : x \in S}
  <2>1. value \in Surjection(S, Purses)
    BY DEF Surjection
  <2>2. IsFiniteSet(Purses)
    BY <2>1, FS_Surjection
  <2>3. \A T \in Purses : IsFiniteSet(T)
    BY <1>1
  <2>4. IsFiniteSet(UNION Purses)
    BY <2>2, <2>3, FS_UNION
  <2>5. Coins(a, S) \subseteq UNION Purses
    BY DEF Coins
  <2> QED
    BY <2>4, <2>5, FS_Subset
<1>3. Cardinality(Coins(a, S)) \in Nat
  BY <1>2, FS_CardinalityType
<1>4. ASSUME NEW x \in S
      PROVE  Cardinality(Coins(a, S)) = a[x] + Cardinality(Coins(a, S \ {x}))
  <2>1. Coins(a, S \ {x}) \subseteq Coins(a, S)
    BY DEF Coins
  <2>2. IsFiniteSet(Coins(a, S \ {x})) /\ Cardinality(Coins(a, S \ {x})) \in Nat
    BY <1>2, <2>1, FS_Subset, FS_CardinalityType
  <2>3. Cardinality(Purse(x) \cap Coins(a, S \ {x})) = 0
    BY <1>1, FS_EmptySet
  <2> DEFINE rest == Coins(a, S \ {x})
  <2>4. Cardinality(Purse(x) \cup rest)
          = Cardinality(Purse(x)) + Cardinality(rest) - Cardinality(Purse(x) \cap rest)
    BY <1>1, <2>2, FS_Union
  <2>5. Cardinality(Coins(a, S)) = Cardinality(Purse(x) \cup rest)
    BY <1>1
  <2>6. Cardinality(Purse(x)) = a[x] /\ a[x] \in Nat
    BY <1>1
  <2> HIDE DEF Purse, rest
  <2>7. Cardinality(rest) \in Nat /\ Cardinality(Purse(x) \cap rest) = 0
    BY <2>2, <2>3 DEF rest
  <2>8. Cardinality(Coins(a, S)) = a[x] + Cardinality(rest)
    BY <2>4, <2>5, <2>6, <2>7
  <2> QED
    BY <2>8 DEF rest
<1> QED
  BY <1>2, <1>3, <1>4

\* What the library's sum is defined by.
PickOf(s) == CHOOSE x \in s : TRUE
Sums(a, S, f) ==
    f = [s \in SUBSET S |-> IF s = {} THEN 0 ELSE a[PickOf(s)] + f[s \ {PickOf(s)}]]

LEMMA Unfold ==
    ASSUME NEW a, NEW S
    PROVE  TotalOf(a, S) = (CHOOSE f : Sums(a, S, f))[S]
BY DEF TotalOf, MapThenSumSet, MapThenFoldSet, Sums, PickOf

LEMMA SumCounts ==
    ASSUME NEW S, IsFiniteSet(S), NEW a, \A x \in S : a[x] \in Nat
    PROVE  TotalOf(a, S) = Cardinality(Coins(a, S))
<1> DEFINE count == [s \in SUBSET S |-> Cardinality(Coins(a, s))]
<1>1. \A s \in SUBSET S : s # {} => PickOf(s) \in s
  BY DEF PickOf
<1>2. \A s \in SUBSET S : \A x \in s : count[s] = a[x] + count[s \ {x}]
  <2> SUFFICES ASSUME NEW s \in SUBSET S, NEW x \in s
               PROVE  count[s] = a[x] + count[s \ {x}]
    OBVIOUS
  <2>1. IsFiniteSet(s)
    BY FS_Subset
  <2>2. Cardinality(Coins(a, s)) = a[x] + Cardinality(Coins(a, s \ {x}))
    BY <2>1, CoinsAdd
  <2> QED
    BY <2>2
<1>3. count[{}] = 0
  <2>1. Coins(a, {}) = {}
    BY DEF Coins
  <2> QED
    BY <2>1, FS_EmptySet
<1>4. Sums(a, S, count)
  <2> DEFINE body(s) == IF s = {} THEN 0 ELSE a[PickOf(s)] + count[s \ {PickOf(s)}]
  <2>1. \A s \in SUBSET S : count[s] = body(s)
    BY <1>1, <1>2, <1>3
  <2>2. count = [s \in SUBSET S |-> count[s]]
    OBVIOUS
  <2> HIDE DEF count
  <2> QED
    BY <2>1, <2>2 DEF Sums
<1> DEFINE sums == CHOOSE f : Sums(a, S, f)
<1>5. Sums(a, S, sums)
  BY <1>4
<1> HIDE DEF count, sums
\* Of the sets on which they differ, a smallest one shows that they do not.
<1>6. sums[S] = count[S]
  <2> DEFINE Differ == {s \in SUBSET S : sums[s] # count[s]}
  <2>1. SUFFICES ASSUME Differ # {} PROVE FALSE
    OBVIOUS
  <2>2. IsWellFoundedOn(StrictSubsetOrdering(S), FiniteSubsetsOf(S))
    BY FS_StrictSubsetOrderingWellFounded
  <2>3. FiniteSubsetsOf(S) = SUBSET S
    BY FS_FiniteSubsetsOfFinite
  <2>4. IsWellFoundedOn(StrictSubsetOrdering(S), SUBSET S)
    BY <2>2, <2>3
  <2>5. Differ \subseteq SUBSET S
    OBVIOUS
  <2> HIDE DEF Differ
  <2>6. PICK s \in Differ : \A t \in Differ : ~ (<<t, s>> \in StrictSubsetOrdering(S))
    BY <2>1, <2>4, <2>5, WFMin
  <2>7. s \in SUBSET S /\ sums[s] # count[s]
    BY DEF Differ
  <2>8. sums[s] = IF s = {} THEN 0 ELSE a[PickOf(s)] + sums[s \ {PickOf(s)}]
    BY <1>5, <2>7 DEF Sums
  <2>9. s # {}
    BY <1>3, <2>7, <2>8
  <2> DEFINE t == s \ {PickOf(s)}
  <2>10. t \in SUBSET S /\ t \subseteq s /\ t # s
    BY <1>1, <2>7, <2>9
  <2>11. <<t, s>> \in StrictSubsetOrdering(S)
    BY <2>7, <2>10 DEF StrictSubsetOrdering
  <2>12. sums[t] = count[t]
    BY <2>6, <2>10, <2>11 DEF Differ
  <2> QED
    BY <1>1, <1>2, <2>7, <2>8, <2>9, <2>12
<1>7. S \in SUBSET S
  OBVIOUS
<1> QED
  BY <1>6, <1>7, Unfold DEF sums, count

\* The laws of sums the proofs below use.
LEMMA SumEmpty == ASSUME NEW a PROVE TotalOf(a, {}) = 0
<1>1. Coins(a, {}) = {}
  BY DEF Coins
<1> QED
  BY <1>1, SumCounts, FS_EmptySet

LEMMA SumAdd ==
    ASSUME NEW S, IsFiniteSet(S), NEW x, x \notin S, NEW a,
           \A y \in S \cup {x} : a[y] \in Nat
    PROVE  TotalOf(a, S \cup {x}) = TotalOf(a, S) + a[x]
<1>1. IsFiniteSet(S \cup {x}) /\ (S \cup {x}) \ {x} = S
  BY FS_AddElement
<1>2. Cardinality(Coins(a, S \cup {x})) = a[x] + Cardinality(Coins(a, S))
  BY <1>1, CoinsAdd
<1>3. Cardinality(Coins(a, S)) \in Nat /\ a[x] \in Nat
  BY CoinsAdd
<1> QED
  BY <1>1, <1>2, <1>3, SumCounts

LEMMA SumGrows ==
    ASSUME NEW T, IsFiniteSet(T), NEW S \in SUBSET T, NEW a, NEW b,
           \A y \in T : b[y] \in Nat, \A y \in S : a[y] = b[y]
    PROVE  TotalOf(a, S) \in Nat /\ TotalOf(b, T) \in Nat /\ TotalOf(a, S) <= TotalOf(b, T)
<1>1. IsFiniteSet(S)
  BY FS_Subset
<1>2. /\ TotalOf(a, S) = Cardinality(Coins(a, S))
      /\ TotalOf(b, T) = Cardinality(Coins(b, T))
  BY <1>1, SumCounts
<1>3. /\ IsFiniteSet(Coins(b, T)) /\ Cardinality(Coins(b, T)) \in Nat
      /\ Cardinality(Coins(a, S)) \in Nat
  BY <1>1, CoinsAdd
<1>4. Coins(a, S) \subseteq Coins(b, T)
  BY DEF Coins
<1> QED
  BY <1>2, <1>3, <1>4, FS_Subset

-----------------------------------------------------------------------------
LEMMA TypeInit == Init => TypeOK
<1> SUFFICES ASSUME Init PROVE TypeOK
  OBVIOUS
<1>1. Blank \in InvoiceRow
  BY DEF Blank, InvoiceRow, Statuses
<1>2. [pc |-> "idle", invoice |-> None, amount |-> 0, status |-> "PENDING"] \in PayLocals
  BY DEF PayLocals, PayPC, Statuses
<1>3. [pc |-> "idle", ticket |-> None, amount |-> 0, invoice |-> None, total |-> 0]
         \in ExpLocals
  BY DEF ExpLocals, ExpPC
<1> QED
  BY <1>1, <1>2, <1>3 DEF Init, TypeOK

\* A request moves to another step of its handler.
LEMMA PayToType ==
    ASSUME TypeOK, NEW p \in PaymentReqs, NEW pc \in PayPC, PayTo(p, pc)
    PROVE  pay' \in [PaymentReqs -> PayLocals]
<1>1. [pay[p] EXCEPT !.pc = pc] \in PayLocals
  BY DEF TypeOK, PayLocals
<1>2. pay' = [pay EXCEPT ![p] = [pay[p] EXCEPT !.pc = pc]]
  BY DEF PayTo
<1> QED
  BY <1>1, <1>2 DEF TypeOK

LEMMA ExpToType ==
    ASSUME TypeOK, NEW e \in ExpenseReqs, NEW pc \in ExpPC, ExpTo(e, pc)
    PROVE  exp' \in [ExpenseReqs -> ExpLocals]
<1>1. [exp[e] EXCEPT !.pc = pc] \in ExpLocals
  BY DEF TypeOK, ExpLocals
<1>2. exp' = [exp EXCEPT ![e] = [exp[e] EXCEPT !.pc = pc]]
  BY DEF ExpTo
<1> QED
  BY <1>1, <1>2 DEF TypeOK

\* The row an expense request inserts is typed because its ticket is known.
LEMMA TypeStep == TypeOK /\ ExpenseInv /\ [Next]_vars => TypeOK'
<1> SUFFICES ASSUME TypeOK, ExpenseInv, [Next]_vars PROVE TypeOK'
  OBVIOUS
<1>1. ASSUME NEW p \in PaymentReqs, NEW i \in InvoiceIds, NEW a \in PaymentAmounts,
             PayStart(p, i, a)
      PROVE  TypeOK'
  <2>1. [pay[p] EXCEPT !.pc = "insert", !.invoice = i, !.amount = a] \in PayLocals
    BY BillingAssumption DEF TypeOK, PayLocals, PayPC
  <2>2. "failed" \in PayPC
    BY DEF PayPC
  <2>3. pay' \in [PaymentReqs -> PayLocals]
    BY <1>1, <2>1, <2>2, PayToType DEF PayStart, TypeOK
  <2> QED
    BY <1>1, <2>3 DEF PayStart, TypeOK
<1>2. ASSUME NEW p \in PaymentReqs, PayInsert(p) PROVE TypeOK'
  <2>1. pay' \in [PaymentReqs -> PayLocals]
    BY <1>2, PayToType DEF PayInsert, PayPC
  <2> QED
    BY <1>2, <2>1 DEF PayInsert, TypeOK
<1>3. ASSUME NEW p \in PaymentReqs, PayReread(p) PROVE TypeOK'
  <2> DEFINE i == pay[p].invoice
             r == [pay[p] EXCEPT !.pc = IF i \in invoices THEN "write" ELSE "done",
                                 !.status = NewStatus(i)]
  <2>1. r \in PayLocals
    BY DEF TypeOK, PayLocals, PayPC, NewStatus, Statuses
  <2>2. pay' = [pay EXCEPT ![p] = r]
    BY <1>3 DEF PayReread
  <2> HIDE DEF r
  <2> QED
    BY <1>3, <2>1, <2>2 DEF PayReread, TypeOK
<1>4. ASSUME NEW p \in PaymentReqs, PayWriteStatus(p) PROVE TypeOK'
  <2>1. pay' \in [PaymentReqs -> PayLocals]
    BY <1>4, PayToType DEF PayWriteStatus, PayPC
  <2>2. \A i \in InvoiceIds : [inv[i] EXCEPT !.status = pay[p].status] \in InvoiceRow
    BY DEF TypeOK, InvoiceRow, PayLocals
  <2>3. inv' \in [InvoiceIds -> InvoiceRow]
    BY <1>4, <2>2 DEF PayWriteStatus, TypeOK
  <2> QED
    BY <1>4, <2>1, <2>3 DEF PayWriteStatus, TypeOK
<1>5. ASSUME NEW p \in PaymentReqs, PayFindCommission(p) PROVE TypeOK'
  <2>1. pay' \in [PaymentReqs -> PayLocals]
    BY <1>5, PayToType DEF PayFindCommission, PayPC
  <2> QED
    BY <1>5, <2>1 DEF PayFindCommission, TypeOK
<1>6. ASSUME NEW p \in PaymentReqs, PayCreateCommission(p) PROVE TypeOK'
  <2>1. pay' \in [PaymentReqs -> PayLocals]
    BY <1>6, PayToType DEF PayCreateCommission, PayPC
  <2> QED
    BY <1>6, <2>1 DEF PayCreateCommission, TypeOK
<1>7. ASSUME NEW p \in PaymentReqs, CrashPayment(p) PROVE TypeOK'
  <2>1. pay' \in [PaymentReqs -> PayLocals]
    BY <1>7, PayToType DEF CrashPayment, PayPC
  <2> QED
    BY <1>7, <2>1 DEF CrashPayment, TypeOK
<1>8. ASSUME NEW e \in ExpenseReqs, NEW t \in Tickets, NEW a \in ExpenseAmounts,
             ExpStart(e, t, a)
      PROVE  TypeOK'
  <2>1. [exp[e] EXCEPT !.pc = "insert", !.ticket = t, !.amount = a] \in ExpLocals
    BY BillingAssumption DEF TypeOK, ExpLocals, ExpPC
  <2>2. "failed" \in ExpPC
    BY DEF ExpPC
  <2>3. exp' \in [ExpenseReqs -> ExpLocals]
    BY <1>8, <2>1, <2>2, ExpToType DEF ExpStart, TypeOK
  <2> QED
    BY <1>8, <2>3 DEF ExpStart, TypeOK
<1>9. ASSUME NEW e \in ExpenseReqs, ExpInsert(e) PROVE TypeOK'
  <2>1. exp' \in [ExpenseReqs -> ExpLocals]
    BY <1>9, ExpToType DEF ExpInsert, ExpPC
  <2> QED
    BY <1>9, <2>1 DEF ExpInsert, TypeOK
<1>10. ASSUME NEW e \in ExpenseReqs, ExpLookup(e) PROVE TypeOK'
  <2>1. \A i \in invoices :
           [exp[e] EXCEPT !.pc = "grow", !.invoice = i, !.total = inv[i].total]
              \in ExpLocals
    BY DEF TypeOK, ExpLocals, ExpPC, InvoiceRow
  <2>2. "create" \in ExpPC
    BY DEF ExpPC
  <2>3. exp' \in [ExpenseReqs -> ExpLocals]
    BY <1>10, <2>1, <2>2, ExpToType DEF ExpLookup, ServiceInvoices, TypeOK
  <2> QED
    BY <1>10, <2>3 DEF ExpLookup, TypeOK
<1>11. ASSUME NEW e \in ExpenseReqs, ExpCreateInvoice(e) PROVE TypeOK'
  <2> DEFINE row == [account |-> TicketAccount[exp[e].ticket], type |-> "SERVICE",
                     total |-> exp[e].amount, status |-> "PENDING"]
             r == [exp[e] EXCEPT !.pc = "link", !.invoice = e]
  <2>1. row \in InvoiceRow
    BY <1>11, BillingAssumption
    DEF ExpCreateInvoice, ExpenseInv, TypeOK, ExpLocals, InvoiceRow, Types, Statuses
  <2>2. r \in ExpLocals
    BY DEF TypeOK, ExpLocals, ExpPC, InvoiceIds
  <2>3. /\ invoices' = invoices \cup {e}
        /\ inv' = [inv EXCEPT ![e] = row]
        /\ exp' = [exp EXCEPT ![e] = r]
        /\ UNCHANGED <<tickets, expenses, link, payments, commissions, pay, rivals>>
    BY <1>11 DEF ExpCreateInvoice
  <2> HIDE DEF row, r
  <2> QED
    BY <2>1, <2>2, <2>3 DEF TypeOK, InvoiceIds
<1>12. ASSUME NEW e \in ExpenseReqs, ExpGrowInvoice(e) PROVE TypeOK'
  <2>1. exp' \in [ExpenseReqs -> ExpLocals]
    BY <1>12, ExpToType DEF ExpGrowInvoice, ExpPC
  <2>2. \A i \in InvoiceIds :
           [inv[i] EXCEPT !.total = exp[e].total + exp[e].amount] \in InvoiceRow
    BY Z3 DEF TypeOK, InvoiceRow, ExpLocals
  <2>3. inv' \in [InvoiceIds -> InvoiceRow]
    BY <1>12, <2>2 DEF ExpGrowInvoice, TypeOK
  <2> QED
    BY <1>12, <2>1, <2>3 DEF ExpGrowInvoice, TypeOK
<1>13. ASSUME NEW e \in ExpenseReqs, ExpLink(e) PROVE TypeOK'
  <2>1. exp' \in [ExpenseReqs -> ExpLocals]
    BY <1>13, ExpToType DEF ExpLink, ExpPC
  <2>2. exp[e].invoice \in InvoiceIds \cup {None}
    BY DEF TypeOK, ExpLocals
  <2> QED
    BY <1>13, <2>1, <2>2 DEF ExpLink, TypeOK
<1>14. ASSUME NEW e \in ExpenseReqs, CrashExpense(e) PROVE TypeOK'
  <2>1. exp' \in [ExpenseReqs -> ExpLocals]
    BY <1>14, ExpToType DEF CrashExpense, ExpPC
  <2> QED
    BY <1>14, <2>1 DEF CrashExpense, TypeOK
<1>15. ASSUME NEW i \in InvoiceReqs, NEW c \in Accounts, NEW y \in Types,
              NEW t \in Totals, CreateInvoice(i, c, y, t)
       PROVE  TypeOK'
  <2>1. [account |-> c, type |-> y, total |-> t, status |-> "PENDING"] \in InvoiceRow
    BY BillingAssumption DEF InvoiceRow, Statuses
  <2> QED
    BY <1>15, <2>1 DEF CreateInvoice, TypeOK, InvoiceIds
<1>16. ASSUME NEW i \in InvoiceIds, RemoveInvoice(i) PROVE TypeOK'
  BY <1>16 DEF RemoveInvoice, TypeOK
<1>17. ASSUME NEW t \in Tickets, DeleteTicket(t) PROVE TypeOK'
  BY <1>17 DEF DeleteTicket, TypeOK
<1>18. CASE UNCHANGED vars
  BY <1>18 DEF vars, TypeOK
<1> QED
  BY <1>1, <1>2, <1>3, <1>4, <1>5, <1>6, <1>7, <1>8, <1>9, <1>10, <1>11, <1>12,
     <1>13, <1>14, <1>15, <1>16, <1>17, <1>18
  DEF Next, PayStep, ExpStep

-----------------------------------------------------------------------------
LEMMA PayToEffect ==
    ASSUME TypeOK, NEW p \in PaymentReqs, NEW pc, PayTo(p, pc)
    PROVE  /\ pay'[p].pc = pc
           /\ \A q \in PaymentReqs : /\ q # p => pay'[q] = pay[q]
                                     /\ pay'[q].invoice = pay[q].invoice
                                     /\ pay'[q].status = pay[q].status
  BY DEF TypeOK, PayTo, PayLocals

LEMMA ExpToEffect ==
    ASSUME TypeOK, NEW e \in ExpenseReqs, NEW pc, ExpTo(e, pc)
    PROVE  /\ exp'[e].pc = pc
           /\ \A f \in ExpenseReqs : /\ f # e => exp'[f] = exp[f]
                                     /\ exp'[f].ticket = exp[f].ticket
                                     /\ exp'[f].invoice = exp[f].invoice
  BY DEF TypeOK, ExpTo, ExpLocals

\* What the steps of expenses, invoices and tickets leave alone.
Outside ==
    /\ UNCHANGED <<payments, commissions, pay, rivals>>
    /\ \/ invoices \subseteq invoices'
       \/ \E i \in InvoiceIds : invoices' = invoices \ {i} /\ PaymentsOf(i) = {}

LEMMA OutsideSteps ==
    /\ \A e \in ExpenseReqs : ExpStep(e) \/ CrashExpense(e) => Outside
    /\ \A e \in ExpenseReqs, t \in Tickets, a \in ExpenseAmounts :
          ExpStart(e, t, a) => Outside
    /\ \A i \in InvoiceReqs, c \in Accounts, y \in Types, t \in Totals :
          CreateInvoice(i, c, y, t) => Outside
    /\ \A i \in InvoiceIds : RemoveInvoice(i) => Outside
    /\ \A t \in Tickets : DeleteTicket(t) => Outside
    /\ UNCHANGED vars => Outside
  BY DEF ExpStep, ExpInsert, ExpLookup, ExpCreateInvoice, ExpGrowInvoice, ExpLink,
         CrashExpense, ExpStart, CreateInvoice, RemoveInvoice, DeleteTicket, vars,
         Outside

LEMMA PaymentStep ==
    TypeOK /\ PaymentInv /\ [Next]_vars => PaymentInv'
<1> SUFFICES ASSUME TypeOK, PaymentInv, [Next]_vars PROVE PaymentInv'
  OBVIOUS
<1>1. ASSUME NEW p \in PaymentReqs, NEW i \in InvoiceIds, NEW a \in PaymentAmounts,
             PayStart(p, i, a)
      PROVE  PaymentInv'
  <2>1. CASE PayTo(p, "failed")
    BY <1>1, <2>1, PayToEffect DEF PayStart, PaymentInv
  <2>2. CASE pay' = [pay EXCEPT ![p] = [pay[p] EXCEPT !.pc = "insert", !.invoice = i,
                                                      !.amount = a]]
    <3>1. /\ pay'[p].pc = "insert" /\ pay'[p].invoice = i
          /\ \A q \in PaymentReqs : q # p => pay'[q] = pay[q]
      BY <2>2 DEF TypeOK, PayLocals
    <3> QED
      BY <1>1, <3>1 DEF PayStart, PaymentInv
  <2> QED
    BY <1>1, <2>1, <2>2 DEF PayStart
<1>2. ASSUME NEW p \in PaymentReqs, PayInsert(p) PROVE PaymentInv'
  BY <1>2, PayToEffect DEF PayInsert, PaymentInv
<1>3. ASSUME NEW p \in PaymentReqs, PayReread(p) PROVE PaymentInv'
  <2>1. /\ pay'[p].pc \in {"write", "done"}
        /\ pay'[p].invoice = pay[p].invoice
        /\ \A q \in PaymentReqs : q # p => pay'[q] = pay[q]
    BY <1>3 DEF PayReread, TypeOK, PayLocals
  <2> QED
    BY <1>3, <2>1 DEF PayReread, PaymentInv
<1>4. ASSUME NEW p \in PaymentReqs, PayWriteStatus(p) PROVE PaymentInv'
  BY <1>4, PayToEffect DEF PayWriteStatus, PaymentInv
<1>5. ASSUME NEW p \in PaymentReqs, PayFindCommission(p) PROVE PaymentInv'
  BY <1>5, PayToEffect DEF PayFindCommission, PaymentInv
<1>6. ASSUME NEW p \in PaymentReqs, PayCreateCommission(p) PROVE PaymentInv'
  BY <1>6, PayToEffect DEF PayCreateCommission, PaymentInv
<1>7. ASSUME NEW p \in PaymentReqs, CrashPayment(p) PROVE PaymentInv'
  BY <1>7, PayToEffect DEF CrashPayment, PaymentInv, Stopped
<1>8. CASE Outside
  BY <1>8 DEF Outside, PaymentInv, PaymentsOf
<1> QED
  BY <1>1, <1>2, <1>3, <1>4, <1>5, <1>6, <1>7, <1>8, OutsideSteps
  DEF Next, PayStep

LEMMA PaidStep ==
    TypeOK /\ PaymentInv /\ PaidInv /\ ExpenseInv /\ [Next]_vars => PaidInv'
<1> SUFFICES ASSUME TypeOK, PaymentInv, PaidInv, ExpenseInv, [Next]_vars,
                    NEW i \in InvoiceIds, inv'[i].status = "PAID"
             PROVE  \E p \in payments' : pay'[p].invoice = i
  BY DEF PaidInv
<1>1. ASSUME inv[i].status = "PAID",
             payments \subseteq payments',
             \A q \in payments : pay'[q].invoice = pay[q].invoice
      PROVE  \E p \in payments' : pay'[p].invoice = i
  BY <1>1 DEF PaidInv
<1>2. ASSUME NEW p \in PaymentReqs, NEW j \in InvoiceIds, NEW a \in PaymentAmounts,
             PayStart(p, j, a)
      PROVE  \E q \in payments' : pay'[q].invoice = i
  <2>1. p \notin payments
    BY <1>2 DEF PayStart, PaymentInv
  <2>2. \A q \in payments : pay'[q] = pay[q]
    BY <1>2, <2>1, PayToEffect DEF PayStart, TypeOK
  <2> QED
    BY <1>1, <1>2, <2>2 DEF PayStart
<1>3. ASSUME NEW p \in PaymentReqs,
             PayInsert(p) \/ PayFindCommission(p) \/ PayCreateCommission(p)
                \/ CrashPayment(p)
      PROVE  \E q \in payments' : pay'[q].invoice = i
  <2>1. \A q \in PaymentReqs : pay'[q].invoice = pay[q].invoice
    BY <1>3, PayToEffect
    DEF PayInsert, PayFindCommission, PayCreateCommission, CrashPayment
  <2>2. inv' = inv /\ payments \subseteq payments'
    BY <1>3 DEF PayInsert, PayFindCommission, PayCreateCommission, CrashPayment
  <2> QED
    BY <1>1, <2>1, <2>2 DEF TypeOK
<1>4. ASSUME NEW p \in PaymentReqs, PayReread(p)
      PROVE  \E q \in payments' : pay'[q].invoice = i
  <2>1. \A q \in PaymentReqs : pay'[q].invoice = pay[q].invoice
    BY <1>4 DEF PayReread, TypeOK, PayLocals
  <2> QED
    BY <1>1, <1>4, <2>1 DEF PayReread, TypeOK
<1>5. ASSUME NEW p \in PaymentReqs, PayWriteStatus(p)
      PROVE  \E q \in payments' : pay'[q].invoice = i
  <2>1. \A q \in PaymentReqs : pay'[q].invoice = pay[q].invoice
    BY <1>5, PayToEffect DEF PayWriteStatus
  <2>2. CASE pay[p].invoice = i
    BY <1>5, <2>1, <2>2 DEF PayWriteStatus, PaymentInv
  <2>3. CASE pay[p].invoice # i
    <3>1. inv'[i] = inv[i]
      BY <1>5, <2>3 DEF PayWriteStatus, TypeOK
    <3> QED
      BY <1>1, <1>5, <2>1, <3>1 DEF PayWriteStatus, TypeOK
  <2> QED
    BY <2>2, <2>3
<1>6. ASSUME Outside, inv[i].status = "PAID"
      PROVE  \E q \in payments' : pay'[q].invoice = i
  BY <1>1, <1>6 DEF Outside
<1>7. ASSUME NEW e \in ExpenseReqs, ExpGrowInvoice(e)
      PROVE  inv[i].status = "PAID"
  BY <1>7 DEF ExpGrowInvoice, TypeOK, InvoiceRow
<1>8. ASSUME NEW e \in ExpenseReqs, ExpCreateInvoice(e)
      PROVE  inv[i].status = "PAID"
  BY <1>8 DEF ExpCreateInvoice, TypeOK, InvoiceIds
<1>9. ASSUME NEW j \in InvoiceReqs, NEW c \in Accounts, NEW y \in Types,
             NEW t \in Totals, CreateInvoice(j, c, y, t)
      PROVE  inv[i].status = "PAID"
  BY <1>9 DEF CreateInvoice, TypeOK, InvoiceIds
<1>10. ASSUME UNCHANGED inv PROVE inv[i].status = "PAID"
  BY <1>10, Zenon
<1>11. \/ \E e \in ExpenseReqs : ExpGrowInvoice(e) \/ ExpCreateInvoice(e)
       \/ \E j \in InvoiceReqs, c \in Accounts, y \in Types, t \in Totals :
             CreateInvoice(j, c, y, t)
       \/ UNCHANGED inv /\ Outside
       \/ \E p \in PaymentReqs :
             \/ \E j \in InvoiceIds, a \in PaymentAmounts : PayStart(p, j, a)
             \/ PayStep(p)
             \/ CrashPayment(p)
  BY OutsideSteps
  DEF Next, ExpStep, ExpInsert, ExpLookup, ExpLink, CrashExpense, ExpStart,
      RemoveInvoice, DeleteTicket, vars
<1> QED
  BY <1>2, <1>3, <1>4, <1>5, <1>6, <1>7, <1>8, <1>9, <1>10, <1>11, OutsideSteps
  DEF PayStep, ExpStep

LEMMA OverlapStep ==
    TypeOK /\ PaymentInv /\ OverlapInv /\ [Next]_vars => OverlapInv'
<1> SUFFICES ASSUME TypeOK, PaymentInv, OverlapInv, [Next]_vars PROVE OverlapInv'
  OBVIOUS
\* Most steps book nobody.
<1>1. ASSUME \A q \in PaymentReqs : Booked(q)' => /\ Booked(q)
                                                  /\ pay'[q].invoice = pay[q].invoice
                                                  /\ rivals'[q] = rivals[q]
      PROVE  OverlapInv'
  BY <1>1 DEF OverlapInv
<1>2. ASSUME NEW p \in PaymentReqs, NEW i \in InvoiceIds, NEW a \in PaymentAmounts,
             PayStart(p, i, a)
      PROVE  OverlapInv'
  <2>1. \A q \in PaymentReqs : q # p => pay'[q] = pay[q]
    BY <1>2, PayToEffect DEF PayStart, TypeOK
  <2>2. pay'[p].pc \in {"insert", "failed"}
    <3>1. CASE PayTo(p, "failed")
      BY <3>1, PayToEffect
    <3>2. CASE pay' = [pay EXCEPT ![p] = [pay[p] EXCEPT !.pc = "insert", !.invoice = i,
                                                        !.amount = a]]
      BY <3>2 DEF TypeOK, PayLocals
    <3> QED
      BY <1>2, <3>1, <3>2 DEF PayStart
  <2>3. p \notin commissions
    BY <1>2 DEF PayStart, PaymentInv
  <2> QED
    BY <1>1, <1>2, <2>1, <2>2, <2>3 DEF PayStart, Booked
<1>3. ASSUME NEW p \in PaymentReqs, PayInsert(p) \/ PayWriteStatus(p) \/ CrashPayment(p)
      PROVE  OverlapInv'
  <2>1. PICK pc \in {"reread", "failed", "find", "done", "crashed"} : PayTo(p, pc)
    BY <1>3 DEF PayInsert, PayWriteStatus, CrashPayment
  <2>2. UNCHANGED <<commissions, rivals>>
    BY <1>3 DEF PayInsert, PayWriteStatus, CrashPayment
  <2> QED
    BY <1>1, <2>1, <2>2, PayToEffect DEF Booked
<1>4. ASSUME NEW p \in PaymentReqs, PayReread(p) PROVE OverlapInv'
  <2>1. /\ pay'[p].pc \in {"write", "done"}
        /\ pay'[p].invoice = pay[p].invoice
        /\ \A q \in PaymentReqs : q # p => pay'[q] = pay[q]
    BY <1>4 DEF PayReread, TypeOK, PayLocals
  <2> QED
    BY <1>1, <1>4, <2>1 DEF PayReread, Booked
<1>5. ASSUME NEW p \in PaymentReqs, PayFindCommission(p) PROVE OverlapInv'
  <2> DEFINE i == pay[p].invoice
             rs == {q \in PaymentReqs : pay[q].pc = "create" /\ pay[q].invoice = i}
  <2>1. /\ UNCHANGED commissions
        /\ rivals'[p] = rs
        /\ \A q \in PaymentReqs : q # p => rivals'[q] = rivals[q]
    BY <1>5 DEF PayFindCommission, TypeOK
  <2>2. CASE CommissionsOf(i) = {}
    \* Whoever is booked for this invoice is about to create, hence in rs.
    <3>1. /\ \A q \in PaymentReqs : q # p => pay'[q] = pay[q]
          /\ pay'[p].invoice = i
      BY <1>5, PayToEffect DEF PayFindCommission
    <3>2. \A q \in PaymentReqs : q # p /\ Booked(q)' => Booked(q)
      BY <2>1, <3>1 DEF Booked
    <3>3. \A q \in PaymentReqs : Booked(q) /\ pay[q].invoice = i => q \in rs
      BY <2>2 DEF Booked, CommissionsOf
    <3> HIDE DEF rs
    <3> QED
      BY <2>1, <3>1, <3>2, <3>3 DEF OverlapInv
  <2>3. CASE CommissionsOf(i) # {}
    <3>1. PayTo(p, "done")
      BY <1>5, <2>3 DEF PayFindCommission
    <3>2. p \notin commissions
      BY <1>5 DEF PayFindCommission, PaymentInv
    <3> QED
      BY <1>1, <2>1, <3>1, <3>2, PayToEffect DEF Booked
  <2> QED
    BY <2>2, <2>3
<1>6. ASSUME NEW p \in PaymentReqs, PayCreateCommission(p) PROVE OverlapInv'
  <2>1. \A q \in PaymentReqs : Booked(q)' => Booked(q)
    BY <1>6, PayToEffect DEF PayCreateCommission, Booked
  <2>2. \A q \in PaymentReqs : pay'[q].invoice = pay[q].invoice
    BY <1>6, PayToEffect DEF PayCreateCommission
  <2> QED
    BY <1>1, <1>6, <2>1, <2>2 DEF PayCreateCommission
<1>7. CASE Outside
  BY <1>1, <1>7 DEF Outside, Booked
<1> QED
  BY <1>2, <1>3, <1>4, <1>5, <1>6, <1>7, OutsideSteps DEF Next, PayStep

LEMMA ExpenseStep ==
    TypeOK /\ ExpenseInv /\ [Next]_vars => ExpenseInv'
<1> SUFFICES ASSUME TypeOK, ExpenseInv, [Next]_vars PROVE ExpenseInv'
  OBVIOUS
<1> USE BillingAssumption DEF OwnAccount
\* The payment side changes the status of an invoice at most.
<1>1. ASSUME UNCHANGED <<invoices, link, exp>>,
             \A i \in InvoiceIds : /\ inv'[i].type = inv[i].type
                                   /\ inv'[i].account = inv[i].account
                                   /\ i \notin invoices => inv'[i] = inv[i]
      PROVE  ExpenseInv'
  BY <1>1 DEF ExpenseInv, InvoiceIds
<1>2. ASSUME NEW p \in PaymentReqs,
             \/ \E i \in InvoiceIds, a \in PaymentAmounts : PayStart(p, i, a)
             \/ PayStep(p)
             \/ CrashPayment(p)
      PROVE  ExpenseInv'
  <2>1. CASE PayWriteStatus(p)
    BY <1>1, <2>1 DEF PayWriteStatus, TypeOK, InvoiceRow
  <2>2. CASE UNCHANGED <<invoices, link, exp, inv>>
    BY <1>1, <2>2
  <2> QED
    BY <1>2, <2>1, <2>2
    DEF PayStart, PayStep, PayInsert, PayReread, PayFindCommission,
        PayCreateCommission, CrashPayment
<1>3. ASSUME NEW e \in ExpenseReqs, NEW t \in Tickets, NEW a \in ExpenseAmounts,
             ExpStart(e, t, a)
      PROVE  ExpenseInv'
  <2>1. CASE ExpTo(e, "failed")
    BY <1>3, <2>1, ExpToEffect DEF ExpStart, ExpenseInv
  <2>2. CASE exp' = [exp EXCEPT ![e] = [exp[e] EXCEPT !.pc = "insert", !.ticket = t,
                                                      !.amount = a]]
    <3>1. /\ exp'[e].pc = "insert" /\ exp'[e].ticket = t
          /\ \A f \in ExpenseReqs : f # e => exp'[f] = exp[f]
      BY <2>2 DEF TypeOK, ExpLocals
    <3> QED
      BY <1>3, <3>1 DEF ExpStart, ExpenseInv
  <2> QED
    BY <1>3, <2>1, <2>2 DEF ExpStart
<1>4. ASSUME NEW e \in ExpenseReqs, ExpInsert(e) PROVE ExpenseInv'
  BY <1>4, ExpToEffect DEF ExpInsert, ExpenseInv
<1>5. ASSUME NEW e \in ExpenseReqs, ExpLookup(e) PROVE ExpenseInv'
  <2>0. exp[e].pc = "lookup" /\ UNCHANGED <<invoices, inv, link>>
    BY <1>5 DEF ExpLookup
  <2>1. CASE ExpTo(e, "create")
    BY <2>0, <2>1, ExpToEffect DEF ExpenseInv
  <2>2. ASSUME NEW i \in ServiceInvoices(TicketAccount[exp[e].ticket]),
               exp' = [exp EXCEPT ![e] = [exp[e] EXCEPT !.pc = "grow", !.invoice = i,
                                                        !.total = inv[i].total]]
        PROVE  ExpenseInv'
    <3>1. /\ exp'[e].pc = "grow" /\ exp'[e].invoice = i
          /\ exp'[e].ticket = exp[e].ticket
          /\ \A f \in ExpenseReqs : f # e => exp'[f] = exp[f]
      BY <2>2 DEF TypeOK, ExpLocals
    <3>2. OwnAccount(e, i)
      BY DEF ServiceInvoices, TypeOK
    <3> QED
      BY <2>0, <3>1, <3>2 DEF ExpenseInv
  <2> QED
    BY <1>5, <2>1, <2>2 DEF ExpLookup
<1>6. ASSUME NEW e \in ExpenseReqs, ExpCreateInvoice(e) PROVE ExpenseInv'
  <2>1. /\ exp'[e].pc = "link" /\ exp'[e].invoice = e
        /\ exp'[e].ticket = exp[e].ticket
        /\ \A f \in ExpenseReqs : f # e => exp'[f] = exp[f]
    BY <1>6 DEF ExpCreateInvoice, TypeOK, ExpLocals
  <2>2. /\ inv'[e].type = "SERVICE"
        /\ inv'[e].account = TicketAccount[exp[e].ticket]
        /\ \A i \in InvoiceIds : i # e => inv'[i] = inv[i]
    BY <1>6 DEF ExpCreateInvoice, TypeOK, InvoiceIds
  <2>3. inv[e].type # "SERVICE"
    BY <1>6 DEF ExpCreateInvoice, ExpenseInv, Blank
  <2>4. \A f \in ExpenseReqs : OwnAccount(f, exp[f].invoice) => exp[f].invoice # e
    BY <2>3
  <2>5. \A f \in ExpenseReqs : OwnAccount(f, link[f]) => link[f] # e
    BY <2>3
  <2> QED
    BY <1>6, <2>1, <2>2, <2>4, <2>5 DEF ExpCreateInvoice, ExpenseInv, InvoiceIds
<1>7. ASSUME NEW e \in ExpenseReqs, ExpGrowInvoice(e) PROVE ExpenseInv'
  <2>1. \A i \in InvoiceIds : /\ inv'[i].type = inv[i].type
                              /\ inv'[i].account = inv[i].account
                              /\ i \notin invoices => inv'[i] = inv[i]
    BY <1>7 DEF ExpGrowInvoice, TypeOK, InvoiceRow
  <2>2. PICK pc \in {"link", "failed"} : ExpTo(e, pc)
    BY <1>7 DEF ExpGrowInvoice
  <2> QED
    BY <1>7, <2>1, <2>2, ExpToEffect DEF ExpGrowInvoice, ExpenseInv, InvoiceIds
<1>8. ASSUME NEW e \in ExpenseReqs, ExpLink(e) PROVE ExpenseInv'
  <2>1. CASE ExpTo(e, "failed") /\ UNCHANGED link
    BY <1>8, <2>1, ExpToEffect DEF ExpLink, ExpenseInv
  <2>2. CASE /\ exp[e].invoice \in invoices
             /\ link' = [link EXCEPT ![e] = exp[e].invoice]
             /\ ExpTo(e, "done")
    <3>1. /\ link'[e] = exp[e].invoice
          /\ \A f \in ExpenseReqs : f # e => link'[f] = link[f]
      BY <2>2 DEF TypeOK
    <3>2. OwnAccount(e, exp[e].invoice)
      BY <1>8 DEF ExpLink, ExpenseInv
    <3> QED
      BY <1>8, <2>2, <3>1, <3>2, ExpToEffect DEF ExpLink, ExpenseInv
  <2> QED
    BY <1>8, <2>1, <2>2 DEF ExpLink
<1>9. ASSUME NEW e \in ExpenseReqs, CrashExpense(e) PROVE ExpenseInv'
  BY <1>9, ExpToEffect DEF CrashExpense, ExpenseInv, Stopped
<1>10. ASSUME NEW i \in InvoiceReqs, NEW c \in Accounts, NEW y \in Types,
              NEW t \in Totals, CreateInvoice(i, c, y, t)
       PROVE  ExpenseInv'
  <2>1. inv[i].type # "SERVICE"
    BY <1>10 DEF CreateInvoice, Blank
  <2>2. \A j \in InvoiceIds : j # i => inv'[j] = inv[j]
    BY <1>10 DEF CreateInvoice, TypeOK
  <2>3. \A f \in ExpenseReqs : f # i
    BY DEF InvoiceIds
  <2>4. \A f \in ExpenseReqs : \A j : OwnAccount(f, j) => j # i
    BY <2>1
  <2> QED
    BY <1>10, <2>2, <2>3, <2>4 DEF CreateInvoice, ExpenseInv, InvoiceIds
<1>11. ASSUME NEW i \in InvoiceIds, RemoveInvoice(i) PROVE ExpenseInv'
  BY <1>11 DEF RemoveInvoice, ExpenseInv
<1>12. CASE UNCHANGED <<invoices, inv, link, exp>>
  BY <1>12 DEF ExpenseInv
<1> QED
  BY <1>2, <1>3, <1>4, <1>5, <1>6, <1>7, <1>8, <1>9, <1>10, <1>11, <1>12
  DEF Next, ExpStep, DeleteTicket, vars

-----------------------------------------------------------------------------
LEMMA Invariance == Spec => []IInv
<1>1. Init => IInv
  <2> SUFFICES ASSUME Init PROVE IInv
    OBVIOUS
  <2>1. TypeOK
    BY TypeInit
  <2>2. PaymentInv /\ PaidInv /\ OverlapInv
    BY DEF Init, PaymentInv, PaidInv, OverlapInv, Booked, Blank
  <2>3. ExpenseInv
    BY BillingAssumption DEF Init, ExpenseInv, Blank, InvoiceIds
  <2> QED
    BY <2>1, <2>2, <2>3 DEF IInv
<1>2. IInv /\ [Next]_vars => IInv'
  BY TypeStep, PaymentStep, PaidStep, OverlapStep, ExpenseStep DEF IInv
<1> QED
  BY <1>1, <1>2, PTL DEF Spec

\* Every table and every request keeps its type.
THEOREM TypeCorrect == Spec => []TypeOK
<1>1. IInv => TypeOK
  BY DEF IInv
<1> QED
  BY <1>1, Invariance, PTL

\* Whatever the number of clients, payments served one after the other never
\* book a second commission on an invoice.
THEOREM DuplicatesNeedOverlap == Spec => []DuplicateNeedsOverlap
<1>1. IInv => DuplicateNeedsOverlap
  BY DEF IInv, OverlapInv, Booked, DuplicateNeedsOverlap, TypeOK
<1> QED
  BY <1>1, Invariance, PTL

\* An expense is billed to the property and client of its own ticket.
THEOREM ExpensesOnOwnAccount == Spec => []LinkedToOwnAccount
<1>1. IInv => LinkedToOwnAccount
  BY DEF IInv, ExpenseInv, OwnAccount, LinkedToOwnAccount
<1> QED
  BY <1>1, Invariance, PTL

\* A payment that was recorded is carried to its end by the database calls that
\* follow it.
THEOREM RecordedPaymentsComplete == Spec => RecordedPaymentCompletes
<1>1. IInv /\ [Next]_vars
        => [\A p \in PaymentReqs :
              p \in payments /\ pay[p].pc # "failed" => pay'[p].pc # "failed"]_vars
  <2> SUFFICES ASSUME IInv, [Next]_vars, NEW q \in PaymentReqs, q \in payments,
                      pay[q].pc # "failed"
               PROVE  pay'[q].pc # "failed"
    OBVIOUS
  <2> USE DEF IInv
  <2>1. pay[q].invoice \in invoices /\ pay[q].pc \notin {"idle", "insert"}
    BY DEF PaymentInv
  <2>2. ASSUME NEW p \in PaymentReqs, NEW i \in InvoiceIds, NEW a \in PaymentAmounts,
               PayStart(p, i, a)
        PROVE  pay'[q].pc # "failed"
    BY <2>1, <2>2, PayToEffect DEF PayStart, TypeOK
  <2>3. ASSUME NEW p \in PaymentReqs, PayReread(p) PROVE pay'[q].pc # "failed"
    BY <2>3 DEF PayReread, TypeOK, PayLocals
  <2>4. ASSUME NEW p \in PaymentReqs, PayStep(p) \/ CrashPayment(p), ~PayReread(p)
        PROVE  pay'[q].pc # "failed"
    <3>1. PICK pc : PayTo(p, pc) /\ (q = p => pc # "failed")
      BY <2>1, <2>4
      DEF PayStep, PayInsert, PayWriteStatus, PayFindCommission, PayCreateCommission,
          CrashPayment
    <3> QED
      BY <3>1, PayToEffect
  <2>5. CASE Outside
    BY <2>5 DEF Outside
  <2> QED
    BY <2>2, <2>3, <2>4, <2>5, OutsideSteps DEF Next
<1> QED
  BY <1>1, Invariance, PTL DEF Spec, RecordedPaymentCompletes

\* A paid invoice is never removed.
THEOREM PaidInvoicesKept == Spec => PaidInvoiceKept
<1>1. IInv /\ [Next]_vars
        => [\A i \in invoices : inv[i].status = "PAID" => i \in invoices']_vars
  <2> SUFFICES ASSUME IInv, [Next]_vars, NEW i \in invoices, inv[i].status = "PAID"
               PROVE  i \in invoices'
    OBVIOUS
  <2>1. PaymentsOf(i) # {}
    BY DEF IInv, PaidInv, PaymentsOf, TypeOK
  <2>2. CASE Outside
    BY <2>1, <2>2 DEF Outside
  <2>3. CASE UNCHANGED invoices
    BY <2>3
  <2> QED
    BY <2>2, <2>3, OutsideSteps
    DEF Next, PayStart, PayStep, PayInsert, PayReread, PayWriteStatus,
        PayFindCommission, PayCreateCommission, CrashPayment
<1> QED
  BY <1>1, Invariance, PTL DEF Spec, PaidInvoiceKept

-----------------------------------------------------------------------------
\* What the invoices ask for, and what their expenses charged.
Charges == [e \in ExpenseReqs |-> Charge(e)]
Reached(i) == TotalOf(Charges, {e \in expenses : exp[e].invoice = i})

\* An expense that is about to grow an invoice has reached it already, and the
\* total it will write, however old, is covered with its own charge.
Covers(e) ==
    /\ exp[e].pc \in {"idle", "insert", "lookup", "create"} => exp[e].invoice = None
    /\ exp[e].pc \in {"idle", "insert"} => e \notin expenses
    /\ exp[e].pc \in {"lookup", "create", "grow"} => e \in expenses
    /\ exp[e].pc = "grow" /\ exp[e].invoice \in ExpenseReqs
          => exp[e].total + exp[e].amount <= Reached(exp[e].invoice)

ChargeInv ==
    /\ IsFiniteSet(expenses)
    /\ \A e \in ExpenseReqs : Covers(e)
    /\ \A i \in invoices \cap ExpenseReqs : inv[i].total <= Reached(i)

LEMMA ChargeType ==
    ASSUME TypeOK
    PROVE  \A e \in ExpenseReqs : /\ Charge(e) \in Nat /\ Charges[e] \in Nat
                                  /\ exp[e].amount \in Int /\ exp[e].amount <= Charge(e)
  BY DEF TypeOK, ExpLocals, Charge, Charges

\* No step takes from an invoice what reached it, and one that brings an expense
\* to an invoice adds its charge.
LEMMA ReachedGrows ==
    ASSUME TypeOK, TypeOK', ChargeInv, expenses \subseteq expenses', IsFiniteSet(expenses'),
           \A e \in expenses : /\ exp'[e].amount = exp[e].amount
                               /\ exp[e].invoice # None => exp'[e].invoice = exp[e].invoice
    PROVE  \A i \in InvoiceIds :
              /\ Reached(i) \in Nat /\ Reached(i)' \in Nat /\ Reached(i) <= Reached(i)'
              /\ \A e \in expenses : exp[e].invoice = None /\ exp'[e].invoice = i
                    => Reached(i) + Charge(e) <= Reached(i)'
<1> SUFFICES ASSUME NEW i \in InvoiceIds
             PROVE  /\ Reached(i) \in Nat /\ Reached(i)' \in Nat /\ Reached(i) <= Reached(i)'
                    /\ \A e \in expenses : exp[e].invoice = None /\ exp'[e].invoice = i
                          => Reached(i) + Charge(e) <= Reached(i)'
  OBVIOUS
<1> DEFINE S == {e \in expenses : exp[e].invoice = i}
           T == {e \in expenses' : exp'[e].invoice = i}
<1>1. PICK a : a = Charges
  OBVIOUS
<1>2. PICK b : b = Charges'
  OBVIOUS
<1>3. expenses \subseteq ExpenseReqs /\ expenses' \subseteq ExpenseReqs /\ i # None
  BY BillingAssumption DEF TypeOK
<1>4. S \subseteq T /\ IsFiniteSet(T) /\ IsFiniteSet(S)
  <2>1. S \subseteq T
    BY <1>3
  <2>2. T \subseteq expenses'
    OBVIOUS
  <2> QED
    BY <2>1, <2>2, FS_Subset
<1>5. \A e \in expenses' : b[e] \in Nat
  <2>1. \A e \in ExpenseReqs : (Charge(e))' \in Nat
    BY DEF TypeOK, ExpLocals, Charge
  <2> QED
    BY <1>2, <1>3, <2>1 DEF Charges
<1>6. \A e \in expenses : a[e] = b[e] /\ a[e] = Charge(e)
  BY <1>1, <1>2, <1>3 DEF Charges, Charge
<1>7. TotalOf(a, S) = Reached(i) /\ TotalOf(b, T) = Reached(i)'
  BY <1>1, <1>2 DEF Reached
<1>8. TotalOf(a, S) \in Nat /\ TotalOf(b, T) \in Nat /\ TotalOf(a, S) <= TotalOf(b, T)
  BY <1>4, <1>5, <1>6, SumGrows
<1>9. ASSUME NEW e \in expenses, exp[e].invoice = None, exp'[e].invoice = i
      PROVE  TotalOf(a, S) + Charge(e) <= TotalOf(b, T)
  <2>1. e \notin S /\ S \cup {e} \subseteq T
    BY <1>3, <1>4, <1>9
  <2>2. \A y \in S \cup {e} : a[y] = b[y] /\ a[y] \in Nat
    BY <1>5, <1>6
  <2> HIDE DEF S, T
  <2>3. TotalOf(a, S \cup {e}) = TotalOf(a, S) + a[e]
    BY <1>4, <2>1, <2>2, SumAdd
  <2>4. \A y \in T : b[y] \in Nat
    BY <1>5 DEF T
  <2>5. TotalOf(a, S \cup {e}) <= TotalOf(b, T)
    BY <1>4, <2>1, <2>2, <2>4, SumGrows
  <2> QED
    BY <1>6, <2>3, <2>5
<1> QED
  BY <1>7, <1>8, <1>9

\* A step of one expense keeps ChargeInv if it does so for that expense and for
\* the invoice whose total it sets.
LEMMA ChargeKept ==
    ASSUME TypeOK, TypeOK', ChargeInv, NEW e \in ExpenseReqs,
           expenses \subseteq expenses', IsFiniteSet(expenses'),
           expenses' \subseteq expenses \cup {e},
           \A f \in ExpenseReqs : f # e => exp'[f] = exp[f],
           e \in expenses => exp'[e].amount = exp[e].amount,
           exp[e].invoice # None => exp'[e].invoice = exp[e].invoice,
           Covers(e)',
           \A i \in invoices' \cap ExpenseReqs :
              \/ i \in invoices /\ inv'[i].total = inv[i].total
              \/ inv'[i].total <= Reached(i)'
    PROVE  ChargeInv'
<1>1. \A i \in InvoiceIds : Reached(i) \in Nat /\ Reached(i)' \in Nat
                            /\ Reached(i) <= Reached(i)'
  BY ReachedGrows DEF TypeOK
<1>2. ASSUME NEW f \in ExpenseReqs, f # e
      PROVE  Covers(f)'
  <2>1. exp'[f] = exp[f] /\ (f \in expenses' <=> f \in expenses) /\ Covers(f)
    BY <1>2 DEF ChargeInv
  <2>2. exp[f].total \in Int /\ exp[f].amount \in Int
    BY DEF TypeOK, ExpLocals
  <2>3. ASSUME exp'[f].pc = "grow", exp'[f].invoice \in ExpenseReqs
        PROVE  exp'[f].total + exp'[f].amount <= Reached(exp[f].invoice)'
    <3>1. PICK i : i = exp[f].invoice
      OBVIOUS
    <3>2. i \in InvoiceIds /\ exp[f].total + exp[f].amount <= Reached(i)
      BY <2>1, <2>3, <3>1 DEF Covers, InvoiceIds
    <3>3. exp[f].total + exp[f].amount <= Reached(i)'
      BY <1>1, <2>2, <3>2
    <3> QED
      BY <2>1, <3>1, <3>3 DEF Reached
  <2> QED
    BY <2>1, <2>3 DEF Covers
<1>3. ASSUME NEW i \in invoices' \cap ExpenseReqs
      PROVE  inv'[i].total <= Reached(i)'
  <2>1. i \in InvoiceIds
    BY DEF InvoiceIds
  <2>2. inv[i].total \in Int
    BY <2>1 DEF TypeOK, InvoiceRow
  <2>3. i \in invoices => inv[i].total <= Reached(i)
    BY DEF ChargeInv
  <2> QED
    BY <1>1, <2>1, <2>2, <2>3
<1> QED
  BY <1>2, <1>3 DEF ChargeInv

LEMMA ChargeStep ==
    TypeOK /\ TypeOK' /\ ExpenseInv /\ ChargeInv /\ [Next]_vars => ChargeInv'
<1> SUFFICES ASSUME TypeOK, TypeOK', ExpenseInv, ChargeInv, [Next]_vars
             PROVE  ChargeInv'
  OBVIOUS
<1>1. ASSUME UNCHANGED <<expenses, exp>>,
             \A i \in ExpenseReqs : /\ i \in invoices' => i \in invoices
                                    /\ inv'[i].total = inv[i].total
      PROVE  ChargeInv'
  BY <1>1 DEF ChargeInv, Covers, Reached, Charges, Charge
<1>2. ASSUME NEW e \in ExpenseReqs
      PROVE  /\ Covers(e) /\ IsFiniteSet(expenses)
             /\ IsFiniteSet(expenses \cup {e})
             /\ exp[e].total \in Int /\ exp[e].amount \in Int
  <2>1. IsFiniteSet(expenses \cup {e})
    BY FS_AddElement DEF ChargeInv
  <2> QED
    BY <2>1 DEF ChargeInv, TypeOK, ExpLocals
<1>3. ASSUME NEW p \in PaymentReqs,
             \/ \E i \in InvoiceIds, a \in PaymentAmounts : PayStart(p, i, a)
             \/ PayStep(p)
             \/ CrashPayment(p)
      PROVE  ChargeInv'
  <2>1. CASE PayWriteStatus(p)
    <3>1. \A i \in InvoiceIds : inv'[i].total = inv[i].total
      BY <2>1 DEF PayWriteStatus, TypeOK, InvoiceRow
    <3> QED
      BY <1>1, <2>1, <3>1 DEF PayWriteStatus, InvoiceIds
  <2>2. CASE UNCHANGED <<expenses, exp, invoices, inv>>
    BY <1>1, <2>2
  <2> QED
    BY <1>3, <2>1, <2>2
    DEF PayStart, PayStep, PayInsert, PayReread, PayFindCommission,
        PayCreateCommission, CrashPayment
\* A request moves on, to a step before which the model keeps no account.
<1>4. ASSUME NEW e \in ExpenseReqs, NEW pc \in {"lookup", "create", "link", "done", "failed", "crashed"},
             ExpTo(e, pc), expenses' = expenses \/ expenses' = expenses \cup {e},
             pc \in {"lookup", "create"} => e \in expenses' /\ exp[e].invoice = None,
             UNCHANGED <<invoices, inv>>
      PROVE  ChargeInv'
  <2>1. /\ exp'[e].pc = pc /\ exp'[e].invoice = exp[e].invoice
        /\ exp'[e].amount = exp[e].amount
        /\ \A f \in ExpenseReqs : f # e => exp'[f] = exp[f]
    BY <1>4 DEF ExpTo, TypeOK, ExpLocals
  <2>2. Covers(e)'
    BY <1>2, <1>4, <2>1 DEF Covers
  <2>3. expenses \subseteq expenses' /\ expenses' \subseteq expenses \cup {e}
        /\ IsFiniteSet(expenses')
    BY <1>2, <1>4
  <2> QED
    BY <1>4, <2>1, <2>2, <2>3, ChargeKept
<1>5. ASSUME NEW e \in ExpenseReqs, NEW t \in Tickets, NEW a \in ExpenseAmounts,
             ExpStart(e, t, a)
      PROVE  ChargeInv'
  <2>1. exp[e].pc = "idle" /\ UNCHANGED <<expenses, invoices, inv>>
    BY <1>5 DEF ExpStart
  <2>2. CASE ExpTo(e, "failed")
    BY <1>4, <2>1, <2>2
  <2>3. CASE exp' = [exp EXCEPT ![e] = [exp[e] EXCEPT !.pc = "insert", !.ticket = t,
                                                      !.amount = a]]
    <3>1. /\ exp'[e].pc = "insert" /\ exp'[e].invoice = exp[e].invoice
          /\ \A f \in ExpenseReqs : f # e => exp'[f] = exp[f]
      BY <2>3 DEF TypeOK, ExpLocals
    <3>2. Covers(e)' /\ e \notin expenses
      BY <1>2, <2>1, <3>1 DEF Covers
    <3> QED
      BY <1>2, <2>1, <3>1, <3>2, ChargeKept
  <2> QED
    BY <1>5, <2>2, <2>3 DEF ExpStart
<1>6. ASSUME NEW e \in ExpenseReqs, ExpInsert(e) PROVE ChargeInv'
  <2>1. exp[e].invoice = None
    BY <1>2, <1>6 DEF ExpInsert, Covers
  <2> QED
    BY <1>4, <1>6, <2>1 DEF ExpInsert
<1>7. ASSUME NEW e \in ExpenseReqs, ExpLookup(e) PROVE ChargeInv'
  <2>1. /\ exp[e].pc = "lookup" /\ e \in expenses /\ exp[e].invoice = None
        /\ UNCHANGED <<expenses, invoices, inv>>
    BY <1>2, <1>7 DEF ExpLookup, Covers
  <2>2. CASE ExpTo(e, "create")
    BY <1>4, <2>1, <2>2
  <2>3. ASSUME NEW i \in invoices,
               exp' = [exp EXCEPT ![e] = [exp[e] EXCEPT !.pc = "grow", !.invoice = i,
                                                        !.total = inv[i].total]]
        PROVE  ChargeInv'
    <3>1. /\ exp'[e].pc = "grow" /\ exp'[e].invoice = i /\ exp'[e].total = inv[i].total
          /\ exp'[e].amount = exp[e].amount
          /\ \A f \in ExpenseReqs : f # e => exp'[f] = exp[f]
      BY <2>3 DEF TypeOK, ExpLocals
    <3>2. i \in InvoiceIds /\ inv[i].total \in Int
      BY DEF TypeOK, InvoiceRow
    <3>3. Reached(i) \in Nat /\ Reached(i)' \in Nat /\ Reached(i) + Charge(e) <= Reached(i)'
      <4>1. \A f \in expenses : /\ exp'[f].amount = exp[f].amount
                                /\ exp[f].invoice # None => exp'[f].invoice = exp[f].invoice
        BY <2>1, <3>1 DEF TypeOK
      <4>2. expenses \subseteq expenses' /\ IsFiniteSet(expenses')
        BY <1>2, <2>1
      <4> QED
        BY <2>1, <3>1, <3>2, <4>1, <4>2, ReachedGrows
    <3>4. i \in ExpenseReqs => inv[i].total <= Reached(i)
      BY DEF ChargeInv
    <3>5. exp[e].amount \in Int /\ Charge(e) \in Nat /\ exp[e].amount <= Charge(e)
      BY ChargeType
    <3>6. i \in ExpenseReqs => inv[i].total + exp[e].amount <= Reached(i)'
      BY <3>2, <3>3, <3>4, <3>5
    <3>7. Reached(exp[e].invoice)' = Reached(i)'
      BY <3>1 DEF Reached
    <3>8. Covers(e)'
      BY <2>1, <3>1, <3>6, <3>7 DEF Covers
    <3> QED
      BY <1>2, <2>1, <3>1, <3>8, ChargeKept
  <2> QED
    BY <1>7, <2>2, <2>3 DEF ExpLookup, ServiceInvoices
<1>8. ASSUME NEW e \in ExpenseReqs, ExpCreateInvoice(e) PROVE ChargeInv'
  <2>1. /\ exp[e].pc = "create" /\ e \in expenses /\ exp[e].invoice = None
        /\ UNCHANGED expenses /\ invoices' = invoices \cup {e}
    BY <1>2, <1>8 DEF ExpCreateInvoice, Covers
  <2>2. /\ exp'[e].pc = "link" /\ exp'[e].invoice = e /\ exp'[e].amount = exp[e].amount
        /\ \A f \in ExpenseReqs : f # e => exp'[f] = exp[f]
    BY <1>8 DEF ExpCreateInvoice, TypeOK, ExpLocals
  <2>3. /\ inv'[e].total = exp[e].amount
        /\ \A i \in InvoiceIds : i # e => inv'[i] = inv[i]
    BY <1>8 DEF ExpCreateInvoice, TypeOK, InvoiceIds
  <2>4. e \in InvoiceIds
    BY DEF InvoiceIds
  <2>5. Reached(e) \in Nat /\ Reached(e)' \in Nat /\ Reached(e) + Charge(e) <= Reached(e)'
    <3>1. \A f \in expenses : /\ exp'[f].amount = exp[f].amount
                              /\ exp[f].invoice # None => exp'[f].invoice = exp[f].invoice
      BY <2>1, <2>2 DEF TypeOK
    <3>2. expenses \subseteq expenses' /\ IsFiniteSet(expenses')
      BY <1>2, <2>1
    <3> QED
      BY <2>1, <2>2, <2>4, <3>1, <3>2, ReachedGrows
  <2>6. exp[e].amount \in Int /\ Charge(e) \in Nat /\ exp[e].amount <= Charge(e)
    BY ChargeType
  <2>7. inv'[e].total <= Reached(e)'
    BY <2>3, <2>5, <2>6
  <2>8. Covers(e)'
    BY <2>1, <2>2 DEF Covers
  <2>9. \A i \in invoices' \cap ExpenseReqs :
           \/ i \in invoices /\ inv'[i].total = inv[i].total
           \/ inv'[i].total <= Reached(i)'
    <3> SUFFICES ASSUME NEW i \in invoices' \cap ExpenseReqs, i # e
                 PROVE  i \in invoices /\ inv'[i].total = inv[i].total
      BY <2>7
    <3> QED
      BY <2>1, <2>3 DEF InvoiceIds
  <2> QED
    BY <1>2, <2>1, <2>2, <2>8, <2>9, ChargeKept
<1>9. ASSUME NEW e \in ExpenseReqs, ExpGrowInvoice(e) PROVE ChargeInv'
  <2>1. exp[e].pc = "grow" /\ UNCHANGED <<expenses, invoices>>
    BY <1>9 DEF ExpGrowInvoice
  <2>2. CASE ExpTo(e, "failed") /\ UNCHANGED inv
    BY <1>4, <2>1, <2>2
  <2>3. CASE /\ exp[e].invoice \in invoices /\ ExpTo(e, "link")
             /\ inv' = [inv EXCEPT ![exp[e].invoice].total = exp[e].total + exp[e].amount]
    <3>1. PICK j : j = exp[e].invoice
      OBVIOUS
    <3>2. /\ exp'[e].pc = "link" /\ exp'[e].invoice = exp[e].invoice
          /\ exp'[e].amount = exp[e].amount
          /\ \A f \in ExpenseReqs : f # e => exp'[f] = exp[f]
      BY <2>3 DEF ExpTo, TypeOK, ExpLocals
    <3>3. j \in InvoiceIds
      BY <2>3, <3>1 DEF TypeOK
    <3>4. /\ inv'[j].total = exp[e].total + exp[e].amount
          /\ \A i \in InvoiceIds : i # j => inv'[i] = inv[i]
      BY <2>3, <3>1, <3>3 DEF TypeOK, InvoiceRow
    <3>5. Reached(j) \in Nat /\ Reached(j)' \in Nat /\ Reached(j) <= Reached(j)'
      BY <1>2, <2>1, <3>2, <3>3, ReachedGrows DEF TypeOK
    <3>6. j \in ExpenseReqs => exp[e].total + exp[e].amount <= Reached(j)
      BY <1>2, <2>1, <3>1 DEF Covers
    <3>7. j \in ExpenseReqs => inv'[j].total <= Reached(j)'
      <4>1. exp[e].total \in Int /\ exp[e].amount \in Int
        BY DEF TypeOK, ExpLocals
      <4> QED
        BY <3>4, <3>5, <3>6, <4>1
    <3>8. \A i \in invoices' \cap ExpenseReqs :
             \/ i \in invoices /\ inv'[i].total = inv[i].total
             \/ inv'[i].total <= Reached(i)'
      <4> SUFFICES ASSUME NEW i \in invoices' \cap ExpenseReqs, i # j
                   PROVE  i \in invoices /\ inv'[i].total = inv[i].total
        BY <3>7
      <4> QED
        BY <2>1, <3>4 DEF InvoiceIds
    <3>9. Covers(e)'
      BY <3>2 DEF Covers
    <3> QED
      BY <1>2, <2>1, <3>2, <3>8, <3>9, ChargeKept
  <2> QED
    BY <1>9, <2>2, <2>3 DEF ExpGrowInvoice
<1>10. ASSUME NEW e \in ExpenseReqs, ExpLink(e) \/ CrashExpense(e) PROVE ChargeInv'
  BY <1>4, <1>10 DEF ExpLink, CrashExpense
<1>11. ASSUME NEW i \in InvoiceReqs, NEW c \in Accounts, NEW y \in Types,
              NEW t \in Totals, CreateInvoice(i, c, y, t)
       PROVE  ChargeInv'
  <2>1. \A j \in ExpenseReqs : j # i /\ inv'[j] = inv[j]
    BY <1>11, BillingAssumption DEF CreateInvoice, TypeOK, InvoiceIds
  <2> QED
    BY <1>1, <1>11, <2>1 DEF CreateInvoice
<1>12. ASSUME NEW i \in InvoiceIds, RemoveInvoice(i) PROVE ChargeInv'
  BY <1>1, <1>12 DEF RemoveInvoice
<1>13. CASE UNCHANGED <<expenses, exp, invoices, inv>>
  BY <1>1, <1>13
<1> QED
  BY <1>3, <1>5, <1>6, <1>7, <1>8, <1>9, <1>10, <1>11, <1>12, <1>13
  DEF Next, ExpStep, DeleteTicket, vars

\* The clients of an invoice that an expense opened never owe more than the
\* charges that reached it, however the requests interleave and whichever
\* invoice of the account each of them finds.
THEOREM ChargedAtMost == Spec => []NeverOverbilled
<1>1. Init => ChargeInv
  <2> SUFFICES ASSUME Init PROVE ChargeInv
    OBVIOUS
  <2>1. IsFiniteSet(expenses)
    BY FS_EmptySet DEF Init
  <2> QED
    BY <2>1 DEF Init, ChargeInv, Covers
<1>2. IInv /\ IInv' /\ ChargeInv /\ [Next]_vars => ChargeInv'
  BY ChargeStep DEF IInv
<1>3. ChargeInv => NeverOverbilled
  BY DEF ChargeInv, NeverOverbilled, Reached, Charges
<1> QED
  BY <1>1, <1>2, <1>3, Invariance, PTL DEF Spec

-----------------------------------------------------------------------------
\* Who holds or is about to book a commission, or is about to write PAID.
NeedsFunds(p) ==
    \/ pay[p].pc \in {"find", "create"}
    \/ pay[p].pc = "write" /\ pay[p].status = "PAID"
    \/ p \in commissions

\* Payments are positive, and a fixed invoice found paid was and stays so: its
\* total does not change and payments are not taken back.
FundInv ==
    /\ IsFiniteSet(payments)
    /\ \A p \in PaymentReqs :
          /\ p \in payments \/ pay[p].pc = "insert" =>
                pay[p].amount \in {a \in PaymentAmounts : a > 0}
          /\ NeedsFunds(p) /\ pay[p].invoice \in Fixed =>
                inv[pay[p].invoice].total <= PaidSum(pay[p].invoice)

LEMMA Positive == \A x \in {a \in PaymentAmounts : a > 0} : x \in Nat /\ x > 0
  BY BillingAssumption

LEMMA PaidType ==
    ASSUME TypeOK, FundInv, NEW i
    PROVE  /\ PaidSum(i) \in Nat
           /\ PaymentsOf(i) = {} => PaidSum(i) = 0
           /\ PaymentsOf(i) # {} => PaidSum(i) > 0
<1>1. PICK a : a = [p \in PaymentReqs |-> pay[p].amount]
  OBVIOUS
<1>2. PICK S : S = PaymentsOf(i)
  OBVIOUS
<1>3. S \subseteq payments /\ S \subseteq PaymentReqs
  BY <1>2 DEF PaymentsOf, TypeOK
<1>4. IsFiniteSet(S)
  BY <1>3, FS_Subset DEF FundInv
<1>5. \A p \in S : a[p] \in Nat /\ a[p] > 0
  <2>1. \A p \in S : pay[p].amount \in {x \in PaymentAmounts : x > 0}
    BY <1>3 DEF FundInv
  <2> QED
    BY <1>1, <1>3, <2>1, Positive
<1>6. PaidSum(i) = TotalOf(a, S)
  BY <1>1, <1>2 DEF PaidSum
<1>7. TotalOf(a, S) \in Nat
  BY <1>4, <1>5, SumGrows
<1>8. ASSUME NEW p \in S
      PROVE  TotalOf(a, S) > 0
  <2>1. IsFiniteSet(S \ {p}) /\ (S \ {p}) \cup {p} = S
    BY <1>4, FS_Subset
  <2>2. TotalOf(a, (S \ {p}) \cup {p}) = TotalOf(a, S \ {p}) + a[p]
    BY <1>5, <2>1, SumAdd
  <2>3. TotalOf(a, S \ {p}) \in Nat
    BY <1>5, <2>1, SumGrows
  <2> QED
    BY <1>5, <2>1, <2>2, <2>3
<1> QED
  BY <1>2, <1>6, <1>7, <1>8, SumEmpty

\* Payments already recorded keep their invoice and their amount.
Recorded ==
    /\ payments \subseteq payments' /\ IsFiniteSet(payments')
    /\ \A q \in payments : /\ pay'[q].invoice = pay[q].invoice
                           /\ pay'[q].amount = pay[q].amount
    /\ \A q \in PaymentReqs : q \in payments' \/ pay'[q].pc = "insert" =>
                                 pay'[q].amount \in {a \in PaymentAmounts : a > 0}

LEMMA PaidGrows ==
    ASSUME TypeOK, TypeOK', FundInv, Recorded, NEW i
    PROVE  /\ PaidSum(i) \in Nat /\ PaidSum(i)' \in Nat /\ PaidSum(i) <= PaidSum(i)'
           /\ payments' = payments => PaidSum(i)' = PaidSum(i)
           /\ \A p \in PaymentReqs : p \notin payments /\ payments' = payments \cup {p} =>
                 PaidSum(i)' = PaidSum(i) + IF pay'[p].invoice = i THEN pay'[p].amount ELSE 0
<1>1. PICK a : a = [p \in PaymentReqs |-> pay[p].amount]
  OBVIOUS
<1>2. PICK b : b = [p \in PaymentReqs |-> pay'[p].amount]
  OBVIOUS
<1>3. PICK S : S = PaymentsOf(i)
  OBVIOUS
<1>4. PICK T : T = {p \in payments' : pay'[p].invoice = i}
  OBVIOUS
<1>5. PaidSum(i) = TotalOf(a, S) /\ PaidSum(i)' = TotalOf(b, T)
  BY <1>1, <1>2, <1>3, <1>4 DEF PaidSum, PaymentsOf
<1>6. payments \subseteq PaymentReqs /\ payments' \subseteq PaymentReqs
  BY DEF TypeOK
<1>7. S \subseteq payments /\ T \subseteq payments' /\ S \subseteq T
  BY <1>3, <1>4 DEF PaymentsOf, Recorded
<1>8. IsFiniteSet(T) /\ IsFiniteSet(S)
  BY <1>7, FS_Subset DEF Recorded
<1>9. \A p \in S : a[p] = b[p]
  BY <1>1, <1>2, <1>6, <1>7 DEF Recorded
<1>10. \A p \in T : b[p] \in Nat
  <2>1. \A p \in T : pay'[p].amount \in {x \in PaymentAmounts : x > 0}
    BY <1>6, <1>7 DEF Recorded
  <2> QED
    BY <1>2, <1>6, <1>7, <2>1, Positive
<1>11. TotalOf(a, S) \in Nat /\ TotalOf(b, T) \in Nat /\ TotalOf(a, S) <= TotalOf(b, T)
  BY <1>7, <1>8, <1>9, <1>10, SumGrows
<1>12. \A p \in S : a[p] \in Nat
  BY <1>7, <1>9, <1>10
<1>13. ASSUME T = S
       PROVE  TotalOf(b, T) = TotalOf(a, S)
  <2>1. TotalOf(b, T) <= TotalOf(a, S)
    BY <1>8, <1>9, <1>12, <1>13, SumGrows
  <2> QED
    BY <1>11, <2>1
<1>14. ASSUME payments' = payments
       PROVE  TotalOf(b, T) = TotalOf(a, S)
  <2>1. T = S
    BY <1>3, <1>4, <1>14 DEF PaymentsOf, Recorded
  <2> QED
    BY <1>13, <2>1
<1>15. ASSUME NEW p \in PaymentReqs, p \notin payments, payments' = payments \cup {p}
       PROVE  TotalOf(b, T) = TotalOf(a, S) + IF pay'[p].invoice = i THEN pay'[p].amount
                                              ELSE 0
  <2>1. CASE pay'[p].invoice = i
    <3>1. T = S \cup {p} /\ p \notin S
      BY <1>3, <1>4, <1>15, <2>1 DEF PaymentsOf, Recorded
    <3>2. TotalOf(b, S \cup {p}) = TotalOf(b, S) + b[p]
      BY <1>8, <1>10, <3>1, SumAdd
    <3>3. \A q \in S : b[q] \in Nat
      BY <1>10, <3>1
    <3>4. /\ TotalOf(a, S) \in Nat /\ TotalOf(b, S) \in Nat
          /\ TotalOf(a, S) <= TotalOf(b, S) /\ TotalOf(b, S) <= TotalOf(a, S)
      BY <1>8, <1>9, <1>12, <3>3, SumGrows
    <3>5. TotalOf(b, S) = TotalOf(a, S)
      BY <3>4
    <3>6. b[p] = pay'[p].amount
      BY <1>2
    <3> QED
      BY <2>1, <3>1, <3>2, <3>5, <3>6
  <2>2. CASE pay'[p].invoice # i
    <3>1. T = S
      BY <1>3, <1>4, <1>15, <2>2 DEF PaymentsOf, Recorded
    <3> QED
      BY <1>11, <1>13, <2>2, <3>1
  <2> QED
    BY <2>1, <2>2
<1> QED
  BY <1>5, <1>11, <1>14, <1>15

LEMMA Records ==
    ASSUME TypeOK, PaymentInv, FundInv, [Next]_vars
    PROVE  Recorded
<1>1. \A p \in PaymentReqs : p \in payments \/ pay[p].pc = "insert" =>
          pay[p].amount \in {a \in PaymentAmounts : a > 0}
  BY DEF FundInv
<1>2. IsFiniteSet(payments) /\ payments \subseteq PaymentReqs
  BY DEF FundInv, TypeOK
\* Only PayStart and PayInsert can disturb it.
<1>3. ASSUME UNCHANGED payments,
             \A q \in PaymentReqs : /\ pay'[q].invoice = pay[q].invoice
                                    /\ pay'[q].amount = pay[q].amount
                                    /\ pay'[q].pc = "insert" => pay[q].pc = "insert"
      PROVE  Recorded
  BY <1>1, <1>2, <1>3 DEF Recorded
<1>4. ASSUME NEW p \in PaymentReqs, NEW pc, PayTo(p, pc), pc # "insert"
      PROVE  \A q \in PaymentReqs : /\ pay'[q].invoice = pay[q].invoice
                                    /\ pay'[q].amount = pay[q].amount
                                    /\ pay'[q].pc = "insert" => pay[q].pc = "insert"
  BY <1>4 DEF PayTo, TypeOK, PayLocals
<1>5. ASSUME NEW p \in PaymentReqs, NEW i \in InvoiceIds, NEW a \in PaymentAmounts,
             PayStart(p, i, a)
      PROVE  Recorded
  <2>1. CASE PayTo(p, "failed")
    BY <1>3, <1>4, <1>5, <2>1 DEF PayStart
  <2>2. CASE /\ a > 0
             /\ pay' = [pay EXCEPT ![p] = [pay[p] EXCEPT !.pc = "insert", !.invoice = i,
                                                         !.amount = a]]
    <3>1. /\ pay'[p].amount = a
          /\ \A q \in PaymentReqs : q # p => pay'[q] = pay[q]
      BY <2>2 DEF TypeOK, PayLocals
    <3>2. p \notin payments /\ UNCHANGED payments
      BY <1>5 DEF PayStart, PaymentInv
    <3>3. a \in {x \in PaymentAmounts : x > 0}
      BY <2>2
    <3> QED
      BY <1>1, <1>2, <3>1, <3>2, <3>3 DEF Recorded
  <2> QED
    BY <1>5, <2>1, <2>2 DEF PayStart
<1>6. ASSUME NEW p \in PaymentReqs, PayInsert(p) PROVE Recorded
  <2>1. PICK pc \in {"reread", "failed"} : PayTo(p, pc)
    BY <1>6 DEF PayInsert
  <2>2. \A q \in PaymentReqs : /\ pay'[q].invoice = pay[q].invoice
                               /\ pay'[q].amount = pay[q].amount
                               /\ pay'[q].pc = "insert" => pay[q].pc = "insert"
    BY <1>4, <2>1
  <2>3. CASE UNCHANGED payments
    BY <1>3, <2>2, <2>3
  <2>4. CASE payments' = payments \cup {p}
    <3>1. IsFiniteSet(payments')
      BY <1>2, <2>4, FS_AddElement
    <3>2. pay[p].pc = "insert"
      BY <1>6 DEF PayInsert
    <3> QED
      BY <1>1, <1>2, <2>2, <2>4, <3>1, <3>2 DEF Recorded
  <2> QED
    BY <1>6, <2>3, <2>4 DEF PayInsert
<1>7. ASSUME NEW p \in PaymentReqs, PayReread(p) PROVE Recorded
  <2>1. \A q \in PaymentReqs : /\ pay'[q].invoice = pay[q].invoice
                               /\ pay'[q].amount = pay[q].amount
                               /\ pay'[q].pc = "insert" => pay[q].pc = "insert"
    BY <1>7 DEF PayReread, TypeOK, PayLocals
  <2> QED
    BY <1>3, <1>7, <2>1 DEF PayReread
<1>8. ASSUME NEW p \in PaymentReqs,
             \/ PayWriteStatus(p) \/ PayFindCommission(p) \/ PayCreateCommission(p)
             \/ CrashPayment(p)
      PROVE  Recorded
  <2>1. PICK pc \in {"find", "create", "done", "failed", "crashed"} : PayTo(p, pc)
    BY <1>8 DEF PayWriteStatus, PayFindCommission, PayCreateCommission, CrashPayment
  <2>2. UNCHANGED payments
    BY <1>8 DEF PayWriteStatus, PayFindCommission, PayCreateCommission, CrashPayment
  <2> QED
    BY <1>3, <1>4, <2>1, <2>2
<1>9. CASE Outside
  BY <1>3, <1>9 DEF Outside
<1> QED
  BY <1>5, <1>6, <1>7, <1>8, <1>9, OutsideSteps DEF Next, PayStep

\* A fixed invoice keeps its total for as long as it is one, and it becomes one
\* before it has payments.
StaysFixed ==
    \A i \in Fixed' : \/ i \in Fixed /\ inv'[i].total = inv[i].total
                      \/ PaymentsOf(i) = {}

LEMMA FixedFrame ==
    ASSUME TypeOK, PaymentInv, ExpenseInv, [Next]_vars
    PROVE  /\ StaysFixed
           /\ \/ /\ Fixed' = Fixed
                 /\ \A i \in Fixed : inv'[i].total = inv[i].total
              \/ \E i \in InvoiceReqs, c \in Accounts, y \in Types, t \in Totals :
                    CreateInvoice(i, c, y, t)
              \/ \E i \in InvoiceIds : RemoveInvoice(i)
<1> DEFINE Frame == Fixed' = Fixed /\ \A i \in Fixed : inv'[i].total = inv[i].total
<1>1. ASSUME UNCHANGED <<invoices, inv>> PROVE Frame
  BY <1>1 DEF Fixed
<1>2. ASSUME NEW p \in PaymentReqs, PayWriteStatus(p) PROVE Frame
  <2>1. \A i \in InvoiceIds : inv'[i].type = inv[i].type /\ inv'[i].total = inv[i].total
    BY <1>2 DEF PayWriteStatus, TypeOK, InvoiceRow
  <2> QED
    BY <1>2, <2>1 DEF PayWriteStatus, Fixed, InvoiceIds
<1>3. ASSUME NEW e \in ExpenseReqs, ExpCreateInvoice(e) PROVE Frame
  <2>1. \A i \in InvoiceReqs : i # e /\ inv'[i] = inv[i]
    BY <1>3, BillingAssumption DEF ExpCreateInvoice, TypeOK, InvoiceIds
  <2> QED
    BY <1>3, <2>1 DEF ExpCreateInvoice, Fixed
<1>4. ASSUME NEW e \in ExpenseReqs, ExpGrowInvoice(e) PROVE Frame
  <2>1. inv[exp[e].invoice].type = "SERVICE"
    BY <1>4 DEF ExpGrowInvoice, ExpenseInv, OwnAccount
  <2>2. \A i \in InvoiceIds : /\ inv'[i].type = inv[i].type
                              /\ inv[i].type # "SERVICE" => inv'[i] = inv[i]
    BY <1>4, <2>1 DEF ExpGrowInvoice, TypeOK, InvoiceRow
  <2> QED
    BY <1>4, <2>2 DEF ExpGrowInvoice, Fixed, InvoiceIds
<1>5. Frame => StaysFixed
  BY DEF StaysFixed
<1>6. ASSUME NEW i \in InvoiceReqs, NEW c \in Accounts, NEW y \in Types,
             NEW t \in Totals, CreateInvoice(i, c, y, t)
      PROVE  StaysFixed
  <2>1. PaymentsOf(i) = {}
    BY <1>6 DEF CreateInvoice, PaymentInv, PaymentsOf, TypeOK
  <2>2. \A j \in InvoiceIds : j # i => inv'[j] = inv[j]
    BY <1>6 DEF CreateInvoice, TypeOK
  <2> QED
    BY <1>6, <2>1, <2>2 DEF CreateInvoice, StaysFixed, Fixed, InvoiceIds
<1>7. ASSUME NEW i \in InvoiceIds, RemoveInvoice(i) PROVE StaysFixed
  BY <1>7, Zenon DEF RemoveInvoice, StaysFixed, Fixed
<1>8. \/ UNCHANGED <<invoices, inv>>
      \/ \E p \in PaymentReqs : PayWriteStatus(p)
      \/ \E e \in ExpenseReqs : ExpCreateInvoice(e) \/ ExpGrowInvoice(e)
      \/ \E i \in InvoiceReqs, c \in Accounts, y \in Types, t \in Totals :
            CreateInvoice(i, c, y, t)
      \/ \E i \in InvoiceIds : RemoveInvoice(i)
  BY DEF Next, PayStart, PayStep, PayInsert, PayReread, PayFindCommission,
         PayCreateCommission, CrashPayment, ExpStart, ExpStep, ExpInsert, ExpLookup,
         ExpLink, CrashExpense, DeleteTicket, vars
<1> HIDE DEF Frame
<1>9. Frame \/ (\E i \in InvoiceReqs, c \in Accounts, y \in Types, t \in Totals :
                   CreateInvoice(i, c, y, t))
            \/ (\E i \in InvoiceIds : RemoveInvoice(i))
  BY <1>1, <1>2, <1>3, <1>4, <1>8
<1> QED
  BY <1>5, <1>6, <1>7, <1>9 DEF Frame

LEMMA FundStep ==
    ASSUME TypeOK, TypeOK', PaymentInv, PaymentInv', ExpenseInv, FundInv, [Next]_vars
    PROVE  FundInv'
<1>1. Recorded /\ StaysFixed
  BY Records, FixedFrame
<1>2. \A i : PaidSum(i) \in Nat /\ PaidSum(i)' \in Nat /\ PaidSum(i) <= PaidSum(i)'
  BY <1>1, PaidGrows
<1>3. ASSUME NEW p \in PaymentReqs, NeedsFunds(p), NEW i \in Fixed', pay'[p].invoice = i
      PROVE  inv'[i].total <= PaidSum(i)'
  <2>1. p \in payments /\ pay[p].invoice = i
    BY <1>1, <1>3 DEF NeedsFunds, PaymentInv, Recorded
  <2>2. i \in Fixed /\ inv'[i].total = inv[i].total
    BY <1>1, <2>1 DEF StaysFixed, PaymentsOf
  <2>3. inv[i].total <= PaidSum(i)
    BY <1>3, <2>1, <2>2 DEF FundInv
  <2>4. inv[i].total \in Int
    BY <2>2 DEF Fixed, TypeOK, InvoiceRow
  <2> QED
    BY <1>2, <2>2, <2>3, <2>4
\* Only the read that found enough payments newly needs them.
<1>4. ASSUME NEW p \in PaymentReqs, NeedsFunds(p)', ~NeedsFunds(p)
      PROVE  PayReread(p) /\ pay'[p].status = "PAID" /\ pay[p].pc = "reread"
  <2>1. ASSUME NEW q \in PaymentReqs, NEW i \in InvoiceIds, NEW a \in PaymentAmounts,
               PayStart(q, i, a)
        PROVE  FALSE
    <3>1. /\ pay'[q].pc \in {"insert", "failed"}
          /\ \A r \in PaymentReqs : r # q => pay'[r] = pay[r]
      <4>1. CASE PayTo(q, "failed")
        BY <4>1, PayToEffect
      <4>2. CASE pay' = [pay EXCEPT ![q] = [pay[q] EXCEPT !.pc = "insert", !.invoice = i,
                                                          !.amount = a]]
        BY <4>2 DEF TypeOK, PayLocals
      <4> QED
        BY <2>1, <4>1, <4>2 DEF PayStart
    <3> QED
      BY <1>4, <2>1, <3>1 DEF PayStart, NeedsFunds
  <2>2. ASSUME NEW q \in PaymentReqs, PayReread(q)
        PROVE  PayReread(p) /\ pay'[p].status = "PAID" /\ pay[p].pc = "reread"
    <3>1. /\ pay'[q].pc \in {"write", "done"}
          /\ \A r \in PaymentReqs : r # q => pay'[r] = pay[r]
      BY <2>2 DEF PayReread, TypeOK, PayLocals
    <3>2. p = q
      BY <1>4, <2>2, <3>1 DEF PayReread, NeedsFunds
    <3> QED
      BY <1>4, <2>2, <3>1, <3>2 DEF PayReread, NeedsFunds
  <2>3. ASSUME NEW q \in PaymentReqs,
               \/ PayInsert(q) \/ PayWriteStatus(q) \/ PayFindCommission(q)
               \/ PayCreateCommission(q) \/ CrashPayment(q)
        PROVE  FALSE
    <3>1. PICK pc \in {"reread", "failed", "find", "create", "done", "crashed"} :
             /\ PayTo(q, pc)
             /\ pc \in {"find", "create"} => NeedsFunds(q)
      BY <2>3
      DEF PayInsert, PayWriteStatus, PayFindCommission, PayCreateCommission, CrashPayment,
          NeedsFunds
    <3>2. /\ pay'[q].pc = pc
          /\ \A r \in PaymentReqs : r # q => pay'[r] = pay[r]
      BY <3>1, PayToEffect
    <3>3. commissions' = commissions \/ (commissions' = commissions \cup {q} /\ NeedsFunds(q))
      BY <2>3
      DEF PayInsert, PayWriteStatus, PayFindCommission, PayCreateCommission, CrashPayment,
          NeedsFunds
    <3> QED
      BY <1>4, <3>1, <3>2, <3>3 DEF NeedsFunds
  <2>4. CASE Outside
    BY <1>4, <2>4 DEF Outside, NeedsFunds
  <2> QED
    BY <2>1, <2>2, <2>3, <2>4, OutsideSteps DEF Next, PayStep
<1>5. ASSUME NEW p \in PaymentReqs, ~NeedsFunds(p), NeedsFunds(p)',
             NEW i \in Fixed', pay'[p].invoice = i
      PROVE  inv'[i].total <= PaidSum(i)'
  <2>1. PayReread(p) /\ pay'[p].status = "PAID"
    BY <1>4, <1>5
  <2>2. pay'[p].status = NewStatus(pay[p].invoice) /\ pay'[p].invoice = pay[p].invoice
    BY <2>1 DEF PayReread, TypeOK, PayLocals
  <2>3. PaidSum(i) >= inv[i].total /\ UNCHANGED inv
    BY <1>5, <2>1, <2>2 DEF NewStatus, PayReread
  <2>4. inv[i].total \in Int
    BY <1>5 DEF Fixed, TypeOK, InvoiceRow, InvoiceIds
  <2> QED
    BY <1>2, <2>3, <2>4
<1>6. ASSUME NEW p \in PaymentReqs
      PROVE  (NeedsFunds(p) /\ pay[p].invoice \in Fixed =>
                 inv[pay[p].invoice].total <= PaidSum(pay[p].invoice))'
  <2>1. PICK i : i = pay'[p].invoice
    OBVIOUS
  <2>2. NeedsFunds(p)' /\ i \in Fixed' => inv'[i].total <= PaidSum(i)'
    BY <1>3, <1>5, <2>1
  <2>3. PaidSum(i)' = PaidSum(pay[p].invoice)'
    BY <2>1 DEF PaidSum, PaymentsOf
  <2> QED
    BY <2>1, <2>2, <2>3
<1> QED
  BY <1>1, <1>6 DEF FundInv, Recorded

-----------------------------------------------------------------------------
\* The state of module Settlement that a state of the tables stands for.
Owed == [i \in InvoiceReqs |-> IF i \in Fixed THEN inv[i].total ELSE 0]
Received == [i \in InvoiceReqs |-> IF i \in Fixed THEN PaidSum(i) ELSE 0]
Settled == {i \in Fixed : CommissionsOf(i) # {}}

\* The refined state changes only when a payment row, a commission row or a
\* fixed invoice comes or goes.
LEMMA Unseen ==
    ASSUME TypeOK, TypeOK', PaymentInv, FundInv, Recorded,
           UNCHANGED <<payments, commissions>>, Fixed' = Fixed,
           \A i \in Fixed : inv'[i].total = inv[i].total
    PROVE  Owed' = Owed /\ Received' = Received /\ Settled' = Settled
<1>1. \A i \in InvoiceReqs : PaidSum(i)' = PaidSum(i)
  BY PaidGrows
<1>2. \A p \in commissions : pay'[p].invoice = pay[p].invoice
  BY DEF Recorded, PaymentInv, TypeOK
<1>3. \A i \in InvoiceReqs : CommissionsOf(i)' = CommissionsOf(i)
  BY <1>2 DEF CommissionsOf
<1>4. Fixed \subseteq InvoiceReqs
  BY DEF Fixed
<1> QED
  BY <1>1, <1>3, <1>4 DEF Owed, Received, Settled

LEMMA PromiseInit == Init => Promise!Init
<1> SUFFICES ASSUME Init PROVE Promise!Init
  OBVIOUS
<1>1. Fixed = {}
  BY DEF Init, Fixed
<1> QED
  BY <1>1 DEF Promise!Init

LEMMA PromiseStep ==
    ASSUME IInv, IInv', FundInv, [Next]_vars
    PROVE  [Promise!Next]_(Promise!vars)
<1> USE DEF IInv
<1>1. Recorded /\ StaysFixed
  BY Records, FixedFrame
<1>2. ASSUME UNCHANGED <<payments, commissions>>, Fixed' = Fixed,
             \A i \in Fixed : inv'[i].total = inv[i].total
      PROVE  UNCHANGED Promise!vars
  BY <1>1, <1>2, Unseen DEF Promise!vars, Owed, Received, Settled
<1>3. ASSUME UNCHANGED <<payments, commissions>>
      PROVE  \/ UNCHANGED Promise!vars
             \/ \E i \in InvoiceReqs, c \in Accounts, y \in Types, t \in Totals :
                   CreateInvoice(i, c, y, t)
             \/ \E i \in InvoiceIds : RemoveInvoice(i)
  BY <1>2, <1>3, FixedFrame
<1>4. Fixed \subseteq InvoiceReqs /\ Fixed' \subseteq InvoiceReqs
  BY DEF Fixed
<1>5. \A i : PaidSum(i) \in Nat /\ (PaymentsOf(i) = {} => PaidSum(i) = 0)
  BY PaidType
<1>6. \A p \in commissions : pay'[p].invoice = pay[p].invoice
  BY <1>1 DEF Recorded, PaymentInv, TypeOK
<1>7. ASSUME NEW i \in InvoiceReqs, NEW c \in Accounts, NEW y \in Types,
             NEW t \in Totals, CreateInvoice(i, c, y, t)
      PROVE  Promise!Next \/ UNCHANGED Promise!vars
  <2>1. /\ UNCHANGED <<payments, commissions, pay>> /\ i \notin invoices
        /\ inv'[i].type = y /\ inv'[i].total = t
        /\ \A j \in InvoiceIds : j # i => inv'[j] = inv[j]
        /\ invoices' = invoices \cup {i}
    BY <1>7 DEF CreateInvoice, TypeOK, InvoiceIds
  <2>2. CASE y = "SERVICE"
    <3>1. Fixed' = Fixed /\ \A j \in Fixed : inv'[j].total = inv[j].total
      BY <2>1, <2>2 DEF Fixed, InvoiceIds
    <3> QED
      BY <1>2, <2>1, <3>1
  <2>3. CASE y # "SERVICE"
    <3>1. i \notin Fixed /\ Fixed' = Fixed \cup {i}
      BY <2>1, <2>3 DEF Fixed, InvoiceIds
    <3>2. PaymentsOf(i) = {} /\ PaidSum(i) = 0 /\ CommissionsOf(i) = {}
      BY <1>5, <2>1 DEF PaymentInv, PaymentsOf, CommissionsOf, TypeOK
    <3>3. \A j : /\ PaidSum(j)' = PaidSum(j) /\ CommissionsOf(j)' = CommissionsOf(j)
      BY <2>1 DEF PaidSum, PaymentsOf, CommissionsOf
    <3>4. Received' = Received /\ Settled' = Settled
      BY <3>1, <3>2, <3>3 DEF Received, Settled
    <3>5. \A j \in Fixed : inv'[j] = inv[j]
      BY <2>1, <3>1 DEF Fixed, InvoiceIds
    <3>6. Owed' = [Owed EXCEPT ![i] = t]
      BY <2>1, <3>1, <3>5 DEF Owed
    <3>7. Promise!Issue(i, t)
      BY <3>1, <3>4, <3>6 DEF Promise!Issue, Owed, Received, Settled
    <3> QED
      BY <3>7 DEF Promise!Next
  <2> QED
    BY <2>2, <2>3
<1>8. ASSUME NEW i \in InvoiceIds, RemoveInvoice(i)
      PROVE  Promise!Next \/ UNCHANGED Promise!vars
  <2>1. /\ UNCHANGED <<payments, commissions, pay, inv>>
        /\ PaymentsOf(i) = {} /\ CommissionsOf(i) = {}
        /\ invoices' = invoices \ {i}
    BY <1>8 DEF RemoveInvoice
  <2>2. CASE i \notin Fixed
    <3>1. Fixed' = Fixed
      BY <2>1, <2>2 DEF Fixed
    <3> QED
      BY <1>2, <2>1, <3>1
  <2>3. CASE i \in Fixed
    <3>1. Fixed' = Fixed \ {i} /\ i \in InvoiceReqs
      BY <2>1, <2>3 DEF Fixed
    <3>2. PaidSum(i) = 0
      BY <1>5, <2>1
    <3>3. \A j : /\ PaidSum(j)' = PaidSum(j) /\ CommissionsOf(j)' = CommissionsOf(j)
      BY <2>1 DEF PaidSum, PaymentsOf, CommissionsOf
    <3>4. Received' = Received /\ Settled' = Settled
      BY <2>1, <3>1, <3>2, <3>3 DEF Received, Settled
    <3>5. Owed' = [Owed EXCEPT ![i] = 0]
      BY <2>1, <3>1 DEF Owed
    <3>6. Received[i] = 0
      BY <3>1, <3>2 DEF Received
    <3>7. Promise!Withdraw(i)
      BY <2>3, <3>1, <3>4, <3>5, <3>6 DEF Promise!Withdraw, Owed, Received, Settled
    <3> QED
      BY <3>1, <3>7 DEF Promise!Next
  <2> QED
    BY <2>2, <2>3
<1>9. ASSUME NEW p \in PaymentReqs, PayInsert(p)
      PROVE  Promise!Next \/ UNCHANGED Promise!vars
  <2>1. /\ UNCHANGED <<invoices, inv, commissions>> /\ pay[p].pc = "insert"
        /\ Fixed' = Fixed
    BY <1>9 DEF PayInsert, Fixed
  <2>2. CASE UNCHANGED payments
    BY <1>2, <2>1, <2>2
  <2>3. CASE payments' = payments \cup {p}
    <3>1. p \notin payments
      BY <2>1 DEF PaymentInv
    <3>2. PICK i : i = pay[p].invoice
      OBVIOUS
    <3>3. PICK a : a = pay[p].amount
      OBVIOUS
    <3>4. pay'[p].invoice = i /\ pay'[p].amount = a
      BY <1>9, <3>2, <3>3 DEF PayInsert, PayTo, TypeOK, PayLocals
    <3>5. \A j : PaidSum(j)' = PaidSum(j) + IF i = j THEN a ELSE 0
      BY <1>1, <2>3, <3>1, <3>4, PaidGrows
    <3>6. Settled' = Settled
      <4>1. \A j \in Fixed : CommissionsOf(j)' = CommissionsOf(j)
        BY <1>6, <2>1 DEF CommissionsOf
      <4> QED
        BY <2>1, <4>1 DEF Settled
    <3>7. Owed' = Owed
      BY <2>1 DEF Owed
    <3>8. a \in {x \in PaymentAmounts : x > 0}
      BY <2>1, <3>3 DEF FundInv
    <3>9. CASE i \in Fixed
      <4>1. Received' = [Received EXCEPT ![i] = @ + a]
        <5>1. \A j \in InvoiceReqs : Received[j] \in Nat
          BY <1>5, PaidType DEF Received
        <5>2. \A j \in InvoiceReqs :
                 Received'[j] = IF j = i THEN Received[j] + a ELSE Received[j]
          BY <1>5, <2>1, <3>5, <3>9, PaidType DEF Received
        <5> QED
          BY <5>2 DEF Received
      <4>2. Promise!Receive(i, a)
        BY <2>1, <3>6, <3>7, <3>9, <4>1 DEF Promise!Receive, Owed, Received, Settled
      <4> QED
        BY <1>4, <3>8, <3>9, <4>2 DEF Promise!Next
    <3>10. CASE i \notin Fixed
      <4>1. \A j \in Fixed : PaidSum(j)' = PaidSum(j)
        BY <3>5, <3>10, PaidType
      <4>2. Received' = Received
        BY <2>1, <4>1 DEF Received
      <4> QED
        BY <2>1, <3>6, <3>7, <4>2 DEF Promise!vars, Owed, Received, Settled
    <3> QED
      BY <3>9, <3>10
  <2> QED
    BY <1>9, <2>2, <2>3 DEF PayInsert
<1>10. ASSUME NEW p \in PaymentReqs, PayCreateCommission(p)
       PROVE  Promise!Next \/ UNCHANGED Promise!vars
  <2>1. /\ UNCHANGED <<invoices, inv, payments>> /\ pay[p].pc = "create"
        /\ Fixed' = Fixed
    BY <1>10 DEF PayCreateCommission, Fixed
  <2>2. CASE UNCHANGED commissions
    BY <1>2, <2>1, <2>2
  <2>3. CASE commissions' = commissions \cup {p}
    <3>1. PICK i : i = pay[p].invoice
      OBVIOUS
    <3>2. pay'[p].invoice = i
      BY <1>10, <3>1, PayToEffect DEF PayCreateCommission
    <3>3. \A j : CommissionsOf(j)' = CommissionsOf(j) \cup IF i = j THEN {p} ELSE {}
      BY <1>6, <2>3, <3>2 DEF CommissionsOf
    <3>4. \A j : PaidSum(j)' = PaidSum(j)
      BY <1>1, <2>1, PaidGrows
    <3>5. Owed' = Owed /\ Received' = Received
      BY <2>1, <3>4 DEF Owed, Received
    <3>6. CASE i \in Fixed
      <4>1. Settled' = Settled \cup {i}
        BY <2>1, <3>3, <3>6 DEF Settled
      <4>2. p \in PaymentsOf(i)
        BY <2>1, <3>1 DEF PaymentInv, PaymentsOf
      <4>3. PaidSum(i) > 0 /\ PaidSum(i) >= inv[i].total
        <5>1. PaidSum(i) \in Nat /\ PaidSum(i) > 0
          BY <4>2, PaidType
        <5>2. inv[i].total <= PaidSum(i)
          BY <2>1, <3>1, <3>6 DEF FundInv, NeedsFunds
        <5>3. inv[i].total \in Int
          BY <3>6 DEF Fixed, TypeOK, InvoiceRow, InvoiceIds
        <5> QED
          BY <5>1, <5>2, <5>3
      <4>4. Received[i] = PaidSum(i) /\ Owed[i] = inv[i].total
        BY <1>4, <3>6 DEF Received, Owed
      <4>5. Promise!Settle(i)
        BY <2>1, <3>5, <3>6, <4>1, <4>3, <4>4
        DEF Promise!Settle, Owed, Received, Settled
      <4> QED
        BY <1>4, <3>6, <4>5 DEF Promise!Next
    <3>7. CASE i \notin Fixed
      <4>1. Settled' = Settled
        BY <2>1, <3>3, <3>7, Zenon DEF Settled
      <4> QED
        BY <2>1, <3>5, <4>1 DEF Promise!vars, Owed, Received, Settled
    <3> QED
      BY <3>6, <3>7
  <2> QED
    BY <1>10, <2>2, <2>3 DEF PayCreateCommission
<1>11. \/ UNCHANGED <<payments, commissions>>
       \/ \E p \in PaymentReqs : PayInsert(p) \/ PayCreateCommission(p)
  BY OutsideSteps
  DEF Next, PayStart, PayStep, PayReread, PayWriteStatus, PayFindCommission, CrashPayment,
      Outside
<1> QED
  BY <1>3, <1>7, <1>8, <1>9, <1>10, <1>11

\* For every number of clients, payments and invoices, the awaited calls of
\* PaymentsService.create and InvoicesService implement the one-step operations
\* of module Settlement on the invoices whose total is fixed: whatever overlaps,
\* money received stays received, an invoice that received some is not
\* withdrawn, and a commission is booked only once the invoice is covered.
THEOREM ImplementsSettlement == Spec => KeepsPromise
<1>1. Init => FundInv
  <2> SUFFICES ASSUME Init PROVE FundInv
    OBVIOUS
  <2>1. IsFiniteSet(payments)
    BY FS_EmptySet DEF Init
  <2>2. Fixed = {}
    BY DEF Init, Fixed
  <2> QED
    BY <2>1, <2>2 DEF Init, FundInv
<1>2. IInv /\ IInv' /\ FundInv /\ [Next]_vars => FundInv'
  BY FundStep DEF IInv
<1>3. IInv /\ IInv' /\ FundInv /\ [Next]_vars => [Promise!Next]_(Promise!vars)
  BY PromiseStep
<1> QED
  BY <1>1, <1>2, <1>3, PromiseInit, Invariance, PTL DEF Spec, KeepsPromise, Promise!Spec

\* What module Settlement promises of its state: no commission is booked before
\* the invoice is paid, and the invoice it was booked for is never withdrawn
\* afterwards.
THEOREM SettledFunded ==
    Promise!Spec => [](Promise!TypeOK /\ Promise!SettledIsFunded)
<1> DEFINE Inv == Promise!TypeOK /\ Promise!SettledIsFunded
<1>1. Promise!Init => Inv
  BY DEF Promise!Init, Promise!TypeOK, Promise!SettledIsFunded
<1>2. Inv /\ [Promise!Next]_(Promise!vars) => Inv'
  <2> SUFFICES ASSUME Inv, [Promise!Next]_(Promise!vars) PROVE Inv'
    OBVIOUS
  <2>1. PICK open : open = Fixed
    OBVIOUS
  <2>2. PICK owed : owed = Owed
    OBVIOUS
  <2>3. PICK received : received = Received
    OBVIOUS
  <2>4. PICK settled : settled = Settled
    OBVIOUS
  <2>5. Inv <=> /\ open \subseteq InvoiceReqs /\ owed \in [InvoiceReqs -> Int]
                /\ received \in [InvoiceReqs -> Nat] /\ settled \subseteq InvoiceReqs
                /\ \A i \in settled : i \in open /\ received[i] > 0 /\ received[i] >= owed[i]
    BY <2>1, <2>2, <2>3, <2>4
    DEF Promise!TypeOK, Promise!SettledIsFunded, Owed, Received, Settled
  <2>6. Inv' <=> /\ Fixed' \subseteq InvoiceReqs /\ Owed' \in [InvoiceReqs -> Int]
                 /\ Received' \in [InvoiceReqs -> Nat] /\ Settled' \subseteq InvoiceReqs
                 /\ \A i \in Settled' : /\ i \in Fixed' /\ Received'[i] > 0
                                        /\ Received'[i] >= Owed'[i]
    BY DEF Promise!TypeOK, Promise!SettledIsFunded, Owed, Received, Settled
  <2> USE <2>1, <2>2, <2>3, <2>4, <2>5
  <2>7. ASSUME NEW i \in InvoiceReqs, NEW t \in Totals, Promise!Issue(i, t) PROVE Inv'
    <3>1. /\ i \notin open /\ Fixed' = open \cup {i} /\ Owed' = [owed EXCEPT ![i] = t]
          /\ Received' = received /\ Settled' = settled
      BY <2>7 DEF Promise!Issue, Owed, Received, Settled
    <3> QED
      BY <2>6, <3>1, BillingAssumption
  <2>8. ASSUME NEW i \in InvoiceReqs, Promise!Withdraw(i) PROVE Inv'
    <3>1. /\ received[i] = 0 /\ Fixed' = open \ {i} /\ Owed' = [owed EXCEPT ![i] = 0]
          /\ Received' = received /\ Settled' = settled
      BY <2>8 DEF Promise!Withdraw, Owed, Received, Settled
    <3> QED
      BY <2>6, <3>1
  <2>9. ASSUME NEW i \in InvoiceReqs, NEW a \in {x \in PaymentAmounts : x > 0},
               Promise!Receive(i, a)
        PROVE  Inv'
    <3>1. /\ Received' = [received EXCEPT ![i] = @ + a]
          /\ Fixed' = open /\ Owed' = owed /\ Settled' = settled
      BY <2>9 DEF Promise!Receive, Owed, Received, Settled
    <3> QED
      BY <2>6, <3>1, Positive
  <2>10. ASSUME NEW i \in InvoiceReqs, Promise!Settle(i) PROVE Inv'
    <3>1. /\ i \in open /\ received[i] > 0 /\ received[i] >= owed[i]
          /\ Settled' = settled \cup {i}
          /\ Fixed' = open /\ Owed' = owed /\ Received' = received
      BY <2>10 DEF Promise!Settle, Owed, Received, Settled
    <3> QED
      BY <2>6, <3>1
  <2>11. CASE UNCHANGED Promise!vars
    <3>1. Fixed' = open /\ Owed' = owed /\ Received' = received /\ Settled' = settled
      BY <2>11 DEF Promise!vars, Owed, Received, Settled
    <3> QED
      BY <2>6, <3>1
  <2> QED
    BY <2>7, <2>8, <2>9, <2>10, <2>11 DEF Promise!Next
<1> QED
  BY <1>1, <1>2, PTL DEF Promise!Spec

\* So it is of the code: the invoice of a commission is there, it received
\* money, and what it received covers what it asks for.
THEOREM CommissionsFunded == Spec => []Promise!SettledIsFunded
BY ImplementsSettlement, SettledFunded, PTL DEF KeepsPromise
=============================================================================
