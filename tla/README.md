# Verification of the real-estate backend

TLA+ models of the backend in `src/` (NestJS, Prisma, MySQL), the TLC
configurations that check them on small instances, and proofs checked by TLAPS.
Every definition that stands for code is listed with its lines in
`PROJECT.json` (`map`); `hazards` there lists what in this code is hard to test,
and the properties are aimed at those.

Paths below are relative to the repository's own `src/` directory.

## 1. The system and its hard parts

One Node process serves HTTP requests over two Prisma clients (the application's
database and the "Urbanex" market database, which may be the same). Requests share
no memory but a few maps; everything else they share is rows. **A handler is
interleaved with others at every `await`**, few handlers use a transaction, and
hardly any checks again what it read before an await. The hard behaviour is therefore
nearly always of one kind: state read before an await and used after it, by
handlers of which two can be in flight, any of which may die between two writes
(a restart, a timeout of the platform, an exception).

| Part | State | Operations that change it | Hard about it | What makes it correct |
| --- | --- | --- | --- | --- |
| Billing (`payments`, `expenses`, `invoices`, `commissions`) | rows of Invoice, Expense, Payment, Commission, MaintenanceTicket | `POST /payments`, `/expenses`, `/invoices`, `DELETE /invoices/:id` | up to five awaited statements without a transaction; find-then-create; read-then-write of a total | one commission per invoice, a paid invoice is kept, expenses are billed once and to the right client |
| One-time codes (`auth`: `sendOtp`, `verifyOtp`, `verifyLoginOtp`) | OtpCode rows, an in-memory rate limit per address | send, verify | limit, cooldown and attempts are checked and counted apart; a restart empties the limit | bounded sends and guesses, one use of a code |
| Refresh tokens (`auth`) | RefreshToken rows | logins, `refresh`, `logout` | rotation reads, signs, then writes; equal tokens within a second | one live token per login, sign-out is final |
| Accounts (`auth`, `users`) | User rows | sign-up, OAuth, administration | find-then-create by email | one account per email |
| Owner chat (`owner-chat`) | ChatSession.metaJson, ChatMessage | a message (two writes of the whole column, and a third for the task), context update, deletion | each turn works on the snapshot it read first; a state machine of questions | answers belong to the property asked about, nothing is forgotten, no price without the questions |
| Buyer chat (`buyer-chat`, `buyer-saved-search`, `buyer-history`, `vocabulary`) | metaJson, recommendation log, saved searches, learned terms | message, refinement, save, learn, reject | the same snapshot written back; swallowed errors; find-then-create | refinement of what was searched last, history of what was shown |
| Market data (`market-data`, `admin-market`, `market-intelligence`) | market_data, areas_price, market_snapshot_daily | two CSV imports, mark outliers, rebuild areas, rebuild snapshots | lookup-then-insert; a rebuild reads first and writes in many transactions | a row is in once and counted once; a rebuild gives the prices of its window |
| Advisor (`advisor`, `market-intelligence`, `pricing`) | an unbounded cache of prices, request log, outcomes | price, evaluate, simulate, track outcome | the cache outlives the rebuild of what it caches | a quoted price is one of the current areas |
| External market data (`admin-external-market`) | sources, observations, indices | create, import, recompute | insert, then read back the newest row | the answer is the row inserted |
| Listings and operations (`property`, `ops`) | Property, images, operations log, watches | create, update, delete, regenerate images | listing and log are separate statements | only the owner changes a listing, each change is logged |
| Desk (`tickets`, `ticket-logs`, `appointments`, `notifications`) | their rows, the open event streams | create, assign, set status, delete; notify | deletion against logging; stored, pushed and mailed in steps | a line in the log for each change that stands; whoever listens hears |
| Chat orchestrator and intents (`chat`) | none of its own: the caller's state goes in and out | classify a message, answer or ask, call an engine | every reply rebuilds the state it was given; the order of the guards decides | what the owner told survives every kind of answer |
| Language models (`ai`) | none | ask the providers in turn | timeouts, altered values | an answer has the values it was given, or is a fixed text |

Interactions: an expense opens or grows an invoice, a payment settles it and makes
its commission, the deletion of a ticket cuts its expenses off. `verifyOtp` and
`verifyLoginOtp` consume a code and open a session of refresh tokens. A rebuild
turns market_data into areas_price, which the advisor reads (and caches), and
owner and buyer chat quote the advisor. Owner chat takes its replies from the
providers of `ai`; appointments and listings call notifications, which call mail.

The components that are not modelled, with the reason for each, are in
`PROJECT.json` (`components`, status `not_modelled`).

## 2. Plan

Order: what costs money or access first, then what the users see.

| Module | Stands for | State |
| --- | --- | --- |
| `Settlement` | abstract: what billing promises about one invoice | implemented by `Billing`, which is proved |
| `Billing` | payments, expenses, invoices, commissions; implements `Settlement` | proved, model-checked |
| `EmailOtp` | one-time codes | proved, model-checked |
| `Sessions` | refresh tokens | proved, model-checked |
| `Accounts` | sign-up, sign-in, registration, OAuth, administration of users | proved, model-checked |
| `Auth` | `Sessions` beside `Accounts` (an instance of it) | composes the two |
| `Market` | imports, outliers, derived prices | proved, model-checked |
| `External` | sources, observations and the baseline of other publishers | proved, model-checked |
| `MarketData` | `Market` beside `External` (an instance of it) | composes the two |
| `Valuation` | the arithmetic that `Appraisal` and `Advisor` share (no state) | medians, trends, speed of sale, rounding and plans proved |
| `Appraisal` | the search for comparables, statistics, the analysis of a listing | proved, model-checked |
| `Advisor` | quotes and their cache, advice, the request log and outcomes | proved, model-checked |
| `Advice` | `Advisor` beside `Appraisal` (an instance of it) | composes the two |
| `OwnerChat` | one owner session and its property evaluation, turns overlapping | proved, model-checked |
| `OwnerRoutes` | which handler answers an owner, and what it leaves of the session | proved, model-checked |
| `OwnerTalk` | `OwnerChat` beside `OwnerRoutes` (an instance of it) | composes the two |
| `BuyerIntent` | what a buyer's message is taken for (no state) | the queries it makes proved, the classes checked through `BuyerChat` |
| `BuyerChat` | a buyer's turns, search, ranking, log and memory | proved, model-checked |
| `Office` | listings, pictures, appointments, tickets, notifications | proved, model-checked |
| `Keeping` | saved searches, watches, learned words | proved, model-checked |
| `Desk` | `Office` beside `Keeping` (an instance of it) | composes the two |

The theorems about a module `M` are in `MProofs`; those about `Accounts` are in
`AuthProofs`, those about `Keeping` in `OfficeProofs`, those about `External` in
`MarketProofs`, those about `Valuation` and `Appraisal` in `AdvisorProofs`, those about
`OwnerRoutes` in `OwnerChatProofs`, those about `BuyerIntent` in `BuyerChatProofs`.

Still open: an abstract `Conversation` in which a turn is one step on the session's
record, implemented by `OwnerChat` and `BuyerChat` while turns do not overlap. It would
for the most part say again what `FollowsTheTalk` and `CompletedByPricing` say.

## 3. What is modelled

Conventions. A request is an element of a constant set and serves at most once; its
local variables are a record (`pay`, `exp`, `send`, `verify`, `req`, `job`,
`request`, `turn`) whose `pc` says before which statement it is. An action is what a
handler does from one `await` on the database (or a provider) to the next; inside it
nothing interleaves, because Node runs it without interruption. Variables marked
"history" in the modules change nothing; they remember overlaps that the properties
speak of. `Bad...` operators are faulty variants of the definition that follows them:
each shows that a property can fail.

### Billing, Settlement
Payment: insert the row, read the invoice again with all its payments, write the
status, look for a commission, insert one. Expense: insert, find any
SERVICE invoice of the ticket's property and client (or open one), write the total
computed from what was read, link. Removal of an invoice fails on a foreign key when
payments refer to it. `Crash...` stops a handler between any two statements.
Amounts are small integers, the commission's own amount is left out (a percentage
of the total, no branch depends on it). An expense may be negative, which no validation
refuses: it charges nothing (`Charge`), and its deduction can be lost to a stale total.
`Settlement` is the promise in one step per operation: receive, settle once covered,
never withdraw what received money.

### EmailOtp
The rate limit per address (a list of time stamps in memory, emptied by `Restart`),
the cooldown, creation, mail (may fail); verification with the count of wrong
guesses, and consumption by id. One email; the codes of one email differ (six random
digits); the newest row is the last inserted. A `login` verification is of a user
known before, an `email` one looks the user up.

### Sessions, Accounts
`Sessions`: logins and refreshes of one user. A token is the second it was signed in
(the JWT of one user has only `iat` and `exp` that vary), so two tokens of a second are
equal: the model keeps that. `refresh` finds a live row of the token's value, signs, and
replaces the row in a transaction that does not look again.

`Accounts`: the row of one address and every way to make or change it. Each route looks,
hashes, and writes in separate steps; a hash remembers whether the pepper was used, so a
password set by an administrator (hashed without it, or stored as given) is told from the
owner's. The environment the process starts with (`Settings`: whether codes and
verification are required, whether there is a pepper) is chosen in `Init` and stays.
Refresh tokens are rows that restrict the removal of the user.

### OwnerChat, OwnerRoutes
`OwnerChat`: one session, turns that overlap. `PersistBefore` and `PersistAfter` are the
two writes of a turn, `TaskRead`/`TaskWrite` the separate record of its outcome,
`SyncStart`/`SyncWrite` the context update. A fact is represented by the property it is a
fact of, so that "the district of another property" can be told apart and texts need not
be. `Opened`, `Filled`, `Unanswered`, `NextQuestion` are the evaluation's state machine.
Which handler the wording of a message selects is left open wherever state does not
decide it. The owner may send any message at any time. `last` and `abrupt` are history:
whom she wrote about last, and whether she ever turned to another property while the
evaluation in the row was open or a message unanswered (`Interrupts`).

`OwnerRoutes`: the other half of the same handler. Here turns follow one another, and a
message is what the patterns of the code see in it: the one kind they look for, the facts
it tells, and traits (names a deal, offers, hunts, is short, ...). `handleAiFallback` and
`orchestrateOwnerChat` are followed guard by guard, each reply an action of its own, and
`Persisted` is what the session's row keeps of the state the handler returned (or of the
turn's copy, when it returned none). Whether a message continues the last one, follows
up, or is in scope is left open: the code's patterns for it are matched against the
assistant's own previous wording.

Left out of both: title, archiving, the figures of location pins, learned words, price
actions and a chosen property, budgets.

### BuyerIntent, BuyerChat
`BuyerIntent` is the order in which `classifyBuyerIntent` and the routes of
`sendMessage` decide, over messages that are sets of the signals their patterns match,
and the query a route searches with. `BuyerChat` runs turns on it: read the session, store
the message, search (one statement), ask the trends, rank, reword (a model may fail or
alter a value, and an altered value is refused), store the answer, write the log, and
write the whole of `metaJson` back from what was read first. Prices and areas are numbers
and ranking is arithmetic in whole points, so that which listings are shown, in which
order, is computed as the code does. A sort is an arrangement of the indices by the order
of the code, ties in the order they came, as a stable sort leaves them.

### Market, External
`Market`: a row is the line it comes from and, for lines of `AdminMarketService`, the day in
its `ingest_hash` (the day of import when the line has no date). A derived price is the *set
of rows* it is computed from: whatever mean or median the code takes of them, it takes of
those. The two hash functions differ, so that a bulk row and an admin row are never the same
row; bulk rows have no `price_per_m2_syp` and so are in no snapshot. A query of a snapshot
rebuild that fails is caught and answered as a finished rebuild of nothing
(`SnapshotQueryFails`), a group that cannot be computed is passed over (`SnapshotSkipped`);
the old snapshots stay. A file is a set of distinct valid lines: which lines are valid and
the counts of invalid and repeated ones are left out, as is the exchange rate.
`InsertedOnce` says that the rows can be attributed to the imports so that each has the
number it reported: the counts add up to the table, whoever found what first.

`External`: observations are their hashes; a source is inserted and then looked for as
the newest row; an import prepares its lines, looks for each hash and inserts; the
rebuild reads the window, weighs each row by reliability and age, and upserts place after
place. Mean and median are computed as the code does, in integers.

### Valuation, Appraisal, Advisor
`Valuation` has the pure operators: column statistics, percentiles, direction, sale speed,
verdicts, plans; a list is sorted by the rank of its values. `Appraisal` asks the database
once per level of the widening search and keeps the best result so far, while rows are
imported and marked between the levels; insights and simulation read one sample each; the
analysis of a listing and the application of its recommended price look the listing up and
estimate apart from each other; only the analysis also asks for a city and a price, without
which a listing is labelled MISSING_FIELDS. A listing's other fields do not change.
`Advisor` is the cache of quotes (unbounded, for the life of the process), the row of
areas_price and the exchange rate it reads when a key is not cached, the strategy and the
suggestions built on the same quote and on a sample of the market, the log line written
after an answer, and the outcomes tracked against it. Rebuilds, new rates and restarts
come between any two steps. What is real-valued in the code (confidence, risk, priority)
is a choice or left out.

### Office, Keeping
`Office`: one request is one call of a controller. An owner's route looks at the listing
first and writes by id later; the line of the operations log follows its statement;
regenerating pictures is one transaction, planned from the type read outside it; a
notification is stored, then pushed to whatever streams are listed; a ticket's log looks
for the ticket and inserts in two steps, of which any failure is swallowed (`Untraced`); the
body of an owner's update is untyped, so that it may connect the listing to another owner
(the `connect` of a `Form`), though no other nested write of Prisma's is modelled; the schema's
cascades, restrictions and SetNulls are in the statements.
`Keeping`: saves that look for a hash and insert apart; upserts, which Prisma on MySQL
performs as a look and a statement; counters incremented in place against a confidence
computed from the row that was read.

## 4. The runs

Four runs (`sessions`, `market`, `owner_chat`, `office`) compose two components: a
variable `part`, chosen in the initial state, says which of the two moves, so that the
state space is the sum of the two. This loses nothing, because the two share no variable.
The modules `Auth`, `MarketData`, `OwnerTalk` and `Desk` put two components side by side for
such a run and for the proofs; so does `Advice`, under which `Advisor` stands still in the
run `appraisal` and has one of its own.

| Run | Instance | Shows |
| --- | --- | --- |
| `billing` | 2 payments (0 or 1), 2 expenses, 1 invoice of 2, 2 tickets of 2 accounts | the safety properties, the implementation of `Settlement`, and that a covered invoice gets its commission |
| `billing_duplicate_commission` | 2 payments | **violation**: two overlapping payments make two commissions, which the comment of `payments.service.ts` excludes |
| `billing_lost_expense` | 3 expenses | **violation**: two stale totals, one expense is not billed |
| `otp` | 3 sends, 2 verifications, 1 address, limit 2, 1 guess, 1 restart, times 0..2 | limits hold, exactly up to overlapping requests |
| `sessions` | 4 token requests, 3 seconds; 3 requests on an account, 2 passwords, 2 environments | one live row per login, sign-out final, up to contested refreshes; who is let in gave a password the account had meanwhile; a verified account is not registered over |
| `market` | 3 requests, 4 lines in 2 areas and 2 days, a window of one; 3 requests on external data, 4 files or rows, 2 sources, 2 months | no row lost or counted twice, a rebuild that overlaps with nothing is complete, unless it lost its query or skipped a group; the baseline is the weighted middle of what was observed |
| `appraisal` | 1 request, 6 rows in 2 districts, 1 listing | the widening search stops at the right level and loses nothing; one sample tells one story; an owner who follows the advice gets the price that was shown, on the side that was advised |
| `advisor` | 2 requests of every kind, 1 area, 2 sizes, 3 values of its row, 2 rates | quotes fit their key, one price per key unless two computed it at once, seller and buyer are told the same, the history is fresh |
| `owner_chat` | 3 requests, two in flight at a time, 2 properties in any order; 30 messages of every kind, turn after turn | an estimate rests on the property asked about; no handler forgets what was told |
| `owner_chat_fresh` | 2 messages, 2 properties | **violation**: the estimate of a new property, announced after the first was evaluated to the end, uses the district or the area of the previous one, which a test of the repository excludes |
| `buyer_chat` | 3 overlapping messages of 7, 5 listings, 1 change of price | the listings fit what was asked for over the conversation; nothing is remembered that was not told |
| `office` | 3 requests of 17 kinds, 2 users, 2 streams, 2 ids per table; 3 requests on what is kept | the tables stay in step without a transaction; an owner's route touches what is hers, or what changed hands after the look; what was said to be kept is |

Why the bounds are enough. The failures of this code need two handlers that overlap on one
row and at times a third that comes after; with two or three requests each pair of
statements meets in each order. Two properties, areas, days or addresses are the fewest that
can be confused, as are two tickets of two accounts in `billing`. Limits (guesses, sends,
chunk, batch, listings shown) are 1 or 2, so that they are reached, exceeded and met
exactly. In `otp` the window, the cooldown and the life of a code are one step of a clock of
three, so that each can be just over. (What a restart forgives is not exceeded there: three
sends, two per life; the theorem has no such limit.) In `market` a day is two steps, the
window one day and the clock goes to the middle of the second, so that a rebuild then leaves
out what came before the middle of the first. `appraisal` has one request because the
requests of that module share nothing but the rows, and rows change freely between its
reads; its six rows are enough for each of the four levels to be the first that suffices, or
the best that does not, and each row lacks something another has (a price in dollars, one in
pounds, the bedrooms); there are samples of three that rise or fall throughout. `owner_chat`
has two requests at a time between reading the row and their last write, and a third that
comes after; its second property comes when the first is priced, before that, or with an
answer outstanding. `buyer_chat` has one more candidate than are shown, prices around a
budget and its tenth, and a session without a search yet. Symmetry is used over requests
(users' streams, passwords) only in runs without liveness.

Deadlock is not checked where each request serves once, since those runs end in states
where nothing is left to do.

Types are no invariant of any run: TLAPS proves them, as theorems of their own or as part of
an inductive invariant (`AppraisalTypes`, `TurnShape`, `RouteInv`). `PaidInvoiceKept`, that
what `Billing` settles is funded and the commissions it books are of funded invoices are
likewise proved and not run.

Fairness. Only `Billing` assumes any: weak fairness of each request's own step
(`PayStep`, `ExpStep`). A request that is being served is continued when its database
call returns; the event loop starves no continuation. A crash is an action of its
own, without fairness, and `CoveredInvoiceIsCommissioned` excuses the invoice whose
request crashed. Arrival of requests, the clock and the users' messages have no
fairness, and the other modules state no liveness.

### What the properties say about the code

Several hold only "unless requests overlapped", and say so with a history variable:
the code has no lock, so that the overlap breaks the plain statement, and the
conditional one shows that nothing else does. `DuplicateNeedsOverlap`, `OneQuotePerKey`,
`DoubleUseNeedsOverlap`, `AttemptsBounded`, `CooldownKept`, `OneLiveRowPerLogin`,
`SignedOutStaysOut`, `AnswersOfThisProperty`, `FollowsTheTalk`, `BaselineTells` and the
`Lone...` properties of `Market` are of this kind. `AnswersOfThisProperty` and
`BuildingAskedFirst` excuse besides an owner who turns to another property before the first
evaluation is over: the code keeps its answers for the next. `NothingForgotten` excuses
the answers, and no more, when a message marked as a new offer follows a complete evaluation.
`LoneSnapshotIsComplete` is about a rebuild that reports groups and skipped none: one
that reports none may have lost its query. `Accounted` allows for the line of a ticket that
was swallowed. Two limits of the rebuilds are outside of the properties on purpose, because no text promises otherwise: an area without rows in
the window keeps its old price, and the snapshot of the window's first day is recomputed
from a part of it.

### Observed while modelling

What the code does and the models keep, without a property or a finding of its own; a
reader of the models will meet it.

* Billing: an expense may grow a SERVICE invoice that is already PAID.
* Accounts: `UsersService.create` hashes without the pepper and `update` stores the password
  as given, so that who was entered by an administrator may not get in with her own password
  (`users.service.ts:38`); a registration that looked before the account was verified writes
  its name and password over it afterwards (`auth.service.ts:752`); a sign-up for an
  existing address answers without comparing the password; a user with refresh tokens cannot
  be removed (`Restrict`).
* Owner evaluation: a pricing that finds no data keeps the answers and the open stage, so
  that the next offer is priced with the ownership, the legal status and the building of the
  first (`owner-chat.service.ts:2383`); an evaluation by city only passes the district
  "undefined"; a ranking of areas replaces the remembered property; a partial update of a
  listing without a type makes the picture plan of a HOUSE, and a LAND gets bedrooms.
* Owner routes: a bare figure ("150") that answers a pending question is taken for small
  talk unless area and price are known; an answer that names a type or an area in words
  is taken for a search of properties once a place or a type is known, and gives up the
  question; one of several missing fields goes to general talk and clears the question;
  the pending question survives the evaluation and the owner chat's own market replies,
  whose log line says it was cleared; once district, area and price are known every
  further message with words goes to the evaluation.
* Buyer chat: a word that merely contains a "no" counts as one, a "without a villa" asks
  for villas, and "sort by the cheapest" also cuts the budget; a refinement resets the order.
  `docs/DEMO_SCRIPT.md` (steps 5 and 6) sends the single word for "cheaper" and expects
  `BUYER_REFINE`; the classification that runs before the refinement patterns has no
  pattern for that word and answers that it is out of scope.
* Appointments: the status that would notify a client of an approval (CONFIRMED) is not
  in the schema's enum.
* `VocabularyService.reject` has no caller.

## 5. What is proved

Proofs are for all values of the constants that satisfy the assumptions named in the modules
(`BillingAssumption`, `OtpAssumption`, `SessionsAssumption`, `MarketAssumption`,
`ExternalAssumption`, `ChatAssumption`, `OfficeAssumption`, `AdvisorAssumption`,
`AppraisalAssumption`, `BuyerAssumption`): types, disjointness and finiteness of the
constants, nothing about the behaviour. `AppraisalAssumption` says that a row that is
compared has a size, which the queries ask for; `BuyerAssumption` that a listing has the
columns of its table, with numbers for numbers, and that a message's numbers are not
negative, which the patterns that read them exclude. The other components that are instances
have theirs as hypotheses of the theorems: `Distinct` of `Accounts` (the account that was
there before is of no request, and no row is none), and that none is no row of the
vocabulary, for `Keeping`.

Each argument is an inductive invariant, which TLC has checked on the run first; what
follows names what it says beyond the types, and why the property alone is not inductive.

* `BillingProofs`: types; `DuplicateNeedsOverlap`; `LinkedToOwnAccount`;
  `RecordedPaymentCompletes`; `PaidInvoiceKept`. The invariant adds that a payment's row
  exists from the statement after its insertion on (and with it the invoice it refers
  to), that PAID is written only for an invoice with payments, that a request which is
  to insert a commission and did not see another's is among the other's `rivals`, and
  that the invoice an expense remembers, while it exists, is of its ticket's account.
  `NeverOverbilled` rests on `ChargeInv`: the total an expense is about to write, however
  stale, is covered by what has reached the invoice and its own charge.
  `ImplementsSettlement` shows `Settlement` step by step, under the mapping `Billing` gives:
  each step of a payment is an abstract one or a stutter. It needs `FundInv`, that whoever
  is about to write PAID or to book a commission of a fixed invoice has seen it funded, and
  with it proves that what is settled, and every commission, is funded.
  The sums in all this are those of the library: they are shown to count coins, `a[x]` for
  each `x`, by a smallest set on which the two would differ.
* `EmailOtpProofs`: types; `DoubleUseNeedsOverlap`; `AttemptsBounded`. The invariant says
  that who holds a row read it unconsumed, that two holders know of each other, and
  that a count beyond the limit has as many overlapping guessers as it is beyond.
  `SendsPerWindow` needs it for every window up to now, and that the sends of the current
  one which the memory has lost are those of earlier lives of the process; `CooldownKept`,
  that uncrowded sends insert in the order they came, each having seen that it may.
* `AuthProofs`, of `Sessions`: types; `OneLiveRowPerLogin`; `SignedOutStaysOut`. The
  invariant follows the line of rows of one login: a held row is live or its login is
  contested, and at most one request is about to extend an uncontested line. Of `Accounts`:
  types; `AnswersOfItsTime`; `VerifiedIsSettled`. A request has seen every state of the
  account since it came, what it holds among them, and the owner's password is peppered in
  every state anyone has seen.
* `MarketProofs`: types; `ImportIsComplete`. The invariant says that of the file of an
  import the rows that are not in the table are those it has still to insert. Also
  `LoneRebuildIsComplete` and `LoneSnapshotIsComplete`, from an invariant of its own
  (`LoneInv`): what a request that has run alone so far has read is still what the window
  of the table holds, and every area (every cell) no longer in its `left` has the price
  that follows from those rows. `InsertedOnce`: a step extends the attribution by the rows
  that were new to it. Of `External`: `BaselineTells`. A weight counts units (the sums of
  `BillingProofs`, for the instance's operators), so that the parts of a set share it and
  the median halves it; the mean is between by a smallest set of which the weighted sum
  would not be. That the baseline has what was imported follows from `Readers`: whoever
  reads after an import's insertions, or is not known to it, has all its rows of the window
  in the groups it still has to write; two that are being served know of each other.
* `OwnerChatProofs`: types; `AnswersOfThisProperty`; `BuildingAskedFirst`;
  `CompletedByPricing`; `NothingForgotten`. The invariant relates three things: what a turn
  knows at each of its points to the snapshot it read (`TurnInv`); the row to the snapshot,
  or to what the first write makes of it, for every request that nobody overtook
  (`HoldInv`); and the evaluation in the row, and those the turns under way carry, to the
  property of the owner's last message, as long as no update was lost and she did not turn
  away from an open one (`SubjectInv`).
  Of `OwnerRoutes`: `NothingLostByAnswering`, for any set of messages. `RouteInv` says that a
  turn's copy of the state has the row's evaluation and the facts of its message; then each
  reply is taken by itself: what its handler returns is merged into the row (`Saved`), a
  state rebuilt without an evaluation leaves the row's alone, and the facts an engine is
  given are among those the copy knows.
* `BuyerChatProofs`: `RememberedWasTold` and `FollowsTheTalk`, for any messages, listings
  and rankings. A turn that has answered is found among its session's answers with what it
  is about to log and remember; in a calm session the one turn there is has read what is
  remembered, which before its answer is the last search told and afterwards is what it
  will remember. That advice is about the last search goes through every route the
  dispatch of `BuyerIntent` can take.
  `FitsTheAsk` is from `AskInv`: the rows keep their columns, what a session remembers is a
  query, a turn's route refines what the turn read by its message (`SearchesHaveQueries`),
  and the table a turn holds between the search and the answer is of listings that suit the
  query. Around it: a sort has each row once and is in order (`InOrder`), its first few
  precede the rest (`TopOf`), and a listing of the same district that is nearer in price, no
  farther in area and newer scores no less (`BetterOnAllCounts`), so that it is not cut off
  for the other.
* `OfficeProofs`, of `Office`: types; `Pictured`; `Accounted`; `StreamsHear`;
  `OnlyOwnersTouch`. The invariant says what each request has found when it is at a
  statement: a listing whose owner was looked up is hers, gone, or has changed hands since
  (each listing counts how often); one whose line is to be written was there; a removed
  listing was removed by a request that has its line, is about to write it or was cut short;
  and a request on a ticket that ended well has its line while the ticket is there. Of
  `Keeping`: `KeptAsTold`, where a word's confidence, and every copy of it a request still
  holds, is within what the rejections and confirmations counted so far allow.
* `AdvisorProofs`: types; `AdviceAgrees`; `QuoteFitsKey`; `OneQuotePerKey`;
  `HistoryIsFresh`. The lemmas about `Valuation` come first: medians exist (the ranks of a
  list are a bijection) and lie between the extremes, rounding keeps the order of prices,
  and the three plans of a strategy are ordered. Every quote, cached or at hand, is one a
  row and a rate of this life of the process give for its key; as long as no two computed
  the price of a key at the same time, at most one computes it, none once it is cached, and
  who has a quote has the cached one (`Single`); and what a request has read of the two logs
  is a prefix of them, since they only grow. Of `Appraisal`: `NarrowestThatSuffices`,
  `PresentMeansFound`, `InsightsAgree`, `FollowedAsAdvised`. `AppraisalInv` says that a
  request whose rows have not moved since its search began holds the best of the levels it
  has been through, none of which sufficed (`Underway`, `BestOf`); that an answer is of one
  sample, on which the percentile, the trend and the speed of sale rest; and what a request
  was told of a listing (label, price shown) follows from the rows it remembers, which are
  those of its sample if the district has not changed: the middle of the same estimate is
  the price that is written and the one that was shown, below an overpriced listing's and
  above an underpriced one's.

Every safety property of a passing run is proved. Where induction was needed it is over
finite sets (sums, minima, maxima, medians, sorts), and a smallest counterexample takes its
place.

Only model-checked, and why:

* `CoveredInvoiceIsCommissioned` is liveness, beyond the prover.
* The class `BuyerIntent` gives a message is stated by no property of its own, so that only
  the queries and routes that follow from it are proved about.
* The three properties of the violation runs are false of the code: there is nothing to prove.

## 6. Not modelled

The database is atomic per statement (or transaction) and serial; isolation anomalies
inside a transaction are not explored. HTTP, guards and roles, validation of inputs
(the inputs enumerated are the valid ones), JWT cryptography, mail transport, texts and
formatting are left out. In `Market` prices in floating point are represented by the
data they are computed from; in `Valuation`, `External` and `BuyerChat` they are integers
in a unit small enough for the comparisons the code makes. Read-only parts (buyer history,
admin chat, the analytics, the lists) have no state to model; the wording of chats is
fixed texts; map services, mail and the providers are external and appear as calls that
may fail. The reason for each part left out is in `PROJECT.json` (`components`).
