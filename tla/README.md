# Verification of cash-register-closings-api

A NestJS / TypeORM / MySQL API with which the shops of a group of restaurants close
their cash registers, collect the cash, settle what third parties owe, pay suppliers and
staff, take orders, serve tables and print kitchen tickets. It keeps everything in MySQL;
several requests run at once on connections of a pool, and print agents (PCs in the
kitchens) poll over HTTP. Paths below are those of the repository (`src/modules/...`).

## 1. The system and its models

Each module models the requests of one component against the committed rows of MySQL.
A SQL statement, or a group of statements nobody can see or block in between, is one
step. A handler that reads a row and uses it later is two steps, and what it remembers
travels in the record of the request. `PROJECT.json` maps every definition to its lines; a
helper whose lines lie within those of the definition that uses it has no entry of its own.

| Part of the system | Module | State in the model | Hard because |
|---|---|---|---|
| A Retirar (`closings/cash-withdrawals.service.ts`), closings as far as they feed it | `CashPickup`, `CashAllocation` | closings, pending withdrawals, ledger of a closing, offsets, expenses, row locks, uncommitted writes | two people picking up, stale amounts, opposite lock orders |
| Settlements of what third parties owe (`closings/settlements.service.ts`) | `Settlement` | source rows, incomes, locks | marks that a save of the closing undoes |
| The register and the life of a closing (`closings/closings.service.ts`, `shops/shops.service.ts`) | `Register`, `Shifts` | closings by slot, the shop's web orders, announcements; shifts and the clock | drafts opened and sent twice, midnight |
| Ledger of closings (`movements/closing-movements-sync.service.ts`) | `LedgerSync` | closings, movements, accounts | saves delete and rewrite rows others wrote |
| Payments to suppliers, employees, services, partners (`payments/`, `movements/`) | `Payments`, abstractly `PaymentBooks` | payments, expenses, locks | conditional writes beside unconditional ones |
| Reimbursements | `Reimbursements` | rows, loaded entities | `save()` writes stale columns |
| Partner splits | `PartnerSplit` | balances, promises, advisory lock | balances read outside of the lock |
| Tips | `Tips` | day, shares, editions | the closing sends its total back |
| Attendance, payroll | `Attendance`, `Payroll` | rows of a day; period and lines | read, decide, save without a lock |
| Tables (`waiter/`, `dine-in/`) | `Tables`, `TablePromos`, `Takings` | sessions, orders sent, locks, connections; the bill; what screens tell | lock held while a second connection is needed |
| Customer orders and stock | `Orders`, `Ordering` | orders, stock, tasks started after a commit; hours, zones, methods | fire-and-forget side effects |
| Reservations | `Reservations` | petitions, seats, bookings | seats under concurrent requests |
| Print agent | `PrintQueue` | `print_jobs`, agents, acknowledgements in flight, paper | timeouts, crashes, late and repeated acknowledgements |
| Accounts, sources, methods | `Accounts` | balances, sources, links | no transaction anywhere |
| Concepts, money reports | `Concepts`, `MoneyReports` | concepts, what is filed under them | unification while others write |
| Sales reports, catalogue, summaries, commissions | `Sales`, `Summaries` | tickets, lines, labels, daily totals, rules | labels are copies; reports infer |
| Imports of spreadsheets | `LedgerImport`, `DayImports` | books, people, days | die anywhere, upload again |
| Users and permissions | `Members`, `Levels` | memberships, levels old and new | delete-and-recreate; migrated levels |
| Notifications | `Inbox` | rows, subscriptions, mutes | who is told, once, on which channel |
| Backup, reset, restore | `ShopBackup` | rows with their references | order of restore, dropped references |
| Start of the server | `Boot` | columns, marks, rows | a start that dies halfway |

*Conventions.* `save()` of TypeORM reads the row and writes every column in which the
loaded entity differs, stale ones included, and inserts a row that is gone; a model says
so wherever an entity is loaded before others may write. A crash (`Die`, `Dies`) forgets
what a request remembers and undoes its open transaction. Amounts, ids, days and names
are small naturals or model values. Each bound is a constant named `Max...` or a set in
a cfg or a `WITH`.

### How state and actions correspond to the code

**CashPickup.** `closing`, `pending`, `book`, `offset`, `expense` are the committed rows;
`cLock`, `pLock`, `bLock` the row locks of a closing, a pending withdrawal and the ledger
rows of a closing; `wClosing` ... `wOffset` the uncommitted writes of each request, which
`Commit` publishes together; `pc`, `req`, `view` where a request is and what it remembers.

| Action | Code |
|---|---|
| `CreateClosing` | `closings.create`; its rows are new, nobody waits for them before the commit |
| `LockClosing`, `LockBook`, `ReadPending`, `WriteOffer`, `Commit` | `applyUpdate`: `FOR UPDATE`, merge of the DTO, save, ledger, offer |
| `LockClosing`, `LockBook`, `ReadPending`, `CancelPending`, `Commit` | `remove` |
| `LoadClosing`, `LockBook`, `ReadPending`, `WriteOffer`, `CompareClosing`, `SaveClosing`, `Commit` | `resyncMovements`, which loads the closing without a lock |
| `LoadClosing`, `CompareClosing`, `SaveClosing`, `Commit` | `unlock`: loads without a lock, saves the status and every other column in which the row has changed since, and regenerates nothing |
| `StartPick`, `ListPending`, `Allocate` | `pick` up to its transaction: the rows and `computePendingView` |
| `LockPending`, `CheckPending`, then per row `ReadClosing`, `DiffClosing`, `UpdateClosing`, `MarkPicked`, and `Commit` | the transaction of `pick` |
| `RecordExpense`, `VoidExpense` | drawer expenses without a closing (`movements.create`, `remove`) |
| `DeadlockVictim`, `Die` | InnoDB rolls back a request in a cycle of waits; a connection or the process dies |

The opening amount, the change left in the drawer and the closing's own expenses are zero (they
shift both sides alike), so `lock` is an update that edits nothing; employees that take cash are
treated as users; the ledger has one record per closing. `CashAllocation` is the FIFO of
`computePendingView` as folds.

**Settlement.** `SettleRead`, `SettleLock`, `SettleWrite` are `settle`. The *savers* are
update, unlock, resync, pick and remove, each as far as it saves a closing or its source
rows or regenerates its ledger. `CascadeSave` is what `cascade: true` does: a loaded row
that differs from the database is written back as it was loaded.

**Payments.** `Load` is `load()` with the check of each handler; `Pay` the transaction whose first
statement claims the payment, and `Answer` the load after its commit, which may fail: `create` then
deletes the payment it has just paid, and its expense stays (`DropCreated`); `Unpay` and
`Unvalidate` the two steps back; `IsLive`, `Unlink`, `FindMovement`, `SaveMovement`,
`RecreateMovement` the repair when a paid payment is read or edited; `SaveExpense` and
`SyncLinkedPayment` one transaction of `movements.update`, whose lock on the expense is `lock`.
`debt` is a history column: it says to which original payment a row or an expense goes back.
`Together` are the operations that may overlap, `Alone` those asked for when nobody else works.

**Tables.** `doing` is the handler of each request: `Connect` takes a connection, `LockSession` the
row, and an order needs a second connection while the first is held (`Available`). `held` is the row
lock of a session. `FireMains` queues jobs, which are committed by themselves; `SaveFired` marks the
orders and commits; `BreakOff` is the transaction that is rolled back, or dies, after some or all of
its jobs were queued. The ghost `fires` counts how often the mains of an order came out, `torn` how
many of those were of firings that broke off. Guests' `discardSession` and
`closeEmptyOpenTableSessions` (`FindEmpty`, `SaveClosed`) take none.

**PrintQueue.** `ReleaseStaleClaims`, `ClaimJobs`, `FetchClaimed` are the three statements of
`listPendingJobs`; `AckRead`, `AckSave` are `ackJob`, which has no lock. A claim has no age
but a flag `stale`: `ClaimExpires` sets it once nobody works on the job any more and, at most
`MaxOverruns` times (counted in `overruns`), under an agent that is still at it.

**Orders.** `UpdateStatus`, `PatchOrder` and the credits are transactions under the lock of the order.
`RemoveStaff`, `SaveRemoved`, `SoftRemove` are the three statements of `removeStaff`, without one:
the second writes back what the first read. `drift` records what goes wrong with the stock: what
was lost, clamped or corrected, and (`stale`) that a removal wrote back another state or quantity.

**Reimbursements.** `LoadClaim` is the load and the check each handler begins with, `PayClaim`
the conditional UPDATE of `pay`, `SaveClaim` the `save()` of the others, stale columns
included. `handed` counts how often the money of a row was given: a ghost.

The other modules follow the same scheme: one action per statement of a handler, named
for the method or the statement, with the step and the entity it remembers in a record.

### How the modules are composed

A run that checks several components plays one of them at a time, in a *scene*: the variable
`scene` is chosen at the start and stays; the actions of its component move, the variables of
the others keep still.

- `MCTill` extends `CashPickup` and `PrintQueue`, and instances `CashPickup` again for the drawer;
- `MCService` extends `Tables` and `PrintQueue`, and instances `Tables` twice again, each time for
  one session (its bill, its mains);
- `MCOffice` extends `Settlement`, `Tips`, `Accounts` (instanced again for its sources) and
  `CashAllocation` (whose histories it enumerates) and instances `PartnerSplit`, `Shifts` and
  `ShopBackup`;
- `MCCounter` extends `Orders`, `Reservations` and `Reimbursements` and instances `Attendance`,
  `Payroll`, `TablePromos`, `MoneyReports` and `Summaries`;
- `MCBackOffice` extends `Register` and `Members` and instances the rest, `LedgerSync` and (for the
  rows of a closing) `Settlement` among them.

`Payments` is checked as it is and holds the instance of `PaymentBooks` it implements, and
`Settlement`, `ShopBackup` and `Boot` are checked as they are in their violation. `CashPickup` calls
`CashAllocation`, `MoneyReports` and `Summaries` read what `Concepts`, `Orders` and `Sales` hold,
`Members` and `Inbox` use `Levels`. A component is *extended* where a theorem speaks of it.
Components that are extended together declare constants of different names for what is the same to a
reader (`Unset`, `None` and `Nil`; `Parallel` and `Serial`, `AtOnce` and `OneByOne`, `Overlapped`
and `OneAtATime`, `Together` and `Alone` for the operations that may overlap and those asked for by
themselves), because the prover takes a constant that is declared twice for two.

## 2. Runs

| Run | Instance | Shows |
|---|---|---|
| `CashPickup_all` | 2 requests of any kind (update, remove, resync, unlock, pick), 2 closings, 3 row ids | types; cash on offer once; no double pickup; pickups are final; with fairness every request ends |
| `Till_scenes` | *edits*: 2 requests, 2 closings, 3 row ids; resync and unlock overlap with nothing. *drawer*: one request at a time, 2 expenses, one may be voided. *paper*: 2 agents, 2 jobs, 1 claim that expires in living hands, 1 repeated ack | `OfferAndBookFollow`: offer, ledger and closing agree in every committed state; `PickupDebitsWhatItTakes`; `MCExpenseChargedOnce`: an expense is charged for no more than its amount; `QueueMatchesPaper`: what the queue believes printed was, and an order has one canonical job |
| `Payments_books` | 2 requests, a debt of 2 paid whole or in parts, 2 payments, 2 expenses | no expense of a debt without its paid payment (or the one that a creation deleted after paying it), no paid payment whose expense somebody removed; `Payments` implements `PaymentBooks` |
| `Service_prompt` | *openings*: 2 requests, 2 sessions of one table. *bill*: one session with its orders, lines, promo, ticket, payment. *mains*: one session with its orders, firings (one may break off), payment. *kitchen*: 2 agents in time, 1 crash, 2 sectors, 2 attempts | one open session per table; what was sent is paid at its price; mains come out once, and once more per firing that broke off; a ticket is in one pair of hands and comes out once per sector (`TicketsOnce`); nobody waits for ever; every job is printed or given up, finally |
| `Office_desks` | *batches*: settlements by 2 people against pickups and removals, and against editions, unlocks and resynchronisations that overlap with nothing. *split*, *promises*: 2 divisions. *accounts*, *sources*: one request, which may die. *tips* edited by 2 people and the closing. *shifts*: all pairs of shifts and instants of a short week. *allocation*: all histories of 3 withdrawals and 2 expenses. *backup*: dumps and restores by module | nothing settled twice; money divided once; nothing left on a removed account, one account per method; shares make the total; every instant has one shift; FIFO; a restore is complete and a reset refuses only what it would leave behind |
| `Counter_desks` | *orders*: 2 with one key. *stock*: one order, lost movements, corrections and removals. *reservations*: an evening of seats. *reimbursements*: 2 requests, 2 rows. *attendance*: punches of the clock. *payroll*: by 2 people. *promos* of a bill. *concepts* unified twice, *sales* reported | stock is accounted for, until a removal undoes a change it did not see; an order per key, paid states kept; seats within the offer; a reimbursement is paid once; the bill takes each item once; payrolls and reports tell what is recorded; entries and totals stand |
| `Back_office` | *register*: 2 slots, 2 requests. *resync*: 2 closings, previews, recoveries. *rows*: settlements by 2 people against 2 savers with every operation. *ordering*, *boot*, *levels*, *members*, *ledger*, *days*, *sales*, *catalog*, *salon*, *street*, *inbox*: one request, which may die | a closing is announced once; a preview tells what the resynchronisation does; an income is worth what it marks whatever saves the rows meanwhile (`StepsTell`); what is announced is accepted; the next start heals a dead one; levels mean the same after they are saved; the screens of a shift tell the same takings; those entitled are told once; uploading again converges |
| `CashPickup_lost_sources` | 1 pick | **violation**: pick drops the incomes of own-account sources |
| `Settlement_double_income` | settle twice, unlock | **violation**: unlock writes the row back unsettled |
| `Ledger_resync_twice` | `MCBackOffice` with the scene *resync* alone | **violation**: each takes one more loose movement for an entry |
| `Backup_loses_rows` | dump and restore | **violation**: rows of removed accounts are lost, removed tip shares come back |
| `Boot_wages_twice` | a start that dies in the conversion of salaries | **violation**: salaries divided twice |

*Bounds.* The races of these protocols are between two requests over one or two rows: two requests
give all pairs of operations (two settlers and two savers in *batches* and *rows*), two closings
both lock orders of a batch and FIFO across closings. Three row ids let a closing lose an offer and
get a new one while another has its own (the drawer uses two, by the constraint `OneByOne`). Two
attempts, two agents and two jobs give a retry by another agent with a job waiting behind it; one
overrun and one repeated acknowledgement (*paper*) or one crash (*kitchen*) are enough to put a
ticket in two pairs of hands. A debt of 2 is paid whole or in two parts. In `Office_desks` the fold
of expenses runs over 2 expenses and 3 withdrawals, enough for an expense split over two and two
expenses on one. Most scenes of `Back_office` have one request because their subject is the crash
between two statements; what two requests do there is in section 6. `MaxTorn` lets one firing of an
order break off, so that the mains come out twice and no more; `MaxRemovers` lets one removal of an
order be under way beside two creations and the changes of status, credits and movements. Late and
repeated acknowledgements are in *paper* only: *kitchen* has none, and `TicketsOnce` and
`OutcomeIsFinal` say `Calm`, because with them both are false (section 6). Bounds also cut:
`MaxPayments`, `MaxSessions`, `MaxJobs`, `MaxSteps` end a behaviour, never change what a step does.

*Fairness.* `CashPickup`: a request that has begun is executed (weak fairness on its next
statement) and InnoDB resolves deadlocks. `Tables`: strong fairness of each request, since
a lock or a connection may be taken and freed by others again and again, and InnoDB serves
waiters in turn. `PrintQueue`: the server answers, agents that run keep polling and finish
their batch, time passes. Nothing obliges anybody to start a request. `Service_prompt` has
3 connections for 2 senders: with as many senders as connections, `RequestsEnd` fails
(section 6), for the pool of mysql2 has no acquire timeout.

*CHECK_DEADLOCK FALSE* where requests are one-shot or bounded: an instance whose requests
have all ended stops.

## 3. Proofs

Proved with TLAPS, for any value of the constants that meets the named assumptions of the
modules. The third column is what the theorem supposes besides: which operations do not
overlap, or do not happen. Each is a place where the code takes no lock (below), and what it
leaves out is a counterexample that TLC found, in section 6 or, for `CascadesAlone`, a run.

| Theorem | States | Supposes |
|---|---|---|
| `CashPickupProofs!TypeCorrect` | `[]TypeOK` | |
| `CashPickupProofs!OfferedOnce` | `[]CashOfferedOnce` | |
| `CashPickupProofs!PickedOnce` | `[]PickupNotRepeated` | |
| `CashPickupProofs!PickupsStand` | `PickedIsFinal`, an action property | |
| `CashPickupProofs!OfferIsRight` | `[]OfferFollowsClosing` | `SavesAlone` |
| `CashPickupProofs!OfferAndBookAreRight` | `[]OfferAndBookFollow` | `SavesAlone`, `TakesAll` |
| `CashPickupProofs!PickupDebits` | `PickupDebitsWhatItTakes`, an action property | `SavesAlone`, `TakesAll` |
| `PaymentsProofs!PaymentsStayInOrder`, `PaidIsSpent` | `[]PaymentsInv`, `[]PaidAndSpentMatch` | `Separate` |
| `PaymentsProofs!PaymentsKeepTheBooks` | `PaymentsKeepBooks`: `Payments` implements `PaymentBooks` | `Separate` |
| `TablesProofs!TablesStayInOrder`, `TableOpensOnce`, `MainsComeOutOnce` | `[]TablesInv`, `[]OneOpenSessionPerTable`, `[]MainsFiredOnce` | |
| `TablesProofs!TableIsPaid` | `[]BillIsPaid` | `EmptyAlone` |
| `PrintQueueProofs!QueueStaysTrue`, `PaperMatchesQueue` | `[]QueueInv`, `[]QueueMatchesPaper` | |
| `PrintQueueProofs!TicketsComeOutOnce` | `[]TicketsOnce` (which says `Calm =>`) | |
| `PrintQueueProofs!OutcomesStand` | `OutcomeIsFinal`, an action property (`Calm` too) | |
| `RegisterProofs!RegisterStaysInOrder`, `ClosingAnnouncedOnce` | `[]RegisterInv`, `[]AnnouncedOnce` | `DraftsApart` |
| `RegisterProofs!MembersStayInOrder` | `[]MembersInOrder` | |
| `OfficeProofs!SettlementsStayInOrder`, `SettledOnlyOnce` | `[]SettlementInv`, `[]SettledOnce` | `CascadesAlone` |
| `OfficeProofs!IncomesStaySound`, `SettledForWhatItIsWorth` | `[]IncomeInv`, `IncomeIsWhatWasMarked`, an action property | |
| `OfficeProofs!TipsMakeTheTotal` | `[]SharesMakeTotal` | `DeliverAlone` |
| `OfficeProofs!AccountsStayInOrder` | `[]AccountsInOrder` | `KeptApart` |
| `CounterProofs!OrdersStayInOrder`, `OrdersAreOnceAndPaid` | `[]OrdersInv`, `[]OrdersOnceAndPaid` | |
| `CounterProofs!StockIsAccounted` | `[]StockAccounted` | `AdjustAlone` |
| `CounterProofs!SeatsAreWithinOffer` | `[]SeatsWithinOffer` | `DayAlone` |
| `CounterProofs!PaidOnlyOnce` | `[]PaidOnce` | `EditionAlone` |

All proofs go by an inductive invariant. The property never is one: a protocol breaks it only
after somebody has read what is no longer so, and so each invariant says, of every step a
request can be at, what it *knows*, and each proof shows that the steps of the others leave
that alone. `Sums` has what the proofs need of sums over finite sets (`SumFunctionOnSet`):
that they are numbers, what adding, removing or changing one element does to them, and that
functions that agree have the same sum. The community module defines them by a fold whose
induction the provers cannot instantiate; `Sums` proves each of its lemmas by the least
counterexample, with the well-foundedness of the naturals.

**CashPickup** (`CashPickupAssumption`: naturals for closings and ids, a positive count, no
person or request called `NoOne`; `NoRowAssumption`). Types: `LocalInv`, each request's
locals have their type and fit its step, one lemma per action. Safety speaks of committed
rows, but two transactions that would break it do so long before they commit, so it is not
inductive. `IInv` adds what each request `Knows`: the ledger of a closing is locked before
its offer is read and until the end (`BookOf`), what was read of the offer is still so
(`OfferOf`), the rows of a pick are locked one by one, then checked, and stay PENDING
(`LocksOf`), and every uncommitted row is locked, keeps its closing and is active only if it
was, or else is the only insertion of its transaction, in a closing without active rows
(`WriteOf`); plus `RowsHaveClosing`, without which a new closing could meet an old row. The
proof is by rely and guarantee: `KnowsKept` says what p knows survives a step of another
request that leaves p its locks (`Leaves`) and does no more to the tables than `Harmless`;
every step is shown to do so, and to keep its own request's knowledge. It shows which lock
matters: without that of the ledger rows (`bLock`), two regenerations both find no offer
and both create one. `PickupsStand` adds `Cancels`: an uncommitted write over a PICKED
row is a cancellation by the removal of its closing, which holds the closing's lock and
removes it in the same commit (`NextCancels`, `RequestUnchanged`).

`OfferIsRight` needs `SavesAlone`: `resyncMovements` and `unlock` load the closing without a lock
and save it, so an edit in between is undone on the closing and not on its offer; they overlap
with nothing, and then what they save is what they found. `OfferInv` adds what
each request `Follows`: whoever writes an offer has the closing locked and as it will be
(`Frozen` is what others leave alone of a locked closing), a removal cancels all of it, and a
pickup that marks a row writes who took it on the closing. `LedgerInv` adds the same of the
ledger (`LedgerOf`) and of a pickup (`TakingOf`): what it debits is what it marks. It needs
`TakesAll`: nobody states how much of the counted cash is withdrawn; with a stated
withdrawal the code parts from both properties (section 6).

**Tables** (`TablesAssumption`). `OneOpenSessionPerTable` rests on the unique index alone only if
nothing reopens a session behind it: `TablesInv` says whoever works on a session holds its lock and
it is open (`LockIsHeld`), and those that take no lock leave locked sessions alone or find them as
they remember; `OneOpen` is the index as an invariant of all writers, the stale `saveClosed`
included. For `MainsFiredOnce`, `FiredOnce`: an order whose mains came out is marked, or whoever
fired them still holds the session and is about to mark it, or they came out in a firing that broke
off; so nobody else finds them pending. `BillInv`, for `BillIsPaid`, adds what a request `Recalls`
(what it has added up is what the session owes, as long as it holds the lock) and `TicketRight` (a
ticket is the bill of the orders at their price, less what was taken off, and what is paid is what
is due); prices times quantities are sums. `EmptyAlone`: orders are not sent while guests discard a
session or empty tables are closed, which look for orders without a lock.

**Payments** (`PaymentsAssumption`, and `Separate`: what may overlap is among validate, pay,
spend, editExpense, removeExpense and absorb). The run checks the subset validate, pay,
removeExpense; TLC was asked, pair by pair, which operations may overlap at all:
each one left out of `Separate` breaks `PaidAndSpentMatch` against one that is in it or is,
like update, at odds with absorb (section 6). `PaymentsInv` adds to the property:
`RunsAlone` (what is asked for alone runs alone), `LinksMatch` (an expense has one payment, of its own
debt; one written by hand has none) and `Remembers` (what a request read still holds when it
writes: a payment loaded by an operation that runs alone is as it was loaded; an expense that
is being edited is answered for by a paid payment, so that writing it back alive is right
even when a closing absorbed it meanwhile; an expense being removed has no debt). A creation that
fails after it has paid deletes the payment: the model keeps what the row said, and that row goes on
answering for the expense (`Payers`), the one live expense that the property excepts. The
proof splits as that of CashPickup does: `Moves` carries the memory of the others over a
step that is `Gentle` (rows keep their debt, expenses that are answered for stay so), `OneRow`,
`PaidWith`, `Amends` and `Withdraws` say what each kind of write leaves of `TablesAgree`,
and one lemma per action applies them. The proof found two `CASE` expressions of `Payments`
whose guards overlapped (`Load`, `FindMovement`); TLC takes the first, the logic does not.
For the refinement, `BooksInv` says in addition that what a request read is right for the step of the
books it will be (`ReadsRight`), and `Steady` what the others leave of it; then every action is
shown to be a step of `PaymentBooks` or a stutter. What is owed, paid and spent of a debt
are sums of its rows.

**PrintQueue.** `QueueInv`: rows, tickets in hand and acknowledgements on their way never say
that a sector is on paper that is not, and an order has one canonical job. It holds with slow agents and
repeated acknowledgements; `TicketsOnce` and `OutcomeIsFinal` do not, since an
acknowledgement does not carry the token of the claim (section 6), and they say `Calm`: no claim
has expired under a living agent, no acknowledgement was sent twice. `TimelyInv` then adds
`InTime`: hands and acknowledgements of different agents have no job in common (`HandsApart`,
`AcksApart`), nobody else has the token of a claim (`TokensApart`), and a sector came out at most
once more than there were crashes, and only where the queue does not know of it (`CutsCount`).

**Settlement.** `CascadesAlone`: editions, unlocks and resynchronisations overlap with nothing, for
they save the source rows they loaded (`Settlement_double_income`); pickups and removals overlap
with everything. `SettlementInv`: no source of a closing has two rows, and what a batch marked is
still there with its mark as long as its closing is (`Fits`), of the committed rows and of those a
cascading saver is going to leave: its copies are the rows as they are, and those it keeps are the
marked ones (`Cascades`). A pickup writes no row and a removal takes all of them away (`Removes`),
so no two batches have a source in common (`Apart`). `IncomeInv` is for every operation: there are
prices, one per row, such that each unsettled row, each copy of one that somebody loaded and
each write that is not committed is worth its price; marks name written incomes; rows that a
replacement keeps were settled when it read them; and what a settlement has added up is the sum
of the prices of its rows. A replacement with new rows has fresh ids, so it may choose their prices.

**Register** (`DraftsApart`: opening and changing drafts overlap with nothing). `RegisterInv`: no
announced closing is a draft, and whoever is about to write a draft or to announce is right in
what it remembers of it; a draft being changed has nobody else at work.

**Tips.** `TipsInv`: the shares add up, what an edition is going to write adds up, and a share
that is being delivered is as it was loaded. `DeliverAlone`: `setDelivered` saves the share it read.

**Accounts** (`AccountsAssumption`). `AccountsInv`: who runs by themselves is alone, and what they
remember still holds at every statement, so that a death between any two leaves order: the
row about to be written has a method that no other live account has, an account that is
being removed is as it was read until it is transferred and empty from then on, and the
names still to be written have no source. `KeptApart`: requests overlap only in resolving
the account of who takes cash and in pointing sources elsewhere; the overlaps it leaves out
are those of section 6, for nothing here runs in a transaction or takes a lock.

**Members** (`MembersAssumption`: `Unset` is neither a role nor a truth value). `MembersInv`: of
each kind of request, what it has done and still has to do. The memberships the user has, less
those to be deleted, with those to be written, are those that will be meant (`Creating`,
`Anewing`, `Editing`); what a super administrator remembers of a membership carries the flag last
chosen for it, until it is written; a removal has left nothing behind it (`Detaching`). A death at
any statement leaves memberships that were not meant, and `died` says so. Requests come one at a
time in the model, and so in the theorem: the code takes no lock on a user.

**Orders.** `OrdersInv`: orders and clients have their shape, a key belongs to one visible order,
stamps fit the status. `StockInv` adds a balance: the stock is the initial one, plus what
`drift` records, less what standing orders sold, plus what the movements on their way owe
(`Balanced`); a return is started once (`TasksAreTrue`), and a correction by hand finds nothing on
its way (`NothingMeanwhile`). `AdjustAlone`: the correction saves the stock it read. Once a removal
has written back another state or quantity (`drift.stale`) the property says nothing more:
nothing in the code makes the stock right again.

**Reservations.** `ReservationInv`: what is left of an area, with the seats booked and those that
a request took and has not booked yet, is within what was offered; equality would be false,
since a death in between loses seats. `DayAlone`: `upsertDayNotice` saves the seats it read.

**Reimbursements.** `ClaimInv`: money was given only for rows that can no longer be claimed, and
every stale row that somebody may write back cannot be claimed either, except that of an
edition, which is as in the table. `EditionAlone`: the edition of the owner overlaps with nothing.

*Only model-checked.* Liveness under fairness (`RequestsEnd`, `EveryJobSettles`), out of the
prover's reach, as are ENABLED and what a fold or a recursive function computes on every input (they
need induction over data with an operator parameter): the plans of `PartnerSplit`, the packs of
`TablePromos`, `CashAllocation` and with it `MCExpenseChargedOnce`, the algorithms of `Shifts`, the
reports and summaries. `MCExpenseChargedOnce` also holds one request at a time only (section 6). The
components whose properties compare two computations or heal after a crash (`RestoreAndReset`,
`OrderingAgrees`, `RightsAndInbox`, `TakingsTell`, `MCBootHeals`, `MCLedgerConverges`, `StepsTell`
but for its settlements, `StepsStand`, `TableBillRight`, `ReportsTell`, `DivisionSettles`,
`AlgorithmsRight`) are model-checked and not proved about.

## 4. What the violations say

Each is a run, quoted in `PROJECT.json` with the comment it contradicts:

1. `pick` loads the closing without `sourceAmounts` and regenerates its ledger, so the
   incomes credited to the account of a source go (`CashPickup_lost_sources`).
2. `unlock` saves a closing loaded before a settlement; the cascade writes the source row
   back unsettled and it is settled again (`Settlement_double_income`).
3. `absorbOrphanPlanMatches` runs at every save, so a closing whose entries are in the
   ledger takes one more loose movement each time (`Ledger_resync_twice`).
4. A complete dump is not restored identically (`Backup_loses_rows`).
5. `migrateDailyToHourly` is not atomic with its mark (`Boot_wages_twice`).

## 5. Assumptions and limits

- READ COMMITTED (`common/transaction.ts`); a row lock waits, a cycle of waits has a
  victim, a rollback leaves nothing. No foreign key from movements, pending withdrawals or
  source amounts to closings, so writing a child takes no lock on the closing.
- In `CashPickup` a closing has at least one ledger row (its count is positive): a DELETE
  that finds no row locks nothing at READ COMMITTED, so for a closing without a count but
  with an explicit withdrawal two regenerations would not wait for each other, and
  `OfferedOnce` says nothing of it.
- Notifications, live ticks and attachments have no effect on the tables of the other
  modules. `LedgerSync` abstracts the 5 % tolerance of the cash shortcut.
- *Not modelled*: text and layout (PDF, Excel styles, mail templates), parsers of documents
  and menus (`candidates`, `menu`), AI and external integrations, authentication tokens,
  CRUD without a protocol (suppliers, services, shortages, vacations, candidates,
  service rules, sales systems, supplier orders, salon layout, profile pictures), the
  legacy iPad client, deployment. They are listed with their reason in `PROJECT.json`.
- *Coverage*: the map names about 31 % of the implementation's lines. The rest is the parts
  just listed, DTOs, DDL strings, listings and exports of the parts that are modelled.


## 6. Observations

What the models showed besides the violations: places where the code does less than a reader
may expect. Most came out as a counterexample when an instance was widened; the operations of
such a pair are then in `Alone` (asked for when nothing else runs), so that the properties
hold of the rest.

**Closings and cash to collect**
- A closing with an explicit withdrawal that was spent in part: the pickup debits all of it.
  With an explicit withdrawal (`cashWithdrawn`), an edit of the counted cash that overlaps a
  pickup leaves the old income in the ledger: `BookMatchesClosing` fails.
- The amounts of a pickup are computed before its transaction and not again, so an expense
  registered meanwhile may be charged twice.
- `resyncMovements` and `unlock` load a closing without a lock and save it with every column that
  has changed since [`closings.service.ts:1442`, `:1502`]: an edit or a pickup in between is undone on
  the closing, and its offer and ledger stay as the edit or the pickup left them, for an unlock
  regenerates neither. With two requests and unlock among those that may overlap,
  `OfferAndBookFollow` fails. The total of the tips [`tips.service.ts:429`] and the recovery of
  channels at the start [`closings.service.ts:341`] save a closing in the same way; they are outside of
  `CashPickup`.
- A draft that somebody submits may be written back as a draft by who was changing it
  [`:1048`]; two drafts of different slots may be opened at once [`:921`, `:929`].

**Ledger of closings**
- A regeneration deletes all movements with the closing's id, also the income of a settlement
  of only that closing [`settlements.service.ts:373`, `closing-movements-sync.service.ts:76`].
- A second loose income of a day equal to an entry is absorbed at every save; the preview
  tolerates a counted cash that the resynchronisation rewrites; two overlapping recoveries
  both create.
- A source settled between `update`'s load of the rows and its save loses its mark, and so it does
  with `unlock` and `resyncMovements`; `SettledOnce` is checked and proved with these three alone.

**Payments** (two operations overlapping, found pair by pair). `PaidAndSpentMatch` fails for
create with pay, revert, reject, cancel, remove, read; pay with revert, cancel, remove, read;
revert with update, read, editExpense; update with read, absorb; read with nearly anything,
itself included. Of three: validate, pay and reject (REJECTED is written over a payment
validated and paid meanwhile). `ensurePaidMovement` may leave a movement no payment points to
[`payments.service.ts:565`, `:579`]. `pay` loads the payment once more after its commit [`:1814`],
and `create` deletes its payment on any error of `pay` [`:1281`]: a creation that is paid at once and
fails in that load leaves its expense, live, without a payment. `NoOrphanExpense` excepts it.

**Print agent.** An acknowledgement does not carry the claim's token: when a claim expires in
living hands, two agents hold a ticket, and a late answer reopens a job that had its outcome. So
does an acknowledgement that is sent twice: the server reads the job for the second before the
last attempt is over and saves it afterwards, and a job that "a 3 queda FAILED terminal"
(`print-job.entity.ts:36`) is PENDING again. The comment of `reprintKitchenForOrder`, "También reabre
FAILED del source canónico a PENDING" [`print-agent.service.ts:966`], is not what the code does
[`:988`]: for a FAILED or PRINTED canonical job it enqueues another under a fresh source, and the
old one stays FAILED, as `OutcomeIsFinal` says.

**Tables.** As many senders of orders as connections wait for each other for ever, since each order
wants a second one. A session with nothing due (courtesy, 100 % discount) appears in receipts and
shift tips at full price [`waiter.service.ts:921`, `:2662`] and as 0 in the summary of the closing
and the monitor. A monitor recomputes a session without a printed ticket with today's promos, and
drops open tables of an earlier shift that `openTablesCount` counts. Orders after a printed ticket
are not charged. Guests' `discardSession` and the closing of empty tables look for orders without
the session's lock: one that is sent in between is on a closed table. The jobs of `fireSessionMains`
are committed on a connection of their own [`waiter.service.ts:2055`] and the orders marked later in
its transaction [`:2076`]: if that is rolled back or dies, the mains have come out and are not
marked, and the next firing, whose source is new, prints them again. A courtesy of price 0 is
swallowed by a pack.

**Takings of a shift.** A summary that found no sales falls back to another shift or the whole
day, so two closings may be filled with the same sales; when the current shift is not the
day's first the "previous day" it looks at is the same day [`customer-orders.service.ts:1975`].
An order completed after the closing of the shift it was made in is in no closing. Receipts
go by calendar day, shifts by business day. `closingSummary`, a read, closes empty sessions.

**Ordering online.** A public order is not asked for the hours that are published
(`bypassHours`); hours that cross midnight are looked up in today's weekday only; a menu with
no active item offers both methods; a card counts as cash in the quick panel.

**Stock and removed orders.** `adjustQuantity`, `addQuantity` and `restockProducts` save the stock they
read [`stock.service.ts:597`]: a sale in between is lost. A movement of stock that fails after its
order was committed is not tried again. `removeStaff` saves the order it loaded without a lock
[`customer-orders.service.ts:3151`]: a cancellation in between gives the stock back and is then undone
in the order, which counts as sold; a payment credited in between is lost.

**Reservations.** `upsertDayNotice` saves the seats it read, so those the web took come back. A
petition that two people answer at once is answered twice, accepted and rejected or charged twice
with its seats.

**Partner splits, tips, shifts.** A payment outside of the split's lock may promise the same
balance twice. A tip total of 0 of the day is overwritten; `deliver` may pay a stale share;
`setDelivered` and `upsertDayNotice` save what they read. `shiftClosedBetween` may see the end
of a shift half a day late.

**Reimbursements, attendance, payroll.** An edition by the owner that overlaps a payment
writes PENDING back. Two overlapping check-outs overwrite the exit; a row left blank by an
admin is outside of the unique index. Two first generations of a period with different splits
leave both shapes of lines; the period is saved before its lines, so a crash leaves the new
range over old lines; a split drops days of shifts the employee no longer has.
`PayrollStatus.LOCKED` is never set.

**Backup.** Removed accounts are not dumped while their movements are, and a complete restore
drops those; removed tip shares come back. Ids in transferConceptId, closingIncomeConceptId,
closingCashConceptId, in the recipes' stockProductId, in posnetAmounts and in
pos_products.menuItemId are not translated or not dumped; cashChangeContributions neither.
Dumps of movements, attendance, cash withdrawals or settlements alone are purged and not
restored. Three payment modules dump partner payments without purging them, so a restore
duplicates them. Resets of catalog, staff or closings alone are refused by foreign keys.

**Accounts.** Two removals at once transfer a balance twice; a movement between the
computation and the removal stays on the removed account; overlapping edits give one method to
two accounts; two methods on one account: the second replaces the first; a resolution that
dies or overlaps leaves an orphan partner account; two first listings create two cash sources;
renamed standard sources come back; a removal does not look at the sources of closings.

**Concepts and reports.** Unification moves the withdrawal and the dividend concept of a
shop, not those of transfers and closings, and does not compare kinds; A into B and B into A
at once archive both. Removing a concept changes the list in which old movements show.
`repairClosingExpenseMovementLinks` runs at every read of the report and exchanges movements
of two expenses alike. `inferMovementKind` differs from the lists; `listAnalytics` lacks an
exclusion of `list`; the tabs of the Excel differ from its summary for rows without concept of
both kinds.

**Sales, catalogue, commissions.** `updateSubcategory` renames it on the lines of all products of
the category [`pos-catalog.service.ts:429`, `:631`]; a condition `(A) OR (B)` is not
parenthesised [`sales-products-analytics.service.ts:613`]; the daily total counts a repeated
ticket twice and shows only the later of two partial files; a crash between deletion and
insertion leaves tickets without lines; two imports at once double them; labels of older
lines follow no correction. With a category filter, POS days are not filtered, so days exceed
the total; the dashboard calls the redacted summary though its comment says otherwise; an
order accepted and not done falls out of the window after two or three days; a commission
rule does not follow a renamed category, and two that differ in inner blanks pay twice.

**Imports.** The same Excel does duplicate rows if a name was matched by hand
(`ledger-import` says it does not); rows may be booked on a removed account; two uploads at
once book all twice; an unselected duplicate hides a later row. Importing an exported month of
a shop with two shifts overwrites the first; a present day without exit gets the default
one; inactive people become active; a draft opened meanwhile is filled by the file.

**Users, levels, notifications.** A level "none" of a screen split off another is dropped when
saved and inherited again. An edit by a super user loses the preferences of every membership;
a crash between deletion and creation loses them all; a preference saved during a removal
inserts it again. Notices of creations reach inactive members, those of editions do not;
duties assigned to a user cannot be muted; a mute of one channel drops the old list's of
the other; opening the panel marks as seen a row that came after it was fetched.

**Start of the server.** `showInComanda` is never filled after a crash between its two
statements [`employees.service.ts:150`]; differences v3 and v4 are marked before they are
negated [`closings.service.ts:232`, `:250`]; channels whose columns were saved are never booked
again [`:330`]; concepts without category are inferred at each start; a restored closing without
shift beside one of the first shift makes every start fail [`:499`].

## 7. Plan

Models: every component with a protocol has one. Proofs that are left: `NothingTakenTwice` of the
partner split, which needs that a plan takes from an account no more than its difference, a fact
about a fold; the inbox; and `MCExpenseChargedOnce`, should the code compute the amounts of a pickup
again under its locks.
