------------------------------ MODULE Accounts ------------------------------
(***************************************************************************)
(* The accounts of a shop, the payment methods deposited in them, their users, *)
(* and the sources a closing is made of.  No operation runs in a transaction:   *)
(* each step is one statement, and the process may die after any of them.       *)
(* Movements are kept as the balance they leave; names, codes, percentages and  *)
(* listing flags are left out; an account is hidden from withdrawals by its kind. *)
(***************************************************************************)
EXTENDS Integers, FiniteSets

CONSTANTS
    Keepers,      \* HTTP requests
    Overlapped,   \* operations that may overlap
    OneAtATime,   \* operations that run by themselves
    AccountIds,   \* accounts
    AccountKinds, \* of account: "partner", "system", "supplier", hidden from who takes cash home
    Users,        \* people who take cash home
    Methods,      \* payment methods, numbered in the order of the enum; the first is cash
    MaxMoney,     \* bound: balance of an account, either way
    SourceIds,    \* ids of closing sources
    Nil

ASSUME AccountsAssumption == Methods \subseteq Nat /\ Nil \notin Methods \cup AccountIds

VARIABLES
    account,      \* rows of ledger_accounts
    money,        \* balance of each account: what its active movements leave
    links,        \* rows of ledger_account_users
    source,       \* rows of shop_closing_sources
    running       \* the requests

accountVars == <<account, money, links, source, running>>

NoAccount == [state |-> "absent", kind |-> Nil, active |-> FALSE, method |-> Nil]
NoSource  == [state |-> "absent", name |-> Nil, account |-> Nil]
\* name of the source of a method; the one of the first method has role CASH
IsCash(s) == source[s].name = 1
Resting   == [op |-> "none", step |-> "idle", id |-> Nil, row |-> NoAccount, dest |-> Nil, todo |-> {}, users |-> {}, flow |-> 0]

Live(i)    == account[i].state = "live"
Usable(i)  == Live(i) /\ account[i].active
Present(s) == source[s].state = "live"

AccountsInit ==
    /\ account = [i \in AccountIds |-> NoAccount] /\ money = [i \in AccountIds |-> 0] /\ links = {}
    /\ source = [s \in SourceIds |-> NoSource] /\ running = [p \in Keepers |-> Resting]

MayKeep(p, op) ==
    /\ running[p] = Resting
    /\ \/ op \in Overlapped /\ \A q \in Keepers : running[q].op \notin OneAtATime
       \/ op \in OneAtATime /\ \A q \in Keepers : running[q] = Resting

Turn(p, r)    == running' = [running EXCEPT ![p] = r]
GoTo(p, step) == Turn(p, [running[p] EXCEPT !.step = step])
End(p)        == Turn(p, Resting)
At(p, step)   == running[p].step = step
-----------------------------------------------------------------------------
(* Accounts and payment methods                                               *)

\* clearLinkedPaymentMethod
Cleared(method, except) ==
    [i \in AccountIds |-> IF method # Nil /\ i # except /\ account[i].method = method
                   THEN [account[i] EXCEPT !.method = Nil] ELSE account[i]]

\* create: a method leaves its account before the row is written.
AskCreate(p, i, kind, method, users) ==
    /\ MayKeep(p, "create") /\ account[i].state = "absent"
    /\ account' = Cleared(method, Nil)
    /\ Turn(p, [Resting EXCEPT !.op = "create", !.step = "insert", !.id = i, !.users = users,
                              !.row = [state |-> "live", kind |-> kind, active |-> TRUE, method |-> method]])
    /\ UNCHANGED <<money, links, source>>

Insert(p) ==
    /\ At(p, "insert")
    /\ account' = [account EXCEPT ![running[p].id] = running[p].row]
    /\ IF running[p].users = {} THEN End(p) ELSE GoTo(p, "unlink")
    /\ UNCHANGED <<money, links, source>>

\* replaceUserLinks
Unlink(p) ==
    /\ At(p, "unlink")
    /\ links' = {l \in links : l.account # running[p].id}
    /\ IF running[p].users = {} THEN End(p) ELSE GoTo(p, "link")
    /\ UNCHANGED <<account, money, source>>

Link(p) ==
    /\ At(p, "link")
    /\ links' = links \cup [account : {running[p].id}, user : running[p].users]
    /\ End(p) /\ UNCHANGED <<account, money, source>>

\* update saves, later, the row it loaded.
AskUpdate(p, i, active, method, users) ==
    /\ MayKeep(p, "update") /\ Live(i)
    /\ account' = Cleared(method, i)
    /\ Turn(p, [Resting EXCEPT !.op = "update", !.step = "save", !.id = i, !.users = users,
                              !.row = [account[i] EXCEPT !.active = active, !.method = method]])
    /\ UNCHANGED <<money, links, source>>

Save(p) ==
    /\ At(p, "save")
    /\ account' = [account EXCEPT ![running[p].id] = running[p].row]
    /\ GoTo(p, "unlink") /\ UNCHANGED <<money, links, source>>

\* setPaymentDeposits: one method after the other, taken away and then given.
AskDeposits(p, map) ==
    /\ MayKeep(p, "deposits")
    /\ Turn(p, [Resting EXCEPT !.op = "deposits", !.step = "clear", !.todo = map])
    /\ UNCHANGED <<account, money, links, source>>

ClearDeposit(p) ==
    /\ At(p, "clear")
    /\ LET d    == CHOOSE e \in running[p].todo : \A f \in running[p].todo : e.method <= f.method
           rest == running[p].todo \ {d}
       IN /\ account' = Cleared(d.method, Nil)
          /\ CASE d.account # Nil -> Turn(p, [running[p] EXCEPT !.todo = rest, !.step = "load", !.id = d.account, !.dest = d.method])
               [] d.account = Nil /\ rest # {} -> Turn(p, [running[p] EXCEPT !.todo = rest])
               [] OTHER -> End(p)
    /\ UNCHANGED <<money, links, source>>

LoadDeposit(p) ==
    /\ At(p, "load")
    /\ IF Usable(running[p].id) /\ account[running[p].id].kind # "system"
       THEN Turn(p, [running[p] EXCEPT !.step = "give", !.row = [account[running[p].id] EXCEPT !.method = running[p].dest]])
       ELSE End(p)
    /\ UNCHANGED <<account, money, links, source>>

GiveDeposit(p) ==
    /\ At(p, "give")
    /\ account' = [account EXCEPT ![running[p].id] = running[p].row]
    /\ IF running[p].todo = {} THEN End(p) ELSE GoTo(p, "clear")
    /\ UNCHANGED <<money, links, source>>
-----------------------------------------------------------------------------
(* Balances, removal and the account of who takes the cash                    *)

\* A movement of the ledger between the account and one outside the model.
Book(i, amount) ==
    /\ \A q \in Keepers : running[q].op \notin OneAtATime
    /\ Usable(i) /\ money[i] + amount \in -MaxMoney..MaxMoney
    /\ money' = [money EXCEPT ![i] = @ + amount] /\ UNCHANGED <<account, links, source, running>>

\* remove, computeBalance: an account with money names the one that gets it.
AskRemove(p, i, dest) ==
    /\ MayKeep(p, "remove") /\ Live(i) /\ account[i].kind # "system"
    /\ money[i] # 0 => dest # Nil /\ dest # i /\ Usable(dest) /\ account[dest].kind # "system"
                        /\ money[dest] + money[i] \in -MaxMoney..MaxMoney
    /\ Turn(p, [Resting EXCEPT !.op = "remove", !.step = IF money[i] # 0 THEN "transfer" ELSE "detach",
                              !.id = i, !.row = account[i], !.dest = dest, !.flow = money[i]])
    /\ UNCHANGED <<account, money, links, source>>

\* Mutant: what it owes leaves it too.
TransferredOut(i, dest, balance) ==
    LET amount == IF balance > 0 THEN balance ELSE -balance
    IN [money EXCEPT ![i] = @ - amount, ![dest] = @ + amount]
\* createBalanceTransfer: what the account holds leaves it, what it owes enters it.
Transferred(i, dest, balance) == [money EXCEPT ![i] = @ - balance, ![dest] = @ + balance]

Transfer(p) ==
    /\ At(p, "transfer")
    /\ money' = Transferred(running[p].id, running[p].dest, running[p].flow)
    /\ GoTo(p, "detach") /\ UNCHANGED <<account, links, source>>

Detach(p) ==
    /\ At(p, "detach")
    /\ links' = {l \in links : l.account # running[p].id}
    /\ GoTo(p, "retire") /\ UNCHANGED <<account, money, source>>

Retire(p) ==
    /\ At(p, "retire")
    /\ account' = [account EXCEPT ![running[p].id] = [running[p].row EXCEPT !.active = FALSE, !.method = Nil]]
    /\ GoTo(p, "delete") /\ UNCHANGED <<money, links, source>>

Delete(p) ==
    /\ At(p, "delete")
    /\ account' = [account EXCEPT ![running[p].id].state = "removed"]
    /\ End(p) /\ UNCHANGED <<money, links, source>>

\* resolvePartnerAccountForUser: an account of their own is made for who has none to take cash to.
Candidates(u) == {i \in AccountIds : Usable(i) /\ [account |-> i, user |-> u] \in links /\ account[i].kind # "supplier"}

AskResolve(p, u, i) ==
    /\ MayKeep(p, "resolve") /\ Candidates(u) = {} /\ account[i].state = "absent"
    /\ Turn(p, [Resting EXCEPT !.op = "resolve", !.step = "insert", !.id = i, !.users = {u},
                    !.row = [state |-> "live", kind |-> "partner", active |-> TRUE, method |-> Nil]])
    /\ UNCHANGED <<account, money, links, source>>
-----------------------------------------------------------------------------
(* Closing sources                                                            *)

\* findAccount of ensureDefaults: the account the method is deposited in.
Deposit(method) == {i \in AccountIds : Usable(i) /\ account[i].method = method}

\* ensureDefaults, on every list: the default sources are looked up once, by name, and then written one by one.
Missing == {n \in Methods : \A s \in SourceIds : Present(s) => source[s].name # n}

AskList(p) ==
    /\ MayKeep(p, "list") /\ Missing # {}
    /\ Turn(p, [Resting EXCEPT !.op = "list", !.step = "default", !.todo = Missing, !.row = NoAccount])
    /\ UNCHANGED <<account, money, links, source>>

WriteDefault(p, s, i) ==
    /\ At(p, "default") /\ source[s].state = "absent"
    /\ LET n == CHOOSE e \in running[p].todo : \A f \in running[p].todo : e <= f
       IN /\ IF Deposit(n) = {} THEN i = Nil ELSE i \in Deposit(n)
          /\ source' = [source EXCEPT ![s] = [state |-> "live", name |-> n, account |-> i]]
          /\ IF running[p].todo = {n} THEN End(p) ELSE Turn(p, [running[p] EXCEPT !.todo = @ \ {n}])
    /\ UNCHANGED <<account, money, links>>

\* A source without account gets the one of its method at the next list.
GiveAccount(s, i) ==
    /\ MayKeep(CHOOSE p \in Keepers : TRUE, "list") /\ Missing = {}
    /\ Present(s) /\ source[s].account = Nil /\ i \in Deposit(source[s].name)
    /\ source' = [source EXCEPT ![s].account = i] /\ UNCHANGED <<account, money, links, running>>

\* update, resolveAccount: a usable account.
PointSource(s, i) ==
    /\ MayKeep(CHOOSE p \in Keepers : TRUE, "source") /\ Present(s) /\ Usable(i)
    /\ source' = [source EXCEPT ![s].account = i] /\ UNCHANGED <<account, money, links, running>>

\* remove: never the cash.
RemoveSource(s) ==
    /\ MayKeep(CHOOSE p \in Keepers : TRUE, "source") /\ Present(s) /\ ~IsCash(s)
    /\ source' = [source EXCEPT ![s].state = "removed"] /\ UNCHANGED <<account, money, links, running>>

Die(p) == running[p] # Resting /\ End(p) /\ UNCHANGED <<account, money, links, source>>

AccountsNext ==
    \/ \E p \in Keepers : Insert(p) \/ Unlink(p) \/ Link(p) \/ Save(p) \/ ClearDeposit(p) \/ LoadDeposit(p) \/ GiveDeposit(p)
                           \/ Transfer(p) \/ Detach(p) \/ Retire(p) \/ Delete(p) \/ AskList(p) \/ Die(p)
    \/ \E p \in Keepers, i \in AccountIds, m \in Methods \cup {Nil}, us \in SUBSET Users :
          \/ \E kind \in AccountKinds : AskCreate(p, i, kind, m, us)
          \/ \E active \in BOOLEAN : AskUpdate(p, i, active, m, us)
    \/ \E p \in Keepers, ms \in (SUBSET Methods) \ {{}} : \E f \in [ms -> AccountIds \cup {Nil}] :
          AskDeposits(p, {[method |-> m, account |-> f[m]] : m \in ms})
    \/ \E i \in AccountIds, amount \in {-1, 1} : Book(i, amount)
    \/ \E p \in Keepers, i \in AccountIds, dest \in AccountIds \cup {Nil} : AskRemove(p, i, dest)
    \/ \E p \in Keepers, u \in Users, i \in AccountIds : AskResolve(p, u, i)
    \/ \E p \in Keepers, s \in SourceIds, i \in AccountIds \cup {Nil} : WriteDefault(p, s, i)
    \/ \E s \in SourceIds, i \in AccountIds : GiveAccount(s, i) \/ PointSource(s, i)
    \/ \E s \in SourceIds : RemoveSource(s)

AccountsSpec == AccountsInit /\ [][AccountsNext]_accountVars
-----------------------------------------------------------------------------
(* Properties                                                                 *)

\* An account that was removed holds nothing, whatever the removals that died on the way: its money
\* is where the person who removed it said.
RemovedIsEmpty == \A i \in AccountIds : account[i].state = "removed" => money[i] = 0 /\ account[i].method = Nil

\* "Un medio -> una sola cuenta" (accounts.service.ts:365).
OneAccountPerMethod == \A i, j \in AccountIds : Live(i) /\ Live(j) /\ account[i].method = account[j].method => i = j \/ account[i].method = Nil

\* A shop has at most one cash source and one of each default name, whatever lists died while they were written.
OneSourcePerName == \A s, t \in SourceIds : Present(s) /\ Present(t) /\ source[s].name = source[t].name => s = t

AccountsInOrder == RemovedIsEmpty /\ OneAccountPerMethod /\ OneSourcePerName
=============================================================================
