-------------------------------- MODULE Tips --------------------------------
(***************************************************************************)
(* The tips of one day and their shares.  An edition is checked first and then *)
(* written in one transaction under the row lock of the day; the total goes to *)
(* the closing of the day.  A closing that is saved sends its total back, in a *)
(* transaction of its own, and the shares follow in proportion.                *)
(***************************************************************************)
EXTENDS Integers, FiniteSets, Functions

CONSTANTS
    Requests,    \* requests running at once
    Together,    \* operations that may overlap
    Alone,       \* operations asked for when nothing else runs
    Employees,
    Totals,      \* totals in cents
    Tolerance,   \* cents by which shares may miss the total (2 in the code)
    Unset

ASSUME TipsAssumption ==
    IsFiniteSet(Employees) /\ Totals \subseteq Nat

VARIABLES
    day,         \* the row of tip_days, and tipsAmount of the closing
    share,       \* the table tip_allocations: rows of the day by employee
    editing,     \* what each request is doing
    shared       \* the last edition brought shares: ghost

tipVars == <<day, share, editing, shared>>

NoShare == [active |-> FALSE, amount |-> 0, delivered |-> FALSE]
Idle    == [op |-> "none", step |-> "idle", total |-> 0, given |-> Unset, seen |-> {}, row |-> NoShare]

DayInit ==
    /\ day = [exists |-> FALSE, locked |-> Unset, total |-> 0, closing |-> 0]
    /\ share = [e \in Employees |-> NoShare]
    /\ editing = [p \in Requests |-> Idle] /\ shared = FALSE

MayAsk(p, op) ==
    /\ editing[p] = Idle /\ op \in Together \cup Alone
    /\ \A q \in Requests : editing[q] = Idle \/ (op \in Together /\ editing[q].op \in Together)
Become(p, r) == editing' = [editing EXCEPT ![p] = r]

Active      == {e \in Employees : share[e].active}
Distance(a, b) == IF a < b THEN b - a ELSE a - b
Rounded(a, b)  == (2 * a + b) \div (2 * b)

\* Shares that are given must make the total; no shares at all always pass.
Makes(given, total) ==
    given = <<>> \/ Distance(SumFunctionOnSet(given, DOMAIN given), total) <= Tolerance
-----------------------------------------------------------------------------
\* upsert: `given' is Unset (not sent), empty, or amounts by employee.
AskUpsert(p, total, given) ==
    /\ MayAsk(p, "upsert") /\ (given # Unset => Makes(given, total))
    /\ Become(p, [Idle EXCEPT !.op = "upsert", !.step = "lock", !.total = total, !.given = given, !.seen = Active])
    /\ UNCHANGED <<day, share, shared>>

\* The closing is saved with its tips; without a breakdown amounts and shares are
\* scaled, unless there was nothing to scale.  What does not add up is dropped.
CloseWithTips(p, tips) ==
    LET scaled(x) == IF day.total = 0 THEN x ELSE Rounded(x * tips, day.total)
        total     == IF day.exists THEN scaled(day.total) ELSE tips
        given     == IF day.exists THEN [e \in Active |-> scaled(share[e].amount)] ELSE <<>> IN
    /\ MayAsk(p, "closing")
    /\ day' = [day EXCEPT !.closing = tips]
    /\ IF Makes(given, total)
         THEN Become(p, [Idle EXCEPT !.op = "closing", !.step = "lock", !.total = total, !.given = given, !.seen = Active])
         ELSE UNCHANGED editing
    /\ UNCHANGED <<share, shared>>

\* FOR UPDATE; a day that does not exist yet cannot be locked.
LockDay(p) ==
    /\ editing[p].step = "lock" /\ day.locked = Unset
    /\ day' = IF day.exists THEN [day EXCEPT !.locked = p] ELSE day
    /\ Become(p, [editing[p] EXCEPT !.step = IF day.exists THEN "write" ELSE "insert"])
    /\ UNCHANGED <<share, shared>>

\* The shares an edition knows of, and takes back when it does not name them.
SeenWhenAsked(p) == editing[p].seen
SharesSeen(p)    == Active

Written(p) ==
    LET given == editing[p].given IN
    IF given = Unset THEN share
    ELSE [e \in Employees |->
            CASE e \in DOMAIN given -> [share[e] EXCEPT !.active = TRUE, !.amount = given[e]]
              [] e \in SharesSeen(p) \ DOMAIN given -> [share[e] EXCEPT !.active = FALSE]
              [] OTHER -> share[e]]

\* The unique index of shop and date refuses a second insertion.
CommitEdition(p) ==
    /\ editing[p].step \in {"write", "insert"}
    /\ IF editing[p].step = "insert" /\ day.exists THEN UNCHANGED <<day, share, shared>>
       ELSE /\ day' = [exists |-> TRUE, locked |-> Unset, total |-> editing[p].total, closing |-> editing[p].total]
            /\ share' = Written(p)
            /\ shared' = (editing[p].given # Unset)
    /\ Become(p, Idle)

RollBackEdition(p) ==
    /\ editing[p].step \in {"lock", "write", "insert"}
    /\ day' = IF day.locked = p THEN [day EXCEPT !.locked = Unset] ELSE day
    /\ Become(p, Idle) /\ UNCHANGED <<share, shared>>

\* setDelivered loads a share and saves it later, without the lock; setDeliveredAll
\* does so for every share.
LoadShare(p, e) ==
    /\ MayAsk(p, "deliver") /\ share[e].active
    /\ Become(p, [Idle EXCEPT !.op = "deliver", !.step = "deliver", !.given = e, !.row = share[e]])
    /\ UNCHANGED <<day, share, shared>>

SaveShare(p, delivered) ==
    /\ editing[p].step = "deliver"
    /\ share' = [share EXCEPT ![editing[p].given] = [editing[p].row EXCEPT !.delivered = delivered]]
    /\ Become(p, Idle) /\ UNCHANGED <<day, shared>>

DeliverAll(p, delivered) ==
    /\ MayAsk(p, "deliver")
    /\ share' = [e \in Employees |-> [share[e] EXCEPT !.delivered = IF share[e].active THEN delivered ELSE @]]
    /\ UNCHANGED <<day, editing, shared>>

DayNext == \E p \in Requests :
    \/ \E total \in Totals : \/ AskUpsert(p, total, Unset) \/ CloseWithTips(p, total)
                             \/ \E S \in SUBSET Employees : \E given \in [S -> Totals] : AskUpsert(p, total, given)
    \/ LockDay(p) \/ CommitEdition(p) \/ RollBackEdition(p)
    \/ \E e \in Employees : LoadShare(p, e)
    \/ \E delivered \in BOOLEAN : SaveShare(p, delivered) \/ DeliverAll(p, delivered)

DaySpec == DayInit /\ [][DayNext]_tipVars
-----------------------------------------------------------------------------
\* "El día se bloquea (FOR UPDATE) para que dos ediciones simultáneas no mezclen
\* repartos": what the employees get together is the total of the day.
SharesMakeTotal ==
    shared /\ Active # {} => Distance(SumFunctionOnSet([e \in Employees |-> share[e].amount], Active), day.total) <= Tolerance
=============================================================================
