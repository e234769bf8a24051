---------------------------- MODULE PartnerSplit ----------------------------
(***************************************************************************)
(* The division of the balances of a shop between its partners.  A division   *)
(* reads all balances, plans transfers and writes them as movements or as      *)
(* validated payments.  Divisions are serialised by an advisory lock that is   *)
(* held across the commit; balances are read on other connections, and every   *)
(* other movement of the shop may be written in between.                       *)
(***************************************************************************)
EXTENDS Integers, FiniteSets, SequencesExt, FiniteSetsExt

CONSTANTS
    Requests,      \* divisions running at once
    Partners,      \* the accounts of the partners, a sequence in the order of their names
    Channels,      \* the accounts of the channels, a sequence
    Earnings,      \* amounts other operations add to an account
    MaxEarned,     \* bound: how often they do
    Leaves,        \* amounts a division may leave in a channel
    Amounts,       \* amounts an equalisation may ask for
    Shares,        \* ownership in percent, one function for each setting
    Modes,         \* how transfers are written: of {"skip", "movement", "payment"}
    MaxPayments,   \* bound: payments of divisions
    None

VARIABLES
    balance,       \* the balance of every account: openings and movements
    promised,      \* payments of divisions: validated, then paid
    ownership,     \* ownershipPercent of the partners
    holder,        \* the request whose connection holds the advisory lock
    dividing,      \* what each request is doing, and the preview it read
    earned,        \* number of movements of others: bounds the model
    lowest,        \* the least target of an account in any division: ghost
    settled        \* what the last division left, if it was written whole and nothing came after: ghost

splitVars == <<balance, promised, ownership, holder, dividing, earned, lowest, settled>>

Dividends == "dividends"
Accounts  == ToSet(Partners) \cup ToSet(Channels)
Sum(f, S) == FoldSet(LAMBDA a, s : f[a] + s, 0, S)

Idle == [op |-> "none", step |-> "idle", leave |-> 0, amount |-> 0, rows |-> <<>>]

Init ==
    /\ balance = [a \in Accounts |-> 0] /\ promised = {} /\ ownership = CHOOSE share \in Shares : TRUE
    /\ holder = None /\ dividing = [p \in Requests |-> Idle] /\ earned = 0
    /\ lowest = [a \in Accounts |-> 0] /\ settled = None
-----------------------------------------------------------------------------
(* The plan                                                                   *)

\* round2(a / b) on cents: halves go up.
Rounded(a, b) == (2 * a + b) \div (2 * b)

\* Rows of [account, target, difference]; `share' tells the part of each partner
\* and the last one takes what rounding leaves.
Row(a, target) == [account |-> a, target |-> target, difference |-> target - balance[a]]
PartnerRows(total, Share(_)) ==
    LET last == Len(Partners) IN
    [k \in 1..last |-> Row(Partners[k],
        IF k < last THEN Share(k) ELSE total - FoldSet(LAMBDA i, s : Share(i) + s, 0, 1..last - 1))]

\* buildPreview: what is neither left in a channel goes to the partners in equal parts.
SplitRows(leave) ==
    LET toDistribute == Sum(balance, Accounts) - leave * Len(Channels)
        Share(k)     == Rounded(toDistribute, Len(Partners)) IN
    PartnerRows(toDistribute, Share) \o [k \in 1..Len(Channels) |-> Row(Channels[k], leave)]

\* buildEqualizePreview: the amount by ownership.
EqualizeRows(amount) ==
    LET Share(k) == Rounded(amount * ownership[Partners[k]], 100) IN PartnerRows(amount, Share)

\* Who has passed on, or received, all of it makes room for the next.
Done(left, amount)       == left = amount

\* planTransfers: the first who has too much pays the first who has too little,
\* until one of the two is done.
PlanTransfers(rows) ==
    LET payers    == SelectSeq(rows, LAMBDA r : r.difference < 0)
        receivers == SelectSeq(rows, LAMBDA r : r.difference > 0)
        Owes(i)   == IF i > Len(payers) THEN 0 ELSE -payers[i].difference
        Lacks(j)  == IF j > Len(receivers) THEN 0 ELSE receivers[j].difference
        Pass(s, k) ==
            IF s.i > Len(payers) \/ s.j > Len(receivers) THEN s
            ELSE LET amount == Min({s.owes, s.lacks}) IN
                 [i     |-> IF Done(s.owes, amount) THEN s.i + 1 ELSE s.i,
                  j     |-> IF Done(s.lacks, amount) THEN s.j + 1 ELSE s.j,
                  owes  |-> IF Done(s.owes, amount) THEN Owes(s.i + 1) ELSE s.owes - amount,
                  lacks |-> IF Done(s.lacks, amount) THEN Lacks(s.j + 1) ELSE s.lacks - amount,
                  plan  |-> Append(s.plan, [from |-> payers[s.i].account, to |-> receivers[s.j].account,
                                            amount |-> amount])] IN
    FoldLeft(Pass, [i |-> 1, j |-> 1, owes |-> Owes(1), lacks |-> Lacks(1), plan |-> <<>>],
             [k \in 1..Len(rows) |-> k]).plan
-----------------------------------------------------------------------------
(* A division                                                                 *)

Become(p, r) == dividing' = [dividing EXCEPT ![p] = r]

AskSplit(p, leave) ==
    /\ dividing[p] = Idle
    /\ Become(p, [Idle EXCEPT !.op = "split", !.step = "lock", !.leave = leave])
    /\ UNCHANGED <<balance, promised, ownership, holder, earned, lowest, settled>>

\* `op' says what equalizeApply is to write: transfers, surplus or balanced.
AskEqualize(p, op, amount) ==
    /\ dividing[p] = Idle /\ op \in {"transfers", "surplus", "balanced"}
    /\ Become(p, [Idle EXCEPT !.op = op, !.step = "lock", !.amount = amount])
    /\ UNCHANGED <<balance, promised, ownership, holder, earned, lowest, settled>>

\* GET_LOCK waits for ten seconds, then the request is refused.
FreeAsAssumed == TRUE
LockFree      == holder = None

GetLock(p) ==
    /\ dividing[p].step = "lock" /\ LockFree /\ holder' = p
    /\ Become(p, [dividing[p] EXCEPT !.step = "preview"])
    /\ UNCHANGED <<balance, promised, ownership, earned, lowest, settled>>

LockTimeout(p) ==
    /\ dividing[p].step = "lock" /\ holder \notin {None, p} /\ Become(p, Idle)
    /\ UNCHANGED <<balance, promised, ownership, holder, earned, lowest, settled>>

\* The preview, read on other connections than the one that holds the lock.
Preview(p) ==
    /\ dividing[p].step = "preview"
    /\ Become(p, [dividing[p] EXCEPT !.step = "write",
         !.rows = IF dividing[p].op = "split" THEN SplitRows(dividing[p].leave)
                                                          ELSE EqualizeRows(dividing[p].amount)])
    /\ UNCHANGED <<balance, promised, ownership, holder, earned, lowest, settled>>

\* What is to be written.  Surplus and balance go to the dividends, and so does a
\* transfer of an equalisation: the receiver is only noted.
ToDividends(rows) == [k \in DOMAIN rows |-> [from |-> rows[k].account, to |-> Dividends, amount |-> -rows[k].difference]]
Planned(r) ==
    CASE r.op = "split"     -> PlanTransfers(r.rows)
      [] r.op = "transfers" -> LET plan == PlanTransfers(r.rows) IN [k \in DOMAIN plan |-> [plan[k] EXCEPT !.to = Dividends]]
      [] r.op = "surplus"   -> ToDividends(SelectSeq(r.rows, LAMBDA row : row.difference < 0))
      [] r.op = "balanced"  -> IF \E k \in DOMAIN r.rows : r.rows[k].difference # 0 THEN <<>>
                               ELSE LET rest == SelectSeq(r.rows, LAMBDA row : row.target > 0) IN
                                    [k \in DOMAIN rest |-> [from |-> rest[k].account, to |-> Dividends, amount |-> rest[k].target]]

\* A choice is open between partners in transfers; everything else is a movement
\* or left undone.
WrittenAs(r, t) ==
    CASE r.op = "split" /\ {t.from, t.to} \subseteq ToSet(Partners) -> Modes
      [] r.op = "transfers"                                         -> Modes
      [] r.op = "split"                                             -> Modes \ {"payment"}
      [] OTHER                                                      -> {"movement"}

\* One transaction: transfers, configuration, run.  Without one transfer it is rolled back.
Write(p) ==
    /\ dividing[p].step = "write"
    /\ LET r == dividing[p]  plan == Planned(r)
           In(a, how)  == FoldSet(LAMBDA k, s : plan[k].amount + s, 0, {k \in DOMAIN plan : how[k] = "movement" /\ plan[k].to = a})
           Out(a, how) == FoldSet(LAMBDA k, s : plan[k].amount + s, 0, {k \in DOMAIN plan : how[k] = "movement" /\ plan[k].from = a})
       IN \E how \in [DOMAIN plan -> Modes \cup {"movement"}] :
            /\ \A k \in DOMAIN plan : how[k] \in WrittenAs(r, plan[k])
            /\ \E k \in DOMAIN plan : how[k] # "skip"
            /\ balance' = [a \in Accounts |-> balance[a] + In(a, how) - Out(a, how)]
            /\ LET paid == {k \in DOMAIN plan : how[k] = "payment"} IN
               /\ Cardinality(promised) + Cardinality(paid) <= MaxPayments
               /\ promised' = promised \cup {[id |-> <<k, Cardinality(promised)>>, from |-> plan[k].from, to |-> plan[k].to,
                                             amount |-> plan[k].amount, paid |-> FALSE] : k \in paid}
            /\ settled' = IF /\ r.op = "split" /\ \A k \in DOMAIN plan : how[k] = "movement"
                           /\ \A k \in DOMAIN r.rows : r.rows[k] = Row(r.rows[k].account, r.rows[k].target)
                         THEN r.leave ELSE None
            /\ lowest' = [a \in Accounts |->
                 Min({lowest[a]} \cup {IF r.op = "balanced" THEN 0 ELSE r.rows[k].target :
                                       k \in {i \in DOMAIN r.rows : r.rows[i].account = a}})]
    /\ Become(p, [dividing[p] EXCEPT !.step = "release", !.rows = <<>>])
    /\ UNCHANGED <<ownership, holder, earned>>

\* RELEASE_LOCK after the commit, or after a rollback: nothing to do, an error, a
\* lost connection (which loses the lock too).
Release(p) ==
    /\ dividing[p].step \in {"preview", "write", "release"}
    /\ holder' = (IF holder = p THEN None ELSE holder) /\ Become(p, Idle)
    /\ UNCHANGED <<balance, promised, ownership, earned, lowest, settled>>
-----------------------------------------------------------------------------
(* The others                                                                 *)

\* A closing or any other movement of the shop.
Earn(a, n) ==
    /\ earned < MaxEarned /\ earned' = earned + 1
    /\ balance' = [balance EXCEPT ![a] = @ + n] /\ settled' = None
    /\ UNCHANGED <<promised, ownership, holder, dividing, lowest>>

\* A validated payment is paid, and its movement written.
PayPromised(x) ==
    /\ x \in promised /\ ~x.paid /\ promised' = (promised \ {x}) \cup {[x EXCEPT !.paid = TRUE]}
    /\ balance' = [a \in Accounts |->
         balance[a] + (IF a = x.to THEN x.amount ELSE 0) - (IF a = x.from THEN x.amount ELSE 0)]
    /\ settled' = None
    /\ UNCHANGED <<ownership, holder, dividing, earned, lowest>>

SaveOwnership(share) ==
    /\ ownership' = share /\ share # ownership
    /\ UNCHANGED <<balance, promised, holder, dividing, earned, lowest, settled>>

Next ==
    \/ \E p \in Requests :
         \/ \E leave \in Leaves : AskSplit(p, leave)
         \/ \E op \in {"transfers", "surplus", "balanced"}, n \in Amounts : AskEqualize(p, op, n)
         \/ GetLock(p) \/ LockTimeout(p) \/ Preview(p) \/ Write(p) \/ Release(p)
    \/ \E a \in Accounts, n \in Earnings : Earn(a, n)
    \/ \E x \in promised : PayPromised(x)
    \/ \E share \in Shares : SaveOwnership(share)

Spec == Init /\ [][Next]_splitVars
-----------------------------------------------------------------------------
(* Properties                                                                 *)

\* Two who press Apply do not take the same money twice: no account goes below the
\* least that a division meant to leave in it, counting what is promised out of it.
\* Money that comes in meanwhile only helps.
NothingTakenTwice ==
    \A a \in Accounts :
        balance[a] - FoldSet(LAMBDA x, s : x.amount + s, 0, {x \in promised : x.from = a /\ ~x.paid}) >= lowest[a]

\* A division that was written whole is settled: dividing again finds nothing to do,
\* whatever rounding did to the shares.
DividedIsSettled ==
    settled # None => PlanTransfers(SplitRows(settled)) = <<>>
=============================================================================
