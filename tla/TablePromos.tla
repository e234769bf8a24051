----------------------------- MODULE TablePromos -----------------------------
(***************************************************************************)
(* What a table owes: the lines that were sent, edited and removed, the promos *)
(* assigned to the session, and the packs that are matched greedily, promo by  *)
(* promo and item by item, every time the bill is computed.                    *)
(***************************************************************************)
EXTENDS Integers, Sequences, FiniteSets, FiniteSetsExt, SequencesExt

CONSTANTS
    Items,       \* the items of the menu
    Extras,      \* extras that are sold with an item
    Carte,       \* the price of each item and extra
    Promos,      \* by id: the pool (in the order of its ids), packQty, fixedPrice
    Quantities,  \* quantities that are sent or edited
    Prices,      \* prices an edition may set
    Caps,        \* limits of packs, None is no limit
    MaxLines,    \* bound: lines of the table
    MaxEdits,    \* bound: editions of a line
    None

VARIABLES
    lines,       \* the lines of the orders of the session
    assigned,    \* sessionPromos, in order
    available,   \* the promos of the shop that can be used at a table
    edits        \* editions so far

promoVars == <<lines, assigned, available, edits>>

Init == lines = <<>> /\ assigned = <<>> /\ available = DOMAIN Promos /\ edits = 0

\* The item of an extra is the one it is attached to, or else itself.
Line(order, item, qty, price, kind, promo) ==
    [order |-> order, item |-> item, qty |-> qty, price |-> price, kind |-> kind, promo |-> promo]
\* The number of an order that was removed is used again.
NextOrder == Min((1..MaxLines + 1) \ {lines[k].order : k \in DOMAIN lines})
SumLines(val(_), test(_)) == FoldLeft(LAMBDA sum, l : IF test(l) THEN sum + val(l) ELSE sum, 0, lines)
Worth(l) == l.price * l.qty
-----------------------------------------------------------------------------
(* computeMultiPromoBreakdown                                                 *)

\* Items that were not sold within a promo already.
Matchable(l) == l.kind = "ITEM" /\ l.promo = None
Ordered(i)   == SumLines(LAMBDA l : l.qty, LAMBDA l : Matchable(l) /\ l.item = i)

Pool(promo) == {Promos[promo].pool[k] : k \in DOMAIN Promos[promo].pool}

Packs(left, a) ==
    LET have == MapThenSumSet(LAMBDA i : left[i], Pool(a.promo)) \div Promos[a.promo].packQty
    IN IF a.max # None /\ a.max < have THEN a.max ELSE have

Take(acc, i) == IF acc.left[i] < acc.toConsume THEN acc.left[i] ELSE acc.toConsume
TakesAgain(acc, i) == acc.left[i]
Left(acc, i) == acc.left[i] - Take(acc, i)

ConsumeItem(acc, i) ==
    [left      |-> [acc.left EXCEPT ![i] = Left(acc, i)],
     toConsume |-> acc.toConsume - Take(acc, i)]

\* applyOnePromoToPool: a promo that makes no pack is not applied.
ApplyPromo(acc, a) ==
    LET packs == Packs(acc.left, a) IN
    IF packs = 0 THEN acc
    ELSE [left |-> FoldLeft(ConsumeItem, [left |-> acc.left, toConsume |-> packs * Promos[a.promo].packQty],
                            Promos[a.promo].pool).left,
          applied |-> Append(acc.applied, [promo |-> a.promo, packs |-> packs])]

Breakdown == FoldLeft(ApplyPromo, [left |-> [i \in Items |-> Ordered(i)], applied |-> <<>>],
                      SelectSeq(assigned, LAMBDA a : a.promo \in available))

\* What is left of an item costs the average price of its lines.
Outside(i, left) ==
    LET worth == SumLines(Worth, LAMBDA l : Matchable(l) /\ l.item = i)
    IN IF Ordered(i) = 0 THEN 0 ELSE (2 * worth * left + Ordered(i)) \div (2 * Ordered(i))

Sold      == SumLines(Worth, LAMBDA l : l.kind = "PROMO")
RawTotal  == SumLines(Worth, LAMBDA l : TRUE)
BaseTotal ==
    LET b == Breakdown IN
    IF b.applied = <<>> /\ Sold = 0 THEN RawTotal
    ELSE FoldLeft(LAMBDA sum, a : sum + a.packs * Promos[a.promo].fixedPrice, 0, b.applied)
         + MapThenSumSet(LAMBDA i : Outside(i, b.left[i]), Items)
         + SumLines(Worth, LAMBDA l : l.kind = "EXTRA") + Sold
-----------------------------------------------------------------------------
\* createOrderForShop of a table: an item, with an extra or not, and packs whose
\* items go to the table at the price of the menu.
Send(i, qty) ==
    /\ Len(lines) < MaxLines
    /\ lines' = Append(lines, Line(NextOrder, i, qty, Carte[i], "ITEM", None))
    /\ UNCHANGED <<assigned, available, edits>>
SendWithExtra(i, qty, x, count, attached) ==
    /\ Len(lines) + 1 < MaxLines
    /\ lines' = lines \o <<Line(NextOrder, i, qty, Carte[i], "ITEM", None),
                           Line(NextOrder, IF attached THEN i ELSE x, count, Carte[x], "EXTRA", None)>>
    /\ UNCHANGED <<assigned, available, edits>>

\* normalizePromoSelections: items of the pool that make whole packs.
Selections(promo, packs) ==
    {chosen \in [Pool(promo) -> 0..(packs * Promos[promo].packQty)] :
        MapThenSumSet(LAMBDA i : chosen[i], Pool(promo)) = packs * Promos[promo].packQty}

SendPacks(promo, packs, withinPromo) ==
    /\ promo \in available
    /\ \E chosen \in Selections(promo, packs) :
         LET picked == SelectSeq(Promos[promo].pool, LAMBDA i : chosen[i] > 0)
             sent   == [k \in DOMAIN picked |->
                          Line(NextOrder, picked[k], chosen[picked[k]], IF withinPromo THEN 0 ELSE Carte[picked[k]],
                               "ITEM", IF withinPromo THEN promo ELSE None)]
             sale   == IF withinPromo THEN <<Line(NextOrder, promo, packs, Promos[promo].fixedPrice, "PROMO", promo)>> ELSE <<>>
         IN /\ Len(lines \o sent \o sale) <= MaxLines
            /\ lines' = lines \o sent \o sale
    /\ UNCHANGED <<assigned, available, edits>>

\* pairedExtraIndices: the extras of an order go with its first line of their item.
Paired(k) == {j \in DOMAIN lines :
    /\ lines[j].kind = "EXTRA" /\ lines[j].order = lines[k].order /\ lines[j].item = lines[k].item
    /\ lines[k].kind # "EXTRA"
    /\ ~\E m \in 1..(k - 1) : [lines[m] EXCEPT !.qty = 0, !.price = 0] = [lines[k] EXCEPT !.qty = 0, !.price = 0]}

\* patchSessionLine; None is not sent.
PatchLine(k, qty, price) ==
    LET line == [lines[k] EXCEPT !.qty = IF qty = None THEN @ ELSE qty, !.price = IF price = None THEN @ ELSE price] IN
    /\ edits < MaxEdits /\ edits' = edits + 1
    /\ line # lines[k]
    /\ lines' = [j \in DOMAIN lines |-> CASE j = k -> line
                                        [] j \in Paired(k) /\ qty # None -> [lines[j] EXCEPT !.qty = qty]
                                        [] OTHER -> lines[j]]
    /\ UNCHANGED <<assigned, available>>
RemoveLine(k) ==
    /\ LET kept == SetToSortSeq(DOMAIN lines \ ({k} \cup Paired(k)), LAMBDA a, b : a < b)
       IN lines' = [n \in DOMAIN kept |-> lines[kept[n]]]
    /\ UNCHANGED <<assigned, available, edits>>

\* patchSessionPromo, and the promos of the hour when a table is opened.
Assign(chosen) ==
    /\ \A k \in DOMAIN chosen : chosen[k].promo \in available
    /\ \A j, k \in DOMAIN chosen : chosen[j].promo = chosen[k].promo => j = k
    /\ assigned' = chosen /\ UNCHANGED <<lines, available, edits>>

\* The shop edits its promos while the table is open.
ChangePromos(promo) ==
    /\ available' = IF promo \in available THEN available \ {promo} ELSE available \cup {promo}
    /\ UNCHANGED <<lines, assigned, edits>>

Assignment == [promo : DOMAIN Promos, max : Caps]

Next ==
    \/ \E i \in Items, qty \in Quantities : Send(i, qty)
    \/ \E i \in Items, x \in Extras, qty, count \in Quantities, attached \in BOOLEAN :
         SendWithExtra(i, qty, x, count, attached)
    \/ \E promo \in DOMAIN Promos, withinPromo \in BOOLEAN : SendPacks(promo, 1, withinPromo)
    \/ \E k \in DOMAIN lines, qty \in Quantities \cup {None}, price \in Prices \cup {None} : PatchLine(k, qty, price)
    \/ \E k \in DOMAIN lines : RemoveLine(k)
    \/ \E chosen \in SeqOf(Assignment, Cardinality(DOMAIN Promos)) : Assign(chosen)
    \/ \E promo \in DOMAIN Promos : ChangePromos(promo)

Spec == Init /\ [][Next]_promoVars
-----------------------------------------------------------------------------
(* What the matching of promos must keep, however the table got to its lines.  *)

\* Every item of the table is in one pack or is charged by itself, never both and
\* never none: the packs took what is missing.
EachItemOnce ==
    LET b == Breakdown IN
    /\ \A i \in Items : b.left[i] \in 0..Ordered(i)
    /\ MapThenSumSet(LAMBDA i : Ordered(i) - b.left[i], Items) =
         FoldLeft(LAMBDA sum, a : sum + a.packs * Promos[a.promo].packQty, 0, b.applied)

\* No pack that the guests are entitled to is missed.
NoPackMissed ==
    LET b == Breakdown
        packs(promo) == FoldLeft(LAMBDA n, a : IF a.promo = promo THEN n + a.packs ELSE n, 0, b.applied) IN
    \A k \in DOMAIN assigned : assigned[k].promo \in available =>
        \/ packs(assigned[k].promo) = assigned[k].max
        \/ MapThenSumSet(LAMBDA i : b.left[i], Pool(assigned[k].promo)) < Promos[assigned[k].promo].packQty

\* Promos that are cheaper than the menu never make the bill dearer, unless an item
\* was given for less than the menu says: a pack takes that item too.
NeverDearer ==
    (\A k \in DOMAIN lines : Matchable(lines[k]) => lines[k].price >= Carte[lines[k].item]) => BaseTotal <= RawTotal
=============================================================================
