------------------------------- MODULE Takings -------------------------------
(***************************************************************************)
(* What a shift took in, as each screen tells it: the summary that fills in its   *)
(* closing (customer-orders.service.ts, closingSummary), the receipts, the monitor  *)
(* of the salon and the tips of the shift (waiter.service.ts).                   *)
(*                                                                         *)
(* A business day has three instants: lunch, dinner, and dinner after midnight,    *)
(* which is in the next day of the calendar.  Locks are in Tables, states of an     *)
(* order in Orders, promos in TablePromos: here a promo takes `cut' from a bill.     *)
(***************************************************************************)
EXTENDS Integers, Sequences, FiniteSets, FiniteSetsExt

CONSTANTS
    Sales,        \* orders that are not of a table
    Sessions,     \* of tables, and of the counter of the salon
    Instants, Amounts,
    Ways,         \* how an order is served and paid: [fulfillment, web, pay], web if it came through the platform
    Hints,        \* how the platform of deliveries may pay: CASH, TRANSFER, or None for no account of its own
    MaxChanges, None

VARIABLES
    now,
    sale,         \* None or [made, done, state, fulfillment, web, pay, amount]
    session,      \* None or [state, closed, promo, sent, ticket, off, pays, tip, due, touched]
    cut, hint,
    counted,      \* of each shift, None or the closing made of it: [at, range, ids]
    changes

vars == <<now, sale, session, cut, hint, counted, changes>>

Kinds          == {"CASH", "TRANSFER", "CARD"}
ShiftOf(i)     == 2 * (i \div 3) + (IF i % 3 = 0 THEN 0 ELSE 1)
CalendarDay(i) == (i + 1) \div 3
DayOf(k)       == {2 * (k \div 2), 2 * (k \div 2) + 1}
Shifts         == {ShiftOf(i) : i \in Instants}
AtLeast0(n)    == IF n < 0 THEN 0 ELSE n
\* To the nearest cent, halves up.
Share(n, of, parts) == (2 * n * of + parts) \div (2 * parts)
SumOver(S, f(_)) == MapThenSumSet(f, S)

----------------------------------------------------------------------------
\* A session

Raw(s)      == SumOver(DOMAIN session[s].sent, LAMBDA n : session[s].sent[n].amount)
\* resolveSessionPromo: with the promos that the shop has now.
Subtotal(s) == IF session[s].promo THEN AtLeast0(Raw(s) - cut) ELSE Raw(s)
Due(s)      == IF session[s].ticket # None THEN session[s].ticket ELSE Subtotal(s)
Paid(s)     == SumOver(DOMAIN session[s].pays, LAMBDA k : session[s].pays[k])
With(st)    == {s \in Sessions : session[s] # None /\ session[s].state = st}

----------------------------------------------------------------------------
\* The summary of a shift

Rows(W)     == {o \in Sales : sale[o] # None /\ sale[o].state # "cancelled" /\ ShiftOf(sale[o].made) \in W}
ClosedIn(W) == {s \in With("closed") : ShiftOf(session[s].closed) \in W}
Busy(W)     == \/ Rows(W) # {} \/ ClosedIn(W) # {}
               \/ \E s \in With("open") \cup With("closed"), n \in 1..2 :
                    n \in DOMAIN session[s].sent /\ ShiftOf(session[s].sent[n].made) \in W
\* Where it looks for sales, in this order; the shift that was asked for, if there are none.
Looked(k, pinned) == IF pinned THEN <<{k}, {ShiftOf(now)}, DayOf(ShiftOf(now))>>
                               ELSE <<{k}, {k - 1}, DayOf(k), DayOf(k - 1)>>
Told(k, pinned)   == LET looked == Looked(k, pinned)
                         busy   == {n \in DOMAIN looked : Busy(looked[n])}
                     IN  IF busy = {} THEN {k} ELSE looked[Min(busy)]

Done(W)    == {o \in Rows(W) : sale[o].state = "done"}
Amount(S)  == SumOver(S, LAMBDA o : sale[o].amount)
\* What the platform pays goes to an account of its own.
Matches(W) == {o \in Done(W) : sale[o].web /\ sale[o].pay = hint}
OfKind(W, k)   == Amount({o \in Done(W) : sale[o].pay = k}) - (IF hint = k THEN Amount(Matches(W)) ELSE 0)
ByMethod(W, k) == Amount({o \in Done(W) \ Matches(W) : sale[o].pay = k})
\* Cards are in no bucket.
Bucket(W, f)   == Amount({o \in Done(W) \ Matches(W) : sale[o].fulfillment = f /\ sale[o].pay # "CARD"})
Buckets(W)     == SumOver({"TAKEAWAY", "DELIVERY", "COUNTER"}, LAMBDA f : Bucket(W, f))

\* The tables: the methods bring the bill, the tip is apart.
Ticket(s)  == IF session[s].ticket # None THEN session[s].ticket ELSE AtLeast0(Paid(s) - session[s].tip)
\* Mutant: the tip is left in the methods.
NetWithTip(s, k) == IF k \in DOMAIN session[s].pays THEN session[s].pays[k] ELSE 0
Net(s, k)  == IF k \notin DOMAIN session[s].pays \/ Paid(s) = 0 THEN 0 ELSE Share(session[s].pays[k], Ticket(s), Paid(s))
Tickets(W) == SumOver(ClosedIn(W), Ticket)
Declared(W, k) == OfKind(W, k) + SumOver(ClosedIn(W), LAMBDA s : Net(s, k))
Total(W)   == SumOver(Kinds, LAMBDA k : OfKind(W, k)) + Tickets(W) + Amount(Matches(W))

----------------------------------------------------------------------------
\* The other screens

\* Receipts and tips of the shift: what was paid, or else its orders as they were sent.
Receipt(s) ==
    LET left == IF Paid(s) > 0 \/ DOMAIN session[s].pays = {} THEN Paid(s)
                ELSE IF session[s].ticket # None /\ session[s].ticket + session[s].tip > 0 THEN session[s].ticket + session[s].tip ELSE Raw(s)
    IN  IF session[s].ticket # None /\ session[s].ticket > 0 THEN session[s].ticket
        ELSE IF left > session[s].tip THEN left - session[s].tip ELSE Raw(s)
ReceiptsOf(day) == {s \in With("closed") : CalendarDay(session[s].closed) = day}
TipsOf(k)       == SumOver(ClosedIn({k}), Receipt)

\* The monitor counts again what no ticket says.
Shown(s) == IF session[s].ticket # None THEN session[s].ticket
            ELSE IF session[s].sent = <<>> THEN 0 ELSE AtLeast0(Subtotal(s) - session[s].off)
ShownSent(s, n) == IF Raw(s) > 0 THEN Share(session[s].sent[n].amount, Shown(s), Raw(s)) ELSE session[s].sent[n].amount

----------------------------------------------------------------------------
\* What happens

Changes == changes < MaxChanges /\ changes' = changes + 1
SetSession(s, r) == session' = [session EXCEPT ![s] = r] /\ UNCHANGED <<now, sale, cut, hint, counted>>
SetSale(o, r)    == sale' = [sale EXCEPT ![o] = r] /\ UNCHANGED <<now, session, cut, hint, counted>>

Pass == /\ now + 1 \in Instants /\ now' = now + 1
        /\ UNCHANGED <<sale, session, cut, hint, counted, changes>>

Sell(o, w, a) ==
    /\ Changes /\ sale[o] = None
    /\ SetSale(o, [made |-> now, done |-> None, state |-> "open", fulfillment |-> w.fulfillment, web |-> w.web, pay |-> w.pay, amount |-> a])
Complete(o) == Changes /\ sale[o] # None /\ sale[o].state = "open" /\ SetSale(o, [sale[o] EXCEPT !.state = "done", !.done = now])
Cancel(o)   == Changes /\ sale[o] # None /\ sale[o].state = "open" /\ SetSale(o, [sale[o] EXCEPT !.state = "cancelled"])

OpenSession(s, promo) ==
    /\ Changes /\ session[s] = None
    /\ SetSession(s, [state |-> "open", closed |-> None, promo |-> promo, sent |-> <<>>, ticket |-> None, off |-> 0,
                      pays |-> <<>>, tip |-> 0, due |-> 0, touched |-> FALSE])
Send(s, a) ==
    /\ Changes /\ s \in With("open") /\ Len(session[s].sent) < 2
    /\ SetSession(s, [session[s] EXCEPT !.sent = Append(@, [made |-> now, amount |-> a])])
PrintTicket(s, off) ==
    /\ Changes /\ s \in With("open") /\ session[s].sent # <<>> /\ off <= Subtotal(s)
    /\ SetSession(s, [session[s] EXCEPT !.ticket = Subtotal(s) - off, !.off = off])

\* What was due and a tip are paid with one or two methods; nothing, with the first one.
Splits(total) == {[k \in {"CASH"} |-> total]}
                 \cup {[k \in {"CASH", "CARD"} |-> IF k = "CASH" THEN a ELSE total - a] : a \in 1..(total - 1)}
CloseSession(s, tip) ==
    /\ Changes /\ s \in With("open") /\ session[s].sent # <<>>
    /\ \E pays \in Splits(Due(s) + tip) :
         SetSession(s, [session[s] EXCEPT !.state = "closed", !.closed = now, !.pays = pays, !.tip = tip, !.due = Due(s)])
RemoveReceipt(s) == Changes /\ s \in With("closed") /\ SetSession(s, [session[s] EXCEPT !.state = "removed"])

\* The staff edits an order of a session, closed or not; the owner edits the promos.
EditSent(s) ==
    /\ Changes /\ s \in With("open") \cup With("closed") /\ session[s].sent # <<>>
    /\ SetSession(s, [session[s] EXCEPT !.sent[1].amount = @ + 1, !.touched = @ \/ session[s].state = "closed"])
EditPromos ==
    /\ Changes /\ cut' = 1 - cut
    /\ session' = [s \in Sessions |-> IF s \in With("closed") /\ session[s].promo THEN [session[s] EXCEPT !.touched = TRUE] ELSE session[s]]
    /\ UNCHANGED <<now, sale, hint, counted>>

\* closeEmptyOpenTableSessions, at every summary; a closing is filled in with it.
CountShift(k) ==
    /\ Changes /\ k <= ShiftOf(now) /\ counted[k] = None
    /\ LET W == Told(k, TRUE) IN counted' = [counted EXCEPT ![k] = [at |-> now, range |-> W, ids |-> Done(W) \cup ClosedIn(W)]]
    /\ session' = [s \in Sessions |-> IF s \in With("open") /\ session[s].sent = <<>>
                                      THEN [session[s] EXCEPT !.state = "closed", !.closed = now] ELSE session[s]]
    /\ UNCHANGED <<now, sale, cut, hint>>

Init ==
    /\ now = Min(Instants) /\ sale = [o \in Sales |-> None] /\ session = [s \in Sessions |-> None]
    /\ cut = 1 /\ hint \in Hints /\ counted = [k \in Shifts |-> None] /\ changes = 0

Next ==
    \/ Pass \/ EditPromos
    \/ \E o \in Sales : (\E w \in Ways, a \in Amounts : Sell(o, w, a)) \/ Complete(o) \/ Cancel(o)
    \/ \E s \in Sessions : \/ \E promo \in BOOLEAN : OpenSession(s, promo)
                           \/ EditSent(s) \/ \E a \in Amounts : Send(s, a)
                           \/ \E off \in {0} \cup Amounts : PrintTicket(s, off)
                           \/ \E tip \in {0, 1} : CloseSession(s, tip)
                           \/ RemoveReceipt(s)
    \/ \E k \in Shifts : CountShift(k)

Spec == Init /\ [][Next]_vars

----------------------------------------------------------------------------
(* Properties                                                                 *)

TypeOK ==
    /\ now \in Instants /\ cut \in {0, 1} /\ changes \in 0..MaxChanges
    /\ \A s \in Sessions : session[s] # None => session[s].state \in {"open", "closed", "removed"} /\ DOMAIN session[s].pays \subseteq Kinds

Windows == {{k} : k \in Shifts} \cup {DayOf(k) : k \in Shifts}

\* What a closing is told to declare, by method, is what was sold and what tables were to
\* pay: no order of the platform counts in two places, no tip is declared as a sale, and
\* cents are lost only by rounding, half a cent for each method of a table.
DeclaredAddsUp == \A W \in Windows :
    LET apart    == Amount(Matches(W))
        declared == SumOver(Kinds, LAMBDA k : Declared(W, k)) + apart
        methods  == SumOver(ClosedIn(W), LAMBDA s : Cardinality(DOMAIN session[s].pays))
        drift    == declared - Total(W)
    IN  /\ Total(W) = Amount(Done(W)) + SumOver(ClosedIn(W), LAMBDA s : session[s].due)
        /\ 2 * drift <= methods /\ -2 * drift <= methods
        /\ Buckets(W) + ByMethod(W, "CARD") = SumOver(Kinds, LAMBDA k : ByMethod(W, k))
        /\ \A k \in Kinds : ByMethod(W, k) = OfKind(W, k)

\* The receipts of all days, the tips of all shifts and the closings agree on every session
\* that had something to pay, whatever is edited later; the monitor does, unless it had no
\* ticket and its orders or promos were edited since.
ScreensAgree ==
    /\ \A s \in With("closed") :
         /\ session[s].due > 0 => Receipt(s) = Ticket(s)
         /\ session[s].ticket # None \/ ~session[s].touched => Shown(s) = Ticket(s)
    /\ (\A s \in With("closed") : session[s].due > 0) =>
         /\ SumOver({CalendarDay(i) : i \in Instants}, LAMBDA d : SumOver(ReceiptsOf(d), Receipt)) = SumOver(Shifts, TipsOf)
         /\ \A k \in Shifts : TipsOf(k) = Tickets({k})

\* In the monitor the orders of a session add up to what the session is charged, but for rounding.
OrdersAddUp == \A s \in With("open") \cup With("closed") :
    LET sent  == DOMAIN session[s].sent
        drift == SumOver(sent, LAMBDA n : ShownSent(s, n)) - Shown(s)
    IN  Raw(s) > 0 => 2 * drift <= Cardinality(sent) /\ -2 * drift <= Cardinality(sent)

\* A closing that found its own shift misses only what was completed, or closed, since then
\* or while it was made; and no sale is in two of them.
CountedOnce ==
    LET own == {k \in Shifts : counted[k] # None /\ counted[k].range = {k}} IN
    \A k \in own :
        /\ \A o \in Done({k}) \ counted[k].ids : sale[o].done >= counted[k].at
        /\ \A s \in ClosedIn({k}) \ counted[k].ids : session[s].closed >= counted[k].at
        /\ \A j \in own \ {k} : counted[j].ids \cap counted[k].ids = {}

TakingsTell == DeclaredAddsUp /\ ScreensAgree /\ OrdersAddUp /\ CountedOnce
=============================================================================
