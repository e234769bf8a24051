------------------------------- MODULE Tables -------------------------------
(***************************************************************************)
(* The tables of the salon: sessions opened by waiters and guests, the orders  *)
(* sent from them, the customer's ticket, the firing of main courses and the   *)
(* payment.  Most operations hold the row lock of the session on a connection  *)
(* of the pool, and need a second one meanwhile.  The guest's discard and the  *)
(* closing of empty tables at the end of the shift take no lock.               *)
(***************************************************************************)
EXTENDS Naturals, FiniteSets, FiniteSetsExt, Functions

CONSTANTS
    Requests,     \* requests running at once
    Together,     \* operations that may overlap
    Alone,        \* operations asked for when nothing else runs
    SalonTables,  \* the tables; None stands for the counter
    MaxSessions,  \* bound: rows of table_sessions
    MaxSent,      \* bound: orders sent
    MaxTorn,      \* bound: firings of an order that break off
    Prices,       \* what an order may add up to
    TicketFirst,  \* requireTicketBeforeClose
    Connections,  \* connections of the pool
    None

ASSUME TablesAssumption ==
    /\ MaxSessions \in Nat /\ MaxSent \in Nat /\ MaxTorn \in Nat /\ Prices \subseteq Nat
    /\ None \notin Requests \cup SalonTables \cup (1..MaxSessions)

VARIABLES
    session,      \* the table table_sessions
    sent,         \* the orders sent from the sessions
    held,         \* the row lock of each session
    doing         \* what each request does, where it is and what it read

tableVars == <<session, sent, held, doing>>

Sessions == 1..MaxSessions
Sent     == 1..MaxSent
Locking  == {"order", "fire", "line", "promo", "ticket", "close", "discard"}

\* `ticket' is ticketTotal, `off' the discount printed, `cut' what the promos of the
\* table take off; `late' is a ghost: something came after the ticket.
Session   == [state : {"none", "open", "closed", "deleted"}, table : SalonTables \cup {None},
              cut : {0, 1}, ticket : Nat \cup {None}, off : Nat, paid : Nat \cup {None}, late : BOOLEAN]
NoSession == [state |-> "none", table |-> None, cut |-> 0, ticket |-> None, off |-> 0, paid |-> None, late |-> FALSE]
\* Ghosts: `fires' counts how often the mains came out since the lines were written,
\* `torn' how many of those were of firings that broke off.
Order     == [session : Sessions \cup {None}, amount : Nat, fired : BOOLEAN, fires : Nat, torn : Nat]
NoOrder   == [session |-> None, amount |-> 0, fired |-> FALSE, fires |-> 0, torn |-> 0]
Idle      == [op |-> "none", step |-> "idle", id |-> None, table |-> None, rows |-> << >>]

Init ==
    /\ session = [s \in Sessions |-> NoSession] /\ sent = [o \in Sent |-> NoOrder]
    /\ held = [s \in Sessions |-> None] /\ doing = [p \in Requests |-> Idle]

Open(s)    == session[s].state = "open"
OpenAt(t)  == {s \in DOMAIN session : Open(s) /\ session[s].table = t /\ t # None}
SentTo(s)  == {o \in DOMAIN sent : sent[o].session = s}
\* resolveSessionPromo: what the orders of a session cost.
Bill(s)    == Max({0, SumFunction([o \in SentTo(s) |-> sent[o].amount]) - session[s].cut})
Unused(s)  == session[s].state = "none" /\ \A r \in Sessions : r < s => session[r].state # "none"
Busy       == Cardinality({p \in Requests : doing[p].step \notin {"idle", "begin"}})
Available  == Busy < Connections
MayAsk(p, op) ==
    /\ doing[p] = Idle /\ op \in Together \cup Alone
    /\ \A q \in Requests : doing[q] = Idle \/ (op \in Together /\ doing[q].op \in Together)
Become(p, r) == doing' = [doing EXCEPT ![p] = r]
Goto(p, step) == Become(p, [doing[p] EXCEPT !.step = step])
-----------------------------------------------------------------------------
(* Opening                                                                    *)

AskOpen(p, op, t) ==
    /\ op \in {"open", "openWithPromo"} /\ MayAsk(p, op)
    /\ Become(p, [Idle EXCEPT !.op = op, !.step = "begin", !.table = t])
    /\ UNCHANGED <<session, sent, held>>

\* SELECT ... FOR UPDATE of the open session of the table.  One that is there is
\* taken over (waiter, or guest if it has no order) or refused.
LookForOpen(p) ==
    /\ doing[p].step = "begin" /\ doing[p].op \in {"open", "openWithPromo"} /\ Available
    /\ \A s \in OpenAt(doing[p].table) : held[s] = None
    /\ IF OpenAt(doing[p].table) = {} THEN Goto(p, "insert") ELSE Become(p, Idle)
    /\ UNCHANGED <<session, sent, held>>

\* The unique index (shopId, openSalonTableId) refuses a second open session.
InsertsAlways(t) == TRUE
Inserts(t)       == OpenAt(t) = {}

InsertSession(p) ==
    /\ doing[p].step = "insert"
    /\ IF Inserts(doing[p].table)
         THEN \E s \in Sessions :
                LET row == [NoSession EXCEPT !.state = "open", !.table = doing[p].table] IN
                /\ Unused(s) /\ session' = [session EXCEPT ![s] = row]
                /\ IF doing[p].op = "openWithPromo"
                     THEN Become(p, [doing[p] EXCEPT !.step = "promo", !.id = s, !.rows = <<row>>])
                     ELSE Become(p, Idle)
         ELSE Become(p, Idle) /\ UNCHANGED session
    /\ UNCHANGED <<sent, held>>

\* finalizeOpenedSession saves the row as it was created, with the promos of the
\* hour; the unique index may refuse.
SaveAutoPromo(p) ==
    /\ doing[p].step = "promo"
    /\ LET s == doing[p].id IN
       /\ held[s] = None
       /\ session' = IF OpenAt(doing[p].table) \subseteq {s}
                       THEN [session EXCEPT ![s] = [doing[p].rows[1] EXCEPT !.cut = 1]] ELSE session
    /\ Become(p, Idle) /\ UNCHANGED <<sent, held>>

-----------------------------------------------------------------------------
(* Under the lock of the session                                              *)

Ask(p, op, s) ==
    /\ op \in Locking /\ MayAsk(p, op) /\ session[s].state # "none"
    /\ Become(p, [Idle EXCEPT !.op = op, !.step = "begin", !.id = s])
    /\ UNCHANGED <<session, sent, held>>

Connect(p) ==
    /\ doing[p].step = "begin" /\ doing[p].op \in Locking /\ Available
    /\ Goto(p, "lock") /\ UNCHANGED <<session, sent, held>>

\* What each operation demands of the session it has locked.
Accepts(op, s) ==
    CASE op = "discard" -> Open(s) /\ SentTo(s) = {}
      [] op = "ticket"  -> Open(s) /\ SentTo(s) # {}
      [] op = "line"    -> Open(s) /\ SentTo(s) # {}
      [] op = "fire"    -> Open(s) /\ \E o \in SentTo(s) : ~sent[o].fired
      [] op = "close"   -> Open(s) /\ (TicketFirst /\ SentTo(s) # {} => session[s].ticket # None)
      [] OTHER          -> Open(s)

KeepsLock(s) == held
Unlock(s)    == [held EXCEPT ![s] = None]

LockSession(p) ==
    /\ doing[p].step = "lock" /\ held[doing[p].id] = None
    /\ IF Accepts(doing[p].op, doing[p].id)
         THEN held' = [held EXCEPT ![doing[p].id] = p] /\ Goto(p, "work")
         ELSE Become(p, Idle) /\ UNCHANGED held
    /\ UNCHANGED <<session, sent>>

\* innodb_lock_wait_timeout.
LockTimeout(p) ==
    /\ doing[p].step = "lock" /\ held[doing[p].id] # None
    /\ Become(p, Idle) /\ UNCHANGED <<session, sent, held>>

\* The work is done and committed; some of it needs another connection.
Works(p, op) ==
    /\ doing[p].step = "work" /\ doing[p].op = op
    /\ op \in {"close", "promo", "discard"} \/ Available
Finish(p) == Become(p, Idle) /\ held' = Unlock(doing[p].id)

\* The request is refused for another reason, or dies: it leaves nothing.
Fail(p) ==
    /\ \/ Works(p, doing[p].op) /\ Finish(p)
       \/ doing[p].step = "insert" /\ Become(p, Idle) /\ UNCHANGED held
    /\ UNCHANGED <<session, sent>>

\* An order is sent.  A ticket that is out is not taken back.
SendOrder(p, a) ==
    /\ Works(p, "order")
    /\ \E o \in Sent :
        /\ sent[o].session = None /\ \A k \in Sent : k < o => sent[k].session # None
        /\ sent' = [sent EXCEPT ![o] = [session |-> doing[p].id, amount |-> a, fired |-> FALSE, fires |-> 0, torn |-> 0]]
    /\ session' = [session EXCEPT ![doing[p].id].late = @ \/ session[doing[p].id].ticket # None]
    /\ Finish(p)

\* The pending mains go to the kitchen, as jobs that are committed on a connection
\* of their own; later the orders are saved as they were read, marked, in the
\* transaction.  The lock of the orders is not taken.
Pending(s)   == {o \in SentTo(s) : ~sent[o].fired}
Printed(row) == [row EXCEPT !.fires = @ + 1]

FireMains(p) ==
    /\ Works(p, "fire")
    /\ LET os == Pending(doing[p].id) IN
       /\ sent' = [o \in Sent |-> IF o \in os THEN Printed(sent[o]) ELSE sent[o]]
       /\ Become(p, [doing[p] EXCEPT !.step = "saveFired", !.rows = [o \in os |-> sent[o].amount]])
    /\ UNCHANGED <<session, held>>

UnmarkedFired(o, p) == [sent[o] EXCEPT !.amount = doing[p].rows[o]]
MarkedFired(o, p)   == [sent[o] EXCEPT !.amount = doing[p].rows[o], !.fired = TRUE]

SaveFired(p) ==
    /\ doing[p].step = "saveFired"
    /\ sent' = [o \in Sent |-> IF o \in DOMAIN doing[p].rows /\ sent[o].session # None THEN MarkedFired(o, p) ELSE sent[o]]
    /\ Finish(p) /\ UNCHANGED session

\* The transaction of a firing is rolled back, or dies, after some or all of its
\* jobs were queued: the mains come out and nothing is marked.
Undone(row) == [row EXCEPT !.torn = row.fires]

BreakOff(p) ==
    /\ \/ /\ doing[p].step = "saveFired"
          /\ sent' = [o \in Sent |-> IF o \in DOMAIN doing[p].rows THEN Undone(sent[o]) ELSE sent[o]]
       \/ /\ Works(p, "fire")
          /\ \E os \in SUBSET Pending(doing[p].id) \ {{}} :
               sent' = [o \in Sent |-> IF o \in os THEN Undone(Printed(sent[o])) ELSE sent[o]]
    /\ \A o \in Sent : sent'[o].torn <= MaxTorn
    /\ Finish(p) /\ UNCHANGED session

\* A printed ticket is void once a line or a promo changes.
KeepsTicket(row) == row
VoidTicket(row)  == [row EXCEPT !.ticket = None, !.off = 0, !.late = FALSE]

\* A line changes or goes; an order without lines is deleted.
PatchLine(p, o, a) ==
    /\ Works(p, "line") /\ o \in SentTo(doing[p].id) /\ a # sent[o].amount
    /\ sent' = [sent EXCEPT ![o] = IF a = 0 THEN NoOrder ELSE [@ EXCEPT !.amount = a]]
    /\ session' = [session EXCEPT ![doing[p].id] = VoidTicket(@)]
    /\ Finish(p)

PatchPromo(p, c) ==
    /\ Works(p, "promo")
    /\ session' = [session EXCEPT ![doing[p].id] = [VoidTicket(@) EXCEPT !.cut = c]]
    /\ Finish(p) /\ UNCHANGED sent

PrintTicket(p, off) ==
    /\ Works(p, "ticket") /\ off <= Bill(doing[p].id)
    /\ session' = [session EXCEPT ![doing[p].id] =
         [@ EXCEPT !.ticket = Bill(doing[p].id) - off, !.off = off, !.late = FALSE]]
    /\ Finish(p) /\ UNCHANGED sent

Closed(row) == [row EXCEPT !.state = "closed"]

\* The payments must add up to the ticket, or to the bill if none is out.
CloseSession(p) ==
    /\ Works(p, "close")
    /\ LET s == doing[p].id
           due == IF session[s].ticket # None THEN session[s].ticket ELSE Bill(s) IN
       session' = [session EXCEPT ![s] = [Closed(@) EXCEPT !.paid = IF SentTo(s) = {} THEN None ELSE due]]
    /\ Finish(p) /\ UNCHANGED sent

DiscardSession(p) ==
    /\ Works(p, "discard")
    /\ session' = [session EXCEPT ![doing[p].id] = Closed(@)]
    /\ Finish(p) /\ UNCHANGED sent

-----------------------------------------------------------------------------
(* Without the lock                                                           *)

\* The guest's discardSession and closeEmptyOpenTableSessions read sessions that
\* are open and have no order, and save them closed later.
FindEmpty(p, op, ss) ==
    /\ op \in {"guestDiscard", "closeEmpty"} /\ MayAsk(p, op) /\ Available
    /\ ss = {s \in Sessions : Open(s) /\ SentTo(s) = {}} \/ (op = "guestDiscard" /\ Cardinality(ss) = 1)
    /\ ss # {} /\ \A s \in ss : Open(s) /\ SentTo(s) = {}
    /\ Become(p, [Idle EXCEPT !.op = op, !.step = "saveClosed", !.rows = [s \in ss |-> session[s]]])
    /\ UNCHANGED <<session, sent, held>>

SaveClosed(p) ==
    /\ doing[p].step = "saveClosed"
    /\ \A s \in DOMAIN doing[p].rows : held[s] = None
    /\ session' = [s \in Sessions |-> IF s \in DOMAIN doing[p].rows THEN Closed(doing[p].rows[s]) ELSE session[s]]
    /\ Become(p, Idle) /\ UNCHANGED <<sent, held>>

\* The staff edits an order under the lock of the order alone: whatever the
\* session; the new lines have no mark.
PatchOrder(p, o, a) ==
    /\ MayAsk(p, "patch") /\ sent[o].session # None /\ a > 0
    /\ sent' = [sent EXCEPT ![o] = [@ EXCEPT !.amount = a, !.fired = FALSE, !.fires = 0, !.torn = 0]]
    /\ session' = [session EXCEPT ![sent[o].session].late = @ \/ ~Open(sent[o].session) \/ session[sent[o].session].ticket # None]
    /\ UNCHANGED <<held, doing>>

\* removeStaffReceipt: a closed session and its orders.
RemoveReceipt(p, s) ==
    /\ MayAsk(p, "removeReceipt") /\ session[s].state = "closed"
    /\ session' = [session EXCEPT ![s].state = "deleted"]
    /\ sent' = [o \in Sent |-> IF sent[o].session = s THEN NoOrder ELSE sent[o]]
    /\ UNCHANGED <<held, doing>>

Step(p) ==
    \/ LookForOpen(p) \/ InsertSession(p) \/ SaveAutoPromo(p)
    \/ Connect(p) \/ LockSession(p) \/ Fail(p)
    \/ \E a \in Prices : SendOrder(p, a)
    \/ FireMains(p) \/ SaveFired(p) \/ BreakOff(p)
    \/ \E o \in Sent, a \in Prices \cup {0} : PatchLine(p, o, a)
    \/ \E c \in {0, 1} : PatchPromo(p, c)
    \/ \E off \in {0, 1} : PrintTicket(p, off)
    \/ CloseSession(p) \/ DiscardSession(p) \/ SaveClosed(p)

Next == \E p \in Requests :
    \/ Step(p) \/ LockTimeout(p)
    \/ \E op \in {"open", "openWithPromo"}, t \in SalonTables \cup {None} : AskOpen(p, op, t)
    \/ \E op \in Locking, s \in Sessions : Ask(p, op, s)
    \/ \E op \in {"guestDiscard", "closeEmpty"}, ss \in SUBSET Sessions : FindEmpty(p, op, ss)
    \/ \E o \in Sent, a \in Prices : PatchOrder(p, o, a)
    \/ \E s \in Sessions : RemoveReceipt(p, s)

Spec == Init /\ [][Next]_tableVars

\* A request that has begun is executed: locks and connections are given to those
\* that wait in the order they came.  Timeouts are not counted on.
Fairness == \A p \in Requests : SF_tableVars(Step(p))
-----------------------------------------------------------------------------
(* Properties                                                                 *)

\* A table has one open session, whoever opens it and however many at once.
OneOpenSessionPerTable == \A t \in SalonTables : Cardinality(OpenAt(t)) <= 1

\* What is due: the bill, less the discount of the ticket that is out.
Due(s) == IF session[s].ticket = None THEN Bill(s) ELSE Bill(s) - session[s].off

\* Whatever was sent from a table that is closed was paid, at the price the bill had:
\* nobody closes the table between an order and its payment, and a ticket that
\* changed is not charged.  (Except what came after the ticket: see `late'.)
BillIsPaid ==
    \A s \in DOMAIN session : session[s].state = "closed" /\ SentTo(s) # {} /\ ~session[s].late =>
        session[s].paid = Due(s)

\* The kitchen gets the main courses of an order once, and once more for each
\* firing that broke off after its jobs were queued: firings, sendings, editions and
\* payments that overlap never send them again.
MainsFiredOnce == \A o \in DOMAIN sent : sent[o].fires <= 1 + sent[o].torn

\* Nobody waits for ever for a lock or a connection.
RequestsEnd == \A p \in Requests : doing[p] # Idle ~> doing[p] = Idle
=============================================================================
