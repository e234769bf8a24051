---------------------------- MODULE TablesProofs ----------------------------
(***************************************************************************)
(* Tables for any number of requests, tables, sessions and orders: a table has *)
(* one open session, the mains of an order come out once, and what was sent is   *)
(* paid at its price.                                                           *)
(***************************************************************************)
EXTENDS Tables, FiniteSetTheorems, TLAPS

-----------------------------------------------------------------------------
(* The inductive invariant                                                    *)

Columns == {"state", "table", "cut", "ticket", "off", "paid", "late"}
\* A row of table_sessions; what its columns of money hold is not looked at.
Row(r) == /\ DOMAIN r = Columns
          /\ r.state \in {"none", "open", "closed", "deleted"}
          /\ r.table \in SalonTables \cup {None}

Steps == {"idle", "begin", "insert", "promo", "lock", "work", "saveFired", "saveClosed"}

\* What a request has read by the time it is at a step.
Remembers(r) ==
    /\ r.step \in {"lock", "work", "promo", "saveFired"} => r.id \in Sessions
    /\ r.step = "begin" /\ r.op \in Locking => r.id \in Sessions
    /\ r.step = "promo" => Row(r.rows[1]) /\ r.rows[1].state = "open" /\ r.rows[1].table = r.table
    /\ r.step = "saveFired"  => DOMAIN r.rows \subseteq Sent /\ \A o \in DOMAIN r.rows : r.rows[o] \in Nat
    /\ r.step = "saveClosed" => DOMAIN r.rows \subseteq Sessions /\ \A s \in DOMAIN r.rows : Row(r.rows[s])

\* The shape of the state.
Shape ==
    /\ DOMAIN session = Sessions /\ \A s \in Sessions : Row(session[s])
    /\ sent \in [Sent -> Order]
    /\ held \in [Sessions -> Requests \cup {None}]
    /\ DOMAIN doing = Requests
    /\ \A p \in Requests : /\ DOMAIN doing[p] = {"op", "step", "id", "table", "rows"}
                           /\ doing[p].step \in Steps /\ doing[p].table \in SalonTables \cup {None}
                           /\ Remembers(doing[p])

\* Who works on a session holds its lock, and a session that is locked is open:
\* those that take no lock leave it alone.
Inside(p) == doing[p].step \in {"work", "saveFired"}
LockIsHeld ==
    /\ \A p \in Requests : Inside(p) => held[doing[p].id] = p
    /\ \A s \in Sessions : held[s] # None => Inside(held[s]) /\ doing[held[s]].id = s /\ Open(s)

\* Two open sessions of one table are one.
OneOpen == \A r, s \in Sessions :
               Open(r) /\ Open(s) /\ session[r].table = session[s].table /\ session[r].table # None => r = s

\* An order whose mains came out is marked, or whoever fired them is about to; firings that
\* broke off do not count.
Marking(p, o) == doing[p].step = "saveFired" /\ o \in DOMAIN doing[p].rows /\ sent[o].session = doing[p].id
FiredOnce == \A o \in Sent :
                 /\ sent[o].fires <= 1 + sent[o].torn
                 /\ ~sent[o].fired /\ sent[o].fires # sent[o].torn => \E p \in Requests : Marking(p, o)

TablesInv == Shape /\ LockIsHeld /\ OneOpen /\ FiredOnce

-----------------------------------------------------------------------------
(* What steps have in common                                                  *)

\* What a request that does nothing remembers.
LEMMA IdleIsIdle ==
    /\ DOMAIN Idle = {"op", "step", "id", "table", "rows"}
    /\ Idle.step = "idle" /\ Idle.op = "none" /\ Idle.id = None /\ Idle.table = None
    /\ Remembers(Idle)
BY DEF Idle, Remembers, Locking

\* A step outside of any lock, of a request that does not get in.
LEMMA WithoutLock ==
    ASSUME TablesInv, NEW p \in Requests, ~Inside(p),
           NEW r, DOMAIN doing' = Requests, \A q \in Requests : doing'[q] = IF q = p THEN r ELSE doing[q],
           DOMAIN r = {"op", "step", "id", "table", "rows"},
           r.step \in Steps \ {"work", "saveFired"}, r.table \in SalonTables \cup {None}, Remembers(r),
           held' = held, DOMAIN session' = Sessions,
           \A s \in Sessions : Row(session'[s]) /\ (held[s] # None => session'[s].state = session[s].state),
           sent' \in [Sent -> Order]
    PROVE  Shape' /\ LockIsHeld'
<1>1. Shape'
  <2>1. ASSUME NEW q \in Requests
        PROVE  /\ DOMAIN doing'[q] = {"op", "step", "id", "table", "rows"}
               /\ doing'[q].step \in Steps /\ doing'[q].table \in SalonTables \cup {None}
               /\ Remembers(doing[q])'
    <3>1. CASE q = p
      BY <3>1 DEF Remembers, Row
    <3>2. CASE q # p
      BY <3>2 DEF TablesInv, Shape, Remembers, Row
    <3>. QED BY <3>1, <3>2
  <2>. QED BY <2>1 DEF TablesInv, Shape
<1>2. \A q \in Requests : Inside(q)' <=> Inside(q)
  BY DEF Inside, Steps
<1>3. LockIsHeld'
  BY <1>2, TablesAssumption DEF TablesInv, Shape, LockIsHeld, Open, Inside
<1>. QED BY <1>1, <1>3

\* A step of a request that is not inside, and does not get in, changes nothing else.
LEMMA OutsideStep ==
    ASSUME TablesInv, NEW p \in Requests, ~Inside(p),
           NEW r, doing' = [doing EXCEPT ![p] = r],
           DOMAIN r = {"op", "step", "id", "table", "rows"},
           r.step \in Steps \ {"work", "saveFired"}, r.table \in SalonTables \cup {None}, Remembers(r),
           UNCHANGED <<session, sent, held>>
    PROVE  TablesInv'
<1>1. \A q \in Requests : doing'[q] = IF q = p THEN r ELSE doing[q]
  BY DEF TablesInv, Shape
<1>2. Shape'
  BY <1>1 DEF TablesInv, Shape
<1>3. \A q \in Requests : Inside(q)' <=> Inside(q)
  BY <1>1 DEF Inside, Steps
<1>4. LockIsHeld'
  BY <1>1, <1>3, TablesAssumption DEF TablesInv, Shape, LockIsHeld, Open, Inside
<1>5. OneOpen'
  BY DEF TablesInv, OneOpen, Open
<1>6. \A q \in Requests, o \in Sent : Marking(q, o) => Marking(q, o)'
  BY <1>1 DEF Marking, Inside
<1>7. FiredOnce'
  BY <1>6 DEF TablesInv, FiredOnce
<1>. QED BY <1>2, <1>4, <1>5, <1>7 DEF TablesInv

\* A request that did its work lets the session go: it closes it or leaves it open.
LEMMA FinishedWork ==
    ASSUME TablesInv, NEW p \in Requests, Inside(p), Finish(p),
           DOMAIN session' = Sessions,
           \A s \in Sessions \ {doing[p].id} : session'[s] = session[s],
           Row(session'[doing[p].id]), session'[doing[p].id].state \in {"open", "closed"},
           session'[doing[p].id].table = session[doing[p].id].table,
           sent' \in [Sent -> Order]
    PROVE  Shape' /\ LockIsHeld' /\ OneOpen'
<1>. DEFINE i == doing[p].id
<1>1. i \in Sessions
  BY DEF TablesInv, Shape, Inside, Remembers
<1>2. held[i] = p /\ Open(i)
  BY <1>1, TablesAssumption DEF TablesInv, LockIsHeld
<1>3. doing' = [doing EXCEPT ![p] = Idle] /\ held' = [held EXCEPT ![i] = None]
  BY DEF Finish, Become, Unlock
<1>4. \A q \in Requests : doing'[q] = IF q = p THEN Idle ELSE doing[q]
  BY <1>3 DEF TablesInv, Shape
<1>5. \A s \in Sessions : held'[s] = IF s = i THEN None ELSE held[s]
  BY <1>3 DEF TablesInv, Shape
<1>6. Shape'
  <2>1. \A s \in Sessions : Row(session'[s])
    BY DEF TablesInv, Shape
  <2>2. held' \in [Sessions -> Requests \cup {None}]
    BY <1>3 DEF TablesInv, Shape
  <2>3. DOMAIN doing' = Requests
    BY <1>3 DEF TablesInv, Shape
  <2>4. ASSUME NEW q \in Requests
        PROVE  /\ DOMAIN doing'[q] = {"op", "step", "id", "table", "rows"}
               /\ doing'[q].step \in Steps /\ doing'[q].table \in SalonTables \cup {None}
               /\ Remembers(doing[q])'
    <3>1. CASE q = p
      BY <3>1, <1>4, IdleIsIdle DEF Steps, Remembers, Row
    <3>2. CASE q # p
      BY <3>2, <1>4 DEF TablesInv, Shape, Remembers, Row
    <3>. QED BY <3>1, <3>2
  <2>. QED BY <2>1, <2>2, <2>3, <2>4 DEF Shape
<1>7. LockIsHeld'
  <2>1. ASSUME NEW q \in Requests, Inside(q)' PROVE held'[doing'[q].id] = q
    BY <2>1, <1>1, <1>2, <1>4, <1>5, IdleIsIdle DEF TablesInv, LockIsHeld, Inside, Shape, Remembers
  <2>2. ASSUME NEW s \in Sessions, held'[s] # None
        PROVE  Inside(held[s])' /\ doing'[held'[s]].id = s /\ Open(s)'
    <3>1. s # i /\ held'[s] = held[s] /\ held[s] \in Requests
      BY <2>2, <1>5 DEF TablesInv, Shape
    <3>2. Inside(held[s]) /\ doing[held[s]].id = s /\ Open(s)
      BY <2>2, <3>1 DEF TablesInv, LockIsHeld
    <3>3. held[s] # p
      BY <3>1, <3>2
    <3>. QED BY <3>1, <3>2, <3>3, <1>4 DEF Inside, Open
  <2>. QED BY <2>1, <2>2 DEF LockIsHeld
<1>8. OneOpen'
  <2>1. \A s \in Sessions : Open(s)' => Open(s) /\ session'[s].table = session[s].table
    BY <1>2 DEF Open
  <2>. QED BY <2>1 DEF TablesInv, OneOpen
<1>. QED BY <1>6, <1>7, <1>8

\* Such a step keeps what is known of the mains of orders that it leaves, marks or unmarks.
LEMMA MarksStand ==
    ASSUME TablesInv, NEW p \in Requests, doing[p].step # "saveFired",
           NEW r, doing' = [doing EXCEPT ![p] = r],
           sent' \in [Sent -> Order],
           \A o \in Sent : \/ sent'[o].fires = sent'[o].torn
                           \/ /\ sent'[o].fires = sent[o].fires /\ sent'[o].torn = sent[o].torn
                              /\ sent'[o].fired = sent[o].fired /\ sent'[o].session = sent[o].session
    PROVE  FiredOnce'
<1>1. \A q \in Requests \ {p} : doing'[q] = doing[q]
  BY DEF TablesInv, Shape
<1>2. \A q \in Requests, o \in Sent : Marking(q, o) /\ sent'[o].session = sent[o].session => Marking(q, o)'
  BY <1>1 DEF Marking
<1>3. \A o \in Sent : sent'[o].torn \in Nat
  BY DEF Order
<1>. QED BY <1>2, <1>3 DEF TablesInv, FiredOnce

\* A firing that breaks off lets the session go; the mains that came out are counted as torn.
LEMMA BrokenOff ==
    ASSUME TablesInv, NEW p \in Requests, BreakOff(p)
    PROVE  /\ Inside(p) /\ Finish(p) /\ session' = session /\ sent' \in [Sent -> Order]
           /\ \A o \in Sent :
                /\ sent'[o].session = sent[o].session /\ sent'[o].amount = sent[o].amount
                /\ sent'[o].fired = sent[o].fired
                /\ \/ sent'[o].fires = sent'[o].torn
                   \/ sent'[o] = sent[o] /\ ~Marking(p, o)
<1>1. Inside(p) /\ Finish(p) /\ session' = session
  BY DEF BreakOff, Works, Inside
<1>2. PICK os : /\ sent' = [o \in Sent |-> IF o \in os THEN sent'[o] ELSE sent[o]]
                /\ \A o \in os \cap Sent : \/ sent'[o] = Undone(sent[o])
                                          \/ sent'[o] = Undone(Printed(sent[o]))
                /\ \A o \in Sent \ os : ~Marking(p, o)
  <2>1. CASE doing[p].step = "saveFired" /\ sent' = [o \in Sent |-> IF o \in DOMAIN doing[p].rows THEN Undone(sent[o]) ELSE sent[o]]
    BY <2>1 DEF Marking
  <2>2. ASSUME NEW os, doing[p].step = "work",
               sent' = [o \in Sent |-> IF o \in os THEN Undone(Printed(sent[o])) ELSE sent[o]]
        PROVE  /\ sent' = [o \in Sent |-> IF o \in os THEN sent'[o] ELSE sent[o]]
               /\ \A o \in os \cap Sent : \/ sent'[o] = Undone(sent[o])
                                         \/ sent'[o] = Undone(Printed(sent[o]))
               /\ \A o \in Sent \ os : ~Marking(p, o)
    BY <2>2 DEF Marking
  <2>. QED BY <2>1, <2>2 DEF BreakOff, Works
<1>3. ASSUME NEW o \in Sent
      PROVE  /\ sent'[o] \in Order
             /\ sent'[o].session = sent[o].session /\ sent'[o].amount = sent[o].amount
             /\ sent'[o].fired = sent[o].fired
             /\ \/ sent'[o].fires = sent'[o].torn
                \/ sent'[o] = sent[o] /\ ~Marking(p, o)
  <2>1. sent[o] \in Order
    BY DEF TablesInv, Shape
  <2>2. CASE o \notin os
    <3>1. sent'[o] = sent[o] /\ ~Marking(p, o)
      BY <1>2, <2>2
    <3>. QED BY <2>1, <3>1
  <2>3. CASE o \in os /\ sent'[o] = Undone(sent[o])
    BY <2>1, <2>3 DEF Undone, Order
  <2>4. CASE o \in os /\ sent'[o] = Undone(Printed(sent[o]))
    <3>1. sent'[o] = [sent[o] EXCEPT !.fires = sent[o].fires + 1, !.torn = sent[o].fires + 1]
      BY <2>1, <2>4 DEF Undone, Printed, Order
    <3>2. PICK n \in Nat : n = sent[o].fires + 1
      BY <2>1 DEF Order
    <3>3. sent'[o] = [sent[o] EXCEPT !.fires = n, !.torn = n]
      BY <3>1, <3>2
    <3>. QED BY <2>1, <3>3 DEF Order
  <2>5. o \in os => sent'[o] = Undone(sent[o]) \/ sent'[o] = Undone(Printed(sent[o]))
    BY <1>2
  <2>. QED BY <2>2, <2>3, <2>4, <2>5
<1>4. sent' = [o \in Sent |-> sent'[o]]
  BY <1>2
<1>5. sent' \in [Sent -> Order]
  BY <1>3, <1>4
<1>. QED BY <1>1, <1>3, <1>5

\* A request that wrote the row of its session and no order.
LEMMA WorkOnRow ==
    ASSUME TablesInv, NEW p \in Requests, Inside(p), doing[p].step # "saveFired", Finish(p), sent' = sent,
           DOMAIN session' = Sessions,
           \A s \in Sessions \ {doing[p].id} : session'[s] = session[s],
           Row(session'[doing[p].id]), session'[doing[p].id].state \in {"open", "closed"},
           session'[doing[p].id].table = session[doing[p].id].table
    PROVE  TablesInv'
<1>1. Shape' /\ LockIsHeld' /\ OneOpen'
  BY FinishedWork DEF TablesInv, Shape
<1>2. FiredOnce'
  BY MarksStand DEF TablesInv, Shape, Finish, Become
<1>. QED BY <1>1, <1>2 DEF TablesInv

-----------------------------------------------------------------------------
(* Every step                                                                 *)

\* Every step keeps the invariant: locks, open tables, rows that requests have read, and marks.
THEOREM TablesStep == TablesInv /\ [Next]_tableVars => TablesInv'
<1>. SUFFICES ASSUME TablesInv, [Next]_tableVars PROVE TablesInv'
  OBVIOUS
<1>. USE IdleIsIdle
<1>0. CASE UNCHANGED tableVars
  <2>1. Shape' /\ LockIsHeld'
    BY <1>0 DEF tableVars, TablesInv, Shape, LockIsHeld, Inside, Open
  <2>2. OneOpen' /\ FiredOnce'
    BY <1>0 DEF tableVars, TablesInv, OneOpen, Open, FiredOnce, Marking
  <2>. QED BY <2>1, <2>2 DEF TablesInv
<1>1. ASSUME NEW p \in Requests, Next, LockTimeout(p) PROVE TablesInv'
  <2>1. ~Inside(p)
    BY <1>1 DEF LockTimeout, Inside
  <2>. QED BY <1>1, <2>1, OutsideStep DEF LockTimeout, Become, Idle, Steps
<1>2. ASSUME NEW p \in Requests, NEW op \in {"open", "openWithPromo"}, NEW t \in SalonTables \cup {None}, AskOpen(p, op, t)
      PROVE  TablesInv'
  <2>1. ~Inside(p)
    BY <1>2 DEF AskOpen, MayAsk, Inside
  <2>2. Remembers([Idle EXCEPT !.op = op, !.step = "begin", !.table = t])
    BY DEF Remembers, Idle, Locking
  <2>. QED BY <1>2, <2>1, <2>2, OutsideStep DEF AskOpen, Become, Idle, Steps
<1>3. ASSUME NEW p \in Requests, NEW op \in Locking, NEW s \in Sessions, Ask(p, op, s) PROVE TablesInv'
  <2>1. ~Inside(p)
    BY <1>3 DEF Ask, MayAsk, Inside
  <2>2. Remembers([Idle EXCEPT !.op = op, !.step = "begin", !.id = s])
    BY DEF Remembers, Idle
  <2>. QED BY <1>3, <2>1, <2>2, OutsideStep DEF Ask, Become, Idle, Steps
<1>4. ASSUME NEW p \in Requests, NEW op \in {"guestDiscard", "closeEmpty"}, NEW ss \in SUBSET Sessions, FindEmpty(p, op, ss)
      PROVE  TablesInv'
  <2>. DEFINE r == [Idle EXCEPT !.op = op, !.step = "saveClosed", !.rows = [s \in ss |-> session[s]]]
  <2>1. ~Inside(p)
    BY <1>4 DEF FindEmpty, MayAsk, Inside
  <2>2. Remembers(r)
    BY DEF Remembers, Idle, TablesInv, Shape
  <2>3. DOMAIN r = {"op", "step", "id", "table", "rows"} /\ r.step = "saveClosed" /\ r.table = None
    BY DEF Idle
  <2>4. doing' = [doing EXCEPT ![p] = r] /\ UNCHANGED <<session, sent, held>>
    BY <1>4 DEF FindEmpty, Become
  <2>. HIDE DEF r
  <2>. QED BY <2>1, <2>2, <2>3, <2>4, OutsideStep DEF Steps
<1>5. ASSUME NEW p \in Requests, NEW o \in Sent, NEW a \in Prices, PatchOrder(p, o, a) PROVE TablesInv'
  <2>. DEFINE i == sent[o].session
  <2>1. doing[p] = Idle /\ ~Inside(p) /\ i \in Sessions
    BY <1>5, TablesAssumption DEF PatchOrder, MayAsk, Inside, TablesInv, Shape, Order
  <2>2. UNCHANGED <<held, doing>> /\ session' = [session EXCEPT ![i].late = session'[i].late]
    BY ZenonT(40), <1>5, <2>1 DEF PatchOrder, TablesInv, Shape
  <2>3. /\ DOMAIN session' = Sessions
        /\ \A s \in Sessions : Row(session'[s]) /\ session'[s].state = session[s].state /\ session'[s].table = session[s].table
    BY <2>1, <2>2 DEF TablesInv, Shape, Row, Columns
  <2>4. /\ sent' \in [Sent -> Order]
        /\ \A x \in Sent : sent'[x] = IF x = o THEN [sent[o] EXCEPT !.amount = a, !.fired = FALSE, !.fires = 0, !.torn = 0] ELSE sent[x]
    BY ZenonT(40), <1>5, TablesAssumption DEF PatchOrder, TablesInv, Shape, Order
  <2>5. Shape' /\ LockIsHeld'
    BY <2>1, <2>2, <2>3, <2>4, WithoutLock DEF TablesInv, Shape, Steps
  <2>6. OneOpen'
    BY <2>3 DEF TablesInv, OneOpen, Open
  <2>7. FiredOnce'
    <3>1. \A x \in Sent : /\ sent'[x].session = sent[x].session
                          /\ \/ sent'[x].fires = 0 /\ sent'[x].torn = 0
                             \/ sent'[x] = sent[x]
      <4>1. ASSUME NEW x \in Sent PROVE x # o => sent'[x] = sent[x]
        BY <2>4
      <4>2. sent[o] \in Order
        BY DEF TablesInv, Shape
      <4>3. sent'[o] = [sent[o] EXCEPT !.amount = a, !.fired = FALSE, !.fires = 0, !.torn = 0]
        BY <2>4
      <4>4. sent'[o].session = sent[o].session /\ sent'[o].fires = 0 /\ sent'[o].torn = 0
        BY <4>2, <4>3 DEF Order
      <4>. QED BY <4>1, <4>4
    <3>2. \A q \in Requests, x \in Sent : Marking(q, x) => Marking(q, x)'
      BY <2>2, <3>1 DEF Marking
    <3>. QED BY <3>1, <3>2 DEF TablesInv, FiredOnce
  <2>. QED BY <2>5, <2>6, <2>7 DEF TablesInv
<1>6. ASSUME NEW p \in Requests, NEW i \in Sessions, RemoveReceipt(p, i) PROVE TablesInv'
  <2>1. doing[p] = Idle /\ ~Inside(p) /\ session[i].state = "closed" /\ UNCHANGED <<held, doing>>
    BY <1>6 DEF RemoveReceipt, MayAsk, Inside
  <2>2. /\ DOMAIN session' = Sessions
        /\ \A s \in Sessions : Row(session'[s]) /\ (s # i => session'[s] = session[s]) /\ session'[i].state = "deleted"
    BY <1>6 DEF RemoveReceipt, TablesInv, Shape, Row, Columns
  <2>3. /\ sent' \in [Sent -> Order]
        /\ \A x \in Sent : sent'[x] = IF sent[x].session = i THEN NoOrder ELSE sent[x]
    BY <1>6 DEF RemoveReceipt, TablesInv, Shape, Order, NoOrder
  <2>4. held[i] = None
    BY <2>1 DEF TablesInv, LockIsHeld, Open
  <2>5. Shape' /\ LockIsHeld'
    BY <2>1, <2>2, <2>3, <2>4, WithoutLock DEF TablesInv, Shape, Steps
  <2>6. OneOpen'
    BY <2>2 DEF TablesInv, OneOpen, Open
  <2>7. FiredOnce'
    BY <2>1, <2>3 DEF TablesInv, FiredOnce, Marking, Shape, Order, NoOrder
  <2>. QED BY <2>5, <2>6, <2>7 DEF TablesInv
<1>7. ASSUME NEW p \in Requests, LookForOpen(p) PROVE TablesInv'
  <2>1. ~Inside(p) /\ UNCHANGED <<session, sent, held>>
    BY <1>7 DEF LookForOpen, Inside
  <2>2. CASE Goto(p, "insert")
    <3>1. Remembers([doing[p] EXCEPT !.step = "insert"])
      BY DEF Remembers, TablesInv, Shape
    <3>. QED BY <2>1, <2>2, <3>1, OutsideStep DEF Goto, Become, TablesInv, Shape, Steps
  <2>3. CASE Become(p, Idle)
    BY <2>1, <2>3, OutsideStep DEF Become, Steps
  <2>. QED BY <1>7, <2>2, <2>3 DEF LookForOpen
<1>8. ASSUME NEW p \in Requests, InsertSession(p) PROVE TablesInv'
  <2>. DEFINE t == doing[p].table
  <2>1. ~Inside(p) /\ t \in SalonTables \cup {None} /\ UNCHANGED <<sent, held>>
    BY <1>8 DEF InsertSession, Inside, TablesInv, Shape
  <2>2. CASE ~Inserts(t)
    BY <1>8, <2>1, <2>2, OutsideStep DEF InsertSession, Become, Steps
  <2>3. CASE Inserts(t)
    <3>. DEFINE row == [NoSession EXCEPT !.state = "open", !.table = t]
    <3>1. PICK s \in Sessions : /\ Unused(s) /\ session' = [session EXCEPT ![s] = row]
                                /\ \/ Become(p, [doing[p] EXCEPT !.step = "promo", !.id = s, !.rows = <<row>>])
                                   \/ Become(p, Idle)
      BY <1>8, <2>3 DEF InsertSession
    <3>2. Row(row) /\ row.state = "open" /\ row.table = t
      BY <2>1 DEF Row, Columns, NoSession
    <3>. HIDE DEF row
    <3>3. held[s] = None
      BY <3>1 DEF Unused, TablesInv, LockIsHeld, Open
    <3>4. /\ DOMAIN session' = Sessions
          /\ \A x \in Sessions : session'[x] = IF x = s THEN row ELSE session[x]
      BY <3>1 DEF TablesInv, Shape
    <3>5. PICK r : /\ doing' = [doing EXCEPT ![p] = r]
                   /\ r = [doing[p] EXCEPT !.step = "promo", !.id = s, !.rows = <<row>>] \/ r = Idle
      BY <3>1 DEF Become
    <3>6. /\ DOMAIN r = {"op", "step", "id", "table", "rows"}
          /\ r.step \in Steps \ {"work", "saveFired"} /\ r.table \in SalonTables \cup {None} /\ Remembers(r)
      <4>1. CASE r = Idle
        BY <4>1 DEF Steps
      <4>2. CASE r = [doing[p] EXCEPT !.step = "promo", !.id = s, !.rows = <<row>>]
        <5>1. /\ DOMAIN r = {"op", "step", "id", "table", "rows"}
              /\ r.step = "promo" /\ r.id = s /\ r.table = t /\ r.rows = <<row>>
          BY <4>2 DEF TablesInv, Shape
        <5>2. r.rows[1] = row
          BY <5>1
        <5>. QED BY <5>1, <5>2, <3>2, <2>1 DEF Steps, Remembers
      <4>. QED BY <3>5, <4>1, <4>2
    <3>7. Shape' /\ LockIsHeld'
      BY <2>1, <3>2, <3>3, <3>4, <3>5, <3>6, WithoutLock DEF TablesInv, Shape
    <3>8. OneOpen'
      BY <2>3, <3>2, <3>4 DEF Inserts, OpenAt, TablesInv, Shape, OneOpen, Open
    <3>9. FiredOnce'
      BY <2>1, <3>5, <3>6, MarksStand DEF TablesInv, Shape, Inside
    <3>. QED BY <3>7, <3>8, <3>9 DEF TablesInv
  <2>. QED BY <2>2, <2>3
<1>9. ASSUME NEW p \in Requests, SaveAutoPromo(p) PROVE TablesInv'
  <2>. DEFINE i == doing[p].id
              t == doing[p].table
              row == [doing[p].rows[1] EXCEPT !.cut = 1]
  <2>1. /\ ~Inside(p) /\ i \in Sessions /\ held[i] = None /\ UNCHANGED <<sent, held>>
        /\ doing' = [doing EXCEPT ![p] = Idle]
    BY <1>9 DEF SaveAutoPromo, Inside, TablesInv, Shape, Remembers, Become
  <2>2. CASE ~(OpenAt(t) \subseteq {i})
    BY <1>9, <2>1, <2>2, OutsideStep DEF SaveAutoPromo, Steps
  <2>3. CASE OpenAt(t) \subseteq {i}
    <3>1. Row(row) /\ row.state = "open" /\ row.table = t
      BY <1>9 DEF SaveAutoPromo, TablesInv, Shape, Remembers, Row, Columns
    <3>. HIDE DEF row
    <3>2. /\ DOMAIN session' = Sessions
          /\ \A x \in Sessions : session'[x] = IF x = i THEN row ELSE session[x]
      BY <1>9, <2>1, <2>3 DEF SaveAutoPromo, TablesInv, Shape, row
    <3>3. Shape' /\ LockIsHeld'
      BY <2>1, <3>1, <3>2, WithoutLock DEF TablesInv, Shape, Steps
    <3>4. OneOpen'
      BY <2>3, <3>1, <3>2 DEF OpenAt, TablesInv, Shape, OneOpen, Open
    <3>5. FiredOnce'
      BY <2>1, MarksStand DEF TablesInv, Shape, Inside
    <3>. QED BY <3>3, <3>4, <3>5 DEF TablesInv
  <2>. QED BY <2>2, <2>3
<1>10. ASSUME NEW p \in Requests, Connect(p) PROVE TablesInv'
  <2>1. ~Inside(p) /\ doing[p].id \in Sessions
    BY <1>10 DEF Connect, Inside, TablesInv, Shape, Remembers
  <2>2. Remembers([doing[p] EXCEPT !.step = "lock"])
    BY <2>1 DEF Remembers, TablesInv, Shape
  <2>. QED BY <1>10, <2>1, <2>2, OutsideStep DEF Connect, Goto, Become, TablesInv, Shape, Steps
<1>11. ASSUME NEW p \in Requests, LockSession(p) PROVE TablesInv'
  <2>. DEFINE i == doing[p].id
  <2>1. doing[p].step = "lock" /\ ~Inside(p) /\ i \in Sessions /\ held[i] = None /\ UNCHANGED <<session, sent>>
    BY <1>11 DEF LockSession, Inside, TablesInv, Shape, Remembers
  <2>2. CASE Become(p, Idle) /\ UNCHANGED held
    BY <2>1, <2>2, OutsideStep DEF Become, Steps
  <2>3. CASE Accepts(doing[p].op, i) /\ held' = [held EXCEPT ![i] = p] /\ Goto(p, "work")
    <3>. DEFINE r == [doing[p] EXCEPT !.step = "work"]
    <3>1. Open(i)
      BY <2>3 DEF Accepts
    <3>2. doing' = [doing EXCEPT ![p] = r]
      BY <2>3 DEF Goto, Become
    <3>3. /\ DOMAIN r = {"op", "step", "id", "table", "rows"}
          /\ r.step = "work" /\ r.id = i /\ r.table = doing[p].table /\ Remembers(r)
      BY <2>1 DEF TablesInv, Shape, Remembers
    <3>. HIDE DEF r
    <3>4. /\ DOMAIN doing' = Requests
          /\ \A q \in Requests : doing'[q] = IF q = p THEN r ELSE doing[q]
      BY <3>2 DEF TablesInv, Shape
    <3>5. Shape'
      <4>1. held' \in [Sessions -> Requests \cup {None}]
        BY <2>1, <2>3 DEF TablesInv, Shape
      <4>2. ASSUME NEW q \in Requests
            PROVE  /\ DOMAIN doing'[q] = {"op", "step", "id", "table", "rows"}
                   /\ doing'[q].step \in Steps /\ doing'[q].table \in SalonTables \cup {None}
                   /\ Remembers(doing[q])'
        <5>1. CASE q = p
          BY <5>1, <3>3, <3>4 DEF TablesInv, Shape, Remembers, Row, Steps
        <5>2. CASE q # p
          BY <5>2, <3>4 DEF TablesInv, Shape, Remembers, Row
        <5>. QED BY <5>1, <5>2
      <4>. QED BY <2>1, <3>4, <4>1, <4>2 DEF TablesInv, Shape
    <3>6. \A s \in Sessions : held'[s] = IF s = i THEN p ELSE held[s]
      BY <2>1, <2>3 DEF TablesInv, Shape
    <3>7. LockIsHeld'
      <4>1. ASSUME NEW q \in Requests, Inside(q)' PROVE held'[doing'[q].id] = q
        <5>1. CASE q = p
          BY <5>1, <2>1, <3>3, <3>4, <3>6
        <5>2. CASE q # p
          <6>1. doing'[q] = doing[q] /\ Inside(q) /\ doing[q].id \in Sessions
            BY <4>1, <5>2, <3>4 DEF Inside, TablesInv, Shape, Remembers
          <6>2. held[doing[q].id] = q /\ doing[q].id # i
            BY <6>1, <2>1, TablesAssumption DEF TablesInv, LockIsHeld
          <6>. QED BY <6>1, <6>2, <3>6
        <5>. QED BY <5>1, <5>2
      <4>2. ASSUME NEW s \in Sessions, held'[s] # None
            PROVE  Inside(held[s])' /\ doing'[held'[s]].id = s /\ Open(s)'
        <5>1. CASE s = i
          BY <5>1, <2>1, <3>1, <3>3, <3>4, <3>6 DEF Inside, Open
        <5>2. CASE s # i
          <6>1. held'[s] = held[s] /\ held[s] \in Requests
            BY <4>2, <5>2, <3>6 DEF TablesInv, Shape
          <6>2. Inside(held[s]) /\ doing[held[s]].id = s /\ Open(s) /\ held[s] # p
            BY <4>2, <6>1, <2>1 DEF TablesInv, LockIsHeld
          <6>. QED BY <6>1, <6>2, <2>1, <3>4 DEF Inside, Open
        <5>. QED BY <5>1, <5>2
      <4>. QED BY <4>1, <4>2 DEF LockIsHeld
    <3>8. OneOpen'
      BY <2>1 DEF TablesInv, OneOpen, Open
    <3>9. FiredOnce'
      BY <2>1, <3>2, MarksStand DEF TablesInv, Shape
    <3>. QED BY <3>5, <3>7, <3>8, <3>9 DEF TablesInv
  <2>. QED BY <1>11, <2>1, <2>2, <2>3 DEF LockSession
<1>12. ASSUME NEW p \in Requests, Fail(p) PROVE TablesInv'
  <2>1. UNCHANGED <<session, sent>>
    BY <1>12 DEF Fail
  <2>2. CASE Works(p, doing[p].op) /\ Finish(p)
    <3>1. Inside(p) /\ doing[p].step # "saveFired"
      BY <2>2 DEF Works, Inside
    <3>2. doing[p].id \in Sessions /\ Open(doing[p].id)
      BY <3>1, TablesAssumption DEF TablesInv, Shape, LockIsHeld, Inside, Remembers
    <3>3. Shape' /\ LockIsHeld' /\ OneOpen'
      BY <2>1, <2>2, <3>1, <3>2, FinishedWork DEF TablesInv, Shape, Open
    <3>4. FiredOnce'
      BY <2>1, <2>2, <3>1, MarksStand DEF TablesInv, Shape, Finish, Become
    <3>. QED BY <3>3, <3>4 DEF TablesInv
  <2>3. CASE doing[p].step = "insert" /\ Become(p, Idle) /\ UNCHANGED held
    BY <2>1, <2>3, OutsideStep DEF Become, Inside, Steps
  <2>. QED BY <1>12, <2>2, <2>3 DEF Fail
<1>13. ASSUME NEW p \in Requests, NEW a \in Prices, SendOrder(p, a) PROVE TablesInv'
  <2>. DEFINE i == doing[p].id
  <2>1. Inside(p) /\ doing[p].step # "saveFired" /\ Finish(p) /\ doing' = [doing EXCEPT ![p] = Idle]
    BY <1>13 DEF SendOrder, Works, Inside, Finish, Become
  <2>2. i \in Sessions /\ Open(i)
    BY <2>1, TablesAssumption DEF TablesInv, Shape, LockIsHeld, Inside, Remembers
  <2>3. PICK o \in Sent : sent' = [sent EXCEPT ![o] = [session |-> i, amount |-> a, fired |-> FALSE, fires |-> 0, torn |-> 0]]
    BY <1>13 DEF SendOrder
  <2>4. sent' \in [Sent -> Order]
    BY <2>2, <2>3, TablesAssumption DEF TablesInv, Shape, Order
  <2>5. PICK late : session' = [session EXCEPT ![i].late = late]
    BY <1>13 DEF SendOrder
  <2>6. /\ DOMAIN session' = Sessions
        /\ \A s \in Sessions \ {i} : session'[s] = session[s]
        /\ Row(session'[i]) /\ session'[i].state = session[i].state /\ session'[i].table = session[i].table
    BY <2>2, <2>5 DEF TablesInv, Shape, Row, Columns
  <2>7. Shape' /\ LockIsHeld' /\ OneOpen'
    BY <2>1, <2>2, <2>4, <2>6, FinishedWork DEF Open
  <2>8. FiredOnce'
    BY <2>1, <2>3, <2>4, MarksStand DEF TablesInv, Shape
  <2>. QED BY <2>7, <2>8 DEF TablesInv
<1>14. ASSUME NEW p \in Requests, NEW o \in Sent, NEW a \in Prices \cup {0}, PatchLine(p, o, a) PROVE TablesInv'
  <2>. DEFINE i == doing[p].id
  <2>1. Inside(p) /\ doing[p].step # "saveFired" /\ Finish(p) /\ doing' = [doing EXCEPT ![p] = Idle]
    BY <1>14 DEF PatchLine, Works, Inside, Finish, Become
  <2>2. i \in Sessions /\ Open(i)
    BY <2>1, TablesAssumption DEF TablesInv, Shape, LockIsHeld, Inside, Remembers
  <2>3. /\ sent' \in [Sent -> Order]
        /\ \A x \in Sent : \/ sent'[x].fires = sent'[x].torn
                           \/ /\ sent'[x].fires = sent[x].fires /\ sent'[x].torn = sent[x].torn
                              /\ sent'[x].fired = sent[x].fired /\ sent'[x].session = sent[x].session
    <3>1. CASE a = 0
      BY <1>14, <3>1 DEF PatchLine, TablesInv, Shape, Order, NoOrder
    <3>2. CASE a # 0
      BY <1>14, <3>2, TablesAssumption DEF PatchLine, TablesInv, Shape, Order
    <3>. QED BY <3>1, <3>2
  <2>4. /\ DOMAIN session' = Sessions
        /\ \A s \in Sessions \ {i} : session'[s] = session[s]
        /\ Row(session'[i]) /\ session'[i].state = session[i].state /\ session'[i].table = session[i].table
    <3>1. session' = [session EXCEPT ![i] = VoidTicket(session[i])]
      BY <1>14 DEF PatchLine
    <3>2. Row(session[i]) /\ session[i].state = "open" /\ DOMAIN session = Sessions
      BY <2>2 DEF TablesInv, Shape, Open
    <3>. DEFINE row == VoidTicket(session[i])
    <3>3. Row(row) /\ row.state = "open" /\ row.table = session[i].table
      BY <3>2 DEF VoidTicket, Closed, Row, Columns
    <3>. HIDE DEF row
    <3>. QED BY <2>2, <3>1, <3>2, <3>3 DEF row, Open
  <2>5. Shape' /\ LockIsHeld' /\ OneOpen'
    BY <2>1, <2>2, <2>3, <2>4, FinishedWork DEF Open
  <2>6. FiredOnce'
    BY <2>1, <2>3, MarksStand
  <2>. QED BY <2>5, <2>6 DEF TablesInv
<1>15. ASSUME NEW p \in Requests, NEW c \in {0, 1}, PatchPromo(p, c) PROVE TablesInv'
  <2>. DEFINE i == doing[p].id
  <2>1. Inside(p) /\ doing[p].step # "saveFired" /\ Finish(p) /\ doing' = [doing EXCEPT ![p] = Idle] /\ sent' = sent
    BY <1>15 DEF PatchPromo, Works, Inside, Finish, Become
  <2>2. i \in Sessions /\ Open(i)
    BY <2>1, TablesAssumption DEF TablesInv, Shape, LockIsHeld, Inside, Remembers
  <2>3. /\ DOMAIN session' = Sessions
        /\ \A s \in Sessions \ {i} : session'[s] = session[s]
        /\ Row(session'[i]) /\ session'[i].state = "open" /\ session'[i].table = session[i].table
    <3>1. session' = [session EXCEPT ![i] = [VoidTicket(session[i]) EXCEPT !.cut = c]]
      BY <1>15 DEF PatchPromo
    <3>2. Row(session[i]) /\ session[i].state = "open" /\ DOMAIN session = Sessions
      BY <2>2 DEF TablesInv, Shape, Open
    <3>. DEFINE row == [VoidTicket(session[i]) EXCEPT !.cut = c]
    <3>3. Row(row) /\ row.state = "open" /\ row.table = session[i].table
      BY <3>2 DEF VoidTicket, Closed, Row, Columns
    <3>. HIDE DEF row
    <3>. QED BY <2>2, <3>1, <3>2, <3>3 DEF row, Open
  <2>. QED BY <2>1, <2>2, <2>3, WorkOnRow
<1>16. ASSUME NEW p \in Requests, NEW off \in {0, 1}, PrintTicket(p, off) PROVE TablesInv'
  <2>. DEFINE i == doing[p].id
  <2>1. Inside(p) /\ doing[p].step # "saveFired" /\ Finish(p) /\ doing' = [doing EXCEPT ![p] = Idle] /\ sent' = sent
    BY <1>16 DEF PrintTicket, Works, Inside, Finish, Become
  <2>2. i \in Sessions /\ Open(i)
    BY <2>1, TablesAssumption DEF TablesInv, Shape, LockIsHeld, Inside, Remembers
  <2>3. /\ DOMAIN session' = Sessions
        /\ \A s \in Sessions \ {i} : session'[s] = session[s]
        /\ Row(session'[i]) /\ session'[i].state = "open" /\ session'[i].table = session[i].table
    <3>1. PICK due : session' = [session EXCEPT ![i] = [session[i] EXCEPT !.ticket = due, !.off = off, !.late = FALSE]]
      BY <1>16 DEF PrintTicket
    <3>2. Row(session[i]) /\ session[i].state = "open" /\ DOMAIN session = Sessions
      BY <2>2 DEF TablesInv, Shape, Open
    <3>. DEFINE row == [session[i] EXCEPT !.ticket = due, !.off = off, !.late = FALSE]
    <3>3. Row(row) /\ row.state = "open" /\ row.table = session[i].table
      BY <3>2 DEF VoidTicket, Closed, Row, Columns
    <3>. HIDE DEF row
    <3>. QED BY <2>2, <3>1, <3>2, <3>3 DEF row, Open
  <2>. QED BY <2>1, <2>2, <2>3, WorkOnRow
<1>17. ASSUME NEW p \in Requests, CloseSession(p) PROVE TablesInv'
  <2>. DEFINE i == doing[p].id
  <2>1. Inside(p) /\ doing[p].step # "saveFired" /\ Finish(p) /\ doing' = [doing EXCEPT ![p] = Idle] /\ sent' = sent
    BY <1>17 DEF CloseSession, Works, Inside, Finish, Become
  <2>2. i \in Sessions /\ Open(i)
    BY <2>1, TablesAssumption DEF TablesInv, Shape, LockIsHeld, Inside, Remembers
  <2>3. /\ DOMAIN session' = Sessions
        /\ \A s \in Sessions \ {i} : session'[s] = session[s]
        /\ Row(session'[i]) /\ session'[i].state = "closed" /\ session'[i].table = session[i].table
    <3>1. PICK paid : session' = [session EXCEPT ![i] = [Closed(session[i]) EXCEPT !.paid = paid]]
      BY <1>17 DEF CloseSession
    <3>2. Row(session[i]) /\ session[i].state = "open" /\ DOMAIN session = Sessions
      BY <2>2 DEF TablesInv, Shape, Open
    <3>. DEFINE row == [Closed(session[i]) EXCEPT !.paid = paid]
    <3>3. Row(row) /\ row.state = "closed" /\ row.table = session[i].table
      BY <3>2 DEF VoidTicket, Closed, Row, Columns
    <3>. HIDE DEF row
    <3>. QED BY <2>2, <3>1, <3>2, <3>3 DEF row, Open
  <2>. QED BY <2>1, <2>2, <2>3, WorkOnRow
<1>18. ASSUME NEW p \in Requests, DiscardSession(p) PROVE TablesInv'
  <2>. DEFINE i == doing[p].id
  <2>1. Inside(p) /\ doing[p].step # "saveFired" /\ Finish(p) /\ doing' = [doing EXCEPT ![p] = Idle] /\ sent' = sent
    BY <1>18 DEF DiscardSession, Works, Inside, Finish, Become
  <2>2. i \in Sessions /\ Open(i)
    BY <2>1, TablesAssumption DEF TablesInv, Shape, LockIsHeld, Inside, Remembers
  <2>3. /\ DOMAIN session' = Sessions
        /\ \A s \in Sessions \ {i} : session'[s] = session[s]
        /\ Row(session'[i]) /\ session'[i].state = "closed" /\ session'[i].table = session[i].table
    <3>1. session' = [session EXCEPT ![i] = Closed(session[i])]
      BY <1>18 DEF DiscardSession
    <3>2. Row(session[i]) /\ session[i].state = "open" /\ DOMAIN session = Sessions
      BY <2>2 DEF TablesInv, Shape, Open
    <3>. DEFINE row == Closed(session[i])
    <3>3. Row(row) /\ row.state = "closed" /\ row.table = session[i].table
      BY <3>2 DEF VoidTicket, Closed, Row, Columns
    <3>. HIDE DEF row
    <3>. QED BY <2>2, <3>1, <3>2, <3>3 DEF row, Open
  <2>. QED BY <2>1, <2>2, <2>3, WorkOnRow
<1>19. ASSUME NEW p \in Requests, SaveClosed(p) PROVE TablesInv'
  <2>. DEFINE rows == doing[p].rows
  <2>1. /\ ~Inside(p) /\ DOMAIN rows \subseteq Sessions /\ \A s \in DOMAIN rows : Row(rows[s]) /\ held[s] = None
        /\ UNCHANGED <<sent, held>> /\ doing' = [doing EXCEPT ![p] = Idle]
    BY <1>19 DEF SaveClosed, Inside, Become, TablesInv, Shape, Remembers
  <2>2. /\ DOMAIN session' = Sessions
        /\ \A s \in Sessions : session'[s] = IF s \in DOMAIN rows THEN Closed(rows[s]) ELSE session[s]
    BY <1>19 DEF SaveClosed
  <2>3. \A s \in DOMAIN rows : Row(Closed(rows[s])) /\ Closed(rows[s]).state = "closed"
    BY <2>1 DEF Closed, Row, Columns
  <2>4. Shape' /\ LockIsHeld'
    <3>1. \A s \in Sessions : Row(session'[s]) /\ (held[s] # None => session'[s].state = session[s].state)
      BY <2>1, <2>2, <2>3 DEF TablesInv, Shape
    <3>2. \A q \in Requests : doing'[q] = IF q = p THEN Idle ELSE doing[q]
      BY <2>1 DEF TablesInv, Shape
    <3>3. DOMAIN doing' = Requests /\ sent' \in [Sent -> Order]
      BY <2>1 DEF TablesInv, Shape
    <3>. QED BY <2>1, <2>2, <3>1, <3>2, <3>3, WithoutLock DEF Steps
  <2>5. OneOpen'
    BY <2>2, <2>3 DEF TablesInv, OneOpen, Open
  <2>6. FiredOnce'
    BY <1>19, <2>1, MarksStand DEF SaveClosed, TablesInv, Shape
  <2>. QED BY <2>4, <2>5, <2>6 DEF TablesInv
<1>20. ASSUME NEW p \in Requests, FireMains(p) PROVE TablesInv'
  <2>. DEFINE i  == doing[p].id
              os == {o \in SentTo(i) : ~sent[o].fired}
              r  == [doing[p] EXCEPT !.step = "saveFired", !.rows = [o \in os |-> sent[o].amount]]
  <2>1. Inside(p) /\ doing[p].step = "work" /\ UNCHANGED <<session, held>> /\ doing' = [doing EXCEPT ![p] = r]
    BY <1>20 DEF FireMains, Pending, Works, Inside, Become
  <2>2. i \in Sessions /\ held[i] = p
    BY <2>1 DEF TablesInv, Shape, LockIsHeld, Inside, Remembers
  <2>3. os \subseteq Sent /\ \A o \in os : sent[o].session = i /\ sent[o].fires = sent[o].torn
    <3>1. os \subseteq Sent /\ \A o \in os : sent[o].session = i /\ ~sent[o].fired
      BY DEF SentTo, TablesInv, Shape
    <3>2. ASSUME NEW o \in os, sent[o].fires # sent[o].torn PROVE FALSE
      <4>1. PICK q \in Requests : Marking(q, o)
        BY <3>1, <3>2 DEF TablesInv, FiredOnce
      <4>2. Inside(q) /\ doing[q].id = i
        BY <3>1, <4>1 DEF Marking, Inside
      <4>3. held[i] = q
        BY <4>2 DEF TablesInv, LockIsHeld
      <4>. QED BY <2>1, <2>2, <4>1, <4>3 DEF Marking
    <3>. QED BY <3>1, <3>2
  <2>4. \A o \in Sent : sent'[o] = IF o \in os THEN Printed(sent[o]) ELSE sent[o]
    BY <1>20 DEF FireMains, Pending
  <2>5. /\ sent' \in [Sent -> Order]
        /\ \A o \in Sent : /\ sent'[o].session = sent[o].session /\ sent'[o].fired = sent[o].fired
                           /\ sent'[o].torn = sent[o].torn
                           /\ sent'[o].fires = IF o \in os THEN 1 + sent[o].torn ELSE sent[o].fires
    <3>1. \A o \in Sent : sent[o] \in Order
      BY DEF TablesInv, Shape
    <3>2. ASSUME NEW o \in os
          PROVE  /\ sent'[o] \in Order /\ sent'[o].fires = 1 + sent[o].torn /\ sent'[o].torn = sent[o].torn
                 /\ sent'[o].session = sent[o].session /\ sent'[o].fired = sent[o].fired
      <4>1. sent[o] \in Order /\ sent[o].fires = sent[o].torn
        BY <2>3, <3>1
      <4>2. sent'[o] = [sent[o] EXCEPT !.fires = sent[o].fires + 1]
        BY <2>3, <2>4 DEF Printed
      <4>. HIDE DEF os
      <4>. QED BY <4>1, <4>2 DEF Order
    <3>3. sent' = [o \in Sent |-> IF o \in os THEN Printed(sent[o]) ELSE sent[o]]
      BY <1>20 DEF FireMains, Pending
    <3>4. DOMAIN sent' = Sent /\ \A o \in Sent : sent'[o] \in Order
      BY <3>1, <3>2, <3>3, <2>4
    <3>5. sent' = [o \in Sent |-> sent'[o]]
      BY <3>3
    <3>6. sent' \in [Sent -> Order]
      BY <3>4, <3>5
    <3>. HIDE DEF os
    <3>. QED BY <2>4, <3>2, <3>6
  <2>6. /\ DOMAIN r = {"op", "step", "id", "table", "rows"} /\ r.step = "saveFired" /\ r.id = i
        /\ r.table \in SalonTables \cup {None} /\ DOMAIN r.rows = os /\ Remembers(r)
    <3>1. /\ DOMAIN r = {"op", "step", "id", "table", "rows"} /\ r.step = "saveFired" /\ r.id = i
          /\ r.table = doing[p].table /\ r.rows = [o \in os |-> sent[o].amount]
      BY DEF TablesInv, Shape
    <3>2. \A o \in os : sent[o].amount \in Nat
      BY <2>3 DEF TablesInv, Shape, Order
    <3>. HIDE DEF r, os
    <3>. QED BY <3>1, <3>2, <2>2, <2>3 DEF TablesInv, Shape, Remembers
  <2>. HIDE DEF r, os
  <2>7. DOMAIN doing' = Requests /\ \A q \in Requests : doing'[q] = IF q = p THEN r ELSE doing[q]
    BY <2>1 DEF TablesInv, Shape
  <2>8. Shape'
    <3>1. ASSUME NEW q \in Requests
          PROVE  /\ DOMAIN doing'[q] = {"op", "step", "id", "table", "rows"}
                 /\ doing'[q].step \in Steps /\ doing'[q].table \in SalonTables \cup {None}
                 /\ Remembers(doing[q])'
      <4>1. CASE q = p
        BY <4>1, <2>6, <2>7 DEF Remembers, Row, Steps
      <4>2. CASE q # p
        BY <4>2, <2>7 DEF TablesInv, Shape, Remembers, Row
      <4>. QED BY <4>1, <4>2
    <3>. QED BY <2>1, <2>5, <2>7, <3>1 DEF TablesInv, Shape
  <2>9. LockIsHeld'
    <3>1. \A q \in Requests : (Inside(q)' <=> Inside(q)) /\ doing'[q].id = doing[q].id
      BY <2>1, <2>6, <2>7 DEF Inside
    <3>. QED BY <2>1, <3>1, TablesAssumption DEF TablesInv, Shape, LockIsHeld, Open, Inside
  <2>10. OneOpen'
    BY <2>1 DEF TablesInv, OneOpen, Open
  <2>11. FiredOnce'
    <3>1. \A o \in os : Marking(p, o)'
      BY <2>3, <2>5, <2>6, <2>7 DEF Marking
    <3>2. \A q \in Requests, o \in Sent : Marking(q, o) => Marking(q, o)'
      BY <2>1, <2>5, <2>7 DEF Marking
    <3>3. \A o \in Sent : sent'[o].fires <= 1 + sent'[o].torn
      <4>1. \A o \in Sent : sent[o].torn \in Nat
        BY DEF TablesInv, Shape, Order
      <4>. QED BY <2>5, <4>1 DEF TablesInv, FiredOnce
    <3>4. ASSUME NEW o \in Sent, ~sent'[o].fired, sent'[o].fires # sent'[o].torn
          PROVE  \E q \in Requests : Marking(q, o)'
      <4>1. CASE o \in os
        BY <3>1, <4>1
      <4>2. CASE o \notin os
        BY <2>5, <3>2, <3>4, <4>2 DEF TablesInv, FiredOnce
      <4>. QED BY <4>1, <4>2
    <3>. QED BY <3>3, <3>4 DEF FiredOnce
  <2>. QED BY <2>8, <2>9, <2>10, <2>11 DEF TablesInv
<1>21. ASSUME NEW p \in Requests, SaveFired(p) PROVE TablesInv'
  <2>. DEFINE i == doing[p].id
              rows == doing[p].rows
  <2>1. Inside(p) /\ doing[p].step = "saveFired" /\ Finish(p) /\ session' = session
    BY <1>21 DEF SaveFired, Inside
  <2>2. /\ i \in Sessions /\ held[i] = p /\ Open(i)
        /\ DOMAIN rows \subseteq Sent /\ \A o \in DOMAIN rows : rows[o] \in Nat
    BY <2>1, TablesAssumption DEF TablesInv, Shape, LockIsHeld, Inside, Remembers
  <2>3. sent' = [o \in Sent |-> IF o \in DOMAIN rows /\ sent[o].session # None THEN MarkedFired(o, p) ELSE sent[o]]
    BY <1>21 DEF SaveFired
  <2>4. ASSUME NEW o \in Sent
        PROVE  /\ sent'[o] \in Order /\ sent'[o].session = sent[o].session
               /\ sent'[o].fires = sent[o].fires /\ sent'[o].torn = sent[o].torn
               /\ sent'[o].fired = (sent[o].fired \/ (o \in DOMAIN rows /\ sent[o].session # None))
    <3>1. sent[o] \in Order
      BY DEF TablesInv, Shape
    <3>2. CASE o \in DOMAIN rows /\ sent[o].session # None
      <4>1. sent'[o] = [sent[o] EXCEPT !.amount = rows[o], !.fired = TRUE]
        BY <2>3, <3>2 DEF MarkedFired
      <4>. QED BY <2>2, <3>1, <3>2, <4>1 DEF Order
    <3>3. CASE ~(o \in DOMAIN rows /\ sent[o].session # None)
      <4>1. sent'[o] = sent[o]
        BY <2>3, <3>3
      <4>. QED BY <3>1, <3>3, <4>1 DEF Order
    <3>. QED BY <3>2, <3>3
  <2>5. sent' \in [Sent -> Order]
    <3>1. sent' = [o \in Sent |-> sent'[o]]
      BY <2>3
    <3>. QED BY <2>4, <3>1
  <2>6. Shape' /\ LockIsHeld' /\ OneOpen'
    BY <2>1, <2>2, <2>5, FinishedWork DEF TablesInv, Shape, Open
  <2>7. FiredOnce'
    <3>1. \A q \in Requests \ {p} : doing'[q] = doing[q]
      BY <2>1 DEF Finish, Become, TablesInv, Shape
    <3>2. \A q \in Requests \ {p}, o \in Sent : Marking(q, o) => Marking(q, o)'
      BY <2>4, <3>1 DEF Marking
    <3>3. \A o \in Sent : Marking(p, o) => sent'[o].fired
      <4>1. \A o \in Sent : Marking(p, o) => o \in DOMAIN rows /\ sent[o].session # None
        BY <2>2, TablesAssumption DEF Marking, Sessions
      <4>. QED BY <2>4, <4>1
    <3>. QED BY <2>4, <3>2, <3>3 DEF TablesInv, FiredOnce
  <2>. QED BY <2>6, <2>7 DEF TablesInv
<1>22. ASSUME NEW p \in Requests, BreakOff(p) PROVE TablesInv'
  <2>. DEFINE i == doing[p].id
  <2>1. Inside(p) /\ Finish(p) /\ session' = session /\ sent' \in [Sent -> Order]
    BY <1>22, BrokenOff
  <2>2. i \in Sessions /\ Open(i)
    BY <2>1, TablesAssumption DEF TablesInv, Shape, LockIsHeld, Inside, Remembers
  <2>3. Shape' /\ LockIsHeld' /\ OneOpen'
    BY <2>1, <2>2, FinishedWork DEF TablesInv, Shape, Open
  <2>4. FiredOnce'
    <3>1. \A q \in Requests \ {p} : doing'[q] = doing[q]
      BY <2>1 DEF Finish, Become, TablesInv, Shape
    <3>2. \A q \in Requests \ {p}, o \in Sent : Marking(q, o) => Marking(q, o)'
      BY <1>22, <3>1, BrokenOff DEF Marking
    <3>3. ASSUME NEW o \in Sent
          PROVE  \/ sent'[o].fires = sent'[o].torn /\ sent'[o].torn \in Nat
                 \/ sent'[o] = sent[o] /\ ~Marking(p, o)
      BY <1>22, <2>1, BrokenOff DEF Order
    <3>. QED BY <3>2, <3>3 DEF TablesInv, FiredOnce
  <2>. QED BY <2>3, <2>4 DEF TablesInv
<1>23. ASSUME NEW p \in Requests, Step(p) PROVE TablesInv'
  BY <1>22, <1>23, <1>7, <1>8, <1>9, <1>10, <1>11, <1>12, <1>13, <1>14, <1>15, <1>16, <1>17, <1>18, <1>19, <1>20, <1>21 DEF Step
<1>. QED
  BY <1>0, <1>1, <1>2, <1>3, <1>4, <1>5, <1>6, <1>23 DEF Next

-----------------------------------------------------------------------------
(* What the salon may count on                                                *)

\* The invariant holds at the start.
LEMMA TablesInit == Init => TablesInv
<1>. SUFFICES ASSUME Init PROVE TablesInv
  OBVIOUS
<1>. USE IdleIsIdle DEF Init
<1>1. Row(NoSession) /\ NoSession.state = "none"
  BY DEF Row, Columns, NoSession
<1>2. NoOrder \in Order /\ NoOrder.fires = 0 /\ NoOrder.torn = 0
  BY DEF Order, NoOrder
<1>3. Shape
  BY <1>1, <1>2 DEF Shape, Steps
<1>4. LockIsHeld
  BY DEF LockIsHeld, Inside
<1>5. OneOpen /\ FiredOnce
  BY <1>1, <1>2 DEF OneOpen, Open, FiredOnce
<1>. QED BY <1>3, <1>4, <1>5 DEF TablesInv

\* The state keeps its shape, the row lock of a session belongs to the one that works on it.
THEOREM TablesStayInOrder == Spec => []TablesInv
BY TablesInit, TablesStep, PTL DEF Spec

\* However many waiters and guests open a table at once, it has one open session: the unique
\* index refuses the second, and no save of a row read before opens a session again.
THEOREM TableOpensOnce == Spec => []OneOpenSessionPerTable
<1>1. ASSUME TablesInv PROVE OneOpenSessionPerTable
  <2>1. SUFFICES ASSUME NEW t \in SalonTables PROVE Cardinality(OpenAt(t)) <= 1
    BY DEF OneOpenSessionPerTable
  <2>2. \A r, s \in OpenAt(t) : r = s
    BY <1>1 DEF OpenAt, TablesInv, Shape, OneOpen
  <2>3. CASE OpenAt(t) = {}
    BY <2>3, FS_EmptySet
  <2>4. CASE OpenAt(t) # {}
    <3>1. PICK s : OpenAt(t) = {s}
      BY <2>2, <2>4
    <3>. QED BY <3>1, FS_Singleton
  <2>. QED BY <2>3, <2>4
<1>. QED BY <1>1, TablesStayInOrder, PTL

\* The kitchen gets the mains of an order once, and once more for each firing that broke off
\* after its jobs were queued, however the waiters press and however late the orders are saved
\* as they were read.
THEOREM MainsComeOutOnce == Spec => []MainsFiredOnce
<1>1. ASSUME TablesInv PROVE MainsFiredOnce
  BY <1>1 DEF TablesInv, Shape, FiredOnce, MainsFiredOnce
<1>. QED BY <1>1, TablesStayInOrder, PTL
-----------------------------------------------------------------------------
(* What is paid                                                               *)

\* Who looks for empty tables does so while nobody sends orders: a session that was
\* empty when it was read is saved closed whatever was sent from it meanwhile.
EmptyAlone == "order" \in Together => Together \cap {"guestDiscard", "closeEmpty"} = {}

\* Requests run at once only with operations that may overlap.
RunsAlone ==
    \A p, q \in Requests : p # q /\ doing[p] # Idle /\ doing[q] # Idle => doing[p].op \in Together

\* What a request that is about to save rows knows of them.
FiresAsRead(p, s) ==
    \A o \in DOMAIN doing[p].rows :
        /\ sent[o].session = s
        /\ session[s].ticket = None \/ session[s].late = TRUE \/ doing[p].rows[o] = sent[o].amount
Recalls(p) ==
    /\ doing[p].step = "promo" => doing[p].rows[1].ticket = None
    /\ doing[p].step = "work" /\ doing[p].op = "discard" => SentTo(doing[p].id) = {}
    /\ doing[p].step = "saveClosed" =>
         /\ doing[p].op \in {"guestDiscard", "closeEmpty"}
         /\ \A s \in DOMAIN doing[p].rows : SentTo(s) = {}
    /\ doing[p].step = "saveFired" => FiresAsRead(p, doing[p].id)

\* A ticket that is out is what is due, unless something came after it; so is what was paid.
TicketRight(s) ==
    /\ Open(s) /\ session[s].ticket # None /\ session[s].late # TRUE =>
         session[s].ticket = Bill(s) - session[s].off
    /\ session[s].state = "closed" /\ SentTo(s) # {} /\ session[s].late # TRUE => session[s].paid = Due(s)

BillInv == RunsAlone /\ (\A p \in Requests : Recalls(p)) /\ (\A s \in Sessions : TicketRight(s))

\* The bill depends on the orders of the session and the promos of the table only.
LEMMA SameBill ==
    ASSUME NEW s, SentTo(s)' = SentTo(s), \A o \in SentTo(s) : sent'[o].amount = sent[o].amount,
           session'[s].cut = session[s].cut
    PROVE  Bill(s)' = Bill(s)
<1>1. [o \in SentTo(s) |-> sent[o].amount]' = [o \in SentTo(s) |-> sent[o].amount]
  OBVIOUS
<1>. QED BY <1>1 DEF Bill

\* A session whose row and orders a step leaves alone stays right.
LEMMA SameRight ==
    ASSUME NEW s, TicketRight(s), session'[s] = session[s], SentTo(s)' = SentTo(s),
           \A o \in SentTo(s) : sent'[o].amount = sent[o].amount
    PROVE  TicketRight(s)'
<1>1. Bill(s)' = Bill(s)
  BY SameBill
<1>2. Open(s)' <=> Open(s)
  BY DEF Open
<1>3. Due(s)' = Due(s)
  BY <1>1 DEF Due
<1>. QED BY <1>1, <1>2, <1>3 DEF TicketRight

\* Whoever begins does so alone or among those that may overlap; whoever goes on keeps
\* his operation.
LEMMA StillAlone ==
    ASSUME TablesInv, BillInv, NEW p \in Requests, NEW r, doing' = [doing EXCEPT ![p] = r],
           \/ r = Idle
           \/ doing[p] # Idle /\ r.op = doing[p].op
           \/ MayAsk(p, r.op)
    PROVE  RunsAlone'
<1>1. \A q \in Requests : doing'[q] = IF q = p THEN r ELSE doing[q]
  BY DEF TablesInv, Shape
<1>2. Idle' = Idle
  BY DEF Idle
<1>3. CASE r = Idle
  BY <1>1, <1>2, <1>3 DEF BillInv, RunsAlone
<1>4. CASE doing[p] # Idle /\ r.op = doing[p].op
  BY <1>1, <1>2, <1>4 DEF BillInv, RunsAlone
<1>5. CASE MayAsk(p, r.op)
  BY <1>1, <1>2, <1>5 DEF BillInv, RunsAlone, MayAsk
<1>. QED BY <1>3, <1>4, <1>5

\* What the others remember of sessions and orders that a step leaves alone.
LEMMA OthersRecall ==
    ASSUME TablesInv, BillInv, NEW q \in Requests, doing'[q] = doing[q],
           doing[q].step = "saveClosed" => \A s \in Sessions : SentTo(s) = {} => SentTo(s)' = {},
           Inside(q) => /\ session'[doing[q].id] = session[doing[q].id]
                        /\ SentTo(doing[q].id)' = SentTo(doing[q].id)
                        /\ \A o \in SentTo(doing[q].id) : sent'[o].amount = sent[o].amount,
           DOMAIN sent' = DOMAIN sent
    PROVE  Recalls(q)'
<1>1. Recalls(q)
  BY DEF BillInv
<1>2. CASE doing[q].step = "saveFired"
  <2>. DEFINE i == doing[q].id
  <2>1. FiresAsRead(q, i) /\ DOMAIN doing[q].rows \subseteq Sent
    BY <1>1, <1>2 DEF Recalls, TablesInv, Shape, Remembers
  <2>2. ASSUME NEW o \in DOMAIN doing[q].rows PROVE o \in SentTo(i) /\ sent'[o].session = i
    <3>1. o \in SentTo(i)
      BY <2>1 DEF FiresAsRead, SentTo, TablesInv, Shape
    <3>2. o \in SentTo(i)'
      BY <1>2, <3>1 DEF Inside
    <3>. QED BY <3>1, <3>2 DEF SentTo
  <2>3. FiresAsRead(q, i)'
    BY <1>2, <2>1, <2>2 DEF FiresAsRead, Inside
  <2>. QED BY <1>2, <2>3 DEF Recalls
<1>3. CASE doing[q].step = "saveClosed"
  BY <1>1, <1>3 DEF Recalls, TablesInv, Shape, Remembers
<1>4. CASE doing[q].step = "work"
  BY <1>1, <1>4 DEF Recalls, Inside
<1>5. CASE doing[q].step \notin {"saveFired", "saveClosed", "work"}
  BY <1>1, <1>5 DEF Recalls
<1>. QED BY <1>2, <1>3, <1>4, <1>5

\* A step that writes no order, and only sessions nobody has locked.
LEMMA FreeStep ==
    ASSUME TablesInv, BillInv, NEW p \in Requests, NEW r, doing' = [doing EXCEPT ![p] = r], sent' = sent,
           \A s \in Sessions : session'[s] = session[s] \/ (held[s] = None /\ TicketRight(s)'),
           \/ r = Idle
           \/ doing[p] # Idle /\ r.op = doing[p].op
           \/ MayAsk(p, r.op),
           Recalls(p)'
    PROVE  BillInv'
<1>1. \A q \in Requests : doing'[q] = IF q = p THEN r ELSE doing[q]
  BY DEF TablesInv, Shape
<1>2. RunsAlone'
  BY StillAlone
<1>3. \A s : SentTo(s)' = SentTo(s)
  BY DEF SentTo
<1>4. ASSUME NEW q \in Requests, q # p PROVE Recalls(q)'
  <2>1. Inside(q) => doing[q].id \in Sessions /\ held[doing[q].id] # None
    BY TablesAssumption DEF TablesInv, Shape, LockIsHeld, Inside, Remembers
  <2>. QED BY <1>1, <1>3, <1>4, <2>1, OthersRecall
<1>5. ASSUME NEW s \in Sessions PROVE TicketRight(s)'
  BY <1>3, SameRight DEF BillInv
<1>. QED BY <1>2, <1>4, <1>5 DEF BillInv

\* A step that writes nothing to sessions and orders.
LEMMA QuietStep ==
    ASSUME TablesInv, BillInv, NEW p \in Requests, NEW r, doing' = [doing EXCEPT ![p] = r],
           UNCHANGED <<session, sent>>,
           \/ r = Idle
           \/ doing[p] # Idle /\ r.op = doing[p].op
           \/ MayAsk(p, r.op),
           r.step \in Steps \ {"promo", "saveFired", "saveClosed"},
           r.step = "work" /\ r.op = "discard" => SentTo(r.id) = {}
    PROVE  BillInv'
<1>1. doing'[p] = r
  BY DEF TablesInv, Shape
<1>2. Recalls(p)'
  BY <1>1 DEF Recalls, SentTo
<1>. QED BY <1>2, FreeStep

\* The work on a locked session that leaves its ticket right.
LEMMA WorkDone ==
    ASSUME EmptyAlone, TablesInv, BillInv, NEW p \in Requests, Inside(p), Finish(p), DOMAIN sent' = DOMAIN sent,
           NEW i \in Sessions, i = doing[p].id,
           \A s \in Sessions \ {i} :
               /\ session'[s] = session[s] /\ SentTo(s)' = SentTo(s)
               /\ \A o \in SentTo(s) : sent'[o].amount = sent[o].amount,
           SentTo(i) = {} => doing[p].op = "order" \/ SentTo(i)' = {},
           TicketRight(i)'
    PROVE  BillInv'
<1>1. doing' = [doing EXCEPT ![p] = Idle] /\ doing[p] # Idle
  BY IdleIsIdle DEF Finish, Become, Inside
<1>2. RunsAlone'
  BY <1>1, StillAlone
<1>3. ASSUME NEW q \in Requests PROVE Recalls(q)'
  <2>1. CASE q = p
    <3>1. doing'[q] = Idle
      BY <1>1, <2>1 DEF TablesInv, Shape
    <3>. QED BY <3>1, IdleIsIdle DEF Recalls
  <2>2. CASE q # p
    <3>1. doing'[q] = doing[q]
      BY <1>1, <2>2 DEF TablesInv, Shape
    <3>2. Inside(q) => doing[q].id \in Sessions \ {i}
      BY <2>2 DEF TablesInv, Shape, LockIsHeld, Inside, Remembers
    <3>3. ASSUME doing[q].step = "saveClosed", doing[p].op = "order" PROVE FALSE
      <4>1. doing[q].op \in {"guestDiscard", "closeEmpty"} /\ doing[q] # Idle
        BY <3>3, IdleIsIdle DEF BillInv, Recalls
      <4>2. doing[q].op \in Together /\ "order" \in Together
        BY <1>1, <2>2, <3>3, <4>1 DEF BillInv, RunsAlone
      <4>. QED BY <4>1, <4>2, EmptyAlone DEF EmptyAlone
    <3>4. doing[q].step = "saveClosed" => \A s \in Sessions : SentTo(s) = {} => SentTo(s)' = {}
      BY <3>3
    <3>. QED BY <3>1, <3>2, <3>4, OthersRecall
  <2>. QED BY <2>1, <2>2
<1>4. ASSUME NEW s \in Sessions PROVE TicketRight(s)'
  BY SameRight DEF BillInv
<1>. QED BY <1>2, <1>3, <1>4 DEF BillInv

\* What a request that works on a session knows of it.
LEMMA AtWork ==
    ASSUME TablesInv, BillInv, NEW p \in Requests, Inside(p)
    PROVE  /\ doing[p].id \in Sessions /\ Open(doing[p].id) /\ held[doing[p].id] = p
           /\ TicketRight(doing[p].id) /\ Row(session[doing[p].id])
BY TablesAssumption DEF TablesInv, Shape, LockIsHeld, Inside, Remembers, BillInv

\* Every step keeps bills and tickets together.
LEMMA BillStep == EmptyAlone /\ TablesInv /\ BillInv /\ [Next]_tableVars => BillInv'
<1>. SUFFICES ASSUME EmptyAlone, TablesInv, BillInv, [Next]_tableVars PROVE BillInv'
  OBVIOUS
<1>. USE IdleIsIdle
<1>0. CASE UNCHANGED tableVars
  <2>1. \A s : SentTo(s)' = SentTo(s)
    BY <1>0 DEF tableVars, SentTo
  <2>2. RunsAlone'
    BY <1>0 DEF tableVars, BillInv, RunsAlone, Idle
  <2>3. \A q \in Requests : Recalls(q)'
    BY <1>0, <2>1, OthersRecall DEF tableVars
  <2>4. \A s \in Sessions : TicketRight(s)'
    BY <1>0, <2>1, SameRight DEF tableVars, BillInv
  <2>. QED BY <2>2, <2>3, <2>4 DEF BillInv
<1>1. ASSUME NEW p \in Requests, LockTimeout(p) \/ Fail(p) PROVE BillInv'
  <2>1. doing' = [doing EXCEPT ![p] = Idle] /\ UNCHANGED <<session, sent>>
    BY <1>1 DEF LockTimeout, Fail, Finish, Become
  <2>. QED BY <2>1, QuietStep DEF Steps
<1>2. ASSUME NEW p \in Requests, NEW op, NEW t, AskOpen(p, op, t) PROVE BillInv'
  <2>. DEFINE r == [Idle EXCEPT !.op = op, !.step = "begin", !.table = t]
  <2>1. r.op = op /\ r.step = "begin"
    BY DEF Idle
  <2>2. doing' = [doing EXCEPT ![p] = r] /\ UNCHANGED <<session, sent>> /\ MayAsk(p, op)
    BY <1>2 DEF AskOpen, Become
  <2>. HIDE DEF r
  <2>. QED BY <2>1, <2>2, QuietStep DEF Steps
<1>3. ASSUME NEW p \in Requests, NEW op, NEW s, Ask(p, op, s) PROVE BillInv'
  <2>. DEFINE r == [Idle EXCEPT !.op = op, !.step = "begin", !.id = s]
  <2>1. r.op = op /\ r.step = "begin"
    BY DEF Idle
  <2>2. doing' = [doing EXCEPT ![p] = r] /\ UNCHANGED <<session, sent>> /\ MayAsk(p, op)
    BY <1>3 DEF Ask, Become
  <2>. HIDE DEF r
  <2>. QED BY <2>1, <2>2, QuietStep DEF Steps
<1>4. ASSUME NEW p \in Requests, NEW op, NEW ss \in SUBSET Sessions, FindEmpty(p, op, ss) PROVE BillInv'
  <2>. DEFINE r == [Idle EXCEPT !.op = op, !.step = "saveClosed", !.rows = [s \in ss |-> session[s]]]
  <2>1. r.op = op /\ r.step = "saveClosed" /\ DOMAIN r.rows = ss
    BY DEF Idle
  <2>2. doing' = [doing EXCEPT ![p] = r] /\ UNCHANGED <<session, sent>> /\ MayAsk(p, op)
    BY <1>4 DEF FindEmpty, Become
  <2>3. op \in {"guestDiscard", "closeEmpty"} /\ \A s \in ss : SentTo(s) = {}
    BY <1>4 DEF FindEmpty
  <2>. HIDE DEF r
  <2>4. doing'[p] = r
    BY <2>2 DEF TablesInv, Shape
  <2>5. \A s : SentTo(s)' = SentTo(s)
    BY <2>2 DEF SentTo
  <2>6. Recalls(p)'
    BY <2>1, <2>3, <2>4, <2>5 DEF Recalls
  <2>. QED BY <2>1, <2>2, <2>6, FreeStep
<1>5. ASSUME NEW p \in Requests, LookForOpen(p) \/ Connect(p) \/ LockSession(p) PROVE BillInv'
  <2>1. UNCHANGED <<session, sent>> /\ doing[p] # Idle
    BY <1>5 DEF LookForOpen, Connect, LockSession
  <2>2. \/ doing' = [doing EXCEPT ![p] = Idle]
        \/ doing' = [doing EXCEPT ![p] = [doing[p] EXCEPT !.step = "insert"]]
        \/ doing' = [doing EXCEPT ![p] = [doing[p] EXCEPT !.step = "lock"]]
        \/ /\ doing' = [doing EXCEPT ![p] = [doing[p] EXCEPT !.step = "work"]]
           /\ doing[p].op = "discard" => SentTo(doing[p].id) = {}
    BY <1>5 DEF LookForOpen, Connect, LockSession, Goto, Become, Accepts
  <2>3. CASE doing' = [doing EXCEPT ![p] = Idle]
    BY <2>1, <2>3, QuietStep DEF Steps
  <2>4. ASSUME NEW step \in {"insert", "lock", "work"}, doing' = [doing EXCEPT ![p] = [doing[p] EXCEPT !.step = step]],
               step = "work" /\ doing[p].op = "discard" => SentTo(doing[p].id) = {}
        PROVE  BillInv'
    <3>1. PICK r : r = [doing[p] EXCEPT !.step = step]
      OBVIOUS
    <3>2. r.step = step /\ r.op = doing[p].op /\ r.id = doing[p].id
      BY <3>1 DEF TablesInv, Shape
    <3>. QED BY <2>1, <2>4, <3>1, <3>2, QuietStep DEF Steps
  <2>. QED BY <2>2, <2>3, <2>4
<1>6. ASSUME NEW p \in Requests, InsertSession(p) PROVE BillInv'
  <2>1. doing[p] # Idle /\ sent' = sent
    BY <1>6 DEF InsertSession
  <2>2. CASE doing' = [doing EXCEPT ![p] = Idle] /\ session' = session
    BY <2>1, <2>2, QuietStep DEF Steps
  <2>3. ASSUME NEW s \in Sessions, NEW row, row = [NoSession EXCEPT !.state = "open", !.table = doing[p].table],
               Unused(s), session' = [session EXCEPT ![s] = row],
               \/ doing' = [doing EXCEPT ![p] = [doing[p] EXCEPT !.step = "promo", !.id = s, !.rows = <<row>>]]
               \/ doing' = [doing EXCEPT ![p] = Idle]
        PROVE  BillInv'
    <3>1. row.ticket = None /\ row.state = "open"
      BY <2>3 DEF NoSession
    <3>2. /\ \A x \in Sessions : session'[x] = IF x = s THEN row ELSE session[x]
          /\ held[s] = None
      BY <2>3 DEF TablesInv, Shape, LockIsHeld, Unused, Open
    <3>3. TicketRight(s)'
      BY <3>1, <3>2 DEF TicketRight
    <3>4. CASE doing' = [doing EXCEPT ![p] = Idle]
      <4>1. doing'[p] = Idle
        BY <3>4 DEF TablesInv, Shape
      <4>2. Recalls(p)'
        BY <4>1 DEF Recalls
      <4>. QED BY <2>1, <3>2, <3>3, <3>4, <4>2, FreeStep
    <3>5. CASE doing' = [doing EXCEPT ![p] = [doing[p] EXCEPT !.step = "promo", !.id = s, !.rows = <<row>>]]
      <4>1. PICK r : r = [doing[p] EXCEPT !.step = "promo", !.id = s, !.rows = <<row>>]
        OBVIOUS
      <4>2. r.step = "promo" /\ r.op = doing[p].op /\ r.rows[1] = row
        BY <4>1 DEF TablesInv, Shape
      <4>3. doing' = [doing EXCEPT ![p] = r] /\ doing'[p] = r
        BY <3>5, <4>1 DEF TablesInv, Shape
      <4>4. Recalls(p)'
        BY <3>1, <4>2, <4>3 DEF Recalls
      <4>. QED BY <2>1, <3>2, <3>3, <4>2, <4>3, <4>4, FreeStep
    <3>. QED BY <2>3, <3>4, <3>5
  <2>. QED BY <1>6, <2>2, <2>3 DEF InsertSession, Become
<1>7. ASSUME NEW p \in Requests, SaveAutoPromo(p) PROVE BillInv'
  <2>1. PICK s : s = doing[p].id
    OBVIOUS
  <2>2. PICK row : row = [doing[p].rows[1] EXCEPT !.cut = 1]
    OBVIOUS
  <2>3. s \in Sessions /\ row.ticket = None /\ row.state = "open"
    BY <1>7, <2>1, <2>2 DEF SaveAutoPromo, TablesInv, Shape, Remembers, BillInv, Recalls, Row, Columns
  <2>4. /\ held[s] = None /\ doing' = [doing EXCEPT ![p] = Idle] /\ doing'[p] = Idle /\ sent' = sent
        /\ session' = session \/ session' = [session EXCEPT ![s] = row]
    BY <1>7, <2>1, <2>2 DEF SaveAutoPromo, Become, TablesInv, Shape
  <2>5. /\ \A x \in Sessions \ {s} : session'[x] = session[x]
        /\ session'[s] = session[s] \/ session'[s] = row
    BY <2>3, <2>4 DEF TablesInv, Shape
  <2>6. session'[s] = row => TicketRight(s)'
    BY <2>3 DEF TicketRight
  <2>7. Recalls(p)'
    BY <2>4 DEF Recalls
  <2>. QED BY <2>3, <2>4, <2>5, <2>6, <2>7, FreeStep
<1>8. ASSUME NEW p \in Requests, SaveClosed(p) PROVE BillInv'
  <2>1. PICK rows : rows = doing[p].rows
    OBVIOUS
  <2>2. /\ DOMAIN rows \subseteq Sessions /\ \A s \in DOMAIN rows : Row(rows[s]) /\ held[s] = None /\ SentTo(s) = {}
        /\ doing' = [doing EXCEPT ![p] = Idle] /\ doing'[p] = Idle /\ sent' = sent
        /\ \A s \in Sessions : session'[s] = IF s \in DOMAIN rows THEN Closed(rows[s]) ELSE session[s]
    BY <1>8, <2>1 DEF SaveClosed, Become, TablesInv, Shape, Remembers, BillInv, Recalls
  <2>3. \A s \in DOMAIN rows : Closed(rows[s]).state = "closed"
    BY <2>2 DEF Closed, Row, Columns
  <2>4. ASSUME NEW s \in DOMAIN rows PROVE TicketRight(s)'
    <3>1. SentTo(s)' = {} /\ session'[s].state = "closed"
      BY <2>2, <2>3 DEF SentTo
    <3>. QED BY <3>1 DEF TicketRight, Open
  <2>5. Recalls(p)'
    BY <2>2 DEF Recalls
  <2>. QED BY <2>2, <2>4, <2>5, FreeStep
<1>9. ASSUME NEW p \in Requests, NEW o \in Sent, NEW a, PatchOrder(p, o, a) PROVE BillInv'
  <2>1. PICK i : i = sent[o].session
    OBVIOUS
  <2>2. i \in Sessions /\ doing' = doing
    BY <1>9, <2>1, TablesAssumption DEF PatchOrder, TablesInv, Shape, Order
  <2>3. /\ DOMAIN sent' = DOMAIN sent
        /\ \A x \in Sent : sent'[x].session = sent[x].session /\ (x # o => sent'[x] = sent[x])
    BY <1>9 DEF PatchOrder, TablesInv, Shape, Order
  <2>4. /\ \A s \in Sessions \ {i} : session'[s] = session[s]
        /\ session'[i].ticket = session[i].ticket /\ session'[i].state = session[i].state
        /\ ~Open(i) \/ session[i].ticket # None => session'[i].late = TRUE
    BY ZenonT(40), <1>9, <2>1, <2>2 DEF PatchOrder, TablesInv, Shape, Row, Columns
  <2>5. \A s : SentTo(s)' = SentTo(s)
    BY <2>3 DEF SentTo, TablesInv, Shape
  <2>6. \A s \in Sessions \ {i} : \A x \in SentTo(s) : sent'[x].amount = sent[x].amount
    BY <2>1, <2>3 DEF SentTo, TablesInv, Shape
  <2>7. RunsAlone'
    BY <2>2 DEF BillInv, RunsAlone, Idle
  <2>8. ASSUME NEW q \in Requests PROVE Recalls(q)'
    <3>1. CASE Inside(q) /\ doing[q].id = i
      <4>1. CASE doing[q].step = "saveFired"
        <5>1. FiresAsRead(q, i) /\ DOMAIN doing[q].rows \subseteq Sent
          BY <3>1, <4>1 DEF BillInv, Recalls, TablesInv, Shape, Remembers
        <5>2. FiresAsRead(q, i)'
          BY <2>2, <2>3, <2>4, <5>1 DEF FiresAsRead
        <5>. QED BY <2>2, <3>1, <4>1, <5>2 DEF Recalls
      <4>2. CASE doing[q].step = "work"
        BY <2>2, <2>5, <4>2 DEF BillInv, Recalls
      <4>. QED BY <3>1, <4>1, <4>2 DEF Inside
    <3>2. CASE ~(Inside(q) /\ doing[q].id = i)
      <4>1. Inside(q) => doing[q].id \in Sessions
        BY AtWork
      <4>. QED BY <2>2, <2>3, <2>4, <2>5, <2>6, <3>2, <4>1, OthersRecall
    <3>. QED BY <3>1, <3>2
  <2>9. ASSUME NEW s \in Sessions PROVE TicketRight(s)'
    <3>1. CASE s = i
      BY <2>4, <3>1 DEF TicketRight, Open
    <3>2. CASE s # i
      BY <2>4, <2>5, <2>6, <3>2, SameRight DEF BillInv
    <3>. QED BY <3>1, <3>2
  <2>. QED BY <2>7, <2>8, <2>9 DEF BillInv
<1>10. ASSUME NEW p \in Requests, NEW i \in Sessions, RemoveReceipt(p, i) PROVE BillInv'
  <2>1. /\ session[i].state = "closed" /\ doing' = doing /\ DOMAIN sent' = DOMAIN sent
        /\ \A s \in Sessions \ {i} : session'[s] = session[s]
        /\ session'[i].state = "deleted"
    BY <1>10 DEF RemoveReceipt, TablesInv, Shape, Row, Columns
  <2>2. \A x \in Sent : sent'[x] = IF sent[x].session = i THEN NoOrder ELSE sent[x]
    BY <1>10 DEF RemoveReceipt
  <2>3. \A s \in Sessions \ {i} : SentTo(s)' = SentTo(s) /\ \A x \in SentTo(s) : sent'[x].amount = sent[x].amount
    BY <2>1, <2>2, TablesAssumption DEF SentTo, TablesInv, Shape, NoOrder, Sessions
  <2>4. SentTo(i)' = {}
    BY <2>1, <2>2, TablesAssumption DEF SentTo, TablesInv, Shape, NoOrder, Sessions
  <2>5. RunsAlone'
    BY <2>1 DEF BillInv, RunsAlone, Idle
  <2>6. ASSUME NEW q \in Requests PROVE Recalls(q)'
    <3>1. Inside(q) => doing[q].id \in Sessions \ {i}
      BY <2>1, AtWork DEF Open
    <3>. QED BY <2>1, <2>3, <2>4, <3>1, OthersRecall
  <2>7. ASSUME NEW s \in Sessions PROVE TicketRight(s)'
    <3>1. CASE s = i
      BY <2>1, <3>1 DEF TicketRight, Open
    <3>2. CASE s # i
      BY <2>1, <2>3, <3>2, SameRight DEF BillInv
    <3>. QED BY <3>1, <3>2
  <2>. QED BY <2>5, <2>6, <2>7 DEF BillInv
<1>11. ASSUME NEW p \in Requests, NEW a, SendOrder(p, a) PROVE BillInv'
  <2>1. PICK i : i = doing[p].id
    OBVIOUS
  <2>2. Inside(p) /\ Finish(p) /\ doing[p].op = "order" /\ i \in Sessions /\ Open(i)
    BY <1>11, <2>1, AtWork DEF SendOrder, Works, Inside
  <2>3. PICK o \in Sent : sent[o].session = None /\ sent' = [sent EXCEPT ![o] = [session |-> i, amount |-> a, fired |-> FALSE, fires |-> 0, torn |-> 0]]
    BY <1>11, <2>1 DEF SendOrder
  <2>4. /\ \A s \in Sessions \ {i} : session'[s] = session[s]
        /\ session'[i].ticket = session[i].ticket /\ session'[i].state = "open"
        /\ session[i].ticket # None => session'[i].late = TRUE
    BY <1>11, <2>1, <2>2 DEF SendOrder, TablesInv, Shape, Row, Columns, Open
  <2>5. DOMAIN sent' = DOMAIN sent /\ \A x \in Sent \ {o} : sent'[x] = sent[x]
    BY <2>3 DEF TablesInv, Shape
  <2>6. \A s \in Sessions \ {i} : SentTo(s)' = SentTo(s) /\ \A x \in SentTo(s) : sent'[x].amount = sent[x].amount
    BY <2>3, <2>5, TablesAssumption DEF SentTo, TablesInv, Shape, Sessions
  <2>7. TicketRight(i)'
    BY <2>4 DEF TicketRight, Open
  <2>. QED BY <2>1, <2>2, <2>4, <2>5, <2>6, <2>7, WorkDone
<1>12. ASSUME NEW p \in Requests, FireMains(p) PROVE BillInv'
  <2>1. PICK i : i = doing[p].id
    OBVIOUS
  <2>2. PICK os : os = {o \in SentTo(i) : ~sent[o].fired}
    OBVIOUS
  <2>3. PICK r : r = [doing[p] EXCEPT !.step = "saveFired", !.rows = [o \in os |-> sent[o].amount]]
    OBVIOUS
  <2>4. Inside(p) /\ doing[p] # Idle /\ session' = session /\ doing' = [doing EXCEPT ![p] = r] /\ doing'[p] = r
    BY <1>12, <2>1, <2>2, <2>3 DEF FireMains, Pending, Works, Inside, Become, TablesInv, Shape
  <2>5. r.op = doing[p].op /\ r.id = i /\ r.step = "saveFired" /\ r.rows = [o \in os |-> sent[o].amount]
    BY <2>1, <2>3 DEF TablesInv, Shape
  <2>6. /\ DOMAIN sent' = DOMAIN sent
        /\ \A x \in Sent : sent'[x].session = sent[x].session /\ sent'[x].amount = sent[x].amount
    BY <1>12 DEF FireMains, Printed, TablesInv, Shape, Order
  <2>7. \A s : SentTo(s)' = SentTo(s) /\ SentTo(s) \subseteq Sent
    BY <2>6 DEF SentTo, TablesInv, Shape
  <2>8. RunsAlone'
    BY <2>4, <2>5, StillAlone
  <2>9. ASSUME NEW q \in Requests PROVE Recalls(q)'
    <3>1. CASE q = p
      <4>1. \A o \in os : o \in Sent /\ sent[o].session = i
        BY <2>2, <2>7 DEF SentTo
      <4>2. FiresAsRead(p, i)'
        BY <2>4, <2>5, <2>6, <4>1 DEF FiresAsRead
      <4>. QED BY <2>4, <2>5, <3>1, <4>2 DEF Recalls
    <3>2. CASE q # p
      <4>1. doing'[q] = doing[q]
        BY <2>4, <3>2 DEF TablesInv, Shape
      <4>. QED BY <2>4, <2>6, <2>7, <4>1, OthersRecall
    <3>. QED BY <3>1, <3>2
  <2>10. ASSUME NEW s \in Sessions PROVE TicketRight(s)'
    BY <2>4, <2>6, <2>7, SameRight DEF BillInv
  <2>. QED BY <2>8, <2>9, <2>10 DEF BillInv
<1>13. ASSUME NEW p \in Requests, SaveFired(p) PROVE BillInv'
  <2>1. PICK i : i = doing[p].id
    OBVIOUS
  <2>2. Inside(p) /\ Finish(p) /\ i \in Sessions /\ Open(i) /\ TicketRight(i) /\ session' = session
    BY <1>13, <2>1, AtWork DEF SaveFired, Inside
  <2>3. FiresAsRead(p, i)
    BY <1>13, <2>1 DEF SaveFired, BillInv, Recalls
  <2>4. /\ DOMAIN sent' = DOMAIN sent
        /\ \A x \in Sent : /\ sent'[x].session = sent[x].session
                           /\ x \notin DOMAIN doing[p].rows => sent'[x] = sent[x]
                           /\ x \in DOMAIN doing[p].rows => sent'[x].amount \in {sent[x].amount, doing[p].rows[x]}
    <3>1. sent' = [o \in Sent |-> IF o \in DOMAIN doing[p].rows /\ sent[o].session # None THEN MarkedFired(o, p) ELSE sent[o]]
      BY <1>13 DEF SaveFired
    <3>2. DOMAIN sent' = DOMAIN sent
      BY <3>1 DEF TablesInv, Shape
    <3>3. ASSUME NEW x \in Sent
          PROVE  /\ sent'[x].session = sent[x].session
                 /\ x \notin DOMAIN doing[p].rows => sent'[x] = sent[x]
                 /\ x \in DOMAIN doing[p].rows => sent'[x].amount \in {sent[x].amount, doing[p].rows[x]}
      <4>1. sent[x] \in Order
        BY DEF TablesInv, Shape
      <4>2. CASE x \in DOMAIN doing[p].rows /\ sent[x].session # None
        <5>1. sent'[x] = [sent[x] EXCEPT !.amount = doing[p].rows[x], !.fired = TRUE]
          BY <3>1, <4>2 DEF MarkedFired
        <5>. QED BY <4>1, <4>2, <5>1 DEF Order
      <4>3. CASE ~(x \in DOMAIN doing[p].rows /\ sent[x].session # None)
        <5>1. sent'[x] = sent[x]
          BY <3>1, <4>3
        <5>. QED BY <5>1
      <4>. QED BY <4>2, <4>3
    <3>. QED BY <3>2, <3>3
  <2>5. \A s : SentTo(s)' = SentTo(s) /\ SentTo(s) \subseteq Sent
    BY <2>4 DEF SentTo, TablesInv, Shape
  <2>6. \A s \in Sessions \ {i} : \A x \in SentTo(s) : sent'[x].amount = sent[x].amount
    BY <2>3, <2>4, <2>5 DEF FiresAsRead, SentTo
  <2>7. TicketRight(i)'
    <3>1. CASE session[i].ticket = None \/ session[i].late = TRUE
      BY <2>2, <3>1 DEF TicketRight, Open
    <3>2. CASE session[i].ticket # None /\ session[i].late # TRUE
      <4>1. \A x \in SentTo(i) : sent'[x].amount = sent[x].amount
        BY <2>3, <2>4, <2>5, <3>2 DEF FiresAsRead
      <4>. QED BY <2>2, <2>5, <4>1, SameRight
    <3>. QED BY <3>1, <3>2
  <2>. QED BY <2>1, <2>2, <2>4, <2>5, <2>6, <2>7, WorkDone
<1>14. ASSUME NEW p \in Requests, NEW o, NEW a, PatchLine(p, o, a) PROVE BillInv'
  <2>1. PICK i : i = doing[p].id
    OBVIOUS
  <2>2. Inside(p) /\ Finish(p) /\ i \in Sessions /\ Open(i) /\ o \in SentTo(i) /\ o \in Sent
    BY <1>14, <2>1, AtWork DEF PatchLine, Works, Inside, SentTo, TablesInv, Shape
  <2>3. /\ \A s \in Sessions \ {i} : session'[s] = session[s]
        /\ session'[i].ticket = None /\ session'[i].state = "open"
    BY <1>14, <2>1, <2>2 DEF PatchLine, VoidTicket, TablesInv, Shape, Row, Columns, Open
  <2>4. /\ DOMAIN sent' = DOMAIN sent /\ \A x \in Sent \ {o} : sent'[x] = sent[x]
        /\ sent'[o].session \in {i, None}
    BY <1>14, <2>2 DEF PatchLine, TablesInv, Shape, Order, NoOrder, SentTo
  <2>5. ASSUME NEW s \in Sessions \ {i}
        PROVE  SentTo(s)' = SentTo(s) /\ \A x \in SentTo(s) : sent'[x].amount = sent[x].amount
    <3>1. s # None /\ sent[o].session = i /\ SentTo(s) \subseteq Sent
      BY <2>2, TablesAssumption DEF SentTo, TablesInv, Shape, Sessions
    <3>2. o \notin SentTo(s) /\ o \notin SentTo(s)'
      BY <2>4, <3>1 DEF SentTo
    <3>. QED BY <2>4, <3>1, <3>2 DEF SentTo, TablesInv, Shape
  <2>6. TicketRight(i)'
    BY <2>3 DEF TicketRight, Open
  <2>. QED BY <2>1, <2>2, <2>3, <2>4, <2>5, <2>6, WorkDone
<1>15. ASSUME NEW p \in Requests, NEW c, PatchPromo(p, c) PROVE BillInv'
  <2>1. PICK i : i = doing[p].id
    OBVIOUS
  <2>2. Inside(p) /\ Finish(p) /\ i \in Sessions /\ Open(i) /\ sent' = sent
    BY <1>15, <2>1, AtWork DEF PatchPromo, Works, Inside
  <2>3. /\ \A s \in Sessions \ {i} : session'[s] = session[s]
        /\ session'[i].ticket = None /\ session'[i].state = "open"
    BY <1>15, <2>1, <2>2 DEF PatchPromo, VoidTicket, TablesInv, Shape, Row, Columns, Open
  <2>4. \A s : SentTo(s)' = SentTo(s)
    BY <2>2 DEF SentTo
  <2>5. TicketRight(i)'
    BY <2>3 DEF TicketRight, Open
  <2>. QED BY <2>1, <2>2, <2>3, <2>4, <2>5, WorkDone
<1>16. ASSUME NEW p \in Requests, NEW off, PrintTicket(p, off) PROVE BillInv'
  <2>1. PICK i : i = doing[p].id
    OBVIOUS
  <2>2. Inside(p) /\ Finish(p) /\ i \in Sessions /\ Open(i) /\ sent' = sent
    BY <1>16, <2>1, AtWork DEF PrintTicket, Works, Inside
  <2>3. /\ \A s \in Sessions \ {i} : session'[s] = session[s]
        /\ session'[i].ticket = Bill(i) - off /\ session'[i].off = off
        /\ session'[i].state = "open" /\ session'[i].cut = session[i].cut
    BY <1>16, <2>1, <2>2 DEF PrintTicket, TablesInv, Shape, Row, Columns, Open
  <2>4. \A s : SentTo(s)' = SentTo(s)
    BY <2>2 DEF SentTo
  <2>5. Bill(i)' = Bill(i)
    BY <2>2, <2>3, <2>4, SameBill
  <2>6. TicketRight(i)'
    BY <2>3, <2>5 DEF TicketRight, Open
  <2>. QED BY <2>1, <2>2, <2>3, <2>4, <2>6, WorkDone
<1>17. ASSUME NEW p \in Requests, CloseSession(p) PROVE BillInv'
  <2>1. PICK i : i = doing[p].id
    OBVIOUS
  <2>2. Inside(p) /\ Finish(p) /\ i \in Sessions /\ Open(i) /\ sent' = sent /\ TicketRight(i)
    BY <1>17, <2>1, AtWork DEF CloseSession, Works, Inside
  <2>3. PICK due : due = IF session[i].ticket # None THEN session[i].ticket ELSE Bill(i)
    OBVIOUS
  <2>4. /\ \A s \in Sessions \ {i} : session'[s] = session[s]
        /\ session'[i] = [Closed(session[i]) EXCEPT !.paid = IF SentTo(i) = {} THEN None ELSE due]
    BY <1>17, <2>1, <2>2, <2>3 DEF CloseSession, TablesInv, Shape
  <2>5. /\ session'[i].ticket = session[i].ticket /\ session'[i].off = session[i].off
        /\ session'[i].late = session[i].late /\ session'[i].cut = session[i].cut
        /\ session'[i].state = "closed" /\ (SentTo(i) # {} => session'[i].paid = due)
    BY <2>2, <2>4 DEF Closed, TablesInv, Shape, Row, Columns
  <2>6. \A s : SentTo(s)' = SentTo(s)
    BY <2>2 DEF SentTo
  <2>7. Bill(i)' = Bill(i)
    BY <2>2, <2>5, <2>6, SameBill
  <2>8. session[i].late # TRUE => due = Due(i)
    BY <2>2, <2>3 DEF TicketRight, Due
  <2>9. TicketRight(i)'
    BY <2>5, <2>6, <2>7, <2>8 DEF TicketRight, Open, Due
  <2>. QED BY <2>1, <2>2, <2>4, <2>6, <2>9, WorkDone
<1>18. ASSUME NEW p \in Requests, DiscardSession(p) PROVE BillInv'
  <2>1. PICK i : i = doing[p].id
    OBVIOUS
  <2>2. Inside(p) /\ Finish(p) /\ i \in Sessions /\ Open(i) /\ sent' = sent /\ SentTo(i) = {}
    BY <1>18, <2>1, AtWork DEF DiscardSession, Works, Inside, BillInv, Recalls
  <2>3. \A s \in Sessions \ {i} : session'[s] = session[s]
    BY <1>18, <2>1 DEF DiscardSession, TablesInv, Shape
  <2>4. session'[i].state = "closed"
    BY <1>18, <2>1, <2>2 DEF DiscardSession, Closed, TablesInv, Shape, Row, Columns
  <2>5. \A s : SentTo(s)' = SentTo(s)
    BY <2>2 DEF SentTo
  <2>6. TicketRight(i)'
    BY <2>2, <2>4, <2>5 DEF TicketRight, Open
  <2>. QED BY <2>1, <2>2, <2>3, <2>5, <2>6, WorkDone
<1>19. ASSUME NEW p \in Requests, BreakOff(p) PROVE BillInv'
  <2>1. PICK i : i = doing[p].id
    OBVIOUS
  <2>2. Inside(p) /\ Finish(p) /\ i \in Sessions /\ TicketRight(i) /\ session' = session
    BY <1>19, <2>1, AtWork, BrokenOff
  <2>3. /\ DOMAIN sent' = DOMAIN sent
        /\ \A x \in Sent : sent'[x].session = sent[x].session /\ sent'[x].amount = sent[x].amount
    BY <1>19, BrokenOff DEF TablesInv, Shape
  <2>4. \A s : SentTo(s)' = SentTo(s) /\ SentTo(s) \subseteq Sent
    BY <2>3 DEF SentTo, TablesInv, Shape
  <2>5. TicketRight(i)'
    BY <2>2, <2>3, <2>4, SameRight
  <2>. QED BY <2>1, <2>2, <2>3, <2>4, <2>5, WorkDone
<1>20. ASSUME NEW p \in Requests, Step(p) PROVE BillInv'
  BY <1>1, <1>5, <1>6, <1>7, <1>8, <1>11, <1>12, <1>13, <1>14, <1>15, <1>16, <1>17, <1>18, <1>19, <1>20 DEF Step
<1>. QED BY <1>0, <1>1, <1>2, <1>3, <1>4, <1>9, <1>10, <1>20 DEF Next

\* The invariant of bills holds at the start.
LEMMA BillInit == Init => BillInv
<1>. SUFFICES ASSUME Init PROVE BillInv
  OBVIOUS
<1>1. \A p \in Requests : doing[p] = Idle
  BY DEF Init
<1>2. \A s \in Sessions : session[s].state = "none"
  BY DEF Init, NoSession
<1>. QED BY <1>1, <1>2, IdleIsIdle DEF BillInv, RunsAlone, Recalls, TicketRight, Open

\* Whatever was sent from a table that is closed is paid at its price, whoever sends, edits,
\* fires, prints, discards or closes at the same time, when nobody sends orders while empty
\* tables are being closed.
THEOREM TableIsPaid ==
    ASSUME EmptyAlone PROVE Spec => []BillIsPaid
<1>1. Init => TablesInv /\ BillInv
  BY TablesInit, BillInit
<1>2. (TablesInv /\ BillInv) /\ [Next]_tableVars => (TablesInv /\ BillInv)'
  BY EmptyAlone, TablesStep, BillStep
<1>3. TablesInv /\ BillInv => BillIsPaid
  BY DEF TablesInv, Shape, BillInv, TicketRight, BillIsPaid
<1>. QED BY <1>1, <1>2, <1>3, PTL DEF Spec
=============================================================================
