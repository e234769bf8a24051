---------------------------- MODULE Reservations ----------------------------
(***************************************************************************)
(* Reservations of one day: the petitions of the public form, the seats left   *)
(* in each area, and the bookings.  The seats are taken in a transaction that  *)
(* locks the day; everything around it reads, and writes later, without a lock.*)
(***************************************************************************)
EXTENDS Integers, FiniteSets, Functions

CONSTANTS
    Requests,      \* requests running at once
    Parallel,      \* operations that may overlap
    Serial,         \* operations asked for when nothing else runs
    Areas,         \* INSIDE, OUTSIDE or both
    Sizes,         \* sizes of a party
    Capacities,    \* seats the staff may set
    InsideMax,     \* the largest party that fits inside
    MaxBookings,   \* bound: rows of reservations
    MaxPetitions,  \* bound: rows of reservation_requests
    Unset

ASSUME ReservationsAssumption ==
    /\ IsFiniteSet(Requests) /\ Sizes \subseteq Nat /\ Capacities \subseteq Nat
    /\ MaxBookings \in Nat /\ Unset \notin Nat

VARIABLES
    seats,         \* the settings of the day: seats left per area, and whether it takes petitions
    booking,       \* the table reservations
    petition,      \* the table reservation_requests
    running,       \* what each request does and what it read
    offered        \* the seats the staff has set last: ghost, see SeatsWithinOffer

reservationVars == <<seats, booking, petition, running, offered>>

Bookings  == 1..MaxBookings
Petitions == 1..MaxPetitions

\* `left' is Unset where there is no limit; signup and open are the overrides of the day.
Day      == [left : [Areas -> Nat \cup {Unset}], signup : BOOLEAN, open : [Areas -> BOOLEAN]]
\* `counted' says that the seats were taken from those offered now: ghost.
NoBooking  == [state |-> "none", size |-> 0, area |-> "INSIDE", from |-> Unset, counted |-> FALSE]
NoPetition == [state |-> "none", size |-> 0, area |-> "INSIDE"]
Resting    == [op |-> "none", step |-> "idle", id |-> Unset, row |-> NoPetition, day |-> Unset]

ReservationInit ==
    /\ seats = [left |-> [a \in Areas |-> Unset], signup |-> TRUE, open |-> [a \in Areas |-> TRUE]]
    /\ booking = [i \in Bookings |-> NoBooking]
    /\ petition = [i \in Petitions |-> NoPetition]
    /\ running = [p \in Requests |-> Resting]
    /\ offered = [a \in Areas |-> Unset]

\* Rows are inserted in order.
Free(i, rows) == rows[i].state = "none" /\ \A k \in DOMAIN rows : k < i => rows[k].state # "none"

MayAsk(p, op) ==
    /\ running[p] = Resting /\ op \in Parallel \cup Serial
    /\ \A q \in Requests : running[q] = Resting \/ (op \in Parallel /\ running[q].op \in Parallel)
Become(p, r)  == running' = [running EXCEPT ![p] = r]
Goto(p, step) == Become(p, [running[p] EXCEPT !.step = step])
End(p)        == Become(p, Resting)

\* effectiveReservationFlags: an area without seats is closed; without an open area
\* the day takes no petitions.
AreaOpen(d, a)   == d.signup /\ d.open[a] /\ d.left[a] # 0
Fits(a, size)    == a = "INSIDE" => size <= InsideMax
Managed(d, a)    == d.left[a] # Unset
-----------------------------------------------------------------------------
(* The public form                                                            *)

\* createPublic up to its first write: the settings are read once.  (One who has
\* petitioned less than ten minutes ago is answered with that petition: it may
\* always be older.)
AskPublic(p, a, n) ==
    /\ MayAsk(p, "public") /\ AreaOpen(seats, a) /\ Fits(a, n)
    /\ Managed(seats, a) => n <= seats.left[a]
    /\ Become(p, [op |-> "public", step |-> IF Managed(seats, a) THEN "consume" ELSE "insert", id |-> Unset,
                  row |-> [state |-> "new", size |-> n, area |-> a], day |-> Unset])
    /\ UNCHANGED <<seats, booking, petition, offered>>

InsertPending(p) ==
    /\ running[p].step = "insert"
    /\ \E i \in Petitions :
        /\ Free(i, petition)
        /\ petition' = [petition EXCEPT ![i] = [running[p].row EXCEPT !.state = "PENDING"]]
    /\ End(p) /\ UNCHANGED <<seats, booking, offered>>

\* consumeDayAreaCapacity: under the lock of the day.  The panel forces it.
EnoughAsRead(size, left) == TRUE
Enough(size, left)       == left > 0 /\ size <= left

Consume(p) ==
    /\ running[p].step = "consume"
    /\ LET a == running[p].row.area  n == running[p].row.size  left == seats.left[a] IN
       CASE left = Unset                                     -> Goto(p, "book") /\ UNCHANGED seats
         [] left # Unset /\ (running[p].op = "accept" \/ Enough(n, left)) ->
              /\ seats' = [seats EXCEPT !.left[a] = IF n < left THEN left - n ELSE 0]
              /\ Goto(p, "book")
         [] OTHER                                           -> End(p) /\ UNCHANGED seats
    /\ UNCHANGED <<booking, petition, offered>>

\* The booking, then the petition, each in its own statement.
Book(p) ==
    /\ running[p].step = "book"
    /\ \E i \in Bookings :
        /\ Free(i, booking)
        /\ booking' = [booking EXCEPT ![i] =
             [state |-> "CONFIRMED", size |-> running[p].row.size,
              area |-> running[p].row.area, from |-> running[p].id,
              counted |-> running[p].op = "public" /\ offered[running[p].row.area] # Unset]]
    /\ Goto(p, "answer") /\ UNCHANGED <<seats, petition, offered>>

SaveAnswer(p) ==
    /\ running[p].step = "answer"
    /\ \E i \in IF running[p].id # Unset THEN {running[p].id} ELSE {k \in Petitions : Free(k, petition)} :
         petition' = [petition EXCEPT ![i] =
           [running[p].row EXCEPT !.state = IF running[p].op = "reject" THEN "REJECTED" ELSE "ACCEPTED"]]
    /\ End(p) /\ UNCHANGED <<seats, booking, offered>>

-----------------------------------------------------------------------------
(* The panel                                                                  *)

\* findPending; accept moves a party that does not fit inside to an open outside.
AskPanel(p, op, i) ==
    /\ op \in {"accept", "reject"} /\ MayAsk(p, op) /\ petition[i].state = "PENDING"
    /\ LET row   == petition[i]
           moved == op = "accept" /\ "OUTSIDE" \in Areas /\ ~Fits(row.area, row.size) /\ AreaOpen(seats, "OUTSIDE") IN
       Become(p, [op |-> op, step |-> IF op = "accept" THEN "consume" ELSE "answer", id |-> i,
                  row |-> [row EXCEPT !.area = IF moved THEN "OUTSIDE" ELSE @], day |-> Unset])
    /\ UNCHANGED <<seats, booking, petition, offered>>

RemovePetition(p, i) ==
    /\ MayAsk(p, "removePetition") /\ petition[i].state = "PENDING"
    /\ petition' = [petition EXCEPT ![i].state = "removed"]
    /\ UNCHANGED <<seats, booking, running, offered>>

\* upsertDayNotice reads the day and saves it whole later, whether the staff sets
\* seats, closes the form or writes a message.
ReadDay(p) ==
    /\ MayAsk(p, "day")
    /\ Become(p, [Resting EXCEPT !.op = "day", !.step = "saveDay", !.day = seats])
    /\ UNCHANGED <<seats, booking, petition, offered>>

SaveDay(p, d) ==
    /\ running[p].step = "saveDay"
    /\ seats' = d
    /\ LET set == {a \in Areas : d.left[a] # running[p].day.left[a]} IN
       /\ offered' = [a \in Areas |-> IF a \in set THEN d.left[a] ELSE offered[a]]
       /\ booking' = [i \in Bookings |-> [booking[i] EXCEPT !.counted = @ /\ booking[i].area \notin set]]
    /\ End(p) /\ UNCHANGED petition

\* createReservation: the staff takes no notice of the seats left.
BookStaff(p, a, n) ==
    /\ MayAsk(p, "staff")
    /\ \E i \in Bookings :
        /\ Free(i, booking)
        /\ booking' = [booking EXCEPT ![i] = [NoBooking EXCEPT !.state = "CONFIRMED", !.size = n, !.area = a]]
    /\ UNCHANGED <<seats, petition, running, offered>>

\* publicSeatReservation: the board goes round.
NextStatus == [CONFIRMED |-> "MARKED", MARKED |-> "SEATED", SEATED |-> "CONFIRMED"]
Seat(p, i) ==
    /\ MayAsk(p, "seat") /\ booking[i].state \in DOMAIN NextStatus
    /\ booking' = [booking EXCEPT ![i].state = NextStatus[@]]
    /\ UNCHANGED <<seats, petition, running, offered>>

\* removeReservation (soft), then publicDismissRemovedReservation for one that sat.
\* The seats do not come back.
RemoveReservation(p, i) ==
    /\ MayAsk(p, "removeReservation") /\ booking[i].state \in DOMAIN NextStatus
    /\ booking' = [booking EXCEPT ![i].state = IF @ = "SEATED" THEN "left" ELSE "removed"]
    /\ UNCHANGED <<seats, petition, running, offered>>

Dismiss(p, i) ==
    /\ MayAsk(p, "dismiss") /\ booking[i].state = "left"
    /\ booking' = [booking EXCEPT ![i].state = "removed"]
    /\ UNCHANGED <<seats, petition, running, offered>>

\* The process dies between two statements: seats that were taken stay taken.
Die(p) == running[p] # Resting /\ End(p) /\ UNCHANGED <<seats, booking, petition, offered>>

ReservationNext == \E p \in Requests :
    \/ \E a \in Areas, n \in Sizes : AskPublic(p, a, n)
    \/ InsertPending(p) \/ Consume(p) \/ Book(p) \/ SaveAnswer(p) \/ Die(p) \/ ReadDay(p)
    \/ \E op \in {"accept", "reject"}, i \in Petitions : AskPanel(p, op, i)
    \/ \E i \in Petitions : RemovePetition(p, i)
    \/ \E a \in Areas, c \in Capacities \cup {Unset} : running[p].step = "saveDay" /\ SaveDay(p, [running[p].day EXCEPT !.left[a] = c])
    \/ \E s \in BOOLEAN : running[p].step = "saveDay" /\ SaveDay(p, [running[p].day EXCEPT !.signup = s])
    \/ \E a \in Areas, n \in Sizes : BookStaff(p, a, n)
    \/ \E i \in Bookings : Seat(p, i) \/ RemoveReservation(p, i) \/ Dismiss(p, i)

ReservationSpec == ReservationInit /\ [][ReservationNext]_reservationVars
-----------------------------------------------------------------------------
(* Properties                                                                 *)

\* The web never takes more seats than the staff offered: whatever the panel accepts
\* on top, whoever dies half way, the parties that booked themselves fit in what
\* was set, and what is left is part of the rest.
SeatsWithinOffer ==
    \A a \in Areas : offered[a] # Unset =>
        seats.left[a] + SumFunctionOnSet([i \in Bookings |-> booking[i].size],
                                         {i \in Bookings : booking[i].counted /\ booking[i].area = a}) <= offered[a]
=============================================================================
