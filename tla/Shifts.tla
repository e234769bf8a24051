------------------------------- MODULE Shifts -------------------------------
(***************************************************************************)
(* The shifts of a shop: which one is on, which one owns an instant (closings  *)
(* and reports), which day it belongs to, and whether a shift closed since the *)
(* shop started to take orders.  Instants are ticks; there are DayLength of    *)
(* them in a day and Week days in a week, day 0 being the first of a week.     *)
(***************************************************************************)
EXTENDS Integers, SequencesExt, FiniteSetsExt

CONSTANTS DayLength, Week, None

Days == 0..Week - 1

\* opens and closes are ticks of a day; a shift that closes when it opens lasts a day.
Shift == [opens : 0..DayLength - 1, closes : 0..DayLength - 1, days : (SUBSET Days) \ {{}}]

DateOf(t)    == t \div DayLength
TimeOf(t)    == t % DayLength
Weekday(d)   == d % Week
RunsOn(s, d) == Weekday(d) \in s.days
On(shifts, d) == SelectSeq(shifts, LAMBDA s : RunsOn(s, d))
At(d, time)  == d * DayLength + time

\* sortedShifts is stable: shifts that open together keep their order.
Sorted(shifts) ==
    LET before(i, k) == \/ shifts[i].opens < shifts[k].opens
                        \/ shifts[i].opens = shifts[k].opens /\ i < k
        rank(i) == 1 + Cardinality({k \in DOMAIN shifts : before(k, i)}) IN
    [r \in DOMAIN shifts |-> shifts[CHOOSE i \in DOMAIN shifts : rank(i) = r]]
OnSorted(shifts, d) == Sorted(On(shifts, d))
Place(s, seq) == SelectInSeq(seq, LAMBDA x : x = s)
-----------------------------------------------------------------------------
\* isTimeInShiftWindow
InWindow(time, s) ==
    CASE s.opens = s.closes -> TRUE
      [] s.opens < s.closes -> time >= s.opens /\ time < s.closes
      [] OTHER              -> time >= s.opens \/ time < s.closes

\* findActiveShift: the first that runs now; after midnight an overnight shift is
\* yesterday's.
IsActive(s, t) ==
    LET started == IF s.opens > s.closes /\ TimeOf(t) < s.closes THEN DateOf(t) - 1 ELSE DateOf(t) IN
    RunsOn(s, started) /\ InWindow(TimeOf(t), s)
FindActive(shifts, t) == LET k == SelectInSeq(shifts, LAMBDA s : IsActive(s, t)) IN IF k = 0 THEN None ELSE shifts[k]

\* resolveCurrentShift: the one that opened last, today or yesterday.
SinceOpened(s, t) ==
    {t - At(d, s.opens) : d \in {x \in {DateOf(t), DateOf(t) - 1} : RunsOn(s, x) /\ At(x, s.opens) <= t}}
ResolveCurrent(shifts, t) ==
    LET since == [k \in DOMAIN shifts |-> SinceOpened(shifts[k], t)]
        all   == UNION {since[k] : k \in DOMAIN shifts}
        today == On(shifts, DateOf(t)) IN
    IF all # {} THEN shifts[Min({k \in DOMAIN shifts : Min(all) \in since[k]})]
    ELSE IF today # <<>> THEN today[1] ELSE shifts[1]

\* nextShiftOf and daysUntilNextShift: the next of the day, else the first of the
\* next day that has shifts.
NextShift(s, shifts, d) ==
    LET today == OnSorted(shifts, d)
        k     == Place(s, today)
        ahead == {n \in 1..Week : OnSorted(shifts, d + n) # <<>>} IN
    IF k > 0 /\ k < Len(today) THEN [shift |-> today[k + 1], days |-> 0]
    ELSE IF ahead # {} THEN [shift |-> OnSorted(shifts, d + Min(ahead))[1], days |-> Min(ahead)]
    ELSE [shift |-> s, days |-> 0]

\* previousShiftOf and previousShiftBusinessDate.
PreviousShift(s, shifts, d) ==
    LET today == OnSorted(shifts, d)
        k     == Place(s, today)
        back  == {n \in 1..Week : OnSorted(shifts, d - n) # <<>>} IN
    IF k > 1 THEN [shift |-> today[k - 1], days |-> 0]
    ELSE IF back # {} THEN [shift |-> Last(OnSorted(shifts, d - Min(back))), days |-> Min(back)]
    ELSE [shift |-> s, days |-> 0]

\* shopShiftOwnershipRangeUtc: from the opening until the next shift opens.
Ownership(s, shifts, d) ==
    LET next == NextShift(s, shifts, d) IN
    [from |-> At(d, s.opens), to |-> At(d + next.days, next.shift.opens)]

\* shopShiftDayRangeUtc
DayRange(s, d) ==
    [from |-> At(d, s.opens),
     to   |-> IF s.opens < s.closes THEN At(d, s.closes) ELSE At(d + 1, s.closes)]

\* shiftClosedBetween steps by a day from a day and a half before `opened' and stops
\* half a day after `now'.
DaysLookedAtNoEve(opened, now) == DateOf(opened)..DateOf(now)
DaysLookedAt(opened, now) ==
    LET first == opened - DayLength - DayLength \div 2
        last  == now + DayLength \div 2 IN
    {DateOf(first + n * DayLength) : n \in 0..(last - first) \div DayLength}
ClosedBetween(opened, now, shifts) ==
    /\ now > opened
    /\ \E d \in DaysLookedAt(opened, now), k \in DOMAIN shifts :
        /\ RunsOn(shifts[k], d) /\ shifts[k].opens # shifts[k].closes
        /\ DayRange(shifts[k], d).to \in opened + 1..now

-----------------------------------------------------------------------------
(* Every pair of shifts and every instant of one week, with whole weeks before *)
(* and after it for the shifts that begin or end outside of it.                 *)

VARIABLES shifts, now

vars == <<shifts, now>>

Init == shifts = <<>> /\ now = Week * DayLength

Configure == shifts = <<>> /\ shifts' \in Shift \X Shift /\ UNCHANGED now
Tick      == shifts # <<>> /\ now < 2 * Week * DayLength - 1 /\ now' = now + 1 /\ UNCHANGED shifts

Next == Configure \/ Tick
Spec == Init /\ [][Next]_vars

\* Two shifts of a day that open at the same time are told apart by nothing.
Distinct == shifts # <<>> /\ shifts[1].opens # shifts[2].opens

\* Days and shifts whose ownership range holds the instant.
Owners(t) ==
    {w \in (-Week..3 * Week) \X DOMAIN shifts :
        /\ RunsOn(shifts[w[2]], w[1])
        /\ LET range == Ownership(shifts[w[2]], shifts, w[1]) IN range.from <= t /\ t < range.to}

\* Every instant belongs to one shift of one day: reports by shift neither lose nor
\* repeat a sale, over midnight, gaps in the week and shifts that overlap.
OneOwner == Distinct => Cardinality(Owners(now)) = 1

\* The shift that is on is the one whose range holds the instant, as far as it
\* opened today or yesterday.
CurrentOwns ==
    Distinct => \A w \in Owners(now) : w[1] >= DateOf(now) - 1 => ResolveCurrent(shifts, now) = shifts[w[2]]

\* The report that compares with the shift before goes back to where it came from.
PreviousUndoesNext ==
    Distinct => \A d \in Week..2 * Week, k \in DOMAIN shifts :
        RunsOn(shifts[k], d) =>
            LET next == NextShift(shifts[k], shifts, d) IN
            PreviousShift(next.shift, shifts, d + next.days) = [shift |-> shifts[k], days |-> next.days]

\* Ends of shifts, those that last a whole day aside.
Ends == {DayRange(shifts[w[2]], w[1]).to :
           w \in {x \in (-Week..3 * Week) \X DOMAIN shifts :
                     RunsOn(shifts[x[2]], x[1]) /\ shifts[x[2]].opens # shifts[x[2]].closes}}

\* Whoever looks at the shop learns that a shift ended since it took orders, at the
\* latest half a day after the end, and never without an end.
EndIsSeen ==
    shifts # <<>> => \A opened \in now - 2 * DayLength..now :
        /\ ClosedBetween(opened, now, shifts) => Ends \cap (opened + 1..now) # {}
        /\ Ends \cap (opened + 1..now - DayLength \div 2) # {} => ClosedBetween(opened, now, shifts)
=============================================================================
