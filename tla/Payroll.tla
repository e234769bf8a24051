------------------------------- MODULE Payroll -------------------------------
(***************************************************************************)
(* The payroll of one month.  Generating it saves the period, reads attendance *)
(* and production, and replaces the lines of the period in one transaction.    *)
(* A month has one period whatever its range: another range takes it over.     *)
(***************************************************************************)
EXTENDS Naturals, Sequences, FiniteSets, FiniteSetsExt, TLC

CONSTANTS
    Requests,    \* requests running at once
    Employees,   \* employees that are listed
    Dates,       \* the days of the month
    ShopShifts,  \* the shifts of the shop, in order
    Length,      \* scheduled hours of each shift
    Worked,      \* the shifts each employee is assigned to
    Weeks,       \* the open days of each week
    Ranges,      \* the ranges people ask for, sets of dates
    MaxEdits,    \* bound: marks of attendance and production
    None

VARIABLES
    work,        \* attendance: employee, date and shift to "absent", "present", "holiday"
    cooked,      \* hours of production by employee and date
    period,      \* the row of payroll_periods
    lines,       \* the table payroll_lines, by employee and shift ("" is all of them)
    generating,  \* what each request is doing
    due          \* what the attendance read by the last generation is worth: ghost

payrollVars == <<work, cooked, period, lines, generating, due>>

Shifts  == {ShopShifts[i] : i \in DOMAIN ShopShifts}
Options == [split : BOOLEAN, production : BOOLEAN, only : BOOLEAN]
Zero    == [hours |-> 0, holiday |-> 0, bonus |-> 0]
Idle    == [step |-> "idle", range |-> {}, options |-> None, found |-> FALSE,
            created |-> <<>>, due |-> <<>>, removed |-> {}]

Init ==
    /\ work = [x \in Employees \X Dates \X Shifts |-> "absent"]
    /\ cooked = [x \in Employees \X Dates |-> 0]
    /\ period = [exists |-> FALSE, range |-> {}, options |-> None]
    /\ lines = <<>> /\ generating = [p \in Requests |-> Idle]
    /\ due = [e \in Employees |-> Zero]

Marks == Cardinality({x \in DOMAIN work : work[x] # "absent"}) + Cardinality({x \in DOMAIN cooked : cooked[x] # 0})

\* Attendance and production are edited at any time; bound: only the edits a
\* generation reads, those before it, are told apart.
MayEdit == Marks < MaxEdits /\ \A p \in Requests : generating[p] = Idle

Mark(x, mark) ==
    /\ MayEdit /\ work[x] # mark /\ x[3] \in Worked[x[1]]
    /\ work' = [work EXCEPT ![x] = mark] /\ UNCHANGED <<cooked, period, lines, generating, due>>
Cook(x) ==
    /\ MayEdit /\ cooked' = [cooked EXCEPT ![x] = 1 - @]
    /\ UNCHANGED <<work, period, lines, generating, due>>
-----------------------------------------------------------------------------
HoursOf(e, range, shifts, mark) ==
    MapThenSumSet(LAMBDA x : Length[x[2]], {x \in range \X shifts : work[<<e, x[1], x[2]>>] = mark})
Kitchen(e, range) == MapThenSumSet(LAMBDA d : cooked[<<e, d>>], range)
Completed(covered, range) == Cardinality({w \in Weeks : w \cap range # {} /\ w \cap range \subseteq covered})

\* buildLineAmounts: what a line of these shifts is worth, in hours.
LineAmounts(e, range, shifts, bonus, kitchen, options) ==
    LET covered == IF options.only THEN {d \in range : cooked[<<e, d>>] > 0}
                   ELSE {d \in range : \E s \in shifts : work[<<e, d, s>>] # "absent"}
    IN [hours   |-> (IF options.only THEN 0 ELSE HoursOf(e, range, shifts, "present"))
                     + (IF options.only \/ (options.production /\ kitchen) THEN Kitchen(e, range) ELSE 0),
        holiday |-> IF options.only THEN 0 ELSE HoursOf(e, range, shifts, "holiday"),
        bonus   |-> IF bonus THEN Completed(covered, range) ELSE 0]

Total(e, range, options) == LineAmounts(e, range, Shifts, TRUE, TRUE, options)

Targets(e, range) ==
    LET pick(S) == SelectSeq(ShopShifts, LAMBDA s : s \in S)
        seen    == {s \in Shifts : \E d \in range : work[<<e, d, s>>] # "absent"}
    IN IF pick(Worked[e]) # <<>> THEN pick(Worked[e])
       ELSE IF seen # {} THEN pick(seen) ELSE <<ShopShifts[1]>>

OnEveryLine(i) == i > 0
\* The bonus and the kitchen belong to the person, not to a shift: first line.
OnFirst(i) == i = 1

LineFor(e, i, range, options) ==
    LET targets == Targets(e, range) IN
    [LineAmounts(e, range, {targets[i]}, FALSE, OnFirst(i), options)
       EXCEPT !.bonus = IF i = 1 THEN Total(e, range, options).bonus ELSE 0]

Created(range, options) ==
    IF ~options.split THEN [k \in Employees \X {""} |-> Total(k[1], range, options)]
    ELSE LET targets(e) == Targets(e, range)
             keys == UNION {{<<e, targets(e)[i]>> : i \in DOMAIN targets(e)} : e \in Employees}
         IN [k \in keys |-> LineFor(k[1], CHOOSE i \in DOMAIN targets(k[1]) : targets(k[1])[i] = k[2], range, options)]
-----------------------------------------------------------------------------
Become(p, r) == generating' = [generating EXCEPT ![p] = r]

\* generateByRange.  Only production is never split by shift and always counts the
\* kitchen.  Requests that overlap agree on the split.
Ask(p, range, options) ==
    /\ generating[p] = Idle
    /\ options.only => options.production /\ ~options.split
    /\ \A q \in {q \in Requests : generating[q] # Idle} : generating[q].options.split = options.split
    /\ Become(p, [Idle EXCEPT !.step = "slot", !.range = range, !.options = options, !.found = period.exists])
    /\ UNCHANGED <<work, cooked, period, lines, due>>

\* The unique index of shop, year and month refuses a second period.
SaveSlot(p) ==
    LET g == generating[p] IN
    /\ g.step = "slot"
    /\ IF ~g.found /\ period.exists THEN Become(p, Idle) /\ UNCHANGED period
       ELSE /\ period' = [exists |-> TRUE, range |-> g.range, options |-> g.options]
            /\ Become(p, [g EXCEPT !.step = "read"])
    /\ UNCHANGED <<work, cooked, lines, due>>

ReadDays(p) ==
    LET g == generating[p] IN
    /\ g.step = "read"
    /\ Become(p, [g EXCEPT !.step = "delete", !.created = Created(g.range, g.options),
                           !.due = [e \in Employees |-> Total(e, g.range, g.options)]])
    /\ UNCHANGED <<work, cooked, period, lines, due>>

\* READ COMMITTED: the delete waits for rows another transaction deleted, and
\* does not see the ones it has not committed.
DeleteLines(p) ==
    /\ generating[p].step = "delete"
    /\ \A q \in Requests : generating[q].step = "insert" => generating[q].removed = {}
    /\ Become(p, [generating[p] EXCEPT !.step = "insert", !.removed = DOMAIN lines])
    /\ UNCHANGED <<work, cooked, period, lines, due>>

\* The unique index of period, employee and shift.
Clash(kept, created) == DOMAIN kept \cap DOMAIN created # {}

InsertLines(p) ==
    LET g    == generating[p]
        kept == [k \in DOMAIN lines \ g.removed |-> lines[k]] IN
    /\ g.step = "insert"
    /\ IF Clash(kept, g.created) THEN UNCHANGED <<lines, due>>
       ELSE lines' = g.created @@ kept /\ due' = g.due
    /\ Become(p, Idle) /\ UNCHANGED <<work, cooked, period>>

\* An error or a death: what is not committed is rolled back.
Fail(p) ==
    /\ generating[p] # Idle /\ Become(p, Idle)
    /\ UNCHANGED <<work, cooked, period, lines, due>>

Next ==
    \/ \E x \in DOMAIN work, mark \in {"absent", "present", "holiday"} : Mark(x, mark)
    \/ \E x \in DOMAIN cooked : Cook(x)
    \/ \E p \in Requests : \/ \E range \in Ranges, options \in Options : Ask(p, range, options)
                           \/ SaveSlot(p) \/ ReadDays(p) \/ DeleteLines(p) \/ InsertLines(p) \/ Fail(p)

Spec == Init /\ [][Next]_payrollVars
-----------------------------------------------------------------------------
\* "Borrar y regenerar líneas juntos": however the month is split into lines,
\* generated again, over another range, twice at once or after an error, the lines
\* of an employee add up to his hours, holidays, kitchen and bonus, once each.
PayrollPaysOnce == \A e \in Employees, f \in {"hours", "holiday", "bonus"} :
    MapThenSumSet(LAMBDA k : lines[k][f], {k \in DOMAIN lines : k[1] = e}) = due[e][f]
=============================================================================
