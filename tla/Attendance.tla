----------------------------- MODULE Attendance -----------------------------
(***************************************************************************)
(* The attendance of one employee on one business day.  A punch at the kiosk   *)
(* or from the panel reads the rows of the day, decides and saves its row      *)
(* later, without a lock; an administrator edits rows the same way.  save()    *)
(* writes every column that differs; a row without id is inserted, which the   *)
(* unique index of employee, date and shift allows once.                       *)
(***************************************************************************)
EXTENDS Naturals

CONSTANTS
    Requests,    \* requests running at once
    Together,    \* operations that may overlap
    Alone,       \* operations asked for when nothing else runs
    Shifts,      \* the shifts of the day the employee works
    Rotating,    \* those he only rotates in: not offered at the kiosk
    Hours,       \* times of the day, > 0; 0 is null
    In, Out,     \* the schedule of a shift
    BlankRows,   \* administrators may leave a row that has no entry but can be punched
    None

VARIABLES
    days,        \* the table attendance_days, by shift
    punching,    \* the row each request is about to save
    withHours    \* serviceAttendanceWithHours of the shop

attendanceVars == <<days, punching, withHours>>

NoRow == [exists |-> FALSE, present |-> FALSE, holiday |-> FALSE, in |-> 0, out |-> 0]
Idle  == [op |-> "none", shift |-> None, fresh |-> FALSE, row |-> NoRow]

Init ==
    /\ days = [s \in Shifts |-> NoRow]
    /\ punching = [p \in Requests |-> Idle] /\ withHours = TRUE

MayAsk(p, op) ==
    /\ punching[p] = Idle /\ op \in Together \cup Alone
    /\ \A q \in Requests : punching[q] = Idle \/ (op \in Together /\ punching[q].op \in Together)

PunchState(row) ==
    CASE ~withHours -> IF row.present THEN "complete" ELSE "empty"
      [] row.in # 0 /\ row.out # 0 -> "complete"
      [] row.in # 0 /\ row.out = 0 -> "inOnly"
      [] OTHER -> "empty"

\* A field that is None was not sent.  Who sends one hour only keeps the other.
ApplyShift(row, present, in, out) ==
    LET sent(x, old) == IF x = None THEN old ELSE x
        marked  == [row EXCEPT !.exists = TRUE, !.present = sent(present, @)]
        inn     == sent(in, row.in)
        outt    == sent(out, row.out)
        partial == (in = None) # (out = None) \/ (in # None /\ out # None /\ (inn = 0) # (outt = 0))
    IN IF ~withHours \/ ~marked.present THEN [marked EXCEPT !.in = 0, !.out = 0]
       ELSE [marked EXCEPT !.in  = IF inn = 0 /\ ~partial THEN In ELSE inn,
                           !.out = IF outt = 0 /\ ~partial THEN Out ELSE outt]

Prepare(p, op, s, row) ==
    /\ punching' = [punching EXCEPT ![p] = [op |-> op, shift |-> s, fresh |-> ~days[s].exists, row |-> row]]
    /\ UNCHANGED <<days, withHours>>
-----------------------------------------------------------------------------
\* punchAttendance, from the kiosk or the panel.  What does not save is a preview
\* or an error and changes nothing; `in' and `out' are the hours of the form.
Punch(p, s, in, out, panel) ==
    LET state == PunchState(days[s])
        saves == CASE state = "complete" -> FALSE
                   [] ~withHours         -> TRUE
                   [] state = "inOnly"   -> out # 0 /\ in = 0
                   [] OTHER              -> in # 0 IN
    /\ MayAsk(p, "punch")
    /\ panel \/ s \notin Rotating
    /\ ~(days[s].holiday /\ ~days[s].present)
    /\ saves
    /\ Prepare(p, "punch", s, CASE ~withHours -> ApplyShift(days[s], TRUE, None, None)
                                [] state = "inOnly" -> ApplyShift(days[s], TRUE, None, out)
                                [] OTHER -> ApplyShift(days[s], TRUE, in, None))

\* upsertDay, and each item of bulkUpsert.
Upsert(p, s, present, holiday, in, out) ==
    LET row == ApplyShift([days[s] EXCEPT !.holiday = IF holiday = None THEN @ ELSE holiday], present, in, out) IN
    /\ MayAsk(p, "upsert")
    /\ BlankRows \/ ~withHours \/ row.in # 0 \/ (row.holiday /\ ~row.present)
    /\ Prepare(p, "upsert", s, row)

InsertsTwice(s) == s \in Shifts
Inserts(s) == ~days[s].exists

Save(p) ==
    LET s == punching[p].shift IN
    /\ punching[p] # Idle
    /\ days' = IF punching[p].fresh /\ ~Inserts(s) THEN days ELSE [days EXCEPT ![s] = punching[p].row]
    /\ punching' = [punching EXCEPT ![p] = Idle] /\ UNCHANGED withHours

\* The shop asks for hours or not from one day to the next, never in between.
ChangeHours ==
    /\ \A s \in Shifts : days[s] = NoRow
    /\ \A p \in Requests : punching[p] = Idle
    /\ withHours' = ~withHours /\ UNCHANGED <<days, punching>>

Next ==
    \/ \E p \in Requests : Save(p)
    \/ \E p \in Requests, s \in Shifts, in, out \in Hours \cup {0}, panel \in BOOLEAN :
         Punch(p, s, in, out, panel)
    \/ \E p \in Requests, s \in Shifts, present, holiday \in BOOLEAN \cup {None}, in, out \in Hours \cup {0, None} :
         Upsert(p, s, present, holiday, in, out)
    \/ ChangeHours

Spec == Init /\ [][Next]_attendanceVars
-----------------------------------------------------------------------------
\* "Entrada y salida por separado (inmutable en kiosco)": once an entry is
\* registered no punch changes it, also when the button is pressed twice or the
\* kiosk and the panel punch at once; only an edition of an administrator may.
EntryStands == \A s \in Shifts :
    days[s].in # 0 /\ (\A p \in Requests : punching[p].op # "upsert") => days'[s].in = days[s].in
=============================================================================
