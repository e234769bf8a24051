----------------------------- MODULE DayImports -----------------------------
(***************************************************************************)
(* Spreadsheets with a row per day: the closings of past days, the attendance    *)
(* of the staff and the hours of production (excel-import, attendance-excel-       *)
(* import and production-attendance-excel-import).  People that the file names and *)
(* the shop does not know are made on the way.  Nothing runs in a transaction:      *)
(* a server that dies leaves what was written, and the file is uploaded again,      *)
(* while others close the register, punch the clock and deactivate employees.       *)
(*                                                                         *)
(* The name of a user is the sequence of its words, normalised.                     *)
(***************************************************************************)
EXTENDS Integers, Sequences, FiniteSets, SequencesExt

CONSTANTS
    Files,        \* what may be uploaded: [kind, rows, listed]
    Names,        \* employees
    Logins,       \* names of users
    Days, Shifts, \* Shifts is a sequence: the first one is what an import writes
    WithHours,    \* whether the attendance of the shop has hours
    DefaultIn, DefaultOut,
    MaxUploads, MaxTouches,   \* bounds: uploads, and things that people do by hand
    None

VARIABLES
    person,     \* employees: None or [active, producer]
    punch,      \* attendance of an employee, a day and a shift
    produced,   \* hours of production of an employee and a day
    closing,    \* closing of a day and a shift: None or [state, by]
    login,      \* users: "none", "elsewhere" or "linked" to the shop
    job,        \* the import that is running
    uploads, touches

staff == <<person, punch, produced>>
till  == <<closing, login>>
vars  == <<staff, till, job, uploads, touches>>

First == Shifts[1]
ShiftSet == Range(Shifts)
NoJob == [file |-> [kind |-> None, rows |-> <<>>, listed |-> <<>>], people |-> <<>>, rows |-> <<>>, known |-> {}, taken |-> {}, ended |-> FALSE]
Finished == [NoJob EXCEPT !.ended = TRUE]
Free  == job.file = NoJob.file
Kind  == job.file.kind

----------------------------------------------------------------------------
\* Attendance and production

\* Absent is without times; present without times is present from the usual
\* hour to the usual hour, when the shop keeps hours.
Enriched(r) ==
    LET hours == WithHours /\ r.present
        Or(t, usual) == IF t = None THEN usual ELSE t
    IN  [present |-> r.present, holiday |-> r.holiday,
         in |-> IF hours THEN Or(r.in, DefaultIn) ELSE None, out |-> IF hours THEN Or(r.out, DefaultOut) ELSE None]

\* What the export of the shop has for a day: an absence when there is nothing.
Exported(n, d) ==
    LET rows == {punch[n, d, s] : s \in ShiftSet} \ {None}
    IN  IF rows = {} THEN {[present |-> FALSE, holiday |-> FALSE, in |-> None, out |-> None]} ELSE rows
\* An import writes what it says and forgets what was there.
Stored(n, d, r) == Enriched(r)

Known(names) == {[name |-> n, was |-> person[n]] : n \in names}
Cached(n)    == (CHOOSE k \in job.known : k.name = n).was
People(f)    == f.listed \o [i \in DOMAIN f.rows |-> f.rows[i].name]

UploadDays(f) ==
    /\ Free /\ uploads < MaxUploads /\ f.kind \in {"attendance", "production"}
    /\ LET rows == SelectSeq(f.rows, LAMBDA r : r.name # None /\ r.day # None /\ (f.kind = "production" => r.hours >= 0)) IN
       /\ rows # <<>>
       /\ job' = [NoJob EXCEPT !.file = f, !.rows = rows, !.known = Known(Names),
                               !.people = IF f.kind = "attendance" THEN SelectSeq(People(f), LAMBDA n : n # None) ELSE <<Head(rows).name>>]
    /\ uploads' = uploads + 1
    /\ UNCHANGED <<staff, till, touches>>

\* ensureEmployee: whoever is missing is hired, whoever had left comes back, and
\* who appears in the file of production produces food.
Ensured(n) ==
    IF Cached(n) = None THEN [active |-> TRUE, producer |-> Kind = "production"]
    ELSE [active |-> TRUE, producer |-> Cached(n).producer \/ Kind = "production"]
Ensure ==
    /\ job.people # <<>> /\ Kind # "closings"
    /\ LET n == Head(job.people) IN
       /\ person' = IF Cached(n) = Ensured(n) THEN person
                    ELSE [person EXCEPT ![n] = IF @ = None THEN Ensured(n)
                                               ELSE [active |-> @.active \/ ~Cached(n).active, producer |-> @.producer \/ Ensured(n).producer]]
       /\ job' = [job EXCEPT !.people = Tail(@),
                             !.known = {k \in @ : k.name # n} \cup {[name |-> n, was |-> Ensured(n)]}]
    /\ UNCHANGED <<punch, produced, till, uploads, touches>>

\* The day is found and written over, or made.
WriteDay ==
    /\ job.people = <<>> /\ job.rows # <<>> /\ Kind # "closings"
    /\ LET r == Head(job.rows)
           rest == Tail(job.rows) IN
       /\ \/ /\ Kind = "attendance"
             /\ punch' = [punch EXCEPT ![r.name, r.day, First] = Stored(r.name, r.day, r)]
             /\ UNCHANGED produced
          \/ /\ Kind = "production"
             /\ produced' = [produced EXCEPT ![r.name, r.day] = r.hours]
             /\ UNCHANGED punch
       /\ job' = IF rest = <<>> THEN Finished
                 ELSE [job EXCEPT !.rows = rest, !.people = IF Kind = "production" THEN <<Head(rest).name>> ELSE <<>>]
    /\ UNCHANGED <<person, till, uploads, touches>>

----------------------------------------------------------------------------
\* Closings

\* The first row of a day counts; the total and the amount of the system default
\* to the sum of the methods.
Total(r)    == IF r.declared > 0 THEN r.declared ELSE r.sum
Kept(rows)  == [i \in {j \in DOMAIN rows : rows[j].day # None /\ \A k \in 1..(j - 1) : rows[k].day # rows[j].day} |-> rows[i]]
KeptSeq(rows) == LET keys == SetToSortSeq(DOMAIN Kept(rows), <) IN [i \in DOMAIN keys |-> rows[keys[i]]]

\* A name is the user of that name, or one whose name contains it or its first word.
Matches(name) ==
    LET users == {u \in Logins : login[u] # "none"}
        near  == {u \in users : \E i \in DOMAIN u : u[i] = name[1]}
    IN  IF name \in users THEN {name} ELSE near

\* The days that are taken are read first; then the people are looked for, made
\* and linked; then the closings are made.
UploadClosings(f) ==
    /\ Free /\ uploads < MaxUploads /\ f.kind = "closings"
    /\ LET rows == KeptSeq(f.rows) IN
       /\ rows # <<>>
       /\ job' = [NoJob EXCEPT !.file = f, !.rows = rows,
                     !.people = SelectSeq([i \in DOMAIN rows |-> rows[i].who], LAMBDA w : w # None),
                     !.taken = {d \in Days : \E s \in ShiftSet : closing[d, s] # None}]
    /\ uploads' = uploads + 1
    /\ UNCHANGED <<staff, till, touches>>

\* Someone of the name that the file gives is made, and linked by a statement of its own.
MakeUser ==
    /\ Kind = "closings" /\ job.people # <<>>
    /\ LET name == Head(job.people) IN
       /\ Matches(name) = {}
       /\ login' = [login EXCEPT ![name] = "elsewhere"]
    /\ UNCHANGED <<staff, closing, job, uploads, touches>>
LinkUser ==
    /\ Kind = "closings" /\ job.people # <<>>
    /\ \E u \in Matches(Head(job.people)) : login' = [login EXCEPT ![u] = "linked"]
    /\ job' = [job EXCEPT !.people = Tail(@)]
    /\ UNCHANGED <<staff, closing, uploads, touches>>

\* closings.create: a draft of the day is filled in, a closing of the day refuses.
\* What is refused is skipped and the next row goes on.
WriteClosing ==
    /\ Kind = "closings" /\ job.people = <<>> /\ job.rows # <<>>
    /\ LET r == Head(job.rows)
           now == closing[r.day, First]
           skip == r.day \in job.taken \/ Total(r) = 0 \/ (now # None /\ now.state # "draft")
       IN  closing' = IF skip THEN closing ELSE [closing EXCEPT ![r.day, First] = [state |-> "submitted", by |-> "file"]]
    /\ job' = IF Tail(job.rows) = <<>> THEN Finished ELSE [job EXCEPT !.rows = Tail(@)]
    /\ UNCHANGED <<staff, login, uploads, touches>>

----------------------------------------------------------------------------
\* What others do meanwhile

Touch == touches < MaxTouches /\ touches' = touches + 1 /\ UNCHANGED <<job, uploads>>
Deactivate(n) ==
    /\ Touch /\ person[n] # None /\ person[n].active
    /\ person' = [person EXCEPT ![n].active = FALSE] /\ UNCHANGED <<punch, produced, till>>
PunchIn(n, d, s) ==
    /\ Touch /\ person[n] # None /\ person[n].active /\ punch[n, d, s] = None
    /\ punch' = [punch EXCEPT ![n, d, s] = [present |-> TRUE, holiday |-> FALSE, in |-> IF WithHours THEN DefaultIn + 1 ELSE None, out |-> None]]
    /\ UNCHANGED <<person, produced, till>>
PunchOut(n, d, s) ==
    /\ Touch /\ WithHours /\ punch[n, d, s] # None /\ punch[n, d, s].present /\ punch[n, d, s].out = None
    /\ punch' = [punch EXCEPT ![n, d, s].out = DefaultOut + 1]
    /\ UNCHANGED <<person, produced, till>>
OpenRegister(d, s) ==
    /\ Touch /\ closing[d, s] = None
    /\ closing' = [closing EXCEPT ![d, s] = [state |-> "draft", by |-> "hand"]]
    /\ UNCHANGED <<staff, login>>
CloseByHand(d, s) ==
    /\ Touch /\ closing[d, s] \in {None, [state |-> "draft", by |-> "hand"]}
    /\ closing' = [closing EXCEPT ![d, s] = [state |-> "submitted", by |-> "hand"]]
    /\ UNCHANGED <<staff, login>>

Die == ~Free /\ job' = NoJob /\ UNCHANGED <<staff, till, uploads, touches>>

Init ==
    /\ person \in [Names -> {None, [active |-> FALSE, producer |-> FALSE]}]
    /\ punch = [x \in Names \X Days \X ShiftSet |-> None] /\ produced = [x \in Names \X Days |-> None]
    /\ closing = [x \in Days \X ShiftSet |-> None]
    /\ login \in [Logins -> {"none", "elsewhere"}]
    /\ job = NoJob /\ uploads = 0 /\ touches = 0

Next ==
    \/ \E f \in Files : UploadDays(f) \/ UploadClosings(f)
    \/ Ensure \/ WriteDay \/ MakeUser \/ LinkUser \/ WriteClosing \/ Die
    \/ \E n \in Names :
          \/ Deactivate(n)
          \/ \E d \in Days, s \in ShiftSet : PunchIn(n, d, s) \/ PunchOut(n, d, s)
    \/ \E d \in Days, s \in ShiftSet : OpenRegister(d, s) \/ CloseByHand(d, s)

Spec == Init /\ [][Next]_vars

----------------------------------------------------------------------------

Ends(kind) == Kind = kind /\ job'.ended
LastOf(rows) == {r \in Range(rows) : \E i \in DOMAIN rows : rows[i] = r /\ \A k \in DOMAIN rows : rows[k].name = r.name /\ rows[k].day = r.day => k <= i}

\* However often it was uploaded and wherever it died before, an import that
\* reaches its end has put every day of the file in the books - the last row of
\* a day - and everybody in it works here and belongs to the shop (commit).
Arrived ==
    /\ Ends("attendance") /\ touches = 0 =>
          \A r \in LastOf(job.file.rows) : r.name # None /\ r.day # None =>
              punch'[r.name, r.day, First] = Enriched(r) /\ person'[r.name].active
    /\ Ends("production") /\ touches = 0 =>
          \A r \in LastOf(job.file.rows) : r.name # None /\ r.day # None /\ r.hours >= 0 =>
              produced'[r.name, r.day] = r.hours /\ person'[r.name].producer
    /\ Ends("closings") => \A r \in Range(KeptSeq(job.file.rows)) :
          /\ Total(r) > 0 => \E s \in ShiftSet : closing'[r.day, s] # None
          /\ r.who # None => \E u \in Logins : login'[u] = "linked" /\ r.who[1] \in Range(u)

\* A closing made by hand is never taken over by a row of a file that was read
\* before it (enrich, create).
HandmadeStays ==
    \A x \in DOMAIN closing : closing[x] = [state |-> "submitted", by |-> "hand"] => closing'[x] = closing[x]

\* The file of an export is a file for the import: writing it back changes
\* nothing on a day that has its times and one shift (exportRange, commit).
ExportGoesBack ==
    \A n \in Names, d \in Days :
        /\ punch[n, d, First] # None /\ punch[n, d, First].present /\ (WithHours => punch[n, d, First].out # None)
        /\ \A s \in ShiftSet \ {First} : punch[n, d, s] = None
        => \A r \in Exported(n, d) : Enriched(r) = punch[n, d, First]

\* Uploading a file of days again, after a crash or for no reason, leads to the
\* same books: what the file says arrives, what was made by hand meanwhile stays,
\* and what the program exports is what it reads.
Converged == Arrived /\ HandmadeStays /\ ExportGoesBack
=============================================================================
