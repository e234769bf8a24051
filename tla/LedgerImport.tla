---------------------------- MODULE LedgerImport ----------------------------
(***************************************************************************)
(* The spreadsheet of an accountant becomes movements of the ledger             *)
(* (movements-excel-import.service.ts).  There is no transaction: the rows are    *)
(* compared with the books once, then accounts, concepts and movements are         *)
(* inserted one statement after the other, and the server may die at any of them.  *)
(* What a person does about it is to upload the same file again.                   *)
(*                                                                         *)
(* A name is the sequence of its words, normalised: norm() forgets capitals,       *)
(* accents and repeated blanks, and so does the collation of the database.         *)
(***************************************************************************)
EXTENDS Integers, Sequences, FiniteSets, SequencesExt

CONSTANTS
    Workbooks,     \* the files that are uploaded: sequences of sheets
    Accounts,      \* the accounts of the shop at first: [name, type, on]
    Concepts,      \* and its concepts: [name, kind, on]
    Answers,       \* what the person chose for the names of a file
    Selections,    \* the kinds of rows chosen, {} when nobody chose
    Fixes,         \* the kinds corrected in the preview: functions of row numbers
    Uploaders,     \* the people that upload
    MaxUploads,    \* bound on the uploads
    None

VARIABLES
    account,    \* the accounts
    concept,    \* the concepts
    movement,   \* the movements
    upload,     \* for each uploader, the upload going on
    uploads     \* how many were started

vars == <<account, concept, movement, upload, uploads>>

Kinds == {"expense", "income", "transfer"}

\* The sheet that is read: one with a known name, else a visible one, else any
\* whose headers are found; balances and instructions are never read.
Picked(wb) ==
    LET headed      == SelectSeq(wb, LAMBDA s : s.headed)
        Called(name) == SelectSeq(headed, LAMBDA s : s.name = name)
        other == SelectSeq(headed, LAMBDA s : s.name # "saldos")
        seen  == SelectSeq(other, LAMBDA s : s.visible)
        all   == Called("movimientos") \o Called("original") \o Called("sheet1") \o seen \o other
    IN  IF all = <<>> THEN <<>> ELSE Head(all).rows

\* One amount of two is enough when the rate is known.
Priced(r) ==
    [r EXCEPT !.uyu = IF @ = 0 /\ r.usd > 0 /\ r.rate > 0 THEN r.usd * r.rate ELSE @,
              !.usd = IF @ = 0 /\ r.uyu > 0 /\ r.rate > 0 THEN r.uyu \div r.rate ELSE @]

\* Rows without a date or without any account are not rows.
Drafts(wb) ==
    LET rows == Picked(wb)
        numbered == [i \in DOMAIN rows |-> [number |-> i, r |-> Priced(rows[i])]]
    IN  SelectSeq(numbered, LAMBDA d : d.r.date # None /\ (d.r.from # <<>> \/ d.r.to # <<>>))

Valid(r) ==
    /\ r.from # <<>> /\ r.to # <<>> /\ r.from # r.to
    /\ r.uyu > 0 \/ r.usd > 0

Says(name, word) == \E i \in DOMAIN name : name[i] = word

\* What a row is, by the names of its accounts and of its concept.
Classified(r) ==
    LET fromIn == Says(r.from, "ingreso")
        toOut  == Says(r.to, "egreso")
    IN  CASE fromIn /\ toOut -> IF \E w \in {"ingreso", "cobro", "efectivo"} : Says(r.concept, w) THEN "income" ELSE "expense"
          [] toOut /\ ~fromIn -> "expense"
          [] fromIn /\ ~toOut -> "income"
          [] OTHER -> "transfer"
Kind(d, fixes) == IF d.number \in DOMAIN fixes /\ fixes[d.number] \in Kinds THEN fixes[d.number] ELSE Classified(d.r)

\* A row and a movement are the same thing when they say the same, by the names.
Fingerprint(date, from, to, r, name) ==
    [date |-> date, from |-> from, to |-> to, text |-> r.text, uyu |-> r.uyu, usd |-> r.usd, concept |-> name]
OfRow(r)      == Fingerprint(r.date, r.from, r.to, r, r.concept)
OfMovement(m) == Fingerprint(m.date, m.from, m.to, m, m.concept)
Booked(i, drafts, ms) == \E m \in ms : OfMovement(m) = OfRow(drafts[i].r)
\* What forgets that a file may repeat itself.
KnownOnlyInBooks(i, drafts, ms) == Booked(i, drafts, ms)
Known(i, drafts, ms) ==
    \/ Booked(i, drafts, ms)
    \/ \E j \in 1..(i - 1) :
           /\ drafts[j].r.from # <<>> /\ drafts[j].r.to # <<>>
           /\ OfRow(drafts[j].r) = OfRow(drafts[i].r)

Longest(names) == {n \in names : \A o \in names : Len(o) <= Len(n)}
Starts(name, whole) == Len(name) < Len(whole) /\ SubSeq(whole, 1, Len(name)) = name

\* The account a name stands for when none has it: the same name without
\* "toma", the system's income or expense account, the longest whose name
\* begins the name or is begun by it.
Alike(name, accounts) ==
    LET short  == SelectSeq(name, LAMBDA w : w # "toma")
        System(word) == {a \in accounts : Says(name, word) /\ a.type = "system" /\ Says(a.name, word)}
        near   == {a \in accounts : Starts(a.name, name) \/ Starts(name, a.name)}
        layers == << {a \in accounts : a.name = name}, {a \in accounts : short # <<>> /\ a.name = short},
                     System("ingreso"), System("egreso"), {a \in near : a.name \in Longest({b.name : b \in near})} >>
        found  == SelectSeq(layers, LAMBDA L : L # {})
    IN  IF found = <<>> THEN {} ELSE Head(found)

GuessedType(name) ==
    CASE Says(name, "ingreso") \/ Says(name, "egreso") -> "system"
      [] name[1] \in {"mp", "pvs"} \/ Says(name, "dni") \/ Says(name, "efectivo") -> "channel"
      [] OTHER -> "partner"

\* What a name means for an upload: what the person chose, else what is known
\* by that name, else what is alike, unless the person asked for a new one.
Chosen(u, name)  == IF name \in DOMAIN upload[u].choices THEN upload[u].choices[name] ELSE None
Meant(u, name) ==
    LET chosen == {a \in upload[u].accounts : a.name = Chosen(u, name)}
        cached == {c[2] : c \in {k \in upload[u].cache : k[1] = name}}
    IN  CASE chosen # {} -> chosen
          [] cached # {} -> cached
          [] Chosen(u, name) # "create" -> Alike(name, upload[u].accounts)
          [] OTHER -> {}
ConceptMeant(u, name) ==
    LET chosen == {c \in upload[u].concepts : c.name = Chosen(u, name)}
    IN  IF chosen # {} THEN chosen ELSE {c \in upload[u].concepts : c.name = name}

----------------------------------------------------------------------------

Idle == [rows |-> <<>>, left |-> <<>>, accounts |-> {}, concepts |-> {}, cache |-> {}, choices |-> <<>>, fixes |-> <<>>, all |-> FALSE]
Init ==
    /\ account = Accounts /\ concept = Concepts /\ movement = {}
    /\ upload = [u \in Uploaders |-> Idle] /\ uploads = 0

\* Everything is read at once: the books of the days of the file, and every
\* account and concept, the removed ones too.
Upload(u, wb, choices, kinds, fixes) ==
    LET drafts == Drafts(wb)
        fresh  == {i \in DOMAIN drafts :
                      /\ Valid(drafts[i].r)
                      /\ ~Known(i, drafts, movement)
                      /\ kinds = {} \/ Kind(drafts[i], fixes) \in kinds}
    IN  /\ upload[u] = Idle /\ uploads < MaxUploads
        /\ fresh # {}
        /\ uploads' = uploads + 1
        /\ upload' = [upload EXCEPT ![u] =
              [rows |-> drafts, left |-> SetToSortSeq(fresh, <), accounts |-> account, concepts |-> concept,
               cache |-> {}, choices |-> choices, fixes |-> fixes, all |-> kinds = {}]]
        /\ UNCHANGED <<account, concept, movement>>

Now(u) == upload[u].rows[Head(upload[u].left)]

\* A name that stands for nothing becomes an account, or the account somebody
\* else made meanwhile.
NewAccount(u, name) ==
    LET a == [name |-> name, type |-> GuessedType(name), on |-> TRUE]
        old == {b \in account : b.name = name}
    IN  /\ upload[u].left # <<>> /\ name \in {Now(u).r.from, Now(u).r.to}
        /\ name = Now(u).r.to => Meant(u, Now(u).r.from) # {}
        /\ Meant(u, name) = {}
        /\ account' = IF old = {} THEN account \cup {a} ELSE account
        /\ upload' = [upload EXCEPT ![u].accounts = @ \cup (IF old = {} THEN {a} ELSE old)]
        /\ UNCHANGED <<concept, movement, uploads>>

NewConcept(u) ==
    LET d == Now(u)
        c == [name |-> d.r.concept, kind |-> Kind(d, upload[u].fixes), on |-> TRUE]
        old == {b \in concept : b.name = d.r.concept}
    IN  /\ upload[u].left # <<>> /\ d.r.concept # <<>>
        /\ Meant(u, d.r.from) # {} /\ Meant(u, d.r.to) # {}
        /\ ConceptMeant(u, d.r.concept) = {}
        /\ concept' = IF old = {} THEN concept \cup {c} ELSE concept
        /\ upload' = [upload EXCEPT ![u].concepts = @ \cup (IF old = {} THEN {c} ELSE old)]
        /\ UNCHANGED <<account, movement, uploads>>

\* The row is booked, and what its names meant is remembered.
Book(u) ==
    /\ upload[u].left # <<>>
    /\ LET d == Now(u) IN
       \E from \in Meant(u, d.r.from), to \in Meant(u, d.r.to),
          c \in IF d.r.concept = <<>> THEN {[name |-> <<>>]} ELSE ConceptMeant(u, d.r.concept) :
           /\ movement' = movement \cup
                 {[upload |-> uploads, line |-> d.number, row |-> OfRow(d.r), date |-> d.r.date, from |-> from.name, to |-> to.name,
                   text |-> d.r.text, uyu |-> d.r.uyu, usd |-> d.r.usd, concept |-> c.name]}
           /\ LET rest == Tail(upload[u].left) IN
              upload' = [upload EXCEPT ![u] =
                  IF rest = <<>> THEN Idle
                  ELSE [@ EXCEPT !.left = rest, !.cache = @ \cup {<<d.r.from, from>>, <<d.r.to, to>>}]]
    /\ UNCHANGED <<account, concept, uploads>>

\* The server dies: what was inserted stays.
Die(u) == upload[u] # Idle /\ upload' = [upload EXCEPT ![u] = Idle] /\ UNCHANGED <<account, concept, movement, uploads>>

\* Somebody removes an account that nothing uses (accounts.service.ts).
Retire(a) ==
    /\ a \in account /\ a.on
    /\ \A u \in Uploaders : upload[u] = Idle
    /\ \A m \in movement : a.name \notin {m.from, m.to}
    /\ account' = (account \ {a}) \cup {[a EXCEPT !.on = FALSE]}
    /\ UNCHANGED <<concept, movement, upload, uploads>>

Next ==
    \/ \E u \in Uploaders :
          \/ \E wb \in Workbooks, choices \in Answers, kinds \in Selections, fixes \in Fixes : Upload(u, wb, choices, kinds, fixes)
          \/ \E name \in IF upload[u].left = <<>> THEN {} ELSE {Now(u).r.from, Now(u).r.to} : NewAccount(u, name)
          \/ NewConcept(u) \/ Book(u) \/ Die(u)
    \/ \E a \in account : Retire(a)

Spec == Init /\ [][Next]_vars

----------------------------------------------------------------------------

\* The names of a row stand for accounts and a concept of the same names.
UnderItsNames(m) == OfMovement(m) = m.row

\* A row that is in the books under the names of the file is never booked
\* again: not by a second upload, not after a crash in the middle of the first,
\* not when the file repeats it (enrich).  A row whose account was matched to
\* one of another name is: see the README.
BookedOnce ==
    \A m, o \in movement : m # o /\ m.row = o.row /\ UnderItsNames(m) => m.upload > o.upload /\ ~UnderItsNames(o)

\* An upload of every kind of row that reaches its end leaves nothing out: a
\* row with two names and an amount is in the books, from now or from before,
\* whatever was skipped as known (commit).
NothingMissing ==
    \A u \in Uploaders : upload[u].all /\ upload'[u] = Idle /\ movement' # movement =>
        \A d \in Range(upload[u].rows) : Valid(d.r) =>
            \E m \in movement' : m.date = d.r.date /\ m.text = d.r.text /\ m.uyu = d.r.uyu /\ m.usd = d.r.usd

\* Accounts and concepts are looked up and made by uploads that die, and none is
\* made twice; every movement lies between accounts that exist.
NamesResolve ==
    /\ \A a, b \in account : a.name = b.name => a = b
    /\ \A a, b \in concept : a.name = b.name => a = b
    /\ \A m \in movement : {m.from, m.to} \subseteq {a.name : a \in account}
                           /\ m.concept \in {c.name : c \in concept} \cup {<<>>}

\* Uploading the ledger of the accountant once, twice or in pieces books every
\* row of it, and books it once.
ImportedOnce == BookedOnce' /\ NamesResolve' /\ NothingMissing
=============================================================================
