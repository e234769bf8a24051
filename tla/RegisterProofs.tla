---------------------------- MODULE RegisterProofs ----------------------------
(***************************************************************************)
(* The register of a shop for any number of requests, shifts and closings:   *)
(* the closing of a draft is announced once.  The members for any number of   *)
(* shops: their flags and memberships are those that were chosen.            *)
(***************************************************************************)
EXTENDS Register, Members, TLAPS

\* Nobody opens or changes the register while another request runs.
DraftsApart == "open" \notin Together /\ "change" \notin Together

States == {"none", "DRAFT", "SUBMITTED", "LOCKED", "removed"}
Steps  == {"idle", "lookUp", "insert", "save", "takeOrders", "update", "stopOrders", "unlock", "autoClose"}
Work   == [op : {"none", "open", "change", "create", "update", "unlock", "look"}, step : Steps, slot : Slots \cup {None}, id : Closings \cup {None},
           row : [state : States, slot : Slots \cup {None}]]

\* What a request r may count on: the draft it saves is one, and what it read exists.
Knows(r) ==
    /\ r.step \in {"lookUp", "insert"} => r.slot \in Slots
    /\ r.step = "save" => /\ r.op \in {"open", "change"} /\ r.id \in Closings
                          /\ r.row.state = "DRAFT" /\ closing[r.id].state = "DRAFT"
    /\ r.step = "unlock" => r.id \in Closings /\ r.row.state = "SUBMITTED" /\ closing[r.id].state # "none"
    /\ r.step = "update" => r.id \in Closings

\* Who works on a draft is alone.
DraftIsAlone(p) == running[p].op \in {"open", "change"} => \A q \in Requests \ {p} : running[q] = Idle

\* A closing that was announced is not a draft, and will not be one again.
NoDraftAnnounced == \A i \in Closings : announced[i] # 0 => closing[i].state \notin {"none", "DRAFT"}

RowsInOrder == /\ closing \in [Closings -> [state : States, slot : Slots \cup {None}]]
          /\ announced \in [Closings -> {0, 1}]
          /\ NoDraftAnnounced

RegisterInv ==
    /\ RowsInOrder
    /\ running \in [Requests -> Work]
    /\ \A p \in Requests : Knows(running[p]) /\ DraftIsAlone(p)

\* A request moves: others work on no draft, so a step that keeps what exists and the
\* announcements in order keeps what everybody knows.
LEMMA Moves ==
    ASSUME DraftsApart, RegisterInv, NEW p \in Requests, NEW r \in Work, running' = [running EXCEPT ![p] = r],
           running[p] # Idle \/ (\E op \in Together \cup Alone : MayAsk(p, op) /\ (r = Idle \/ r.op = op)),
           running[p] # Idle => r = Idle \/ r.op = running[p].op,
           RowsInOrder', \A i \in Closings : closing[i].state # "none" => closing'[i].state # "none",
           Knows(r)'
    PROVE  RegisterInv'
<1>1. \A q \in Requests : running'[q] = IF q = p THEN r ELSE running[q]
  BY DEF RegisterInv
<1>2. Idle.op = "none"
  BY DEF Idle
<1>3. \A q \in Requests \ {p} : running[q].op \notin {"open", "change"}
  BY <1>2 DEF RegisterInv, DraftIsAlone, MayAsk, DraftsApart
<1>4. \A q \in Requests : Knows(running[q])'
  <2>1. Knows(running[p])'
    BY <1>1 DEF Knows
  <2>2. ASSUME NEW q \in Requests \ {p} PROVE Knows(running[q])'
    BY <1>1, <1>3, <2>2 DEF Knows, RegisterInv
  <2>. QED BY <2>1, <2>2
<1>5. \A q \in Requests : DraftIsAlone(q)'
  BY <1>1, <1>2, <1>3 DEF DraftIsAlone, RegisterInv, MayAsk, DraftsApart
<1>6. running' \in [Requests -> Work]
  BY DEF RegisterInv
<1>. QED BY <1>4, <1>5, <1>6 DEF RegisterInv

\* A request that does nothing is well formed.
LEMMA IdleKnowsNothing == /\ Idle \in Work /\ Idle.step = "idle" /\ Idle.op = "none"
                          /\ NoRow \in [state : States, slot : Slots \cup {None}] /\ Knows(Idle)
<1>1. NoRow \in [state : States, slot : Slots \cup {None}]
  BY DEF NoRow, States
<1>2. Idle.step = "idle" /\ Idle.op = "none"
  BY DEF Idle
<1>3. Knows(Idle)
  BY <1>2 DEF Knows
<1>. QED BY <1>1, <1>2, <1>3 DEF Idle, Work, Steps

\* The invariant holds at the start.
LEMMA RegisterInvInit == Init => RegisterInv
<1>. SUFFICES ASSUME Init PROVE RegisterInv
  OBVIOUS
<1>1. RowsInOrder
  BY IdleKnowsNothing DEF Init, RowsInOrder, NoDraftAnnounced
<1>2. running \in [Requests -> Work] /\ \A p \in Requests : running[p] = Idle
  BY IdleKnowsNothing DEF Init
<1>. QED BY <1>1, <1>2, IdleKnowsNothing DEF RegisterInv, DraftIsAlone

\* A row gets new columns; it becomes a draft only if it was not announced.
LEMMA RowWritten ==
    ASSUME RowsInOrder, NEW i \in Closings, NEW state \in States, NEW slot \in Slots \cup {None},
           closing' = [closing EXCEPT ![i] = [state |-> state, slot |-> slot]],
           state # "none", state = "DRAFT" => announced[i] = 0, UNCHANGED announced
    PROVE  RowsInOrder' /\ \A j \in Closings : closing[j].state # "none" => closing'[j].state # "none"
BY DEF RowsInOrder, NoDraftAnnounced

\* Every step keeps it.
LEMMA RegisterInvNext == DraftsApart /\ RegisterInv /\ [Next]_registerVars => RegisterInv'
<1>. SUFFICES ASSUME DraftsApart, RegisterInv, [Next]_registerVars PROVE RegisterInv'
  OBVIOUS
<1>. USE DEF RegisterInv
<1>a. Idle \in Work /\ Idle.step = "idle" /\ Idle.op = "none"
  BY IdleKnowsNothing
<1>b. Knows(Idle)'
  BY <1>a DEF Knows
<1>c. ASSUME UNCHANGED <<closing, announced>>
      PROVE  RowsInOrder' /\ \A i \in Closings : closing[i].state # "none" => closing'[i].state # "none"
  BY <1>c DEF RowsInOrder, NoDraftAnnounced
<1>d. \A i \in Closings : closing[i] \in [state : States, slot : Slots \cup {None}] /\ announced[i] \in {0, 1}
  BY DEF RowsInOrder
<1>1. CASE UNCHANGED <<closing, running, announced>>
  BY <1>1 DEF RowsInOrder, NoDraftAnnounced, Knows, DraftIsAlone
<1>2. ASSUME NEW p \in Requests, End(p), running[p] # Idle, RowsInOrder',
             \A i \in Closings : closing[i].state # "none" => closing'[i].state # "none"
      PROVE  RegisterInv'
  BY <1>a, <1>b, <1>2, Moves DEF End, Become
\* A request that begins; who only reads remembers r.
<1>3. ASSUME NEW p \in Requests, NEW op \in Together \cup Alone, MayAsk(p, op), NEW r \in Work, Become(p, r),
             r.op = op, Knows(r)', UNCHANGED <<closing, announced>>
      PROVE  RegisterInv'
  BY <1>3, <1>c, Moves DEF Become, MayAsk
\* A request that does its one step at once.
<1>4. ASSUME NEW p \in Requests, NEW op \in Together \cup Alone, MayAsk(p, op), UNCHANGED running, RowsInOrder',
             \A i \in Closings : closing[i].state # "none" => closing'[i].state # "none"
      PROVE  RegisterInv'
  <2>1. running[p] = Idle /\ running' = [running EXCEPT ![p] = Idle]
    BY <1>4 DEF MayAsk
  <2>. QED BY <1>a, <1>b, <1>4, <2>1, Moves
\* A request that goes on.
<1>5. ASSUME NEW p \in Requests, NEW step \in Steps, Goto(p, step), running[p] # Idle, RowsInOrder',
             \A i \in Closings : closing[i].state # "none" => closing'[i].state # "none",
             step \in {"takeOrders", "stopOrders"} \/ (step = "insert" /\ running[p].step = "lookUp")
      PROVE  RegisterInv'
  <2>r. PICK r : r = [running[p] EXCEPT !.step = step]
    OBVIOUS
  <2>1. running[p] \in Work /\ Knows(running[p])
    OBVIOUS
  <2>2. r \in Work /\ r.step = step /\ r.op = running[p].op /\ r.slot = running[p].slot
    BY <2>r, <2>1 DEF Work
  <2>3. Knows(r)'
    BY <2>r, <1>5, <2>1, <2>2 DEF Knows
  <2>4. running' = [running EXCEPT ![p] = r]
    BY <2>r, <1>5 DEF Goto, Become
  <2>. QED BY <2>r, <1>5, <2>2, <2>3, <2>4, Moves
<1>6. ASSUME NEW p \in Requests, NEW s \in Slots, AskOpen(p, s) PROVE RegisterInv'
  <2>r. PICK r : r = [Idle EXCEPT !.op = "open", !.step = "lookUp", !.slot = s]
    OBVIOUS
  <2>1. r \in Work /\ r.op = "open" /\ r.step = "lookUp" /\ r.slot = s
    BY <2>r, <1>a DEF Work, Steps
  <2>2. Knows(r)'
    BY <2>r, <2>1 DEF Knows
  <2>3. MayAsk(p, "open") /\ Become(p, r) /\ UNCHANGED <<closing, announced>>
    BY <2>r, <1>6 DEF AskOpen
  <2>. QED BY <2>r, <1>3, <2>1, <2>2, <2>3 DEF MayAsk
<1>7. ASSUME NEW p \in Requests, LookUp(p) PROVE RegisterInv'
  <2>1. running[p] # Idle /\ running[p].op = "open" /\ UNCHANGED <<closing, announced>> /\ running[p].step = "lookUp"
    BY <1>7, <1>a DEF LookUp
  <2>2. CASE InSlot(running[p].slot) = {}
    BY <1>5, <1>7, <1>c, <2>1, <2>2 DEF LookUp, Steps
  <2>3. CASE End(p)
    BY <1>2, <1>c, <2>1, <2>3
  <2>4. CASE InSlot(running[p].slot) # {} /\ ~End(p)
    <3>1. PICK i \in Closings : /\ closing[i].state = "DRAFT"
                                /\ Become(p, [running[p] EXCEPT !.step = "save", !.id = i, !.row = closing[i]])
      BY <1>7, <2>4 DEF LookUp, InSlot
    <3>r. PICK r : r = [running[p] EXCEPT !.step = "save", !.id = i, !.row = closing[i]]
      OBVIOUS
    <3>2. running[p] \in Work
      OBVIOUS
    <3>3. r \in Work /\ r.step = "save" /\ r.op = "open" /\ r.id = i /\ r.row = closing[i]
      BY <3>r, <1>d, <2>1, <3>2 DEF Work, Steps
    <3>4. Knows(r)'
      BY <3>r, <2>1, <3>1, <3>3 DEF Knows
    <3>5. running' = [running EXCEPT ![p] = r]
      BY <3>r, <3>1 DEF Become
    <3>. QED BY <3>r, <1>c, <2>1, <3>3, <3>4, <3>5, Moves
  <2>. QED BY <2>2, <2>3, <2>4
<1>8. ASSUME NEW p \in Requests, InsertDraft(p) PROVE RegisterInv'
  <2>1. running[p] # Idle /\ running[p].slot \in Slots
    BY <1>8, <1>a DEF InsertDraft, Knows
  <2>2. CASE End(p) /\ UNCHANGED <<closing, announced>>
    BY <1>2, <1>c, <2>1, <2>2
  <2>3. CASE ~(End(p) /\ UNCHANGED <<closing, announced>>)
    <3>1. PICK i \in Closings : /\ NewRow(i) /\ Goto(p, "takeOrders") /\ UNCHANGED announced
                                /\ closing' = [closing EXCEPT ![i] = [state |-> "DRAFT", slot |-> running[p].slot]]
      BY <1>8, <2>3 DEF InsertDraft
    <3>2. announced[i] = 0
      BY <3>1 DEF NewRow, RowsInOrder, NoDraftAnnounced
    <3>3. RowsInOrder' /\ \A j \in Closings : closing[j].state # "none" => closing'[j].state # "none"
      BY <2>1, <3>1, <3>2, RowWritten DEF States
    <3>. QED BY <1>5, <2>1, <3>1, <3>3 DEF Steps
  <2>. QED BY <2>2, <2>3
<1>9. ASSUME NEW p \in Requests, NEW s \in Slots, AskChange(p, s) PROVE RegisterInv'
  <2>1. PICK i \in Drafts : Become(p, [Idle EXCEPT !.op = "change", !.step = "save", !.id = i,
                                                   !.row = [state |-> "DRAFT", slot |-> s]])
    BY <1>9 DEF AskChange
  <2>r. PICK r : r = [Idle EXCEPT !.op = "change", !.step = "save", !.id = i, !.row = [state |-> "DRAFT", slot |-> s]]
    OBVIOUS
  <2>2. r \in Work /\ r.op = "change" /\ r.step = "save" /\ r.id = i /\ r.row.state = "DRAFT"
    BY <2>r, <1>a DEF Work, Steps, States, Drafts
  <2>3. MayAsk(p, "change") /\ Become(p, r) /\ UNCHANGED <<closing, announced>>
    BY <2>r, <1>9, <2>1 DEF AskChange
  <2>4. Knows(r)'
    BY <2>r, <2>2, <2>3 DEF Knows, Drafts
  <2>. QED BY <2>r, <1>3, <2>2, <2>3, <2>4 DEF MayAsk
<1>10. ASSUME NEW p \in Requests, SaveDraft(p) PROVE RegisterInv'
  <2>. DEFINE i == running[p].id
  <2>1. running[p] # Idle /\ i \in Closings /\ closing[i].state = "DRAFT" /\ running[p].row.state = "DRAFT"
        /\ UNCHANGED announced
    BY <1>10, <1>a DEF SaveDraft, Knows
  <2>2. CASE UNCHANGED closing /\ End(p)
    BY <1>2, <1>c, <2>1, <2>2
  <2>3. CASE ~(UNCHANGED closing /\ End(p))
    <3>1. closing' = [closing EXCEPT ![i] = running[p].row] /\ (Goto(p, "takeOrders") \/ End(p))
      BY <1>10, <2>3 DEF SaveDraft
    <3>2. running[p].row = [state |-> "DRAFT", slot |-> running[p].row.slot] /\ running[p].row.slot \in Slots \cup {None}
      BY <2>1 DEF Work
    <3>3. announced[i] = 0
      BY <2>1 DEF RowsInOrder, NoDraftAnnounced
    <3>4. RowsInOrder' /\ \A j \in Closings : closing[j].state # "none" => closing'[j].state # "none"
      BY <2>1, <3>1, <3>2, <3>3, RowWritten DEF States
    <3>. QED BY <1>2, <1>5, <2>1, <3>1, <3>4 DEF Steps
  <2>. QED BY <2>2, <2>3
<1>11. ASSUME NEW p \in Requests, NEW s \in Slots, AskCreate(p, s) PROVE RegisterInv'
  <2>0. MayAsk(p, "create") /\ UNCHANGED <<closing, announced>>
    BY <1>11 DEF AskCreate
  <2>1. CASE Become(p, [Idle EXCEPT !.op = "create", !.step = "insert", !.slot = s])
    <3>r. PICK r : r = [Idle EXCEPT !.op = "create", !.step = "insert", !.slot = s]
      OBVIOUS
    <3>1. r \in Work /\ r.op = "create" /\ r.step = "insert" /\ r.slot = s
      BY <3>r, <1>a DEF Work, Steps
    <3>2. Knows(r)' /\ Become(p, r)
      BY <3>r, <2>1, <3>1 DEF Knows
    <3>. QED BY <3>r, <1>3, <2>0, <3>1, <3>2 DEF MayAsk
  <2>2. ASSUME NEW i \in InSlot(s),
               Become(p, [Idle EXCEPT !.op = "create", !.step = "update", !.slot = s, !.id = i, !.row = closing[i]])
        PROVE  RegisterInv'
    <3>r. PICK r : r = [Idle EXCEPT !.op = "create", !.step = "update", !.slot = s, !.id = i, !.row = closing[i]]
      OBVIOUS
    <3>1. i \in Closings
      BY <3>r DEF InSlot
    <3>2. r \in Work /\ r.op = "create" /\ r.step = "update" /\ r.id = i
      BY <3>r, <1>a, <1>d, <3>1 DEF Work, Steps
    <3>3. Knows(r)' /\ Become(p, r)
      BY <3>r, <2>2, <3>1, <3>2 DEF Knows
    <3>. QED BY <3>r, <1>3, <2>0, <3>2, <3>3 DEF MayAsk
  <2>. QED BY <1>11, <2>1, <2>2 DEF AskCreate
<1>12. ASSUME NEW p \in Requests, InsertClosing(p) PROVE RegisterInv'
  <2>1. running[p] # Idle /\ running[p].slot \in Slots /\ End(p)
    BY <1>12, <1>a DEF InsertClosing, Knows
  <2>2. CASE UNCHANGED <<closing, announced>>
    BY <1>2, <1>c, <2>1, <2>2
  <2>3. CASE ~UNCHANGED <<closing, announced>>
    <3>1. PICK i \in Closings : /\ announced' = [announced EXCEPT ![i] = 1]
                                /\ closing' = [closing EXCEPT ![i] = [state |-> "SUBMITTED", slot |-> running[p].slot]]
      BY <1>12, <2>3 DEF InsertClosing
    <3>2. RowsInOrder' /\ \A j \in Closings : closing[j].state # "none" => closing'[j].state # "none"
      BY <2>1, <3>1 DEF RowsInOrder, NoDraftAnnounced, States
    <3>. QED BY <1>2, <2>1, <3>2
  <2>. QED BY <2>2, <2>3
<1>13. ASSUME NEW p \in Requests, NEW i \in Closings, NEW s \in Slots, AskUpdate(p, i, s) PROVE RegisterInv'
  <2>r. PICK r : r = [Idle EXCEPT !.op = "update", !.step = "update", !.slot = s, !.id = i, !.row = closing[i]]
    OBVIOUS
  <2>1. r \in Work /\ r.op = "update" /\ r.step = "update" /\ r.id = i
    BY <2>r, <1>a, <1>d DEF Work, Steps
  <2>2. Knows(r)' /\ Become(p, r) /\ MayAsk(p, "update") /\ UNCHANGED <<closing, announced>>
    BY <2>r, <1>13, <2>1 DEF Knows, AskUpdate
  <2>. QED BY <2>r, <1>3, <2>1, <2>2 DEF MayAsk
<1>14. ASSUME NEW p \in Requests, ApplyUpdate(p) PROVE RegisterInv'
  <2>. DEFINE i == running[p].id
  <2>1. running[p] # Idle /\ i \in Closings /\ running[p].slot \in Slots \cup {None}
    BY <1>14, <1>a DEF ApplyUpdate, Knows, Work
  <2>2. CASE End(p) /\ UNCHANGED <<closing, announced>>
    BY <1>2, <1>c, <2>1, <2>2
  <2>3. CASE ~(End(p) /\ UNCHANGED <<closing, announced>>)
    <3>s. PICK state : state = IF closing[i].state = "DRAFT" THEN "SUBMITTED" ELSE closing[i].state
      OBVIOUS
    <3>1. Present(i) /\ closing' = [closing EXCEPT ![i] = [state |-> state, slot |-> running[p].slot]]
      BY <1>14, <2>3, <3>s DEF ApplyUpdate
    <3>2. IF closing[i].state = "DRAFT" THEN announced' = [announced EXCEPT ![i] = @ + 1] /\ Goto(p, "stopOrders")
          ELSE End(p) /\ UNCHANGED announced
      BY <1>14, <2>3 DEF ApplyUpdate, WasDraft
    <3>3. CASE closing[i].state = "DRAFT"
      <4>1. announced[i] = 0 /\ announced' = [announced EXCEPT ![i] = 1]
        BY <2>1, <3>2, <3>3 DEF RowsInOrder, NoDraftAnnounced
      <4>2. RowsInOrder' /\ \A j \in Closings : closing[j].state # "none" => closing'[j].state # "none"
        BY <2>1, <3>s, <3>1, <3>3, <4>1 DEF RowsInOrder, NoDraftAnnounced, States
      <4>. QED BY <1>5, <2>1, <3>2, <3>3, <4>2 DEF Steps
    <3>4. CASE closing[i].state # "DRAFT"
      <4>1. state \in States /\ state \notin {"none", "DRAFT"}
        BY <1>d, <2>1, <3>s, <3>1, <3>4 DEF Present
      <4>2. RowsInOrder' /\ \A j \in Closings : closing[j].state # "none" => closing'[j].state # "none"
        BY <2>1, <3>1, <3>2, <3>4, <4>1, RowWritten
      <4>. QED BY <1>2, <2>1, <3>2, <3>4, <4>2
    <3>. QED BY <3>3, <3>4
  <2>. QED BY <2>2, <2>3
<1>15. ASSUME NEW p \in Requests, NEW i \in Closings, Lock(p, i) \/ Remove(p, i) PROVE RegisterInv'
  <2>1. PICK state \in {"LOCKED", "removed"} : closing' = [closing EXCEPT ![i].state = state]
    BY <1>15 DEF Lock, Remove
  <2>2. closing' = [closing EXCEPT ![i] = [state |-> state, slot |-> closing[i].slot]] /\ closing[i].slot \in Slots \cup {None}
    <3>1. [closing[i] EXCEPT !.state = state] = [state |-> state, slot |-> closing[i].slot]
      BY <1>d
    <3>. QED BY <1>d, <2>1, <3>1 DEF RowsInOrder
  <2>3. RowsInOrder' /\ \A j \in Closings : closing[j].state # "none" => closing'[j].state # "none"
    BY <1>15, <2>2, RowWritten DEF Lock, Remove, States
  <2>4. PICK op \in {"lock", "remove"} : MayAsk(p, op) /\ UNCHANGED running
    BY <1>15 DEF Lock, Remove
  <2>. QED BY <1>4, <2>3, <2>4 DEF MayAsk
<1>16. ASSUME NEW p \in Requests, NEW i \in Closings, AskUnlock(p, i) PROVE RegisterInv'
  <2>r. PICK r : r = [Idle EXCEPT !.op = "unlock", !.step = "unlock", !.id = i, !.row = [closing[i] EXCEPT !.state = "SUBMITTED"]]
    OBVIOUS
  <2>0. [closing[i] EXCEPT !.state = "SUBMITTED"] = [state |-> "SUBMITTED", slot |-> closing[i].slot]
    BY <1>d
  <2>1. r \in Work /\ r.op = "unlock" /\ r.step = "unlock" /\ r.id = i /\ r.row.state = "SUBMITTED"
    BY <2>r, <2>0, <1>a, <1>d DEF Work, Steps, States
  <2>2. Knows(r)' /\ Become(p, r) /\ MayAsk(p, "unlock") /\ UNCHANGED <<closing, announced>>
    BY <2>r, <1>16, <2>1 DEF Knows, AskUnlock, Present
  <2>. QED BY <2>r, <1>3, <2>1, <2>2 DEF MayAsk
<1>17. ASSUME NEW p \in Requests, Unlock(p) PROVE RegisterInv'
  <2>. DEFINE i == running[p].id
  <2>1. running[p] # Idle /\ i \in Closings /\ running[p].row.state = "SUBMITTED" /\ UNCHANGED announced /\ End(p)
    BY <1>17, <1>a DEF Unlock, Knows
  <2>2. running[p].row = [state |-> "SUBMITTED", slot |-> running[p].row.slot] /\ running[p].row.slot \in Slots \cup {None}
    BY <2>1 DEF Work
  <2>3. CASE closing' = [closing EXCEPT ![i] = running[p].row]
    <3>1. RowsInOrder' /\ \A j \in Closings : closing[j].state # "none" => closing'[j].state # "none"
      BY <2>1, <2>2, <2>3, RowWritten DEF States
    <3>. QED BY <1>2, <2>1, <3>1
  <2>4. CASE UNCHANGED closing
    BY <1>2, <1>c, <2>1, <2>4
  <2>. QED BY <1>17, <2>3, <2>4 DEF Unlock
<1>18. ASSUME NEW p \in Requests, SetOrderingOpen(p) \/ AutoClose(p) \/ Die(p) PROVE RegisterInv'
  <2>1. running[p] # Idle /\ End(p) /\ UNCHANGED <<closing, announced>>
    BY <1>18, <1>a DEF SetOrderingOpen, AutoClose, Die
  <2>. QED BY <1>2, <1>c, <2>1
<1>19. ASSUME NEW p \in Requests, LookAtShop(p) PROVE RegisterInv'
  <2>r. PICK r : r = [Idle EXCEPT !.op = "look", !.step = "autoClose"]
    OBVIOUS
  <2>1. r \in Work /\ r.op = "look" /\ r.step = "autoClose"
    BY <2>r, <1>a DEF Work, Steps
  <2>2. Knows(r)' /\ Become(p, r) /\ MayAsk(p, "look") /\ UNCHANGED <<closing, announced>>
    BY <2>r, <1>19, <2>1 DEF Knows, LookAtShop
  <2>. QED BY <2>r, <1>3, <2>1, <2>2 DEF MayAsk
<1>20. ASSUME NEW p \in Requests, NEW open \in BOOLEAN, SwitchOrdering(p, open) PROVE RegisterInv'
  BY <1>1, <1>20 DEF SwitchOrdering
<1>21. CASE ShiftEnds
  BY <1>1, <1>21 DEF ShiftEnds
<1>. QED BY <1>1, <1>6, <1>7, <1>8, <1>9, <1>10, <1>11, <1>12, <1>13, <1>14, <1>15, <1>16, <1>17, <1>18, <1>19, <1>20, <1>21
         DEF Next, registerVars

\* While drafts are opened and changed by one at a time, no closing that was announced is
\* ever a draft again, whatever slots, requests and closings there are.
THEOREM RegisterStaysInOrder ==
    ASSUME DraftsApart PROVE Spec => []RegisterInv
<1>1. Init => RegisterInv
  BY RegisterInvInit
<1>2. RegisterInv /\ [Next]_registerVars => RegisterInv'
  BY RegisterInvNext, DraftsApart
<1>. QED BY <1>1, <1>2, PTL DEF Spec

\* Then the administrators are told of each closing once, however it is sent: by create
\* and update at the same time, with locks, unlocks and removals in between.
THEOREM ClosingAnnouncedOnce ==
    ASSUME DraftsApart PROVE Spec => []AnnouncedOnce
<1>1. RegisterInv => AnnouncedOnce
  BY DEF RegisterInv, RowsInOrder, AnnouncedOnce
<1>. QED BY <1>1, RegisterStaysInOrder, PTL
-----------------------------------------------------------------------------
(* Members                                                                    *)

Membership == [role : UserRoles \cup {Unset}, levels : UserRoles \cup {"own", Unset}, flag : BOOLEAN, own : BOOLEAN]
UserForm   == [shops : {Unset} \cup SUBSET Shops, at : Shops \cup {Unset}, flag : BOOLEAN \cup {Unset},
               role : UserRoles \cup {Unset}, global : UserRoles \cup {Unset}, levels : {"own", Unset},
               accounts : BOOLEAN \cup {Unset}]
UserRequest == [op : {"none", "create", "update", "remove"}, actor : {"super", "local", Unset}, dto : UserForm,
                before : [Shops -> Membership], doomed : SUBSET Shops, todo : SUBSET Shops,
                step : {"idle", "links", "accounts", "employee", "user"}]

\* Who links accounts changes nothing else, in a shop.
LinksOnly(dto) == dto.accounts # Unset => dto.at \in Shops /\ dto.role = Unset /\ dto.levels = Unset /\ dto.flag = Unset

\* The shops that a form adds, and those a new user gets.
Patches(dto) == dto.role # Unset \/ dto.levels # Unset \/ dto.flag # Unset
Adds(dto)    == IF dto.shops = Unset THEN IF Patches(dto) THEN {dto.at} ELSE {} ELSE dto.shops
Chosen(dto)  == IF dto.shops = Unset THEN {} ELSE dto.shops
Wanted(dto)  == Chosen(dto) \cup (IF dto.at = Unset THEN {} ELSE {dto.at})
\* It changes the membership of one shop.
InPlace(dto) == dto.shops = Unset /\ dto.at # Unset /\ Patches(dto)
Belongs      == {s \in Shops : Member(s)}

\* What holds of the user and its memberships whatever is under way.
MembersHold ==
    /\ request.op = "none" <=> request = Still
    /\ user.state = "absent" => request = Still /\ Belongs = {} /\ meant = {} /\ accounts = {} /\ ~employed
    /\ user.state = "removed" => request = Still
    /\ user.state # "absent" => user.role \in UserRoles
    /\ \A s \in Shops : Member(s) => link[s].role \in UserRoles

\* What a creation, an edition, and a removal have done and have still to do.
Creating ==
    /\ request.doomed = {} /\ LinksOnly(request.dto)
    /\ \A s \in request.todo : request.before[s] = NoLink
    /\ Belongs \cup request.todo = Wanted(request.dto)
Anewing ==
    /\ LinksOnly(request.dto)
    /\ \A s \in request.todo : request.before[s] # NoLink => request.before[s].flag = given[s]
    /\ request.doomed # {} => request.doomed = Belongs
    /\ (Belongs \ request.doomed) \cup request.todo = request.dto.shops
Editing ==
    LET adds == Adds(request.dto)
    IN /\ LinksOnly(request.dto)
       /\ \A s \in request.todo : request.before[s] = link[s]
       /\ adds \subseteq Shops /\ request.todo \subseteq adds /\ request.doomed \cap adds = {}
       /\ ~died => /\ Belongs \cup request.todo = meant \cup adds
                   /\ request.dto.shops # Unset => meant \cap Managed \subseteq request.doomed \cup adds
Detaching ==
    /\ request.step \in {"accounts", "links", "employee", "user"}
    /\ ~died => Belongs = meant
    /\ request.step # "accounts" => accounts = {}
    /\ request.step \in {"employee", "user"} => Belongs = {}
    /\ request.step = "user" => ~employed

RequestGoes ==
    /\ request.op = "create" => Creating
    /\ request.op = "update" => IF Anewed THEN Anewing ELSE Editing
    /\ request.op = "remove" => Detaching

MembersInv == MembersTypeOK /\ request \in UserRequest /\ MembersHold /\ RequestGoes /\ MembersInOrder

\* A form is well formed, and one that links accounts does only that, in a shop.
LEMMA FormFields == \A dto \in Forms : dto \in UserForm /\ LinksOnly(dto)
<1>. SUFFICES ASSUME NEW dto \in Forms PROVE dto \in UserForm /\ LinksOnly(dto)
  OBVIOUS
<1>1. PICK ss \in {Unset} \cup SUBSET Shops, at \in Shops \cup {Unset} : dto \in FormsOf(ss, at)
  BY DEF Forms
<1>2. PICK f : f = [Empty EXCEPT !.shops = ss, !.at = at]
  OBVIOUS
<1>3. /\ f = [shops |-> ss, at |-> at, flag |-> Unset, role |-> Unset, global |-> Unset, levels |-> Unset, accounts |-> Unset]
      /\ f \in UserForm
  BY <1>2 DEF Empty, UserForm
<1>4. \/ dto = f \/ dto = [f EXCEPT !.role = "admin"] \/ dto = [f EXCEPT !.levels = "own"]
      \/ \E r \in UserRoles : dto = [f EXCEPT !.global = r]
      \/ at # Unset /\ \E b \in BOOLEAN : dto = [f EXCEPT !.flag = b] \/ dto = [f EXCEPT !.accounts = b]
  <2>1. CASE at = Unset
    BY ONLY <1>1, <1>2, <2>1, Zenon DEF FormsOf
  <2>2. CASE at # Unset
    <3>1. \/ dto \in {f, [f EXCEPT !.role = "admin"], [f EXCEPT !.levels = "own"]}
          \/ dto \in {[f EXCEPT !.global = r] : r \in UserRoles}
          \/ dto \in {[f EXCEPT !.flag = b] : b \in BOOLEAN}
          \/ dto \in {[f EXCEPT !.accounts = b] : b \in BOOLEAN}
      BY ONLY <1>1, <1>2, <2>2, Zenon DEF FormsOf
    <3>. QED BY ONLY <2>2, <3>1, Zenon
  <2>. QED BY <2>1, <2>2
<1>5. CASE dto = f \/ dto = [f EXCEPT !.role = "admin"] \/ dto = [f EXCEPT !.levels = "own"]
  BY <1>3, <1>5 DEF UserForm, LinksOnly, UserRoles
<1>6. ASSUME NEW r \in UserRoles, dto = [f EXCEPT !.global = r] PROVE dto \in UserForm /\ LinksOnly(dto)
  BY <1>3, <1>6 DEF UserForm, LinksOnly
<1>7. ASSUME at # Unset, NEW b \in BOOLEAN, dto = [f EXCEPT !.flag = b] \/ dto = [f EXCEPT !.accounts = b]
      PROVE  dto \in UserForm /\ LinksOnly(dto)
  BY <1>3, <1>7 DEF UserForm, LinksOnly
<1>. QED BY <1>4, <1>5, <1>6, <1>7

\* A new membership has a role, and the flag of the form.
LEMMA NewLinkIs ==
    ASSUME NEW dto \in UserForm, NEW s \in Shops, NEW rank \in UserRoles
    PROVE  /\ NewLink(dto, s, rank) \in Membership /\ NewLink(dto, s, rank).role \in UserRoles
           /\ NewLink(dto, s, rank).flag = IF dto.at = s /\ dto.flag # Unset THEN dto.flag ELSE FALSE
<1>1. PICK r, lev, b : /\ r = IF dto.role # Unset THEN dto.role ELSE rank
                       /\ lev = LevelsFor([dto EXCEPT !.role = IF @ = Unset THEN rank ELSE @], rank)
                       /\ b = (dto.at = s /\ dto.flag = TRUE)
  OBVIOUS
<1>2. r \in UserRoles /\ lev \in UserRoles \cup {"own", Unset} /\ b \in BOOLEAN
  BY <1>1 DEF UserForm, LevelsFor
<1>3. NewLink(dto, s, rank) = [role |-> r, levels |-> lev, flag |-> b, own |-> FALSE]
  BY <1>1 DEF NewLink
<1>4. NewLink(dto, s, rank).flag = b
  BY <1>3
<1>5. NewLink(dto, s, rank) \in Membership /\ NewLink(dto, s, rank).role \in UserRoles
  BY <1>2, <1>3 DEF Membership
<1>6. b = IF dto.at = s /\ dto.flag # Unset THEN dto.flag ELSE FALSE
  <2>1. dto.flag \in BOOLEAN \cup {Unset} /\ Unset \notin BOOLEAN
    BY MembersAssumption DEF UserForm
  <2>2. CASE dto.flag = Unset
    <3>1. dto.flag # TRUE
      BY <2>1, <2>2
    <3>. QED BY <1>1, <2>2, <3>1
  <2>3. CASE dto.flag = TRUE
    BY <1>1, <2>1, <2>3
  <2>4. CASE dto.flag = FALSE
    BY <1>1, <2>1, <2>4
  <2>. QED BY <2>1, <2>2, <2>3, <2>4
<1>. QED BY <1>4, <1>5, <1>6

\* One that is changed in place keeps the flag unless the form has one.
LEMMA PatchedIs ==
    ASSUME NEW l \in Membership, l.role \in UserRoles, NEW dto \in UserForm, NEW s \in Shops, NEW rank \in UserRoles
    PROVE  /\ Patched(l, dto, s, rank) \in Membership /\ Patched(l, dto, s, rank).role \in UserRoles
           /\ Patched(l, dto, s, rank).flag = IF dto.at = s /\ dto.flag # Unset THEN dto.flag ELSE l.flag
BY DEF Patched, UserForm, Membership

\* So does one made anew, from the one before.
LEMMA AnewIs ==
    ASSUME NEW l \in Membership, NEW dto \in UserForm, NEW s \in Shops, NEW rank \in UserRoles
    PROVE  /\ Anew(l, dto, s, rank) \in Membership /\ Anew(l, dto, s, rank).role \in UserRoles
           /\ Anew(l, dto, s, rank).flag = IF dto.at = s /\ dto.flag # Unset THEN dto.flag ELSE l.flag
<1>1. PICK n : n = NewLink(dto, s, rank)
  OBVIOUS
<1>2. n \in Membership /\ n.role \in UserRoles
  BY <1>1, NewLinkIs
<1>. QED BY <1>1, <1>2 DEF Anew, UserForm, Membership

\* A request that rests and a membership that is not there are of their types.
LEMMA StillRequest == Still \in UserRequest /\ Still.op = "none" /\ NoLink \in Membership /\ NoLink.role = Unset
BY DEF Still, UserRequest, UserForm, Empty, NoLink, Membership

\* A user who is not there yet.
LEMMA MembersStart == MembersInit => MembersInv
<1>. SUFFICES ASSUME MembersInit PROVE MembersInv
  OBVIOUS
<1>1. MembersTypeOK /\ request \in UserRequest
  BY StillRequest DEF MembersInit, MembersTypeOK, Membership
<1>2. Belongs = {} /\ \A s \in Shops : ~Member(s)
  BY DEF MembersInit, Belongs, Member
<1>3. MembersHold
  BY <1>2, StillRequest DEF MembersInit, MembersHold
<1>4. RequestGoes
  BY StillRequest DEF MembersInit, RequestGoes
<1>5. MembersInOrder
  BY <1>2 DEF MembersInit, MembersInOrder, FlagIsLastGiven, BelongsAsMeant, RemovedIsDetached, Belongs
<1>. QED BY <1>1, <1>3, <1>4, <1>5 DEF MembersInv

\* A membership is written with the flag last chosen for it.
LEMMA MemberWritten == ASSUME MembersInv, Write PROVE MembersInv'
<1>0. PICK s \in request.todo :
         /\ link' = [link EXCEPT ![s] =
                       IF request.op = "create" THEN NewLink(request.dto, s, user.role)
                       ELSE IF Anewed THEN IF request.before[s] = NoLink THEN NewLink(request.dto, s, user.role)
                                           ELSE Anew(request.before[s], request.dto, s, user.role)
                       ELSE IF Member(s) THEN Patched(link[s], request.dto, s, user.role) ELSE NewLink(request.dto, s, user.role)]
         /\ given' = [given EXCEPT ![s] = IF request.dto.at = s /\ request.dto.flag # Unset THEN request.dto.flag
                                         ELSE IF request.before[s] = NoLink THEN FALSE ELSE given[s]]
         /\ request' = [request EXCEPT !.todo = @ \ {s}]
  BY DEF Write
<1>1. PICK l, g :
         /\ l = IF request.op = "create" THEN NewLink(request.dto, s, user.role)
                ELSE IF Anewed THEN IF request.before[s] = NoLink THEN NewLink(request.dto, s, user.role)
                                    ELSE Anew(request.before[s], request.dto, s, user.role)
                ELSE IF Member(s) THEN Patched(link[s], request.dto, s, user.role) ELSE NewLink(request.dto, s, user.role)
         /\ g = IF request.dto.at = s /\ request.dto.flag # Unset THEN request.dto.flag
                ELSE IF request.before[s] = NoLink THEN FALSE ELSE given[s]
         /\ link' = [link EXCEPT ![s] = l] /\ given' = [given EXCEPT ![s] = g]
         /\ request' = [request EXCEPT !.todo = @ \ {s}]
  BY <1>0
<1>2. /\ request.op \in {"create", "update"} /\ request.doomed = {} /\ s \in Shops
      /\ request \in UserRequest /\ request.dto \in UserForm /\ request.before[s] \in Membership
      /\ request # Still /\ user.state = "active" /\ user.role \in UserRoles
      /\ UNCHANGED <<user, accounts, employed, meant, died>>
  BY <1>1, StillRequest DEF Write, MembersInv, MembersTypeOK, MembersHold, UserRequest
<1>3. l \in Membership /\ l.role \in UserRoles /\ l.flag = g
  <2>1. CASE request.op = "create"
    BY <1>1, <1>2, <2>1, NewLinkIs DEF MembersInv, RequestGoes, Creating
  <2>2. CASE request.op = "update" /\ Anewed /\ request.before[s] = NoLink
    BY <1>1, <1>2, <2>2, NewLinkIs
  <2>3. CASE request.op = "update" /\ Anewed /\ request.before[s] # NoLink
    <3>1. request.before[s].flag = given[s]
      BY <1>2, <2>3 DEF MembersInv, RequestGoes, Anewing
    <3>. QED BY <1>1, <1>2, <2>3, <3>1, AnewIs
  <2>4. CASE request.op = "update" /\ ~Anewed
    <3>1. request.before[s] = link[s]
      BY <1>2, <2>4 DEF MembersInv, RequestGoes, Editing
    <3>2. CASE Member(s)
      <4>1. link[s].role \in UserRoles /\ link[s].flag = given[s]
        BY <1>2, <3>2 DEF MembersInv, MembersHold, MembersInOrder, FlagIsLastGiven
      <4>. QED BY <1>1, <1>2, <2>4, <3>1, <3>2, <4>1, PatchedIs DEF Member
    <3>3. CASE ~Member(s)
      BY <1>1, <1>2, <2>4, <3>1, <3>3, NewLinkIs DEF Member
    <3>. QED BY <3>2, <3>3
  <2>. QED BY <1>2, <2>1, <2>2, <2>3, <2>4
<1>4. l # NoLink
  BY <1>3, StillRequest, MembersAssumption
<1>5. /\ link' \in [Shops -> Membership] /\ link'[s] = l /\ \A x \in Shops \ {s} : link'[x] = link[x]
      /\ given'[s] = g /\ \A x \in Shops \ {s} : given'[x] = given[x]
  BY <1>1, <1>2, <1>3 DEF MembersInv, MembersTypeOK, Membership
<1>6. given' \in [Shops -> BOOLEAN]
  <2>1. g \in BOOLEAN
    BY <1>3 DEF Membership
  <2>. QED BY <1>1, <1>2, <2>1 DEF MembersInv, MembersTypeOK
<1>7. Belongs' = Belongs \cup {s} /\ \A x \in Shops : Member(x)' <=> Member(x) \/ x = s
  BY <1>2, <1>4, <1>5 DEF Belongs, Member
<1>8. /\ request' \in UserRequest /\ request'.op = request.op /\ request'.dto = request.dto
      /\ request'.before = request.before /\ request'.doomed = {} /\ request'.todo = request.todo \ {s}
      /\ request' # Still /\ Anewed' = Anewed
  BY <1>1, <1>2, StillRequest DEF UserRequest, Anewed
<1>9. MembersTypeOK'
  BY <1>2, <1>5, <1>6 DEF MembersInv, MembersTypeOK, Membership
<1>10. MembersHold'
  BY <1>2, <1>3, <1>5, <1>7, <1>8, StillRequest DEF MembersInv, MembersHold
<1>11. RequestGoes'
  <2>1. CASE request.op = "create"
    BY <1>2, <1>7, <1>8, <2>1 DEF MembersInv, RequestGoes, Creating
  <2>2. CASE request.op = "update" /\ Anewed
    BY <1>2, <1>5, <1>7, <1>8, <2>2 DEF MembersInv, RequestGoes, Anewing, UserRequest
  <2>3. CASE request.op = "update" /\ ~Anewed
    BY <1>2, <1>5, <1>7, <1>8, <2>3 DEF MembersInv, RequestGoes, Editing, UserRequest
  <2>. QED BY <1>2, <2>1, <2>2, <2>3
<1>12. MembersInOrder'
  <2>1. FlagIsLastGiven'
    BY <1>3, <1>5, <1>7 DEF MembersInv, MembersInOrder, FlagIsLastGiven
  <2>. QED BY <1>2, <1>8, <2>1 DEF MembersInOrder, BelongsAsMeant, RemovedIsDetached
<1>. QED BY <1>8, <1>9, <1>10, <1>11, <1>12 DEF MembersInv

\* Memberships that go are those that the form leaves out, or all of them.
LEMMA MemberUnlinked == ASSUME MembersInv, Unlink PROVE MembersInv'
<1>0. PICK s \in request.doomed :
         LET gone == IF Anewed THEN request.doomed ELSE {s}
         IN /\ link' = [x \in Shops |-> IF x \in gone THEN NoLink ELSE link[x]]
            /\ request' = [request EXCEPT !.doomed = @ \ gone] /\ meant' = meant \ gone
  BY DEF Unlink
<1>1. PICK gone :
         /\ gone = IF Anewed THEN request.doomed ELSE {s}
         /\ link' = [x \in Shops |-> IF x \in gone THEN NoLink ELSE link[x]]
         /\ request' = [request EXCEPT !.doomed = @ \ gone] /\ meant' = meant \ gone
  BY <1>0
<1>2. /\ request.op = "update" /\ gone \subseteq request.doomed /\ request.doomed \subseteq Shops /\ request \in UserRequest
      /\ request # Still /\ user.state = "active"
      /\ UNCHANGED <<user, accounts, employed, given, died>>
  BY <1>1, StillRequest DEF Unlink, MembersInv, MembersHold, MembersTypeOK, UserRequest
<1>3. /\ link' \in [Shops -> Membership] /\ \A x \in Shops : link'[x] = IF x \in gone THEN NoLink ELSE link[x]
  BY <1>1, StillRequest DEF MembersInv, MembersTypeOK, Membership
<1>4. Belongs' = Belongs \ gone /\ \A x \in Shops : Member(x)' <=> Member(x) /\ x \notin gone
  BY <1>3 DEF Belongs, Member
<1>5. /\ request' \in UserRequest /\ request'.op = "update" /\ request'.dto = request.dto
      /\ request'.before = request.before /\ request'.doomed = request.doomed \ gone /\ request'.todo = request.todo
      /\ request' # Still /\ Anewed' = Anewed
  BY <1>1, <1>2, StillRequest DEF UserRequest, Anewed
<1>6. MembersTypeOK'
  BY <1>1, <1>2, <1>3 DEF MembersInv, MembersTypeOK, Membership
<1>7. MembersHold'
  BY <1>2, <1>3, <1>4, <1>5, StillRequest DEF MembersInv, MembersHold
<1>8. RequestGoes'
  <2>1. CASE Anewed
    BY <1>1, <1>2, <1>4, <1>5, <2>1 DEF MembersInv, RequestGoes, Anewing
  <2>2. CASE ~Anewed
    BY <1>1, <1>2, <1>3, <1>4, <1>5, <2>2 DEF MembersInv, RequestGoes, Editing
  <2>. QED BY <2>1, <2>2
<1>9. MembersInOrder'
  <2>1. FlagIsLastGiven'
    BY <1>2, <1>3, <1>4 DEF MembersInv, MembersInOrder, FlagIsLastGiven
  <2>. QED BY <1>2, <1>5, <2>1 DEF MembersInOrder, BelongsAsMeant, RemovedIsDetached
<1>. QED BY <1>5, <1>6, <1>7, <1>8, <1>9 DEF MembersInv

\* Links of accounts are no part of the order while the user is there.
LEMMA AccountsUnlinked == ASSUME MembersInv, UnlinkAccounts PROVE MembersInv'
<1>1. /\ request.op \in {"create", "update"} /\ request \in UserRequest /\ user.state = "active"
      /\ request' = [request EXCEPT !.step = "accounts"] /\ accounts' = accounts \ {request.dto.at}
      /\ UNCHANGED <<user, link, employed, given, meant, died>>
  BY StillRequest DEF UnlinkAccounts, MembersInv, MembersHold, MembersTypeOK
<1>2. /\ request' \in UserRequest /\ request'.op = request.op /\ request'.dto = request.dto
      /\ request'.before = request.before /\ request'.doomed = request.doomed /\ request'.todo = request.todo
      /\ request' # Still /\ Anewed' = Anewed /\ Belongs' = Belongs
  BY <1>1, StillRequest DEF UserRequest, Anewed, Belongs, Member
<1>3. MembersTypeOK'
  BY <1>1 DEF MembersInv, MembersTypeOK
<1>4. MembersHold'
  BY <1>1, <1>2, StillRequest DEF MembersInv, MembersHold, Member
<1>5. RequestGoes'
  BY <1>1, <1>2 DEF MembersInv, RequestGoes, Creating, Anewing, Editing
<1>6. MembersInOrder'
  BY <1>1, <1>2 DEF MembersInv, MembersInOrder, FlagIsLastGiven, BelongsAsMeant, RemovedIsDetached, Member
<1>. QED BY <1>2, <1>3, <1>4, <1>5, <1>6 DEF MembersInv

\* A request that ends has done what was meant.
LEMMA RequestFinished == ASSUME MembersInv, Finish PROVE MembersInv'
<1>1. PICK dto : dto = request.dto
  OBVIOUS
<1>2. /\ request.op \in {"create", "update"} /\ request.doomed = {} /\ request.todo = {} /\ user.state = "active"
      /\ dto \in UserForm /\ LinksOnly(dto)
      /\ accounts' = IF dto.accounts = TRUE THEN accounts \cup {dto.at} ELSE accounts
      /\ meant' = IF request.op = "create" THEN Wanted(dto)
                  ELSE IF dto.shops = Unset THEN meant \cup (IF Patches(dto) THEN {dto.at} ELSE {})
                  ELSE IF Anewed THEN dto.shops ELSE (meant \ Managed) \cup dto.shops
      /\ died' = (died /\ ~Anewed) /\ request' = Still
      /\ UNCHANGED <<user, link, employed, given>>
  BY <1>1, StillRequest DEF Finish, Wanted, Chosen, Patches, MembersInv, MembersHold, MembersTypeOK, UserRequest, RequestGoes, Creating,
     Anewing, Editing
<1>3. accounts' \subseteq Shops
  BY <1>2, MembersAssumption DEF LinksOnly, MembersInv, MembersTypeOK
<1>4. Belongs' = Belongs /\ Belongs \subseteq Shops /\ meant \subseteq Shops
  BY <1>2 DEF Belongs, Member, MembersInv, MembersTypeOK
<1>5. meant' \subseteq Shops /\ (~died' => Belongs = meant')
  <2>1. CASE request.op = "create"
    BY <1>1, <1>2, <1>4, <2>1 DEF MembersInv, RequestGoes, Creating
  <2>2. CASE request.op = "update" /\ Anewed
    BY <1>1, <1>2, <1>4, <2>2 DEF MembersInv, RequestGoes, Anewing, Anewed
  <2>3. CASE request.op = "update" /\ ~Anewed
    BY <1>1, <1>2, <1>4, <2>3 DEF MembersInv, RequestGoes, Editing, Adds
  <2>. QED BY <1>2, <2>1, <2>2, <2>3
<1>6. MembersTypeOK'
  BY <1>2, <1>3, <1>4, <1>5 DEF MembersInv, MembersTypeOK
<1>7. MembersHold'
  BY <1>2, <1>4, StillRequest DEF MembersInv, MembersHold, Member
<1>8. RequestGoes'
  BY <1>2, StillRequest DEF RequestGoes
<1>9. MembersInOrder'
  BY <1>2, <1>4, <1>5 DEF MembersInv, MembersInOrder, FlagIsLastGiven, BelongsAsMeant, RemovedIsDetached, Member, Belongs
<1>. QED BY <1>2, <1>6, <1>7, <1>8, <1>9, StillRequest DEF MembersInv

\* A creation has all the shops to write.
LEMMA UserCreated == ASSUME MembersInv, CreateUser PROVE MembersInv'
<1>0. PICK form \in Forms, r \in UserRoles, actor \in {"super", "local"} :
         LET dto == [form EXCEPT !.global = r]
         IN user' = [state |-> "active", role |-> dto.global] /\ Start("create", actor, dto, {}, Wanted(dto))
  BY DEF CreateUser, Wanted, Chosen
<1>1. PICK dto :
         /\ dto = [form EXCEPT !.global = r] /\ user' = [state |-> "active", role |-> r]
         /\ Start("create", actor, dto, {}, Wanted(dto))
  <2>1. [form EXCEPT !.global = r].global = r
    BY FormFields DEF UserForm
  <2>. QED BY <1>0, <2>1
<1>2. /\ request = Still /\ user.state = "absent" /\ Belongs = {} /\ \A s \in Shops : ~Member(s) /\ link[s] = NoLink
      /\ UNCHANGED <<link, accounts, employed, given, meant, died>>
  BY DEF CreateUser, MembersInv, MembersHold, Belongs, Member
<1>3. dto \in UserForm /\ LinksOnly(dto)
  BY <1>1, FormFields DEF UserForm, LinksOnly
<1>4. Wanted(dto) \subseteq Shops
  BY <1>3 DEF Wanted, Chosen, UserForm
<1>5. /\ request' \in UserRequest /\ request'.op = "create" /\ request'.dto = dto /\ request'.before = link
      /\ request'.doomed = {} /\ request'.todo = Wanted(dto) /\ request' # Still
  <2>1. request' = [op |-> "create", actor |-> actor, dto |-> dto, before |-> link, doomed |-> {}, todo |-> Wanted(dto),
                    step |-> "links"]
    BY <1>1 DEF Start
  <2>2. link \in [Shops -> Membership] /\ actor \in {"super", "local"}
    BY DEF MembersInv, MembersTypeOK, Membership
  <2>3. request' \in UserRequest
    BY <1>3, <1>4, <2>1, <2>2 DEF UserRequest
  <2>. QED BY <2>1, <2>3, StillRequest
<1>6. Belongs' = {} /\ \A s \in Shops : ~Member(s)'
  BY <1>2 DEF Belongs, Member
<1>7. MembersTypeOK'
  BY <1>1, <1>2 DEF MembersInv, MembersTypeOK
<1>8. MembersHold'
  BY <1>1, <1>5, <1>6, StillRequest DEF MembersHold
<1>9. RequestGoes'
  BY <1>2, <1>3, <1>4, <1>5, <1>6 DEF RequestGoes, Creating
<1>10. MembersInOrder'
  BY <1>1, <1>5, <1>6 DEF MembersInOrder, FlagIsLastGiven, BelongsAsMeant, RemovedIsDetached
<1>. QED BY <1>5, <1>7, <1>8, <1>9, <1>10 DEF MembersInv

\* An edition that is refused changes the user; another has the shops that it leaves out to unlink and the others to write.
LEMMA UserEdited == ASSUME MembersInv, UpdateUser PROVE MembersInv'
<1>1. PICK dto \in Forms, actor \in {"super", "local"} :
         /\ user' = [user EXCEPT !.role = IF dto.global # Unset THEN dto.global ELSE @]
         /\ \/ UNCHANGED request
            \/ /\ actor = "local" => Chosen(dto) \subseteq Managed
               /\ dto.shops # Unset \/ InPlace(dto) \/ dto.accounts # Unset
               /\ Start("update", actor, dto,
                        IF dto.shops = Unset THEN {}
                        ELSE IF actor = "super" THEN Belongs ELSE (Belongs \cap Managed) \ Chosen(dto),
                        IF InPlace(dto) THEN {dto.at}
                        ELSE IF actor = "super" THEN Chosen(dto) ELSE Chosen(dto) \cap Managed)
  BY DEF UpdateUser, Patches, Belongs, Chosen, InPlace
<1>2. /\ request = Still /\ user.state = "active" /\ user.role \in UserRoles
      /\ UNCHANGED <<link, accounts, employed, given, meant, died>>
  BY DEF UpdateUser, MembersInv, MembersHold
<1>3. dto \in UserForm /\ LinksOnly(dto)
  BY <1>1, FormFields
<1>4. /\ user' \in [state : {"absent", "active", "removed"}, role : UserRoles \cup {Unset}]
      /\ user'.state = "active" /\ user'.role \in UserRoles
  BY <1>1, <1>2, <1>3 DEF UserForm, MembersInv, MembersTypeOK
<1>5. Belongs' = Belongs /\ Belongs \subseteq Shops /\ \A s \in Shops : Member(s)' = Member(s)
  BY <1>2 DEF Belongs, Member
<1>6. MembersTypeOK'
  BY <1>2, <1>4 DEF MembersInv, MembersTypeOK
<1>7. (~died => Belongs = meant) /\ \A s \in Shops : Member(s) => link[s].flag = given[s]
  BY <1>2 DEF MembersInv, MembersInOrder, BelongsAsMeant, FlagIsLastGiven, Belongs
<1>8. CASE UNCHANGED request
  <2>1. MembersHold' /\ RequestGoes'
    BY <1>2, <1>4, <1>5, <1>8, StillRequest DEF MembersInv, MembersHold, RequestGoes
  <2>2. MembersInOrder'
    BY <1>2, <1>4, <1>5, <1>7, <1>8 DEF MembersInOrder, FlagIsLastGiven, BelongsAsMeant, RemovedIsDetached, Belongs
  <2>. QED BY <1>6, <1>8, <2>1, <2>2 DEF MembersInv
<1>9. CASE ~UNCHANGED request
  <2>1. PICK doomed, todo :
          /\ doomed = IF dto.shops = Unset THEN {} ELSE IF actor = "super" THEN Belongs ELSE (Belongs \cap Managed) \ Chosen(dto)
          /\ todo = IF InPlace(dto) THEN {dto.at} ELSE IF actor = "super" THEN Chosen(dto) ELSE Chosen(dto) \cap Managed
    OBVIOUS
  <2>2. /\ actor = "local" => Chosen(dto) \subseteq Managed
        /\ dto.shops # Unset \/ InPlace(dto) \/ dto.accounts # Unset
        /\ request' = [op |-> "update", actor |-> actor, dto |-> dto, before |-> link, doomed |-> doomed, todo |-> todo,
                       step |-> "links"]
    BY <1>1, <1>9, <2>1 DEF Start
  <2>3. doomed \subseteq Shops /\ todo \subseteq Shops
    BY <1>3, <1>5, <2>1 DEF UserForm, Chosen, InPlace
  <2>4. /\ request' \in UserRequest /\ request'.op = "update" /\ request'.actor = actor /\ request'.dto = dto
        /\ request'.before = link /\ request'.doomed = doomed /\ request'.todo = todo /\ request' # Still
    BY <1>3, <2>2, <2>3, StillRequest DEF UserRequest, MembersInv, MembersTypeOK, Membership
  <2>5. CASE actor = "super" /\ dto.shops # Unset
    <3>1. doomed = Belongs /\ todo = dto.shops
      BY <2>1, <2>5 DEF Chosen, InPlace
    <3>2. \A s \in todo : link[s] # NoLink => link[s].flag = given[s]
      BY <1>7, <2>3 DEF Member
    <3>3. Anewing'
      BY <1>2, <1>3, <1>5, <2>4, <3>1, <3>2 DEF Anewing
    <3>. QED BY <1>2, <1>4, <1>5, <1>6, <1>7, <2>4, <2>5, <3>3, StillRequest
             DEF MembersInv, MembersHold, RequestGoes, Anewed, MembersInOrder, FlagIsLastGiven, BelongsAsMeant,
                 RemovedIsDetached
  <2>6. CASE ~(actor = "super" /\ dto.shops # Unset)
    <3>1. todo = Adds(dto) /\ Adds(dto) \subseteq Shops
      <4>1. CASE dto.shops = Unset
        BY <1>1, <1>3, <2>1, <2>2, <2>3, <4>1 DEF Adds, LinksOnly, Patches, Chosen, InPlace
      <4>2. CASE dto.shops # Unset
        BY <1>1, <2>1, <2>2, <2>3, <2>6, <4>2 DEF Adds, Chosen, InPlace
      <4>. QED BY <4>1, <4>2
    <3>2. doomed \cap Adds(dto) = {}
      BY <1>1, <2>1, <2>6 DEF Adds, Chosen, InPlace
    <3>3. dto.shops # Unset => Belongs \cap Managed \subseteq doomed \cup Adds(dto)
      BY <1>1, <2>1, <2>6 DEF Adds, Chosen, InPlace
    <3>4. Editing'
      BY <1>2, <1>3, <1>5, <1>7, <2>4, <3>1, <3>2, <3>3 DEF Editing
    <3>. QED BY <1>2, <1>4, <1>5, <1>6, <1>7, <2>4, <2>6, <3>4, StillRequest
             DEF MembersInv, MembersHold, RequestGoes, Anewed, MembersInOrder, FlagIsLastGiven, BelongsAsMeant,
                 RemovedIsDetached
  <2>. QED BY <2>5, <2>6
<1>. QED BY <1>8, <1>9

\* A removal begins.
LEMMA RemovalAsked == ASSUME MembersInv, RemoveUser PROVE MembersInv'
<1>1. /\ request = Still /\ user.state = "active" /\ request' = [Still EXCEPT !.op = "remove", !.step = "accounts"]
      /\ UNCHANGED <<user, link, accounts, employed, given, meant, died>>
  BY DEF RemoveUser
<1>2. request' \in UserRequest /\ request'.op = "remove" /\ request'.step = "accounts" /\ request' # Still
  BY <1>1, StillRequest DEF Still, UserRequest
<1>3. Belongs' = Belongs /\ \A s \in Shops : Member(s)' = Member(s)
  BY <1>1 DEF Belongs, Member
<1>4. MembersTypeOK' /\ MembersHold'
  BY <1>1, <1>2, <1>3, StillRequest DEF MembersInv, MembersTypeOK, MembersHold
<1>5. RequestGoes'
  BY <1>1, <1>2, <1>3 DEF MembersInv, MembersInOrder, BelongsAsMeant, Belongs, RequestGoes, Detaching
<1>6. MembersInOrder'
  BY <1>1, <1>2, <1>3 DEF MembersInv, MembersInOrder, FlagIsLastGiven, BelongsAsMeant, RemovedIsDetached
<1>. QED BY <1>2, <1>4, <1>5, <1>6 DEF MembersInv

\* A removal undoes what points at the user, and the user at last.
LEMMA RemovalGoes == ASSUME MembersInv, Removing PROVE MembersInv'
<1>1. /\ request.op = "remove" /\ request # Still /\ user.state = "active" /\ request \in UserRequest /\ Detaching
      /\ UNCHANGED <<given, died>>
  BY StillRequest DEF Removing, MembersInv, MembersHold, MembersTypeOK, RequestGoes
<1>2. ASSUME NEW step \in {"links", "employee", "user"}, request' = [request EXCEPT !.step = step]
      PROVE  request' \in UserRequest /\ request'.op = "remove" /\ request'.step = step /\ request' # Still
  BY <1>1, <1>2, StillRequest DEF UserRequest
<1>3. CASE request.step = "accounts"
  <2>1. accounts' = {} /\ request' = [request EXCEPT !.step = "links"] /\ UNCHANGED <<user, link, employed, meant>>
    BY <1>3 DEF Removing
  <2>2. Belongs' = Belongs /\ \A s \in Shops : Member(s)' = Member(s)
    BY <2>1 DEF Belongs, Member
  <2>3. MembersTypeOK' /\ MembersHold' /\ RequestGoes'
    BY <1>1, <1>2, <2>1, <2>2, StillRequest DEF MembersInv, MembersTypeOK, MembersHold, RequestGoes, Detaching
  <2>4. MembersInOrder'
    BY <1>1, <1>2, <2>1, <2>2 DEF MembersInv, MembersInOrder, FlagIsLastGiven, BelongsAsMeant, RemovedIsDetached
  <2>. QED BY <1>2, <2>1, <2>3, <2>4 DEF MembersInv
<1>4. CASE request.step = "links"
  <2>1. /\ link' = [s \in Shops |-> NoLink] /\ meant' = {} /\ request' = [request EXCEPT !.step = "employee"]
        /\ UNCHANGED <<user, accounts, employed>>
    BY <1>4 DEF Removing
  <2>2. Belongs' = {} /\ \A s \in Shops : ~Member(s)'
    BY <2>1 DEF Belongs, Member
  <2>3. MembersTypeOK' /\ MembersHold' /\ RequestGoes'
    BY <1>1, <1>2, <1>4, <2>1, <2>2, StillRequest
       DEF MembersInv, MembersTypeOK, Membership, MembersHold, RequestGoes, Detaching
  <2>4. MembersInOrder'
    BY <1>1, <1>2, <2>1, <2>2 DEF MembersInv, MembersInOrder, FlagIsLastGiven, BelongsAsMeant, RemovedIsDetached
  <2>. QED BY <1>2, <2>1, <2>3, <2>4 DEF MembersInv
<1>5. CASE request.step = "employee"
  <2>1. employed' = FALSE /\ request' = [request EXCEPT !.step = "user"] /\ UNCHANGED <<user, link, accounts, meant>>
    BY <1>5 DEF Removing
  <2>2. Belongs' = Belongs /\ \A s \in Shops : Member(s)' = Member(s)
    BY <2>1 DEF Belongs, Member
  <2>3. MembersTypeOK' /\ MembersHold' /\ RequestGoes'
    BY <1>1, <1>2, <1>5, <2>1, <2>2, StillRequest DEF MembersInv, MembersTypeOK, MembersHold, RequestGoes, Detaching
  <2>4. MembersInOrder'
    BY <1>1, <1>2, <2>1, <2>2 DEF MembersInv, MembersInOrder, FlagIsLastGiven, BelongsAsMeant, RemovedIsDetached
  <2>. QED BY <1>2, <2>1, <2>3, <2>4 DEF MembersInv
<1>6. CASE request.step = "user"
  <2>1. /\ user' = [user EXCEPT !.state = "removed"] /\ request' = Still
        /\ UNCHANGED <<link, accounts, employed, meant>>
    BY <1>6 DEF Removing
  <2>2. accounts = {} /\ Belongs = {} /\ ~employed /\ (~died => Belongs = meant)
    BY <1>1, <1>6 DEF Detaching
  <2>3. Belongs' = {} /\ \A s \in Shops : ~Member(s)'
    BY <2>1, <2>2 DEF Belongs, Member
  <2>4. user'.state = "removed" /\ user'.role = user.role /\ user.role \in UserRoles
    BY <1>1, <2>1 DEF MembersInv, MembersTypeOK, MembersHold
  <2>5. MembersTypeOK' /\ MembersHold' /\ RequestGoes'
    BY <1>1, <2>1, <2>3, <2>4, StillRequest DEF MembersInv, MembersTypeOK, MembersHold, RequestGoes
  <2>6. MembersInOrder'
    BY <1>1, <2>1, <2>2, <2>3, <2>4 DEF MembersInOrder, FlagIsLastGiven, BelongsAsMeant, RemovedIsDetached, Belongs
  <2>. QED BY <2>1, <2>5, <2>6, StillRequest DEF MembersInv
<1>. QED BY <1>1, <1>3, <1>4, <1>5, <1>6 DEF Detaching

\* Preferences and employees leave the order alone.
LEMMA UserActs == ASSUME MembersInv, Prefer \/ Employ PROVE MembersInv'
<1>1. /\ request = Still /\ user.state = "active" /\ UNCHANGED <<user, accounts, request, given, meant, died>>
      /\ employed' \in BOOLEAN
  BY DEF Prefer, Employ, MembersInv, MembersTypeOK
<1>2. /\ link' \in [Shops -> Membership]
      /\ \A s \in Shops : /\ Member(s)' = Member(s) /\ link'[s].flag = link[s].flag /\ link'[s].role = link[s].role
  <2>1. CASE Employ
    BY <2>1 DEF Employ, Member, MembersInv, MembersTypeOK, Membership
  <2>2. CASE Prefer
    <3>1. PICK s \in Shops, b \in BOOLEAN : Member(s) /\ link' = [link EXCEPT ![s].own = b]
      BY <2>2 DEF Prefer
    <3>2. PICK l : l = [link[s] EXCEPT !.own = b]
      OBVIOUS
    <3>3. link[s] \in Membership /\ link[s].role \in UserRoles /\ link \in [Shops -> Membership]
      BY <3>1 DEF MembersInv, MembersHold, MembersTypeOK, Membership
    <3>4. l \in Membership /\ l.flag = link[s].flag /\ l.role = link[s].role /\ l # NoLink
      BY <3>2, <3>3, StillRequest, MembersAssumption DEF Membership
    <3>5. link' \in [Shops -> Membership] /\ link'[s] = l /\ \A x \in Shops \ {s} : link'[x] = link[x]
      BY <3>1, <3>2, <3>3, <3>4
    <3>. QED BY <3>1, <3>4, <3>5 DEF Member
  <2>. QED BY <2>1, <2>2
<1>3. Belongs' = Belongs
  BY <1>2 DEF Belongs
<1>4. MembersTypeOK' /\ MembersHold' /\ RequestGoes'
  BY <1>1, <1>2, <1>3, StillRequest DEF MembersInv, MembersTypeOK, Membership, MembersHold, RequestGoes
<1>5. MembersInOrder'
  BY <1>1, <1>2, <1>3 DEF MembersInv, MembersInOrder, FlagIsLastGiven, BelongsAsMeant, RemovedIsDetached, Belongs
<1>. QED BY <1>1, <1>4, <1>5 DEF MembersInv

\* A request that dies leaves memberships that were not meant, and says so.
LEMMA RequestLost == ASSUME MembersInv, RequestDies PROVE MembersInv'
<1>1. /\ request # Still /\ user.state = "active" /\ request' = Still /\ died' = TRUE
      /\ UNCHANGED <<user, link, accounts, employed, given, meant>>
  BY DEF RequestDies, MembersInv, MembersHold, MembersTypeOK
<1>2. Belongs' = Belongs /\ \A s \in Shops : Member(s)' = Member(s)
  BY <1>1 DEF Belongs, Member
<1>3. MembersTypeOK' /\ MembersHold' /\ RequestGoes'
  BY <1>1, <1>2, StillRequest DEF MembersInv, MembersTypeOK, MembersHold, RequestGoes
<1>4. MembersInOrder'
  BY <1>1, <1>2 DEF MembersInv, MembersInOrder, FlagIsLastGiven, BelongsAsMeant, RemovedIsDetached
<1>. QED BY <1>1, <1>3, <1>4, StillRequest DEF MembersInv

\* Every step keeps the invariant.
LEMMA MembersStep == ASSUME MembersInv, [MembersNext]_memberVars PROVE MembersInv'
<1>1. CASE UNCHANGED memberVars
  BY <1>1 DEF memberVars, MembersInv, MembersTypeOK, MembersHold, RequestGoes, Creating, Anewing, Editing, Detaching, Anewed,
     Belongs, Member, MembersInOrder, FlagIsLastGiven, BelongsAsMeant, RemovedIsDetached
<1>2. CASE MembersNext
  BY <1>2, UserCreated, UserEdited, MemberUnlinked, MemberWritten, AccountsUnlinked, RequestFinished, RemovalAsked,
     RemovalGoes, UserActs, RequestLost DEF MembersNext
<1>. QED BY <1>1, <1>2

\* The flag of a membership is the one last chosen for it, whoever made the membership anew; unless a request
\* died, a user belongs to the shops that were meant; and nothing points at a removed one (users.service.ts).
THEOREM MembersStayInOrder == MembersSpec => []MembersInOrder
<1>1. MembersInv /\ [MembersNext]_memberVars => MembersInv'
  BY MembersStep
<1>2. MembersInv => MembersInOrder
  BY DEF MembersInv
<1>. QED BY MembersStart, <1>1, <1>2, PTL DEF MembersSpec
=============================================================================
