------------------------------ MODULE Register ------------------------------
(***************************************************************************)
(* The life of a closing: the register of a shift is opened (a draft), changed,*)
(* submitted, locked, unlocked and removed, and with it the shop starts and    *)
(* stops taking orders online.  Submission runs under the row lock of the      *)
(* closing; opening and changing the register read rows and save them later.   *)
(***************************************************************************)
EXTENDS Naturals, FiniteSets

CONSTANTS
    Requests,     \* requests running at once
    Together,     \* operations that may overlap
    Alone,        \* operations asked for when nothing else runs
    Slots,        \* keys of day and shift (businessDateKey)
    MaxClosings,  \* bound: rows of cash_closings
    MaxEnded,     \* bound: how often a shift ends
    None

VARIABLES
    closing,      \* the table cash_closings: REGULAR rows
    ordering,     \* orderingForceClosed and orderingOpenedAt of the shop
    running,      \* what each request is doing and what it read
    ended,        \* number of shifts that have ended: bounds the model
    announced     \* how often the administrators were told of a closing: ghost

registerVars == <<closing, ordering, running, ended, announced>>

Closings == 1..MaxClosings
NoRow    == [state |-> "none", slot |-> None]
Idle     == [op |-> "none", step |-> "idle", slot |-> None, id |-> None, row |-> NoRow]
\* `over' says that a shift has ended since the shop started to take orders.
Closed   == [closed |-> TRUE, over |-> FALSE]
Open     == [closed |-> FALSE, over |-> FALSE]

Init ==
    /\ closing = [i \in Closings |-> NoRow] /\ ordering = Closed
    /\ running = [p \in Requests |-> Idle] /\ ended = 0
    /\ announced = [i \in Closings |-> 0]

MayAsk(p, op) ==
    /\ running[p] = Idle /\ op \in Together \cup Alone
    /\ \A q \in Requests : running[q] = Idle \/ (op \in Together /\ running[q].op \in Together)
Become(p, r)  == running' = [running EXCEPT ![p] = r]
Goto(p, step) == Become(p, [running[p] EXCEPT !.step = step])
End(p)        == Become(p, Idle)

Present(i)     == closing[i].state \in {"DRAFT", "SUBMITTED", "LOCKED"}
InSlot(s)      == {i \in Closings : Present(i) /\ closing[i].slot = s}
Drafts         == {i \in Closings : closing[i].state = "DRAFT"}
NewRow(i)      == closing[i].state = "none" /\ \A k \in Closings : k < i => closing[k].state # "none"
\* The unique index uq_shop_date_key.
Unique(i, s)   == InSlot(s) \subseteq {i}
-----------------------------------------------------------------------------
(* Opening and changing the register                                          *)

\* findOpenDraft: one who finds a draft is refused.
AskOpen(p, s) ==
    /\ MayAsk(p, "open") /\ Drafts = {}
    /\ Become(p, [Idle EXCEPT !.op = "open", !.step = "lookUp", !.slot = s])
    /\ UNCHANGED <<closing, ordering, ended, announced>>

\* A draft of the same slot is taken over; a closing of the slot ends the request.
LookUp(p) ==
    /\ running[p].op = "open" /\ running[p].step = "lookUp"
    /\ IF InSlot(running[p].slot) = {} THEN Goto(p, "insert")
       ELSE \E i \in InSlot(running[p].slot) :
              IF closing[i].state = "DRAFT"
                THEN Become(p, [running[p] EXCEPT !.step = "save", !.id = i, !.row = closing[i]])
                ELSE End(p)
    /\ UNCHANGED <<closing, ordering, ended, announced>>

InsertDraft(p) ==
    /\ running[p].op = "open" /\ running[p].step = "insert"
    /\ IF InSlot(running[p].slot) # {} THEN End(p) /\ UNCHANGED closing
       ELSE \E i \in Closings :
              /\ NewRow(i)
              /\ closing' = [closing EXCEPT ![i] = [state |-> "DRAFT", slot |-> running[p].slot]]
              /\ Goto(p, "takeOrders")
    /\ UNCHANGED <<ordering, ended, announced>>

\* updateOpenRegister: the draft moves to a slot that is free when it looks.
AskChange(p, s) ==
    /\ MayAsk(p, "change")
    /\ \E i \in Drafts :
        /\ InSlot(s) \subseteq {i}
        /\ Become(p, [Idle EXCEPT !.op = "change", !.step = "save", !.id = i,
                                  !.row = [state |-> "DRAFT", slot |-> s]])
    /\ UNCHANGED <<closing, ordering, ended, announced>>

\* save() writes every column in which the loaded row differs: also its state.
SaveDraft(p) ==
    /\ running[p].step = "save" /\ running[p].op \in {"open", "change"}
    /\ IF Unique(running[p].id, running[p].row.slot)
         THEN /\ closing' = [closing EXCEPT ![running[p].id] = running[p].row]
              /\ IF running[p].op = "open" THEN Goto(p, "takeOrders") ELSE End(p)
         ELSE End(p) /\ UNCHANGED closing
    /\ UNCHANGED <<ordering, ended, announced>>

-----------------------------------------------------------------------------
(* The closing                                                                *)

\* create looks for the slot first: a draft of it is updated.
AskCreate(p, s) ==
    /\ MayAsk(p, "create")
    /\ \/ InSlot(s) = {} /\ Become(p, [Idle EXCEPT !.op = "create", !.step = "insert", !.slot = s])
       \/ \E i \in InSlot(s) : /\ closing[i].state = "DRAFT"
                               /\ Become(p, [Idle EXCEPT !.op = "create", !.step = "update", !.slot = s, !.id = i, !.row = closing[i]])
    /\ UNCHANGED <<closing, ordering, ended, announced>>

InsertClosing(p) ==
    /\ running[p].op = "create" /\ running[p].step = "insert"
    /\ IF InSlot(running[p].slot) # {} THEN UNCHANGED <<closing, announced>>
       ELSE \E i \in Closings :
              /\ NewRow(i)
              /\ closing' = [closing EXCEPT ![i] = [state |-> "SUBMITTED", slot |-> running[p].slot]]
              /\ announced' = [announced EXCEPT ![i] = 1]
    /\ End(p) /\ UNCHANGED <<ordering, ended>>

AskUpdate(p, i, s) ==
    /\ MayAsk(p, "update") /\ Present(i)
    /\ Become(p, [Idle EXCEPT !.op = "update", !.step = "update", !.slot = s, !.id = i, !.row = closing[i]])
    /\ UNCHANGED <<closing, ordering, ended, announced>>

WasDraftWhenAsked(p) == running[p].row.state = "DRAFT"
WasDraft(p)          == closing[running[p].id].state = "DRAFT"

\* applyUpdate, one transaction under the row lock: a draft is submitted, the slot
\* may change.  Who submits stops the orders and tells the administrators.
ApplyUpdate(p) ==
    /\ running[p].step = "update"
    /\ LET i == running[p].id IN
       IF ~Present(i) \/ ~Unique(i, running[p].slot) THEN End(p) /\ UNCHANGED <<closing, announced>>
       ELSE /\ closing' = [closing EXCEPT ![i] =
                 [state |-> IF @.state = "DRAFT" THEN "SUBMITTED" ELSE @.state, slot |-> running[p].slot]]
            /\ IF WasDraft(p)
                 THEN announced' = [announced EXCEPT ![i] = @ + 1] /\ Goto(p, "stopOrders")
                 ELSE End(p) /\ UNCHANGED announced
    /\ UNCHANGED <<ordering, ended>>

\* lock and remove hold the row lock; unlock reads and saves.
Lock(p, i) ==
    /\ MayAsk(p, "lock") /\ Present(i) /\ closing' = [closing EXCEPT ![i].state = "LOCKED"]
    /\ UNCHANGED <<ordering, running, ended, announced>>

AskUnlock(p, i) ==
    /\ MayAsk(p, "unlock") /\ Present(i)
    /\ Become(p, [Idle EXCEPT !.op = "unlock", !.step = "unlock", !.id = i,
                              !.row = [closing[i] EXCEPT !.state = "SUBMITTED"]])
    /\ UNCHANGED <<closing, ordering, ended, announced>>

Unlock(p) ==
    /\ running[p].step = "unlock"
    /\ IF Unique(running[p].id, running[p].row.slot)
         THEN closing' = [closing EXCEPT ![running[p].id] = running[p].row] ELSE UNCHANGED closing
    /\ End(p) /\ UNCHANGED <<ordering, ended, announced>>

Remove(p, i) ==
    /\ MayAsk(p, "remove") /\ Present(i) /\ closing' = [closing EXCEPT ![i].state = "removed"]
    /\ UNCHANGED <<ordering, running, ended, announced>>

-----------------------------------------------------------------------------
(* Taking orders online                                                       *)

\* setOrderingOpen writes both columns whatever it read.
SetOrderingOpen(p) ==
    /\ running[p].step \in {"takeOrders", "stopOrders"}
    /\ ordering' = IF running[p].step = "takeOrders" THEN Open ELSE Closed
    /\ End(p) /\ UNCHANGED <<closing, ended, announced>>

\* By hand: to start one needs a draft, and what is so already is left alone.
SwitchOrdering(p, open) ==
    /\ MayAsk(p, "switch") /\ (open => Drafts # {})
    /\ open = ordering.closed
    /\ ordering' = IF open THEN Open ELSE Closed
    /\ UNCHANGED <<closing, running, ended, announced>>

ShiftEnds ==
    /\ ended < MaxEnded /\ ended' = ended + 1
    /\ ordering' = [ordering EXCEPT !.over = ~ordering.closed]
    /\ UNCHANGED <<closing, running, announced>>

\* Whoever looks at the shop after the end of the shift stops the orders, with
\* the settings it loaded before.
Over(o) == ~o.closed /\ o.over

LookAtShop(p) ==
    /\ MayAsk(p, "look") /\ Over(ordering)
    /\ Become(p, [Idle EXCEPT !.op = "look", !.step = "autoClose"])
    /\ UNCHANGED <<closing, ordering, ended, announced>>

AutoClose(p) ==
    /\ running[p].step = "autoClose" /\ ordering' = Closed
    /\ End(p) /\ UNCHANGED <<closing, ended, announced>>

\* The process dies, or a save after the commit fails.
Die(p) == running[p] # Idle /\ End(p) /\ UNCHANGED <<closing, ordering, ended, announced>>

Next ==
    \/ \E p \in Requests :
         \/ \E s \in Slots : AskOpen(p, s) \/ AskChange(p, s) \/ AskCreate(p, s)
         \/ LookUp(p) \/ InsertDraft(p) \/ SaveDraft(p) \/ InsertClosing(p) \/ ApplyUpdate(p)
         \/ \E i \in Closings : \/ Lock(p, i) \/ AskUnlock(p, i) \/ Remove(p, i)
                                \/ \E s \in Slots : AskUpdate(p, i, s)
         \/ Unlock(p) \/ SetOrderingOpen(p) \/ LookAtShop(p) \/ AutoClose(p) \/ Die(p)
         \/ \E open \in BOOLEAN : SwitchOrdering(p, open)
    \/ ShiftEnds

Spec == Init /\ [][Next]_registerVars
-----------------------------------------------------------------------------
(* Properties                                                                 *)

\* Sending the closing of a draft twice, through create or through update, tells the
\* administrators once ("no re-notifica ni duplica asientos").
AnnouncedOnce == \A i \in Closings : announced[i] <= 1
=============================================================================
