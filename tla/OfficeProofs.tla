----------------------------- MODULE OfficeProofs -----------------------------
(***************************************************************************)
(* Settlements for any number of closings, sources, batches and requests:     *)
(* whatever is done to closings, an income is worth the rows that it settles;  *)
(* and as long as who saves a closing with the rows it was loaded with (update, *)
(* unlock, resync) is alone, nothing is settled twice.  When a settlement comes  *)
(* between such a load and its save, it is: see Settlement_double_income.        *)
(* Tips for any number of employees and editions: the shares make the total.   *)
(* Accounts for any number of them, of methods and of sources: an account that *)
(* was removed is empty and a method has one account, whoever dies half way.   *)
(***************************************************************************)
EXTENDS Settlement, Tips, Accounts, Sums

\* What a settle is about to mark is locked and unsettled.
Locked(b) == pc[b] = "write" => \A x \in settler[b].ids : rLock[x] = b /\ row[x].live /\ row[x].batch = None

\* Fields of rows, and of rows that are marked.
LEMMA RowFields == Absent \in Row /\ Absent.live = FALSE /\ \A r \in Row : \A b \in Settlers :
                       /\ [r EXCEPT !.batch = b] \in Row
                       /\ [r EXCEPT !.batch = b].batch = b /\ [r EXCEPT !.batch = b].live = r.live
BY DEF Row, Absent

\* Who unlocks gives back what he holds.
LEMMA Unlocks ==
    ASSUME NEW p, DOMAIN rLock = Ids, rLock' = Unlock(p, rLock)
    PROVE  DOMAIN rLock' = Ids /\ \A x \in Ids : rLock'[x] = IF rLock[x] = p THEN None ELSE rLock[x]
BY DEF Unlock

-----------------------------------------------------------------------------
(* What an income is worth                                                    *)

\* An unsettled row is worth what it was created with, u; a marked row names an income
\* that was written.
Worth(r, x, u) == r.live /\ r.batch = None => r.amount = u[x]
Tells(r)       == r.batch # None => r.batch \in Settlers /\ income[r.batch].state # "none"
Sound(r, x, u) == Worth(r, x, u) /\ Tells(r)

Entity == [op : AllOps, c : Closings \cup {AnyClosing}, loaded : SUBSET Ids, copy : [Ids -> Row],
           kept : SUBSET Ids, saved : BOOLEAN]

RowsTyped ==
    /\ row \in [Ids -> Row] /\ w \in [Savers -> [Ids -> Row \cup {None}]]
    /\ saver \in [Savers -> Entity]
    /\ DOMAIN income = Settlers /\ \A b \in Settlers : DOMAIN income[b] = {"state", "closing", "amount", "rows"}
    /\ DOMAIN rLock = Ids /\ DOMAIN pc = Settlers \cup Savers /\ DOMAIN settler = Settlers

\* What a saver has read or written of rows is sound, its writes are under its locks,
\* and the rows a replacement keeps were settled when it read them.
Saves(s, u) ==
    /\ \A x \in Ids : w[s][x] # None => rLock[x] = s /\ Sound(w[s][x], x, u)
    /\ \A x \in saver[s].loaded : Sound(saver[s].copy[x], x, u)
    /\ pc[s] = "lock" => saver[s].op \in {"update", "pick", "remove"}
    /\ pc[s] = "replace" => /\ saver[s].kept \subseteq saver[s].loaded
                            /\ \A x \in saver[s].kept : saver[s].copy[x].batch # None

\* The total a settlement has read is still what its rows were created with.
Pays(b, u) ==
    /\ Locked(b)
    /\ pc[b] \in {"lock", "write"} =>
         /\ settler[b].ids \subseteq Ids
         /\ settler[b].total = SumFunctionOnSet([x \in settler[b].ids |-> u[x]], settler[b].ids)

Holds(u) ==
    /\ RowsTyped
    /\ \A x \in Ids : Sound(row[x], x, u)
    /\ \A s \in Savers : Saves(s, u)
    /\ \A b \in Settlers : Pays(b, u)

\* Some prices are what the rows were created with.
IncomeInv == \E u \in [Ids -> Nat] : Holds(u)

\* A row that is away, and an entity that was not loaded.
LEMMA NothingThere ==
    /\ Absent \in Row /\ NoEntity \in Entity /\ NoEntity.loaded = {}
    /\ \A x, u : Sound(Absent, x, u)
<1>1. Absent \in Row /\ Absent.live = FALSE /\ Absent.batch = None
  BY DEF Row, Absent
<1>2. [x \in Ids |-> Absent] \in [Ids -> Row]
  BY <1>1
<1>3. NoEntity \in Entity
  BY <1>2 DEF NoEntity, Entity, AllOps
<1>4. \A x, u : Sound(Absent, x, u)
  BY <1>1 DEF Sound, Worth, Tells
<1>. QED BY <1>1, <1>3, <1>4 DEF NoEntity

\* At the start the prices are what the rows say.
LEMMA HoldsAtStart == Init => IncomeInv
<1>. SUFFICES ASSUME Init PROVE IncomeInv
  OBVIOUS
<1>1. {Absent} \cup [live : {TRUE}, amount : Amounts, batch : {None}] \subseteq Row
  <2>1. ASSUME NEW r \in [live : {TRUE}, amount : Amounts, batch : {None}] PROVE r \in Row
    BY SettlementAssumption DEF Row
  <2>. QED BY <2>1, NothingThere
<1>2. row \in [Ids -> {Absent} \cup [live : {TRUE}, amount : Amounts, batch : {None}]]
  BY DEF Init
<1>3. row \in [Ids -> Row] /\ \A x \in Ids : row[x].batch = None /\ row[x].amount \in Nat
  <2>1. Absent.batch = None /\ \A r \in [live : {TRUE}, amount : Amounts, batch : {None}] : r.batch = None
    BY DEF Absent
  <2>2. \A r \in Row : r.amount \in Nat
    BY DEF Row
  <2>. QED BY <1>1, <1>2, <2>1, <2>2
<1>. DEFINE u == [x \in Ids |-> row[x].amount]
<1>4. u \in [Ids -> Nat] /\ \A x \in Ids : u[x] = row[x].amount
  BY <1>3
<1>. HIDE DEF u
<1>5. RowsTyped
  BY <1>3, NothingThere DEF Init, RowsTyped, NoWrites, NoIncome
<1>6. \A x \in Ids : Sound(row[x], x, u)
  BY <1>3, <1>4 DEF Sound, Worth, Tells
<1>7. \A s \in Savers : Saves(s, u)
  BY NothingThere DEF Init, Saves, NoWrites
<1>8. \A b \in Settlers : Pays(b, u)
  BY DEF Init, Pays, Locked
<1>. QED BY <1>4, <1>5, <1>6, <1>7, <1>8 DEF IncomeInv, Holds

\* A step of a saver that leaves the table, the incomes and what others locked as they are.
LEMMA SaverGoesOn ==
    ASSUME NEW u, Holds(u), NEW s \in Savers, NEW step, pc' = [pc EXCEPT ![s] = step],
           UNCHANGED <<row, income, settler>>, saver' \in [Savers -> Entity],
           w' \in [Savers -> [Ids -> Row \cup {None}]],
           \A t \in Savers \ {s} : w'[t] = w[t] /\ saver'[t] = saver[t],
           DOMAIN rLock' = Ids, \A x \in Ids : rLock[x] \notin {None, s} => rLock'[x] = rLock[x],
           \A x \in Ids : w'[s][x] # None => rLock'[x] = s /\ Sound(w'[s][x], x, u),
           \A x \in saver'[s].loaded : Sound(saver'[s].copy[x], x, u),
           step = "lock" => saver'[s].op \in {"update", "pick", "remove"},
           step = "replace" => /\ saver'[s].kept \subseteq saver'[s].loaded
                               /\ \A x \in saver'[s].kept : saver'[s].copy[x].batch # None
    PROVE  Holds(u)'
<1>1. s \notin Settlers /\ None \notin Settlers \cup Savers
  BY SettlementAssumption
<1>2. DOMAIN pc' = Settlers \cup Savers /\ pc'[s] = step /\ \A p \in (Settlers \cup Savers) \ {s} : pc'[p] = pc[p]
  BY DEF Holds, RowsTyped
<1>3. RowsTyped'
  BY <1>2 DEF Holds, RowsTyped
<1>4. \A x \in Ids : Sound(row[x], x, u)'
  BY DEF Holds, Sound, Worth, Tells
<1>5. Saves(s, u)'
  BY <1>2 DEF Saves, Sound, Worth, Tells
<1>6. ASSUME NEW t \in Savers \ {s} PROVE Saves(t, u)'
  <2>1. Saves(t, u) /\ pc'[t] = pc[t] /\ w'[t] = w[t] /\ saver'[t] = saver[t]
    BY <1>2 DEF Holds
  <2>2. \A x \in Ids : w[t][x] # None => rLock'[x] = t
    BY <1>1, <2>1 DEF Saves
  <2>. QED BY <2>1, <2>2 DEF Saves, Sound, Worth, Tells
<1>7. ASSUME NEW b \in Settlers PROVE Pays(b, u)'
  <2>1. Pays(b, u) /\ pc'[b] = pc[b]
    BY <1>1, <1>2 DEF Holds
  <2>2. Locked(b)'
    BY <1>1, <2>1 DEF Pays, Locked
  <2>. QED BY <2>1, <2>2 DEF Pays
<1>. QED BY <1>3, <1>4, <1>5, <1>6, <1>7 DEF Holds

\* What a saver sees of a row.
LEMMA SeenIsSound ==
    ASSUME NEW u, Holds(u), NEW s \in Savers, NEW x \in Ids
    PROVE  Seen(s, x) \in Row /\ Sound(Seen(s, x), x, u)
<1>1. row[x] \in Row /\ w[s][x] \in Row \cup {None}
  BY DEF Holds, RowsTyped
<1>. QED BY <1>1 DEF Holds, Saves, Seen

\* Rows that are written under locks, while the table stands.
LEMMA WritesAreSound ==
    ASSUME NEW u, Holds(u), NEW s \in Savers, NEW new, DOMAIN new \subseteq Ids, WriteRows(s, new),
           \A x \in DOMAIN new : new[x] \in Row /\ Sound(new[x], x, u)
    PROVE  /\ w' \in [Savers -> [Ids -> Row \cup {None}]] /\ \A t \in Savers \ {s} : w'[t] = w[t]
           /\ DOMAIN rLock' = Ids /\ \A x \in Ids : rLock[x] \notin {None, s} => rLock'[x] = rLock[x]
           /\ \A x \in Ids : w'[s][x] # None => rLock'[x] = s /\ Sound(w'[s][x], x, u)
<1>1. /\ \A x \in DOMAIN new : rLock[x] \in {None, s}
      /\ rLock' = [x \in Ids |-> IF x \in DOMAIN new THEN s ELSE rLock[x]]
      /\ w' = [w EXCEPT ![s] = [x \in Ids |-> IF x \in DOMAIN new THEN new[x] ELSE w[s][x]]]
  BY DEF WriteRows
<1>2. w \in [Savers -> [Ids -> Row \cup {None}]] /\ Saves(s, u)
  BY DEF Holds, RowsTyped
<1>. DEFINE mine == [x \in Ids |-> IF x \in DOMAIN new THEN new[x] ELSE w[s][x]]
<1>3. mine \in [Ids -> Row \cup {None}] /\ \A x \in Ids : mine[x] = IF x \in DOMAIN new THEN new[x] ELSE w[s][x]
  BY <1>2
<1>. HIDE DEF mine
<1>4. w' = [w EXCEPT ![s] = mine]
  BY <1>1 DEF mine
<1>5. w'[s] = mine
  BY <1>2, <1>4
<1>6. \A x \in Ids : mine[x] # None => rLock'[x] = s /\ Sound(mine[x], x, u)
  BY <1>1, <1>2, <1>3 DEF Saves
<1>. QED BY <1>1, <1>2, <1>3, <1>4, <1>5, <1>6

\* A saver that ends without a commit.
LEMMA RollbackHolds ==
    ASSUME NEW u, Holds(u), NEW s \in Savers, Rollback(s)
    PROVE  Holds(u)'
<1>1. DOMAIN rLock' = Ids /\ \A x \in Ids : rLock[x] \notin {None, s} => rLock'[x] = rLock[x]
  BY Unlocks DEF Holds, RowsTyped, Rollback, Finish
<1>2. /\ pc' = [pc EXCEPT ![s] = "done"] /\ UNCHANGED <<row, income, settler>>
      /\ w' = [w EXCEPT ![s] = NoWrites] /\ saver' = [saver EXCEPT ![s] = NoEntity]
  BY DEF Rollback, Finish, Goto
<1>3. NoWrites \in [Ids -> Row \cup {None}] /\ \A x \in Ids : NoWrites[x] = None
  BY DEF NoWrites
<1>4. /\ w' \in [Savers -> [Ids -> Row \cup {None}]] /\ w'[s] = NoWrites
      /\ saver' \in [Savers -> Entity] /\ saver'[s].loaded = {}
      /\ \A t \in Savers \ {s} : w'[t] = w[t] /\ saver'[t] = saver[t]
  BY <1>2, <1>3, NothingThere DEF Holds, RowsTyped
<1>. QED BY <1>1, <1>2, <1>3, <1>4, SaverGoesOn

\* A saver that commits: only rows under its locks change.
LEMMA CommitHolds ==
    ASSUME NEW u, Holds(u), NEW s \in Savers, Commit(s)
    PROVE  Holds(u)'
<1>0. s \notin Settlers /\ None \notin Settlers \cup Savers
  BY SettlementAssumption
<1>1. DOMAIN rLock' = Ids /\ \A x \in Ids : rLock[x] \notin {None, s} => rLock'[x] = rLock[x]
  BY Unlocks DEF Holds, RowsTyped, Commit, Finish
<1>2. /\ pc' = [pc EXCEPT ![s] = "done"] /\ settler' = settler
      /\ w' = [w EXCEPT ![s] = NoWrites] /\ saver' = [saver EXCEPT ![s] = NoEntity]
      /\ row' = [x \in Ids |-> Seen(s, x)]
      /\ income' = [b \in Settlers |-> IF b \in drops[s] THEN [income[b] EXCEPT !.state = "deleted"] ELSE income[b]]
  BY DEF Commit, Finish, Goto
<1>3. NoWrites \in [Ids -> Row \cup {None}] /\ \A x \in Ids : NoWrites[x] = None
  BY DEF NoWrites
<1>4. /\ w' \in [Savers -> [Ids -> Row \cup {None}]] /\ w'[s] = NoWrites
      /\ saver' \in [Savers -> Entity] /\ saver'[s] = NoEntity
      /\ \A t \in Savers \ {s} : w'[t] = w[t] /\ saver'[t] = saver[t]
  BY <1>2, <1>3, NothingThere DEF Holds, RowsTyped
<1>5. DOMAIN pc' = Settlers \cup Savers /\ pc'[s] = "done" /\ \A p \in (Settlers \cup Savers) \ {s} : pc'[p] = pc[p]
  BY <1>2 DEF Holds, RowsTyped
<1>6. /\ DOMAIN income' = Settlers
      /\ \A b \in Settlers : /\ DOMAIN income'[b] = {"state", "closing", "amount", "rows"}
                             /\ income[b].state # "none" => income'[b].state # "none"
  <2>1. ASSUME NEW b \in Settlers
        PROVE  /\ DOMAIN income'[b] = {"state", "closing", "amount", "rows"}
               /\ income[b].state # "none" => income'[b].state # "none"
    <3>1. income'[b] = IF b \in drops[s] THEN [income[b] EXCEPT !.state = "deleted"] ELSE income[b]
      BY <1>2
    <3>2. DOMAIN income[b] = {"state", "closing", "amount", "rows"}
      BY DEF Holds, RowsTyped
    <3>. QED BY <3>1, <3>2
  <2>. QED BY <1>2, <2>1
<1>7. row' \in [Ids -> Row] /\ \A x \in Ids : row'[x] = Seen(s, x)
  BY <1>2, SeenIsSound
<1>8. RowsTyped'
  BY <1>1, <1>2, <1>4, <1>5, <1>6, <1>7 DEF Holds, RowsTyped
\* A row that was sound is sound after it.
<1>9. \A r, x : Sound(r, x, u) => Worth(r, x, u) /\ (r.batch # None => r.batch \in Settlers /\ income'[r.batch].state # "none")
  BY <1>6 DEF Sound, Tells
<1>10. \A x \in Ids : Sound(row[x], x, u)'
  BY <1>7, <1>9, SeenIsSound DEF Sound, Worth, Tells
<1>11. ASSUME NEW t \in Savers PROVE Saves(t, u)'
  <2>1. CASE t = s
    BY <1>3, <1>4, <1>5, <2>1, NothingThere DEF Saves
  <2>2. CASE t # s
    <3>1. Saves(t, u) /\ pc'[t] = pc[t] /\ w'[t] = w[t] /\ saver'[t] = saver[t]
      BY <1>4, <1>5, <2>2 DEF Holds
    <3>2. \A x \in Ids : w[t][x] # None => rLock'[x] = t
      BY <1>0, <1>1, <2>2, <3>1 DEF Saves
    <3>3. ASSUME NEW x \in Ids, w[t][x] # None PROVE Sound(w[t][x], x, u)'
      <4>1. Sound(w[t][x], x, u)
        BY <3>1, <3>3 DEF Saves
      <4>. QED BY <1>9, <3>1, <4>1 DEF Sound, Worth, Tells
    <3>4. ASSUME NEW x \in saver[t].loaded PROVE Sound(saver[t].copy[x], x, u)'
      <4>1. Sound(saver[t].copy[x], x, u)
        BY <3>1, <3>4 DEF Saves
      <4>. QED BY <1>9, <3>1, <4>1 DEF Sound, Worth, Tells
    <3>. QED BY <3>1, <3>2, <3>3, <3>4 DEF Saves
  <2>. QED BY <2>1, <2>2
<1>12. ASSUME NEW b \in Settlers PROVE Pays(b, u)'
  <2>1. Pays(b, u) /\ pc'[b] = pc[b] /\ b # s /\ b # None
    BY <1>0, <1>5 DEF Holds
  <2>2. \A x \in Ids : rLock[x] = b => rLock'[x] = b /\ row'[x] = row[x]
    BY <1>0, <1>1, <1>7, <2>1 DEF Holds, Saves, Seen
  <2>3. Locked(b)'
    BY <1>2, <2>1, <2>2 DEF Pays, Locked
  <2>. QED BY <1>2, <2>1, <2>3 DEF Pays
<1>. QED BY <1>8, <1>10, <1>11, <1>12 DEF Holds

\* save(closing) writes back what was loaded.
LEMMA CascadeIsSound ==
    ASSUME NEW u, Holds(u), NEW s \in Savers, CascadeSave(s), NEW step, step \notin {"lock", "replace"},
           pc' = [pc EXCEPT ![s] = step], UNCHANGED <<row, income, settler>>
    PROVE  Holds(u)'
<1>. DEFINE differ == {x \in saver[s].loaded : Seen(s, x) # saver[s].copy[x]}
            new == Restrict(saver[s].copy, differ)
<1>1. WriteRows(s, new) /\ saver' = [saver EXCEPT ![s].saved = TRUE]
  BY DEF CascadeSave
<1>2. saver[s] \in Entity /\ Saves(s, u)
  BY DEF Holds, RowsTyped
<1>3. DOMAIN new = differ /\ differ \subseteq saver[s].loaded /\ \A x \in differ : new[x] = saver[s].copy[x]
  BY DEF Restrict
<1>. HIDE DEF new, differ
<1>4. saver[s].loaded \subseteq Ids /\ saver[s].copy \in [Ids -> Row]
  BY <1>2 DEF Entity
<1>5. DOMAIN new \subseteq Ids /\ \A x \in DOMAIN new : new[x] \in Row /\ Sound(new[x], x, u)
  BY <1>2, <1>3, <1>4 DEF Saves
<1>6. saver' \in [Savers -> Entity] /\ (\A t \in Savers \ {s} : saver'[t] = saver[t])
      /\ saver'[s].loaded = saver[s].loaded /\ saver'[s].copy = saver[s].copy
  <2>1. [saver[s] EXCEPT !.saved = TRUE] \in Entity /\ [saver[s] EXCEPT !.saved = TRUE].loaded = saver[s].loaded
        /\ [saver[s] EXCEPT !.saved = TRUE].copy = saver[s].copy
    BY <1>2 DEF Entity
  <2>2. saver \in [Savers -> Entity] /\ saver' = [saver EXCEPT ![s] = [saver[s] EXCEPT !.saved = TRUE]]
    BY <1>1 DEF Holds, RowsTyped
  <2>. QED BY <2>1, <2>2
<1>7. /\ w' \in [Savers -> [Ids -> Row \cup {None}]] /\ \A t \in Savers \ {s} : w'[t] = w[t]
      /\ DOMAIN rLock' = Ids /\ \A x \in Ids : rLock[x] \notin {None, s} => rLock'[x] = rLock[x]
      /\ \A x \in Ids : w'[s][x] # None => rLock'[x] = s /\ Sound(w'[s][x], x, u)
  BY <1>1, <1>5, WritesAreSound
<1>8. \A x \in saver'[s].loaded : Sound(saver'[s].copy[x], x, u)
  BY <1>2, <1>6 DEF Saves
<1>9. step = "replace" => /\ saver'[s].kept \subseteq saver'[s].loaded
                          /\ \A x \in saver'[s].kept : saver'[s].copy[x].batch # None
  OBVIOUS
<1>10. \A t \in Savers \ {s} : w'[t] = w[t] /\ saver'[t] = saver[t]
  BY <1>6, <1>7
<1>. QED BY <1>6, <1>7, <1>8, <1>9, <1>10, SaverGoesOn

\* Rows that nobody knows, and what they will be worth.
Unknown(fresh) ==
    /\ fresh \subseteq Ids
    /\ \A x \in fresh : /\ ~row[x].live /\ \A s \in Savers : w[s][x] = None /\ x \notin saver[s].loaded
                       /\ \A b \in Settlers : x \notin settler[b].ids
Priced(fresh, price) == \A x \in fresh : price[x] \in Nat

\* A new row is one that nobody knows: what the others were created with still holds when
\* it is added.
LEMMA FreshIsUnknown ==
    ASSUME NEW u \in [Ids -> Nat], Holds(u), NEW fresh, Unknown(fresh), NEW price, Priced(fresh, price)
    PROVE  \E v \in [Ids -> Nat] : Holds(v) /\ \A x \in Ids : v[x] = IF x \in fresh THEN price[x] ELSE u[x]
<1>. DEFINE v == [x \in Ids |-> IF x \in fresh THEN price[x] ELSE u[x]]
<1>1. v \in [Ids -> Nat] /\ \A x \in Ids : v[x] = IF x \in fresh THEN price[x] ELSE u[x]
  BY DEF Priced
<1>. HIDE DEF v
<1>2. \A x \in Ids : Sound(row[x], x, v)
  BY <1>1 DEF Unknown, Holds, Sound, Worth
<1>3. ASSUME NEW s \in Savers PROVE Saves(s, v)
  <2>1. saver[s].loaded \subseteq Ids
    BY DEF Holds, RowsTyped, Entity
  <2>. QED BY <1>1, <2>1 DEF Unknown, Holds, Saves, Sound, Worth
<1>4. ASSUME NEW b \in Settlers PROVE Pays(b, v)
  <2>1. CASE pc[b] \in {"lock", "write"}
    <3>1. settler[b].ids \subseteq Ids /\ settler[b].total = SumFunctionOnSet([x \in settler[b].ids |-> u[x]], settler[b].ids)
      BY <2>1 DEF Holds, Pays
    <3>2. [x \in settler[b].ids |-> v[x]] = [x \in settler[b].ids |-> u[x]]
      BY <1>1, <3>1 DEF Unknown
    <3>. QED BY <3>1, <3>2 DEF Holds, Pays
  <2>2. CASE pc[b] \notin {"lock", "write"}
    BY <2>2 DEF Holds, Pays
  <2>. QED BY <2>1, <2>2
<1>5. Holds(v)
  BY <1>2, <1>3, <1>4 DEF Holds
<1>. QED BY <1>1, <1>5

\* An edition that replaces the rows of a closing.
LEMMA ReplaceHolds ==
    ASSUME NEW u \in [Ids -> Nat], Holds(u), NEW s \in Savers, ReplaceRows(s)
    PROVE  IncomeInv'
<1>1. PICK dto \in UNION {[D -> Amounts] : D \in SUBSET Sources} : WriteRows(s, Replacement(s, dto))
  BY DEF ReplaceRows
<1>. DEFINE c      == saver[s].c
            kept   == saver[s].kept
            gone   == {x \in RowsSeen(s) \ kept : kept = {} \/ Seen(s, x).batch = None}
            moved  == {x \in kept : x[2] \in DOMAIN dto}
            create == {q \in DOMAIN dto : \A x \in moved : x[2] # q}
            fresh  == {x \in Ids : x[1] = c /\ x[2] \in create /\ x \in NextVersions(c, x[2])
                                   /\ \A y \in NextVersions(c, x[2]) : x[3] <= y[3]}
            new    == Replacement(s, dto)
            price  == [x \in fresh |-> dto[x[2]]]
<1>2. /\ pc[s] = "replace" /\ pc' = [pc EXCEPT ![s] = "reload"]
      /\ UNCHANGED <<row, income, settler, saver>>
  BY DEF ReplaceRows, Goto
<1>3. \A q \in DOMAIN dto : dto[q] \in Nat
  <2>1. \A q \in DOMAIN dto : dto[q] \in Amounts
    OBVIOUS
  <2>2. Amounts \subseteq Nat
    BY SettlementAssumption
  <2>. QED BY <2>1, <2>2
<1>4. \A x \in fresh : price[x] = dto[x[2]] /\ price[x] \in Nat
  BY <1>3
<1>5. ASSUME NEW x \in fresh
      PROVE  /\ ~row[x].live /\ \A t \in Savers : w[t][x] = None /\ x \notin saver[t].loaded
             /\ \A b \in Settlers : x \notin settler[b].ids
  <2>1. x \in NextVersions(c, x[2]) /\ x \in Ids /\ x[1] = c
    OBVIOUS
  <2>2. x[3] >= x[3]
    BY <2>1, SettlementAssumption DEF Ids
  <2>. HIDE DEF fresh, c
  <2>. QED BY <2>1, <2>2 DEF NextVersions
<1>6. fresh \subseteq Ids
  OBVIOUS
<1>7. PICK v \in [Ids -> Nat] : Holds(v) /\ \A x \in Ids : v[x] = IF x \in fresh THEN price[x] ELSE u[x]
  <2>. HIDE DEF fresh, price
  <2>1. Unknown(fresh) /\ Priced(fresh, price)
    BY <1>4, <1>5, <1>6 DEF Unknown, Priced
  <2>. QED BY <2>1, FreshIsUnknown
<1>8. DOMAIN new = gone \cup kept \cup fresh
      /\ \A x \in DOMAIN new : new[x] = IF x \in fresh THEN [live |-> TRUE, amount |-> dto[x[2]], batch |-> None]
                                        ELSE IF x \in moved THEN [saver[s].copy[x] EXCEPT !.amount = dto[x[2]]]
                                        ELSE IF x \in kept THEN saver[s].copy[x]
                                        ELSE Absent
  BY DEF Replacement
<1>9. gone \subseteq Ids
  BY DEF RowsSeen
<1>10. /\ saver[s] \in Entity /\ saver[s].loaded \subseteq Ids /\ kept \subseteq saver[s].loaded
       /\ saver[s].copy \in [Ids -> Row]
       /\ \A x \in kept : saver[s].copy[x].batch # None /\ Sound(saver[s].copy[x], x, v)
  BY <1>2, <1>7 DEF Holds, RowsTyped, Saves, Entity
<1>11. \A x \in moved : x \in kept /\ dto[x[2]] \in Nat
  BY <1>3
<1>. HIDE DEF new, gone, kept, moved, create, fresh, price
<1>12. ASSUME NEW x \in DOMAIN new PROVE new[x] \in Row /\ Sound(new[x], x, v)
  <2>1. CASE x \in fresh
    <3>1. new[x] = [live |-> TRUE, amount |-> dto[x[2]], batch |-> None] /\ dto[x[2]] \in Nat /\ x \in Ids
      BY <1>4, <1>6, <1>8, <2>1
    <3>2. v[x] = dto[x[2]]
      BY <1>4, <1>7, <2>1, <3>1
    <3>. QED BY <3>1, <3>2 DEF Row, Sound, Worth, Tells
  <2>2. CASE x \in moved /\ x \notin fresh
    <3>. DEFINE r == saver[s].copy[x]
    <3>1. new[x] = [r EXCEPT !.amount = dto[x[2]]] /\ r \in Row /\ r.batch # None /\ Sound(r, x, v) /\ dto[x[2]] \in Nat
      BY <1>8, <1>10, <1>11, <2>2
    <3>. HIDE DEF r
    <3>2. new[x] \in Row /\ new[x].batch = r.batch
      BY <3>1 DEF Row
    <3>. QED BY <3>1, <3>2 DEF Sound, Worth, Tells
  <2>3. CASE x \in kept /\ x \notin moved /\ x \notin fresh
    BY <1>8, <1>10, <2>3
  <2>4. CASE x \notin kept /\ x \notin fresh
    <3>1. new[x] = Absent
      BY <1>8, <1>11, <2>4
    <3>. QED BY <3>1, NothingThere
  <2>. QED BY <1>11, <2>1, <2>2, <2>3, <2>4
<1>13. DOMAIN new \subseteq Ids /\ WriteRows(s, new)
  BY <1>1, <1>6, <1>8, <1>9, <1>10 DEF new
<1>14. /\ w' \in [Savers -> [Ids -> Row \cup {None}]] /\ \A t \in Savers \ {s} : w'[t] = w[t]
       /\ DOMAIN rLock' = Ids /\ \A x \in Ids : rLock[x] \notin {None, s} => rLock'[x] = rLock[x]
       /\ \A x \in Ids : w'[s][x] # None => rLock'[x] = s /\ Sound(w'[s][x], x, v)
  BY <1>7, <1>12, <1>13, WritesAreSound
<1>15. saver' \in [Savers -> Entity] /\ (\A x \in saver'[s].loaded : Sound(saver'[s].copy[x], x, v))
       /\ \A t \in Savers \ {s} : w'[t] = w[t] /\ saver'[t] = saver[t]
  BY <1>2, <1>7, <1>14 DEF Holds, RowsTyped, Saves
<1>16. Holds(v)'
  BY <1>2, <1>7, <1>14, <1>15, SaverGoesOn
<1>. QED BY <1>7, <1>16 DEF IncomeInv

\* Every step of a saver.
LEMMA SaverHolds ==
    ASSUME NEW u \in [Ids -> Nat], Holds(u), NEW s \in Savers, SaverStep(s)
    PROVE  IncomeInv'
\* A step that touches no row and loads nothing.
<1>1. ASSUME NEW step, pc' = [pc EXCEPT ![s] = step], UNCHANGED <<row, income, rLock, w, settler>>, step # "replace",
             step = "lock" => saver'[s].op \in {"update", "pick", "remove"},
             saver' \in [Savers -> Entity], \A t \in Savers \ {s} : saver'[t] = saver[t],
             saver'[s].loaded = saver[s].loaded, saver'[s].copy = saver[s].copy
      PROVE  IncomeInv'
  <2>1. w' \in [Savers -> [Ids -> Row \cup {None}]] /\ DOMAIN rLock' = Ids
    BY <1>1 DEF Holds, RowsTyped
  <2>2. \A x \in Ids : w'[s][x] # None => rLock'[x] = s /\ Sound(w'[s][x], x, u)
    BY <1>1 DEF Holds, Saves
  <2>3. \A x \in saver'[s].loaded : Sound(saver'[s].copy[x], x, u)
    BY <1>1 DEF Holds, Saves
  <2>4. Holds(u)'
    BY <1>1, <2>1, <2>2, <2>3, SaverGoesOn
  <2>. QED BY <2>4 DEF IncomeInv
<1>2. saver \in [Savers -> Entity] /\ saver[s] \in Entity
  BY DEF Holds, RowsTyped
<1>3. Holds(u)' => IncomeInv'
  BY DEF IncomeInv
\* A read of the rows of the closing.
<1>4. ASSUME NEW step, pc' = [pc EXCEPT ![s] = step], UNCHANGED <<row, income, rLock, w, settler>>,
             saver' \in [Savers -> Entity], \A t \in Savers \ {s} : saver'[t] = saver[t],
             saver'[s].loaded = RowsSeen(s), saver'[s].copy = [x \in Ids |-> Seen(s, x)],
             step # "lock", step = "replace" => saver'[s].kept = {x \in RowsSeen(s) : Seen(s, x).batch # None}
      PROVE  IncomeInv'
  <2>1. w' \in [Savers -> [Ids -> Row \cup {None}]] /\ DOMAIN rLock' = Ids
    BY <1>4 DEF Holds, RowsTyped
  <2>2. \A x \in Ids : w'[s][x] # None => rLock'[x] = s /\ Sound(w'[s][x], x, u)
    BY <1>4 DEF Holds, Saves
  <2>3. \A x \in saver'[s].loaded : Sound(saver'[s].copy[x], x, u) /\ saver'[s].copy[x] = Seen(s, x)
    BY <1>4, SeenIsSound DEF RowsSeen
  <2>4. step = "replace" => /\ saver'[s].kept \subseteq saver'[s].loaded
                            /\ \A x \in saver'[s].kept : saver'[s].copy[x].batch # None
    BY <1>4, <2>3
  <2>5. Holds(u)'
    BY <1>4, <2>1, <2>2, <2>3, <2>4, SaverGoesOn
  <2>. QED BY <2>5, <1>3
<1>5. ASSUME NEW op \in AllOps, NEW c \in Closings, Begin(s, op, c) PROVE IncomeInv'
  <2>. DEFINE step == IF op = "unlock" THEN "load" ELSE IF op = "resync" THEN "reload" ELSE "lock"
              e    == [saver[s] EXCEPT !.op = op, !.c = c]
  <2>1. pc' = [pc EXCEPT ![s] = step] /\ step # "replace" /\ UNCHANGED <<row, income, rLock, w, settler>>
        /\ saver' = [saver EXCEPT ![s] = e]
    BY <1>5 DEF Begin, Goto
  <2>2. e \in Entity /\ e.loaded = saver[s].loaded /\ e.copy = saver[s].copy
        /\ (step = "lock" => e.op \in {"update", "pick", "remove"})
    BY <1>2 DEF Entity, AllOps
  <2>. HIDE DEF step, e
  <2>3. saver' \in [Savers -> Entity] /\ (\A t \in Savers \ {s} : saver'[t] = saver[t]) /\ saver'[s] = e
    BY <1>2, <2>1, <2>2
  <2>. QED BY <1>1, <2>1, <2>2, <2>3
<1>6. ASSUME Rollback(s) PROVE IncomeInv'
  BY <1>3, <1>6, RollbackHolds
<1>7. ASSUME LockClosing(s), ~Rollback(s) PROVE IncomeInv'
  <2>. DEFINE step == CASE saver[s].op = "update" -> "load"
                        [] saver[s].op = "pick"   -> "regenerate"
                        [] saver[s].op = "remove" -> "removeAll"
  <2>1. pc' = [pc EXCEPT ![s] = step] /\ UNCHANGED <<row, income, rLock, w, settler, saver>>
    BY <1>7 DEF LockClosing, Goto
  <2>2. step \notin {"lock", "replace"}
    BY <1>7 DEF LockClosing, Holds, Saves
  <2>. HIDE DEF step
  <2>. QED BY <1>1, <1>2, <2>1, <2>2
<1>8. ASSUME Load(s), ~Rollback(s) PROVE IncomeInv'
  <2>. DEFINE step == IF pc[s] = "load" THEN "save" ELSE "regenerate"
              copy == [x \in Ids |-> Seen(s, x)]
              e    == [saver[s] EXCEPT !.loaded = RowsSeen(s), !.copy = copy]
  <2>1. pc' = [pc EXCEPT ![s] = step] /\ step \notin {"lock", "replace"}
        /\ UNCHANGED <<row, income, rLock, w, settler>> /\ saver' = [saver EXCEPT ![s] = e]
    BY <1>8 DEF Load, Goto
  <2>2. copy \in [Ids -> Row] /\ RowsSeen(s) \in SUBSET Ids
    BY SeenIsSound DEF RowsSeen
  <2>3. copy = [x \in Ids |-> Seen(s, x)]
    OBVIOUS
  <2>. HIDE DEF copy
  <2>4. e \in Entity /\ e.loaded = RowsSeen(s) /\ e.copy = copy
    BY <1>2, <2>2 DEF Entity
  <2>. HIDE DEF step, e
  <2>5. saver' \in [Savers -> Entity] /\ (\A t \in Savers \ {s} : saver'[t] = saver[t]) /\ saver'[s] = e
    BY <1>2, <2>1, <2>4
  <2>. QED BY <1>4, <2>1, <2>3, <2>4, <2>5
<1>9. ASSUME ReadRows(s) PROVE IncomeInv'
  <2>. DEFINE copy == [x \in Ids |-> Seen(s, x)]
              kept == {x \in RowsSeen(s) : Seen(s, x).batch # None}
              e    == [saver[s] EXCEPT !.loaded = RowsSeen(s), !.copy = copy, !.kept = kept]
  <2>1. pc' = [pc EXCEPT ![s] = "replace"] /\ UNCHANGED <<row, income, rLock, w, settler>>
        /\ saver' = [saver EXCEPT ![s] = e]
    BY <1>9 DEF ReadRows, Goto
  <2>2. copy \in [Ids -> Row] /\ RowsSeen(s) \in SUBSET Ids /\ kept \in SUBSET Ids
    BY SeenIsSound DEF RowsSeen
  <2>3. copy = [x \in Ids |-> Seen(s, x)] /\ kept = {x \in RowsSeen(s) : Seen(s, x).batch # None}
    OBVIOUS
  <2>. HIDE DEF copy, kept
  <2>4. e \in Entity /\ e.loaded = RowsSeen(s) /\ e.copy = copy /\ e.kept = kept
    BY <1>2, <2>2 DEF Entity
  <2>. HIDE DEF e
  <2>5. saver' \in [Savers -> Entity] /\ (\A t \in Savers \ {s} : saver'[t] = saver[t]) /\ saver'[s] = e
    BY <1>2, <2>1, <2>4
  <2>. QED BY <1>4, <2>1, <2>3, <2>4, <2>5
<1>10. ASSUME SaveClosing(s) PROVE IncomeInv'
  <2>1. CASE CascadeFails(s)
    BY <1>6, <2>1 DEF CascadeFails
  <2>2. CASE ~CascadeFails(s)
    <3>1. CascadeSave(s) /\ UNCHANGED <<row, income, settler>>
      BY <1>10, <2>2 DEF SaveClosing
    <3>2. PICK step \in {"commit", "readRows", "reload"} : pc' = [pc EXCEPT ![s] = step]
      BY <1>10, <2>2 DEF SaveClosing, Goto
    <3>. QED BY <1>3, <3>1, <3>2, CascadeIsSound
  <2>. QED BY <2>1, <2>2
<1>11. ASSUME Regenerate(s) PROVE IncomeInv'
  <2>1. PICK step \in {"commit", "resave"} : pc' = [pc EXCEPT ![s] = step]
    BY <1>11 DEF Regenerate, Goto
  <2>2. UNCHANGED <<row, income, rLock, w, settler, saver>>
    BY <1>11 DEF Regenerate
  <2>. QED BY <1>1, <1>2, <2>1, <2>2
<1>12. ASSUME SaveAgain(s) PROVE IncomeInv'
  <2>1. CASE CascadeFails(s)
    BY <1>6, <2>1 DEF CascadeFails
  <2>2. CASE CascadeSave(s) /\ Goto(s, "commit") /\ UNCHANGED <<row, income, settler>>
    BY <1>3, <2>2, CascadeIsSound DEF Goto
  <2>3. CASE Goto(s, "commit") /\ UNCHANGED <<row, income, rLock, w, settler, saver>>
    BY <1>1, <1>2, <2>3 DEF Goto
  <2>. QED BY <1>12, <2>1, <2>2, <2>3 DEF SaveAgain
<1>13. ASSUME RemoveAll(s) PROVE IncomeInv'
  <2>. DEFINE new == [x \in RowsSeen(s) |-> Absent]
  <2>1. pc' = [pc EXCEPT ![s] = "commit"] /\ UNCHANGED <<row, income, settler, saver>> /\ WriteRows(s, new)
    BY <1>13 DEF RemoveAll, Goto
  <2>2. DOMAIN new \subseteq Ids /\ \A x \in DOMAIN new : new[x] \in Row /\ Sound(new[x], x, u)
    BY NothingThere DEF RowsSeen
  <2>. HIDE DEF new
  <2>3. /\ w' \in [Savers -> [Ids -> Row \cup {None}]] /\ \A t \in Savers \ {s} : w'[t] = w[t]
        /\ DOMAIN rLock' = Ids /\ \A x \in Ids : rLock[x] \notin {None, s} => rLock'[x] = rLock[x]
        /\ \A x \in Ids : w'[s][x] # None => rLock'[x] = s /\ Sound(w'[s][x], x, u)
    BY <2>1, <2>2, WritesAreSound
  <2>4. saver' \in [Savers -> Entity] /\ (\A x \in saver'[s].loaded : Sound(saver'[s].copy[x], x, u))
        /\ \A t \in Savers \ {s} : w'[t] = w[t] /\ saver'[t] = saver[t]
    BY <1>2, <2>1, <2>3 DEF Holds, Saves
  <2>5. Holds(u)'
    BY <2>1, <2>3, <2>4, SaverGoesOn
  <2>. QED BY <1>3, <2>5
<1>14. ASSUME Commit(s) PROVE IncomeInv'
  BY <1>3, <1>14, CommitHolds
<1>. QED BY <1>5, <1>6, <1>7, <1>8, <1>9, <1>10, <1>11, <1>12, <1>13, <1>14, ReplaceHolds DEF SaverStep, SaverDies

\* A step of a settlement that leaves rows and incomes as they are.
LEMMA SettlerGoesOn ==
    ASSUME NEW u, Holds(u), NEW b \in Settlers, NEW step, pc' = [pc EXCEPT ![b] = step],
           UNCHANGED <<row, income, w, saver>>, DOMAIN settler' = Settlers,
           \A a \in Settlers \ {b} : settler'[a] = settler[a],
           DOMAIN rLock' = Ids, \A x \in Ids : rLock[x] \notin {None, b} => rLock'[x] = rLock[x], Pays(b, u)'
    PROVE  Holds(u)'
<1>0. b \notin Savers /\ None \notin Settlers \cup Savers
  BY SettlementAssumption
<1>1. DOMAIN pc' = Settlers \cup Savers /\ \A p \in (Settlers \cup Savers) \ {b} : pc'[p] = pc[p]
  BY DEF Holds, RowsTyped
<1>2. RowsTyped'
  BY <1>1 DEF Holds, RowsTyped
<1>3. \A x \in Ids : Sound(row[x], x, u)'
  BY DEF Holds, Sound, Worth, Tells
<1>4. ASSUME NEW s \in Savers PROVE Saves(s, u)'
  <2>1. Saves(s, u) /\ pc'[s] = pc[s]
    BY <1>0, <1>1 DEF Holds
  <2>2. \A x \in Ids : w[s][x] # None => rLock'[x] = s
    BY <1>0, <2>1 DEF Saves
  <2>. QED BY <2>1, <2>2 DEF Saves, Sound, Worth, Tells
<1>5. ASSUME NEW a \in Settlers \ {b} PROVE Pays(a, u)'
  <2>1. Pays(a, u) /\ pc'[a] = pc[a] /\ settler'[a] = settler[a]
    BY <1>1 DEF Holds
  <2>2. Locked(a)'
    BY <1>0, <2>1 DEF Pays, Locked
  <2>. QED BY <2>1, <2>2 DEF Pays
<1>. QED BY <1>2, <1>3, <1>4, <1>5 DEF Holds

\* The rows that are marked were locked and unsettled, and no other row has the mark.
LEMMA WriteMarks ==
    ASSUME NEW u, Holds(u), NEW b \in Settlers, SettleWrite(b)
    PROVE  /\ settler[b].ids \subseteq Ids /\ row' \in [Ids -> Row]
           /\ \A x \in settler[b].ids : /\ rLock[x] = b /\ row[x].live /\ row[x].amount = u[x]
                                        /\ row'[x].batch = b
           /\ \A x \in Ids \ settler[b].ids : row'[x] = row[x]
           /\ DOMAIN income' = Settlers /\ \A a \in Settlers \ {b} : income'[a] = income[a]
           /\ income'[b] = [state |-> "live", closing |-> OnlyClosing(settler[b].ids),
                            amount |-> settler[b].total, rows |-> settler[b].ids]
<1>. DEFINE ids == settler[b].ids
<1>1. pc[b] = "write" /\ row' = [x \in Ids |-> IF x \in ids THEN [row[x] EXCEPT !.batch = b] ELSE row[x]]
  BY DEF SettleWrite
<1>2. ids \subseteq Ids /\ \A x \in ids : rLock[x] = b /\ row[x].live /\ row[x].batch = None
  BY <1>1 DEF Holds, Pays, Locked
<1>3. row \in [Ids -> Row] /\ \A x \in ids : row[x].amount = u[x]
  BY <1>2 DEF Holds, RowsTyped, Sound, Worth
<1>4. /\ income' = [income EXCEPT ![b] = [state |-> "live", closing |-> OnlyClosing(ids),
                                          amount |-> settler[b].total, rows |-> ids]]
      /\ DOMAIN income = Settlers
  BY DEF SettleWrite, Holds, RowsTyped
<1>. HIDE DEF ids
<1>5. row' \in [Ids -> Row] /\ (\A x \in ids : row'[x].batch = b) /\ \A x \in Ids \ ids : row'[x] = row[x]
  BY <1>1, <1>2, <1>3, RowFields
<1>6. DOMAIN income' = Settlers /\ (\A a \in Settlers \ {b} : income'[a] = income[a])
      /\ income'[b] = [state |-> "live", closing |-> OnlyClosing(ids), amount |-> settler[b].total, rows |-> ids]
  BY <1>4
<1>. QED BY <1>2, <1>3, <1>5, <1>6 DEF ids

\* A settlement that is written.
LEMMA WriteHolds ==
    ASSUME NEW u, Holds(u), NEW b \in Settlers, SettleWrite(b)
    PROVE  Holds(u)'
<1>. DEFINE ids == settler[b].ids
<1>0. b \notin Savers /\ None \notin Settlers \cup Savers
  BY SettlementAssumption
<1>1. /\ ids \subseteq Ids /\ row' \in [Ids -> Row]
      /\ \A x \in ids : rLock[x] = b /\ row'[x].batch = b
      /\ \A x \in Ids \ ids : row'[x] = row[x]
  BY ZenonT(40), WriteMarks
<1>2. DOMAIN income' = Settlers /\ (\A a \in Settlers \ {b} : income'[a] = income[a])
      /\ income'[b].state = "live" /\ DOMAIN income'[b] = {"state", "closing", "amount", "rows"}
  <2>1. DOMAIN income' = Settlers /\ (\A a \in Settlers \ {b} : income'[a] = income[a])
        /\ income'[b] = [state |-> "live", closing |-> OnlyClosing(ids), amount |-> settler[b].total, rows |-> ids]
    BY WriteMarks
  <2>. QED BY <2>1
<1>3. UNCHANGED <<w, settler, saver>> /\ rLock' = Unlock(b, rLock) /\ pc' = [pc EXCEPT ![b] = "done"]
  BY DEF SettleWrite, Goto
<1>4. DOMAIN rLock' = Ids /\ \A x \in Ids : rLock'[x] = IF rLock[x] = b THEN None ELSE rLock[x]
  BY <1>3, Unlocks DEF Holds, RowsTyped
<1>5. DOMAIN pc' = Settlers \cup Savers /\ pc'[b] = "done" /\ \A p \in (Settlers \cup Savers) \ {b} : pc'[p] = pc[p]
  BY <1>3 DEF Holds, RowsTyped
<1>. HIDE DEF ids
<1>6. RowsTyped'
  BY <1>1, <1>2, <1>3, <1>4, <1>5 DEF Holds, RowsTyped
\* What was sound stays so: no income goes away.
<1>7. \A r, x : Sound(r, x, u) => Worth(r, x, u) /\ (r.batch # None => r.batch \in Settlers /\ income'[r.batch].state # "none")
  BY <1>2 DEF Sound, Tells
<1>8. ASSUME NEW x \in Ids PROVE Sound(row[x], x, u)'
  <2>1. CASE x \in ids
    BY <1>0, <1>1, <1>2, <2>1 DEF Sound, Worth, Tells
  <2>2. CASE x \notin ids
    <3>1. row'[x] = row[x] /\ Sound(row[x], x, u)
      BY <1>1, <2>2 DEF Holds
    <3>. QED BY <1>7, <3>1 DEF Sound, Worth, Tells
  <2>. QED BY <2>1, <2>2
<1>9. ASSUME NEW s \in Savers PROVE Saves(s, u)'
  <2>1. Saves(s, u) /\ pc'[s] = pc[s] /\ w' = w /\ saver' = saver
    BY <1>0, <1>3, <1>5 DEF Holds
  <2>2. \A x \in Ids : w[s][x] # None => rLock'[x] = s
    BY <1>0, <1>4, <2>1 DEF Saves
  <2>3. ASSUME NEW x \in Ids, w[s][x] # None PROVE Sound(w[s][x], x, u)'
    <3>1. Sound(w[s][x], x, u)
      BY <2>1, <2>3 DEF Saves
    <3>. QED BY <1>7, <2>1, <3>1 DEF Sound, Worth, Tells
  <2>4. ASSUME NEW x \in saver[s].loaded PROVE Sound(saver[s].copy[x], x, u)'
    <3>1. Sound(saver[s].copy[x], x, u)
      BY <2>1, <2>4 DEF Saves
    <3>. QED BY <1>7, <2>1, <3>1 DEF Sound, Worth, Tells
  <2>. QED BY <2>1, <2>2, <2>3, <2>4 DEF Saves
<1>10. ASSUME NEW a \in Settlers PROVE Pays(a, u)'
  <2>1. CASE a = b
    BY <1>5, <2>1 DEF Pays, Locked
  <2>2. CASE a # b
    <3>1. Pays(a, u) /\ pc'[a] = pc[a] /\ settler' = settler
      BY <1>3, <1>5, <2>2 DEF Holds
    <3>2. ASSUME pc[a] = "write", NEW x \in settler[a].ids PROVE rLock'[x] = a /\ row'[x] = row[x]
      <4>1. rLock[x] = a /\ x \in Ids
        BY <3>1, <3>2 DEF Pays, Locked
      <4>. QED BY <1>0, <1>1, <1>4, <2>2, <4>1
    <3>3. Locked(a)'
      BY <3>1, <3>2 DEF Pays, Locked
    <3>. QED BY <3>1, <3>3 DEF Pays
  <2>. QED BY <2>1, <2>2
<1>. QED BY <1>6, <1>8, <1>9, <1>10 DEF Holds

\* Every step of a settlement.
LEMMA SettlerHolds ==
    ASSUME NEW u \in [Ids -> Nat], Holds(u), NEW b \in Settlers, SettlerStep(b)
    PROVE  IncomeInv'
<1>1. Holds(u)' => IncomeInv'
  BY DEF IncomeInv
<1>2. DOMAIN rLock = Ids /\ DOMAIN settler = Settlers /\ DOMAIN pc = Settlers \cup Savers /\ Pays(b, u)
  BY DEF Holds, RowsTyped
\* The total is the sum of what the rows were created with.
<1>3. ASSUME NEW ids \in SUBSET Ids, SettleRead(b, ids) PROVE Holds(u)'
  <2>1. pc' = [pc EXCEPT ![b] = "lock"] /\ UNCHANGED <<row, income, rLock, w, saver>>
        /\ settler' = [settler EXCEPT ![b] = [ids |-> ids, total |-> Total(ids, row)]]
    BY <1>3 DEF SettleRead, Goto
  <2>2. \A x \in ids : row[x].amount = u[x]
    BY <1>3 DEF SettleRead, Holds, Sound, Worth
  <2>3. Total(ids, row) = SumFunctionOnSet([x \in ids |-> u[x]], ids)
    <3>1. [x \in ids |-> row[x].amount] = [x \in ids |-> u[x]]
      BY <2>2
    <3>. QED BY <3>1 DEF Total
  <2>4. DOMAIN settler' = Settlers /\ (\A a \in Settlers \ {b} : settler'[a] = settler[a])
        /\ settler'[b].ids = ids /\ settler'[b].total = Total(ids, row) /\ pc'[b] = "lock"
    BY <1>2, <2>1
  <2>5. Pays(b, u)'
    BY <2>3, <2>4 DEF Pays, Locked
  <2>. QED BY <1>2, <2>1, <2>4, <2>5, SettlerGoesOn
<1>4. ASSUME SettleLock(b) PROVE Holds(u)'
  <2>1. pc[b] = "lock" /\ UNCHANGED <<row, income, w, settler, saver>> /\ \A x \in settler[b].ids : rLock[x] = None
    BY <1>4 DEF SettleLock
  <2>2. CASE \A x \in settler[b].ids : row[x].live /\ row[x].batch = None
    <3>1. pc' = [pc EXCEPT ![b] = "write"] /\ pc'[b] = "write"
          /\ rLock' = [x \in Ids |-> IF x \in settler[b].ids THEN b ELSE rLock[x]]
      BY <1>2, <1>4, <2>2 DEF SettleLock, Goto
    <3>2. settler[b].ids \subseteq Ids /\ DOMAIN rLock' = Ids /\ \A x \in Ids : rLock[x] \notin {None, b} => rLock'[x] = rLock[x]
      BY <1>2, <2>1, <3>1 DEF Pays
    <3>3. Pays(b, u)'
      BY <1>2, <2>1, <2>2, <3>1, <3>2 DEF Pays, Locked
    <3>. QED BY <1>2, <2>1, <3>1, <3>2, <3>3, SettlerGoesOn
  <2>3. CASE ~\A x \in settler[b].ids : row[x].live /\ row[x].batch = None
    <3>1. pc' = [pc EXCEPT ![b] = "done"] /\ pc'[b] = "done" /\ UNCHANGED rLock
      BY <1>2, <1>4, <2>3 DEF SettleLock, Goto
    <3>2. Pays(b, u)'
      BY <3>1 DEF Pays, Locked
    <3>. QED BY <1>2, <2>1, <3>1, <3>2, SettlerGoesOn
  <2>. QED BY <2>2, <2>3
<1>5. ASSUME SettleDies(b) PROVE Holds(u)'
  <2>1. pc' = [pc EXCEPT ![b] = "done"] /\ pc'[b] = "done" /\ UNCHANGED <<row, income, w, settler, saver>>
        /\ rLock' = Unlock(b, rLock)
    BY <1>2, <1>5 DEF SettleDies, Goto
  <2>2. DOMAIN rLock' = Ids /\ \A x \in Ids : rLock[x] \notin {None, b} => rLock'[x] = rLock[x]
    BY <1>2, <2>1, Unlocks
  <2>3. Pays(b, u)'
    BY <2>1 DEF Pays, Locked
  <2>. QED BY <1>2, <2>1, <2>2, <2>3, SettlerGoesOn
<1>. QED BY <1>1, <1>3, <1>4, <1>5, WriteHolds DEF SettlerStep

\* For every operation on closings: an unsettled row, and every copy of it that somebody
\* read or is about to write, is worth what it was created with.
THEOREM IncomesStaySound == Spec => []IncomeInv
<1>1. IncomeInv /\ [Next]_vars => IncomeInv'
  <2>. SUFFICES ASSUME IncomeInv, [Next]_vars PROVE IncomeInv'
    OBVIOUS
  <2>1. PICK u \in [Ids -> Nat] : Holds(u)
    BY DEF IncomeInv
  <2>2. CASE UNCHANGED vars
    <3>1. Holds(u)'
      BY <2>1, <2>2 DEF vars, Holds, RowsTyped, Saves, Pays, Locked, Sound, Worth, Tells
    <3>. QED BY <3>1 DEF IncomeInv
  <2>3. CASE \E b \in Settlers : SettlerStep(b)
    BY <2>1, <2>3, SettlerHolds
  <2>4. CASE \E s \in Savers : SaverStep(s)
    BY <2>1, <2>4, SaverHolds
  <2>. QED BY <2>2, <2>3, <2>4 DEF Next
<1>. QED BY <1>1, HoldsAtStart, PTL DEF Spec

\* settle: the income of a batch is the sum of its rows as they are when they are marked,
\* though it is added up before the transaction, for every operation on closings.
THEOREM SettledForWhatItIsWorth == Spec => IncomeIsWhatWasMarked
<1>1. IncomeInv /\ [Next]_vars => [MarksWhatItPays]_vars
  <2>. SUFFICES ASSUME IncomeInv, Next, NEW b \in Settlers, income[b].state = "none", income'[b].state = "live"
                PROVE  income'[b].amount = Total({x \in Ids : row[x].live /\ row'[x].batch = b}, row)
    BY DEF MarksWhatItPays
  <2>1. PICK u \in [Ids -> Nat] : Holds(u)
    BY DEF IncomeInv
  <2>2. b # None /\ DOMAIN income = Settlers /\ \A a \in Settlers : DOMAIN income[a] = {"state", "closing", "amount", "rows"}
    BY <2>1, SettlementAssumption DEF Holds, RowsTyped
  <2>3. CASE SettleWrite(b)
    <3>. DEFINE ids == settler[b].ids
    <3>1. /\ ids \subseteq Ids
          /\ \A x \in ids : row[x].live /\ row[x].amount = u[x] /\ row'[x].batch = b
          /\ \A x \in Ids \ ids : row'[x] = row[x]
      <4>1. /\ settler[b].ids \subseteq Ids
            /\ \A x \in settler[b].ids : /\ rLock[x] = b /\ row[x].live /\ row[x].amount = u[x]
                                         /\ row'[x].batch = b
            /\ \A x \in Ids \ settler[b].ids : row'[x] = row[x]
        BY <2>1, <2>3, WriteMarks
      <4>. QED BY <4>1
    <3>2. income'[b] = [state |-> "live", closing |-> OnlyClosing(ids), amount |-> settler[b].total, rows |-> ids]
      BY <2>1, <2>3, WriteMarks
    <3>3. income'[b].amount = settler[b].total
      BY <3>2
    <3>4. settler[b].total = SumFunctionOnSet([x \in ids |-> u[x]], ids)
      BY <2>1, <2>3 DEF SettleWrite, Holds, Pays
    <3>. HIDE DEF ids
    <3>5. \A x \in Ids : row[x].batch # b
      BY <2>1, <2>2 DEF Holds, Sound, Tells
    <3>6. {x \in Ids : row[x].live /\ row'[x].batch = b} = ids
      BY <3>1, <3>5
    <3>7. [x \in ids |-> row[x].amount] = [x \in ids |-> u[x]]
      BY <3>1
    <3>. QED BY <3>3, <3>4, <3>6, <3>7 DEF Total
  <2>4. ASSUME NEW a \in Settlers, a # b, SettleWrite(a) PROVE FALSE
    <3>1. \A d \in Settlers \ {a} : income'[d] = income[d]
      BY <2>1, <2>4, WriteMarks
    <3>. QED BY <2>4, <3>1
  <2>5. ASSUME UNCHANGED income PROVE FALSE
    BY <2>5
  <2>6. ASSUME NEW s \in Savers, Commit(s) PROVE FALSE
    <3>1. income'[b] = IF b \in drops[s] THEN [income[b] EXCEPT !.state = "deleted"] ELSE income[b]
      BY <2>6 DEF Commit
    <3>. QED BY <2>2, <3>1
  <2>7. ASSUME NEW a \in Settlers, SettlerStep(a), ~SettleWrite(a) PROVE FALSE
    BY <2>5, <2>7 DEF SettlerStep, SettleRead, SettleLock, SettleDies
  <2>8. ASSUME NEW s \in Savers, SaverStep(s), ~Commit(s) PROVE FALSE
    <3>1. Rollback(s) => UNCHANGED income
      BY DEF Rollback
    <3>. QED BY <2>5, <2>8, <3>1 DEF SaverStep, Begin, LockClosing, Load, SaveClosing, CascadeFails, ReadRows, ReplaceRows,
                                     Regenerate, SaveAgain, RemoveAll, SaverDies
  <2>. QED BY <2>3, <2>4, <2>6, <2>7, <2>8 DEF Next
<1>. QED BY <1>1, IncomesStaySound, PTL DEF Spec, IncomeIsWhatWasMarked
-----------------------------------------------------------------------------
(* Nothing is settled twice                                                   *)

\* What saves a closing with the rows it was loaded with, which is how a mark gets lost.
Cascading == {"update", "resync", "unlock"}

\* Who does so overlaps with no other request.  Nothing in the code sees to it.
CascadesAlone == Cascading \cap Ops \subseteq Exclusive

\* What IncomeInv says without prices.
InOrder ==
    /\ RowsTyped
    /\ \A s \in Savers : /\ \A x \in Ids : w[s][x] # None => rLock[x] = s
                         /\ pc[s] = "lock" => saver[s].op \in {"update", "pick", "remove"}
                         /\ pc[s] = "replace" => saver[s].kept \subseteq saver[s].loaded
    /\ \A b \in Settlers : Locked(b) /\ (pc[b] \in {"lock", "write"} => settler[b].ids \subseteq Ids)

Sees(s) == [x \in Ids |-> Seen(s, x)]

\* A table of rows: a closing that is gone has none, no source has two, and what a batch
\* marked is still there with its mark as long as the closing is.
Fits(table) ==
    /\ \A x \in Ids : table[x].live => x[1] \in alive
    /\ \A x, y \in Ids : table[x].live /\ table[y].live /\ x[1] = y[1] /\ x[2] = y[2] => x = y
    /\ \A b \in Settlers : \A x \in income[b].rows : x[1] \in alive => table[x].live /\ table[x].batch = b

\* Who saves a closing with its rows has them as they are, and keeps the marked ones.
Cascades(s) ==
    AtWork(s) /\ saver[s].op \in Cascading =>
        /\ saver[s].op \in Exclusive /\ \A p \in (Settlers \cup Savers) \ {s} : ~AtWork(p)
        /\ pc[s] # "removeAll" /\ (pc[s] \notin {"lock", "load", "reload"} => saver[s].c \in alive)
        /\ Fits(Sees(s))
        /\ pc[s] \in {"save", "replace", "regenerate", "resave"} =>
              \A x \in saver[s].loaded : saver[s].copy[x] = Seen(s, x)
        /\ pc[s] = "replace" => saver[s].kept = {x \in RowsSeen(s) : Seen(s, x).batch # None}

\* A pickup writes no row, a removal writes all rows of its closing away.
Removes(s) ==
    AtWork(s) /\ saver[s].op \in {"pick", "remove"} =>
        /\ ~saver[s].saved /\ pc[s] \in {"lock", "regenerate", "removeAll", "commit"}
        /\ pc[s] = "regenerate" => saver[s].op = "pick"
        /\ pc[s] = "removeAll" => saver[s].op = "remove"
        /\ \A x \in Ids : w[s][x] # None => /\ w[s][x] = Absent /\ x[1] = saver[s].c
                                            /\ pc[s] = "commit" /\ saver[s].op = "remove"
        /\ pc[s] = "commit" /\ saver[s].op = "remove" => \A x \in Ids : x[1] = saver[s].c => ~Seen(s, x).live

Rests(s) == ~AtWork(s) => ~saver[s].saved /\ \A x \in Ids : w[s][x] = None

\* No two batches have a source of a closing in common.
Apart == \A a, b \in Settlers : a # b =>
            \A x \in income[a].rows, y \in income[b].rows : <<x[1], x[2]>> # <<y[1], y[2]>>

SettlementInv ==
    /\ \A b \in Settlers : income[b].rows \subseteq Ids
    /\ Fits(row) /\ Apart
    /\ \A s \in Savers : Cascades(s) /\ Removes(s) /\ Rests(s)

LEMMA SoundIsInOrder == IncomeInv => InOrder
BY DEF IncomeInv, InOrder, Holds, Saves, Pays

\* At the start there is one row for every source and nothing is settled.
LEMMA SettlementInvInit == Init => SettlementInv
<1>. SUFFICES ASSUME Init PROVE SettlementInv
  OBVIOUS
<1>1. \A b \in Settlers : income[b].rows = {}
  BY DEF Init, NoIncome
<1>2. Fits(row)
  <2>1. \A x \in Ids : row[x].live => x[3] = 1
    BY DEF Init
  <2>2. \A x \in Ids : x = <<x[1], x[2], x[3]>> /\ x[1] \in alive
    BY DEF Init, Ids
  <2>3. ASSUME NEW x \in Ids, NEW y \in Ids, row[x].live, row[y].live, x[1] = y[1], x[2] = y[2] PROVE x = y
    <3>1. x = <<x[1], x[2], 1>> /\ y = <<y[1], y[2], 1>>
      BY <2>1, <2>2, <2>3
    <3>. QED BY <2>3, <3>1
  <2>. QED BY <1>1, <2>2, <2>3 DEF Fits
<1>3. \A s \in Savers : ~AtWork(s) /\ ~saver[s].saved /\ \A x \in Ids : w[s][x] = None
  BY DEF Init, AtWork, NoEntity, NoWrites
<1>. QED BY <1>1, <1>2, <1>3 DEF SettlementInv, Apart, Cascades, Removes, Rests

\* Whoever is at work, or begins, meets nobody who wants to be alone.
LEMMA NobodyCascades ==
    ASSUME SettlementInv, NEW p \in Settlers \cup Savers, AtWork(p) \/ NoneExclusive, NEW t \in Savers \ {p}, AtWork(t)
    PROVE  saver[t].op \notin Cascading
BY DEF SettlementInv, Cascades, NoneExclusive

\* Tables that agree on the rows.
LEMMA SameFits ==
    ASSUME NEW T, NEW U, \A x \in Ids : T[x] = U[x], \A b \in Settlers : income[b].rows \subseteq Ids, Fits(T)
    PROVE  Fits(U)
BY DEF Fits

\* A step that leaves the table, the closings and the incomes as they are.
LEMMA SaverMoves ==
    ASSUME InOrder, SettlementInv, NEW s \in Savers, NEW step, pc' = [pc EXCEPT ![s] = step],
           UNCHANGED <<alive, row, income>>, AtWork(s) \/ NoneExclusive,
           \A t \in Savers \ {s} : w'[t] = w[t] /\ saver'[t] = saver[t],
           Cascades(s)', Removes(s)', Rests(s)'
    PROVE  SettlementInv'
<1>1. \A p \in (Settlers \cup Savers) \ {s} : pc'[p] = pc[p]
  BY DEF InOrder, RowsTyped
<1>2. Fits(row)' /\ Apart' /\ \A b \in Settlers : income'[b].rows \subseteq Ids
  BY DEF SettlementInv, Fits, Apart
<1>3. ASSUME NEW t \in Savers \ {s} PROVE Cascades(t)' /\ Removes(t)' /\ Rests(t)'
  <2>1. w'[t] = w[t] /\ saver'[t] = saver[t] /\ pc'[t] = pc[t] /\ Removes(t) /\ Rests(t)
    BY <1>1 DEF SettlementInv
  <2>2. AtWork(t)' = AtWork(t)
    BY <2>1 DEF AtWork
  <2>3. Cascades(t)'
    BY <2>1, <2>2, NobodyCascades DEF Cascades
  <2>. QED BY <2>1, <2>2, <2>3 DEF Removes, Rests, Seen
<1>. QED BY <1>2, <1>3 DEF SettlementInv

\* What a rollback and a commit leave of their saver.
LEMMA Finished ==
    ASSUME InOrder, NEW s \in Savers, Finish(s)
    PROVE  /\ pc' = [pc EXCEPT ![s] = "done"] /\ ~AtWork(s)'
           /\ \A t \in Savers \ {s} : w'[t] = w[t] /\ saver'[t] = saver[t]
           /\ Cascades(s)' /\ Removes(s)' /\ Rests(s)'
<1>1. pc' = [pc EXCEPT ![s] = "done"] /\ w' = [w EXCEPT ![s] = NoWrites] /\ saver' = [saver EXCEPT ![s] = NoEntity]
  BY DEF Finish, Goto
<1>2. ~AtWork(s)'
  BY <1>1 DEF InOrder, RowsTyped, AtWork
<1>3. w'[s] = NoWrites /\ saver'[s] = NoEntity /\ \A t \in Savers \ {s} : w'[t] = w[t] /\ saver'[t] = saver[t]
  BY <1>1 DEF InOrder, RowsTyped
<1>4. Rests(s)'
  BY <1>3 DEF Rests, NoEntity, NoWrites
<1>. QED BY <1>1, <1>2, <1>3, <1>4 DEF Cascades, Removes

LEMMA RollsBack ==
    ASSUME InOrder, SettlementInv, NEW s \in Savers, AtWork(s), Rollback(s)
    PROVE  SettlementInv'
BY Finished, SaverMoves DEF Rollback

\* A commit of a closing that was saved writes the rows that were seen, one of a removal
\* takes the closing and its rows, one of a pickup changes nothing.
LEMMA Commits ==
    ASSUME InOrder, SettlementInv, NEW s \in Savers, Commit(s)
    PROVE  SettlementInv'
<1>. DEFINE c == saver[s].c
<1>1. /\ pc[s] = "commit" /\ AtWork(s) /\ Finish(s)
      /\ alive' = IF saver[s].op = "remove" THEN alive \ {c}
                  ELSE IF saver[s].saved THEN alive \cup {c} ELSE alive
      /\ row' = [x \in Ids |-> Seen(s, x)]
      /\ income' = [b \in Settlers |-> IF b \in drops[s] THEN [income[b] EXCEPT !.state = "deleted"] ELSE income[b]]
  BY DEF Commit, AtWork
<1>2. \A b \in Settlers : income'[b].rows = income[b].rows
  <2>1. ASSUME NEW b \in Settlers PROVE income'[b].rows = income[b].rows
    <3>1. income'[b] = IF b \in drops[s] THEN [income[b] EXCEPT !.state = "deleted"] ELSE income[b]
      BY <1>1
    <3>. QED BY <3>1
  <2>. QED BY <2>1
<1>3. saver[s] \in Entity /\ saver[s].op \in AllOps /\ \A x \in Ids : row'[x] = Seen(s, x)
  BY <1>1 DEF InOrder, RowsTyped, Entity
<1>4. CASE saver[s].op \in Cascading
  <2>1. alive' = alive /\ Fits(Sees(s))
    BY <1>1, <1>4 DEF SettlementInv, Cascades, Cascading
  <2>2. \A x \in Ids : row'[x] = Sees(s)[x]
    BY <1>3 DEF Sees
  <2>3. Fits(row)'
    BY <1>2, <2>1, <2>2 DEF SettlementInv, Fits
  <2>4. ASSUME NEW t \in Savers \ {s} PROVE Cascades(t)' /\ Removes(t)' /\ Rests(t)'
    <3>1. ~AtWork(t) /\ pc'[t] = pc[t] /\ w'[t] = w[t] /\ saver'[t] = saver[t]
      BY <1>1, <1>4, Finished DEF SettlementInv, Cascades, InOrder, RowsTyped
    <3>2. ~AtWork(t)'
      BY <3>1 DEF AtWork
    <3>. QED BY <3>1, <3>2 DEF SettlementInv, Cascades, Removes, Rests
  <2>. QED BY <1>1, <1>2, <2>3, <2>4, Finished DEF SettlementInv, Apart
<1>5. CASE saver[s].op \in {"pick", "remove"}
  <2>1. Removes(s) /\ ~saver[s].saved /\ alive' = (IF saver[s].op = "remove" THEN alive \ {c} ELSE alive)
    BY <1>1, <1>5 DEF SettlementInv, Removes
  <2>2. \A x \in Ids : row'[x] = row[x] \/ (row'[x] = Absent /\ x[1] = c /\ saver[s].op = "remove")
    BY <1>1, <1>3, <1>5 DEF SettlementInv, Removes, Seen
  <2>3. \A x \in Ids : row'[x].live => row'[x] = row[x] /\ x[1] \in alive'
    <3>1. ASSUME NEW x \in Ids, row'[x].live PROVE row'[x] = row[x] /\ x[1] \in alive'
      <4>1. row'[x] = row[x] /\ x[1] \in alive
        BY <2>2, <3>1, RowFields DEF SettlementInv, Fits
      <4>2. saver[s].op = "remove" => x[1] # c
        BY <1>1, <1>3, <1>5, <2>1, <3>1 DEF Removes
      <4>. QED BY <2>1, <4>1, <4>2
    <3>. QED BY <3>1
  <2>4. \A x \in Ids : x[1] \in alive' => row'[x] = row[x] /\ x[1] \in alive
    BY <2>1, <2>2
  <2>5. Fits(row)'
    BY <1>2, <2>3, <2>4 DEF SettlementInv, Fits
  <2>6. ASSUME NEW t \in Savers \ {s} PROVE Cascades(t)' /\ Removes(t)' /\ Rests(t)'
    <3>1. pc'[t] = pc[t] /\ w'[t] = w[t] /\ saver'[t] = saver[t] /\ Removes(t) /\ Rests(t)
      BY <1>1, Finished DEF SettlementInv, InOrder, RowsTyped
    <3>2. AtWork(t)' = AtWork(t)
      BY <3>1 DEF AtWork
    <3>3. Cascades(t)'
      BY <1>1, <3>1, <3>2, NobodyCascades DEF Cascades
    <3>4. \A x \in Ids : Seen(t, x)'.live => Seen(t, x).live
      BY <2>3, <3>1 DEF Seen
    <3>5. Removes(t)'
      BY <3>1, <3>2, <3>4 DEF Removes
    <3>. QED BY <3>1, <3>2, <3>3, <3>5 DEF Rests
  <2>. QED BY <1>1, <1>2, <2>5, <2>6, Finished DEF SettlementInv, Apart
<1>. QED BY <1>3, <1>4, <1>5 DEF AllOps, Cascading

\* A settlement that changes no row.
LEMMA SettlerMoves ==
    ASSUME InOrder, SettlementInv, NEW b \in Settlers, NEW step, pc' = [pc EXCEPT ![b] = step],
           UNCHANGED <<alive, row, income, w, saver>>, AtWork(b) \/ NoneExclusive
    PROVE  SettlementInv'
<1>1. \A s \in Savers : pc'[s] = pc[s]
  BY SettlementAssumption DEF InOrder, RowsTyped
<1>2. Fits(row)' /\ Apart' /\ \A a \in Settlers : income'[a].rows \subseteq Ids
  BY DEF SettlementInv, Fits, Apart
<1>3. ASSUME NEW s \in Savers PROVE Cascades(s)' /\ Removes(s)' /\ Rests(s)'
  <2>1. AtWork(s)' = AtWork(s) /\ Removes(s) /\ Rests(s) /\ s # b
    BY <1>1, SettlementAssumption DEF AtWork, SettlementInv
  <2>2. Cascades(s)'
    BY <2>1, NobodyCascades DEF Cascades
  <2>. QED BY <1>1, <2>1, <2>2 DEF Removes, Rests, Seen
<1>. QED BY <1>2, <1>3 DEF SettlementInv

\* The rows that are marked were unsettled, so no other batch has them or their source.
LEMMA Marks ==
    ASSUME InOrder, SettlementInv, NEW b \in Settlers, SettleWrite(b)
    PROVE  SettlementInv'
<1>. DEFINE ids == settler[b].ids
<1>0. None \notin Settlers /\ b \notin Savers
  BY SettlementAssumption
<1>1. /\ pc[b] = "write" /\ AtWork(b) /\ ids \subseteq Ids /\ UNCHANGED <<alive, w, saver>>
      /\ pc' = [pc EXCEPT ![b] = "done"]
      /\ row' = [x \in Ids |-> IF x \in ids THEN [row[x] EXCEPT !.batch = b] ELSE row[x]]
      /\ income' = [income EXCEPT ![b] = [state |-> "live", closing |-> OnlyClosing(ids),
                                          amount |-> settler[b].total, rows |-> ids]]
  BY DEF SettleWrite, AtWork, Goto, InOrder
<1>2. \A x \in ids : row[x].live /\ row[x].batch = None
  BY <1>1 DEF InOrder, Locked
<1>3. row \in [Ids -> Row] /\ DOMAIN income = Settlers
  BY DEF InOrder, RowsTyped
<1>. HIDE DEF ids
<1>4. /\ \A x \in Ids : row'[x].live = row[x].live
      /\ \A x \in ids : row'[x].batch = b
      /\ \A x \in Ids \ ids : row'[x] = row[x]
  BY <1>1, <1>3, RowFields
<1>5. income'[b].rows = ids /\ \A a \in Settlers \ {b} : income'[a] = income[a]
  BY <1>1, <1>3
\* A row that another batch marked is not among them, nor is another row of its source.
<1>6. ASSUME NEW a \in Settlers \ {b}, NEW x \in income[a].rows, NEW y \in ids
      PROVE  x # y /\ <<x[1], x[2]>> # <<y[1], y[2]>>
  <2>1. x \in Ids /\ y \in Ids /\ row[y].live /\ row[y].batch = None /\ y[1] \in alive
    BY <1>1, <1>2 DEF SettlementInv, Fits
  <2>2. ASSUME x[1] = y[1], x[2] = y[2] PROVE FALSE
    <3>1. row[x].live /\ row[x].batch = a
      BY <2>1, <2>2 DEF SettlementInv, Fits
    <3>2. x = y
      BY <2>1, <2>2, <3>1 DEF SettlementInv, Fits
    <3>. QED BY <1>0, <2>1, <3>1, <3>2
  <2>. QED BY <2>2
<1>7. Apart'
  BY <1>5, <1>6 DEF SettlementInv, Apart
<1>8. Fits(row)'
  <2>1. ASSUME NEW a \in Settlers, NEW x \in income'[a].rows, x[1] \in alive PROVE row'[x].live /\ row'[x].batch = a
    <3>1. CASE a = b
      BY <1>1, <1>2, <1>4, <1>5, <2>1, <3>1
    <3>2. CASE a # b
      <4>1. x \in Ids \ ids /\ row[x].live /\ row[x].batch = a
        BY <1>5, <1>6, <2>1, <3>2 DEF SettlementInv, Fits
      <4>. QED BY <1>4, <4>1
    <3>. QED BY <3>1, <3>2
  <2>. QED BY <1>1, <1>4, <2>1 DEF SettlementInv, Fits
<1>9. ASSUME NEW s \in Savers PROVE Cascades(s)' /\ Removes(s)' /\ Rests(s)'
  <2>1. pc'[s] = pc[s] /\ Removes(s) /\ Rests(s)
    BY <1>0, <1>1 DEF SettlementInv, InOrder, RowsTyped
  <2>2. AtWork(s)' = AtWork(s)
    BY <2>1 DEF AtWork
  <2>3. Cascades(s)'
    BY <1>0, <1>1, <2>2, NobodyCascades DEF Cascades
  <2>4. \A x \in Ids : Seen(s, x)'.live = Seen(s, x).live
    BY <1>1, <1>4 DEF Seen
  <2>. QED BY <1>1, <2>1, <2>2, <2>3, <2>4 DEF Removes, Rests
<1>10. \A a \in Settlers : income'[a].rows \subseteq Ids
  BY <1>1, <1>5 DEF SettlementInv
<1>. QED BY <1>7, <1>8, <1>9, <1>10 DEF SettlementInv

\* A saver that begins sees the table as it is.
LEMMA SaverBegins ==
    ASSUME CascadesAlone, InOrder, SettlementInv, NEW s \in Savers, NEW op \in AllOps, NEW c \in Closings, Begin(s, op, c)
    PROVE  SettlementInv'
<1>. DEFINE step == IF op = "unlock" THEN "load" ELSE IF op = "resync" THEN "reload" ELSE "lock"
<1>1. /\ pc[s] = "idle" /\ op \in Ops /\ NoneExclusive /\ pc' = [pc EXCEPT ![s] = step]
      /\ op \in Exclusive => \A p \in Settlers \cup Savers : ~AtWork(p)
      /\ saver' = [saver EXCEPT ![s].op = op, ![s].c = c]
      /\ UNCHANGED <<alive, row, income, w, settler>>
  BY DEF Begin, Goto
<1>2. step \in {"load", "reload", "lock"}
  OBVIOUS
<1>. HIDE DEF step
<1>3. ~AtWork(s) /\ ~saver[s].saved /\ (\A x \in Ids : w[s][x] = None) /\ saver[s] \in Entity
  BY <1>1 DEF SettlementInv, Rests, AtWork, InOrder, RowsTyped
<1>4. /\ saver'[s].op = op /\ saver'[s].c = c /\ ~saver'[s].saved /\ pc'[s] = step
      /\ \A t \in Savers \ {s} : w'[t] = w[t] /\ saver'[t] = saver[t]
      /\ \A p \in (Settlers \cup Savers) \ {s} : pc'[p] = pc[p]
  BY <1>1, <1>3 DEF InOrder, RowsTyped, Entity
<1>5. AtWork(s)'
  BY <1>2, <1>4 DEF AtWork
<1>6. ASSUME op \in Cascading PROVE Cascades(s)'
  <2>1. op \in Exclusive
    BY <1>1, <1>6 DEF CascadesAlone
  <2>2. \A p \in (Settlers \cup Savers) \ {s} : ~AtWork(p)'
    BY <1>1, <1>4, <2>1 DEF AtWork
  <2>3. \A x \in Ids : Sees(s)'[x] = row[x]
    BY <1>1, <1>3 DEF Sees, Seen
  <2>4. Fits(Sees(s))'
    BY <1>1, <2>3 DEF SettlementInv, Fits
  <2>. QED BY <1>2, <1>4, <2>1, <2>2, <2>4 DEF Cascades
<1>7. Cascades(s)'
  BY <1>4, <1>6 DEF Cascades
<1>8. Removes(s)'
  <2>1. op \in {"pick", "remove"} => step = "lock"
    BY DEF step
  <2>. QED BY <1>1, <1>3, <1>4, <2>1 DEF Removes
<1>9. Rests(s)'
  BY <1>5 DEF Rests
<1>. QED BY <1>1, <1>4, <1>7, <1>8, <1>9, SaverMoves

\* What is saved as it was loaded, and loaded as it is, does not change.
LEMMA CascadeChangesNothing ==
    ASSUME InOrder, SettlementInv, NEW s \in Savers, CascadeSave(s), \A x \in saver[s].loaded : saver[s].copy[x] = Seen(s, x)
    PROVE  /\ \A t \in Savers : w'[t] = w[t]
           /\ \A t \in Savers \ {s} : saver'[t] = saver[t]
           /\ saver'[s].op = saver[s].op /\ saver'[s].c = saver[s].c
<1>. DEFINE differ == {x \in saver[s].loaded : Seen(s, x) # saver[s].copy[x]}
<1>1. differ = {}
  OBVIOUS
<1>2. WriteRows(s, Restrict(saver[s].copy, {})) /\ saver' = [saver EXCEPT ![s].saved = TRUE]
  BY <1>1 DEF CascadeSave
<1>3. DOMAIN Restrict(saver[s].copy, {}) = {}
  BY DEF Restrict
<1>4. w' = [w EXCEPT ![s] = [x \in Ids |-> w[s][x]]]
  BY <1>2, <1>3 DEF WriteRows
<1>5. w \in [Savers -> [Ids -> Row \cup {None}]] /\ saver[s] \in Entity /\ DOMAIN saver = Savers
  BY DEF InOrder, RowsTyped
<1>6. w[s] = [x \in Ids |-> w[s][x]]
  BY <1>5
<1>7. \A t \in Savers : w'[t] = w[t]
  BY <1>4, <1>5, <1>6
<1>. QED BY <1>2, <1>5, <1>7 DEF Entity

\* A replacement keeps the marked rows and makes no second row of their sources.
LEMMA Replaces ==
    ASSUME InOrder, SettlementInv, NEW s \in Savers, ReplaceRows(s), saver[s].op \in Cascading
    PROVE  Fits(Sees(s))'
<1>1. PICK dto \in UNION {[D -> Amounts] : D \in SUBSET Sources} : WriteRows(s, Replacement(s, dto))
  BY DEF ReplaceRows
<1>. DEFINE c      == saver[s].c
            kept   == saver[s].kept
            gone   == {x \in RowsSeen(s) \ kept : kept = {} \/ Seen(s, x).batch = None}
            moved  == {x \in kept : x[2] \in DOMAIN dto}
            create == {q \in DOMAIN dto : \A x \in moved : x[2] # q}
            fresh  == {x \in Ids : x[1] = c /\ x[2] \in create /\ x \in NextVersions(c, x[2])
                                   /\ \A y \in NextVersions(c, x[2]) : x[3] <= y[3]}
            new    == Replacement(s, dto)
<1>2. pc[s] = "replace" /\ AtWork(s) /\ UNCHANGED <<alive, row, income, saver>>
  BY DEF ReplaceRows, AtWork
<1>3. /\ c \in alive /\ Fits(Sees(s)) /\ kept = {x \in RowsSeen(s) : Seen(s, x).batch # None}
      /\ \A x \in kept : saver[s].copy[x] = Seen(s, x)
  BY <1>2 DEF SettlementInv, Cascades, InOrder
<1>4. \A x \in Ids : Sees(s)[x] = Seen(s, x) /\ Sees(s)'[x] = Seen(s, x)'
  BY DEF Sees
<1>5. kept \subseteq Ids /\ gone \subseteq Ids /\ fresh \subseteq Ids /\ (\A x \in kept : x[1] = c /\ Seen(s, x).live)
      /\ (\A x \in Ids : x[1] = c /\ Seen(s, x).live => x \in gone \cup kept)
      /\ \A x \in gone : x[1] = c
  BY <1>3 DEF RowsSeen
<1>6. DOMAIN new = gone \cup kept \cup fresh
      /\ \A x \in DOMAIN new : new[x] = IF x \in fresh THEN [live |-> TRUE, amount |-> dto[x[2]], batch |-> None]
                                        ELSE IF x \in moved THEN [saver[s].copy[x] EXCEPT !.amount = dto[x[2]]]
                                        ELSE IF x \in kept THEN saver[s].copy[x]
                                        ELSE Absent
  BY DEF Replacement
\* A new row is where none was.
<1>7. ASSUME NEW x \in fresh PROVE x \notin kept /\ ~Seen(s, x).live /\ x[1] = c /\ x[2] \in DOMAIN dto
  <2>1. x \in NextVersions(c, x[2]) /\ x \in Ids /\ x[1] = c /\ x[2] \in DOMAIN dto
    OBVIOUS
  <2>2. x[3] >= x[3]
    BY <2>1, SettlementAssumption DEF Ids
  <2>. HIDE DEF fresh, c, kept
  <2>3. ~row[x].live /\ w[s][x] = None
    BY <2>1, <2>2 DEF NextVersions
  <2>. QED BY <1>5, <2>1, <2>3 DEF Seen
\* Two new rows of a source are the same, and no source that keeps its row gets one.
<1>8. ASSUME NEW x \in fresh, NEW y \in fresh, x[2] = y[2] PROVE x = y
  <2>1. /\ x \in Ids /\ y \in Ids /\ x[1] = c /\ y[1] = c
        /\ x \in NextVersions(c, x[2]) /\ y \in NextVersions(c, y[2])
        /\ (\A z \in NextVersions(c, x[2]) : x[3] <= z[3]) /\ (\A z \in NextVersions(c, y[2]) : y[3] <= z[3])
    OBVIOUS
  <2>. HIDE DEF fresh, c
  <2>2. x[3] <= y[3] /\ y[3] <= x[3] /\ x[3] \in Int /\ y[3] \in Int
    BY <1>8, <2>1, SettlementAssumption DEF Ids
  <2>3. x[3] = y[3] /\ x = <<x[1], x[2], x[3]>> /\ y = <<y[1], y[2], y[3]>>
    BY <2>1, <2>2 DEF Ids
  <2>. QED BY <1>8, <2>1, <2>3
<1>9. ASSUME NEW x \in fresh, NEW y \in kept PROVE x[2] # y[2]
  <2>1. x[2] \in DOMAIN dto /\ \A z \in moved : x[2] # z[2]
    OBVIOUS
  <2>2. x[2] = y[2] => y \in moved
    BY <2>1
  <2>. HIDE DEF fresh, kept, moved
  <2>. QED BY <2>1, <2>2
<1>. HIDE DEF new, gone, create, fresh
<1>10. \A x \in DOMAIN new : new[x] \in Row
  <2>1. \A q \in DOMAIN dto : dto[q] \in Nat
    <3>1. \A q \in DOMAIN dto : dto[q] \in Amounts
      OBVIOUS
    <3>2. Amounts \subseteq Nat
      BY SettlementAssumption
    <3>. QED BY <3>1, <3>2
  <2>2. \A x \in kept : saver[s].copy[x] \in Row
    BY <1>3, <1>5 DEF InOrder, RowsTyped, Entity
  <2>. HIDE DEF kept
  <2>3. ASSUME NEW x \in DOMAIN new PROVE new[x] \in Row
    <3>1. CASE x \in fresh
      <4>1. new[x] = [live |-> TRUE, amount |-> dto[x[2]], batch |-> None] /\ dto[x[2]] \in Nat
        BY <1>6, <1>7, <2>1, <3>1
      <4>. QED BY <4>1 DEF Row
    <3>2. CASE x \in moved /\ x \notin fresh
      <4>. DEFINE r == saver[s].copy[x]
      <4>1. new[x] = [r EXCEPT !.amount = dto[x[2]]] /\ r \in Row /\ dto[x[2]] \in Nat
        BY <1>6, <2>1, <2>2, <3>2
      <4>. HIDE DEF r
      <4>. QED BY <4>1 DEF Row
    <3>3. CASE x \in kept /\ x \notin moved /\ x \notin fresh
      BY <1>6, <2>2, <3>3
    <3>4. CASE x \notin kept /\ x \notin fresh
      BY <1>6, <3>4, RowFields
    <3>. QED BY <3>1, <3>2, <3>3, <3>4
  <2>. QED BY <2>3
<1>11. DOMAIN new \subseteq Ids /\ \A x \in Ids : Seen(s, x)' = IF x \in DOMAIN new THEN new[x] ELSE Seen(s, x)
  <2>1. DOMAIN new \subseteq Ids
    BY <1>5, <1>6
  <2>2. w' = [w EXCEPT ![s] = [x \in Ids |-> IF x \in DOMAIN new THEN new[x] ELSE w[s][x]]] /\ w \in [Savers -> [Ids -> Row \cup {None}]]
    BY <1>1 DEF WriteRows, new, InOrder, RowsTyped
  <2>3. \A x \in Ids : w'[s][x] = IF x \in DOMAIN new THEN new[x] ELSE w[s][x]
    BY <2>2
  <2>4. \A x \in DOMAIN new : new[x] # None
    BY <1>10, SettlementAssumption DEF Row
  <2>. QED BY <1>2, <2>1, <2>3, <2>4 DEF Seen
<1>12. \A x \in kept : Seen(s, x)'.live /\ Seen(s, x)'.batch = Seen(s, x).batch
  <2>1. ASSUME NEW x \in kept PROVE Seen(s, x)'.live /\ Seen(s, x)'.batch = Seen(s, x).batch
    <3>. DEFINE r == saver[s].copy[x]
    <3>1. x \in Ids /\ Seen(s, x)' = (IF x \in moved THEN [r EXCEPT !.amount = dto[x[2]]] ELSE r) /\ r = Seen(s, x) /\ r.live
      <4>1. moved \subseteq kept
        OBVIOUS
      <4>. HIDE DEF moved, kept
      <4>2. x \in Ids /\ x \in DOMAIN new /\ x \notin fresh /\ r = Seen(s, x) /\ r.live
        BY <1>3, <1>5, <1>6, <1>7, <2>1
      <4>. HIDE DEF r
      <4>3. new[x] = IF x \in moved THEN [r EXCEPT !.amount = dto[x[2]]] ELSE r
        BY <1>6, <2>1, <4>2 DEF r
      <4>. QED BY <1>11, <4>2, <4>3
    <3>2. r \in Row
      BY <1>5, <2>1 DEF InOrder, RowsTyped, Entity
    <3>. HIDE DEF r, moved
    <3>3. [r EXCEPT !.amount = dto[x[2]]].live = r.live /\ [r EXCEPT !.amount = dto[x[2]]].batch = r.batch
      BY <3>2 DEF Row
    <3>. QED BY <3>1, <3>3
  <2>. QED BY <2>1
<1>. HIDE DEF kept, moved
<1>13. \A x \in Ids : x[1] = c /\ Seen(s, x)'.live => x \in kept \cup fresh
  <2>1. ASSUME NEW x \in Ids, x[1] = c, x \notin kept \cup fresh PROVE ~Seen(s, x)'.live
    <3>1. CASE x \in gone
      <4>1. x \in DOMAIN new /\ x \notin moved
        BY <1>6, <2>1, <3>1 DEF moved
      <4>. QED BY <1>6, <1>11, <2>1, <4>1, RowFields
    <3>2. CASE x \notin gone
      BY <1>5, <1>6, <1>11, <2>1, <3>2
    <3>. QED BY <3>1, <3>2
  <2>. QED BY <2>1
<1>14. \A x \in Ids : x[1] # c => Seen(s, x)' = Seen(s, x)
  BY <1>5, <1>6, <1>7, <1>11
<1>. HIDE DEF c
<1>15. ASSUME NEW x \in Ids, NEW y \in Ids, Seen(s, x)'.live, Seen(s, y)'.live, x[1] = y[1], x[2] = y[2] PROVE x = y
  <2>1. CASE x[1] # c
    BY <1>3, <1>4, <1>14, <1>15, <2>1 DEF Fits
  <2>2. CASE x \in kept /\ y \in kept
    <3>1. Seen(s, x).live /\ Seen(s, y).live
      BY <1>5, <2>2
    <3>. QED BY <1>3, <1>4, <1>15, <3>1 DEF Fits
  <2>. QED BY <1>8, <1>9, <1>13, <1>15, <2>1, <2>2
<1>16. ASSUME NEW b \in Settlers, NEW x \in income[b].rows, x[1] \in alive PROVE Seen(s, x)'.live /\ Seen(s, x)'.batch = b
  <2>1. x \in Ids /\ Seen(s, x).live /\ Seen(s, x).batch = b /\ b # None
    BY <1>3, <1>4, <1>16, SettlementAssumption DEF SettlementInv, Fits
  <2>2. CASE x[1] = c
    <3>1. x \in kept
      BY <1>3, <2>1, <2>2 DEF RowsSeen, c
    <3>. QED BY <1>12, <2>1, <3>1
  <2>3. CASE x[1] # c
    BY <1>14, <2>1, <2>3
  <2>. QED BY <2>2, <2>3
<1>17. \A x \in Ids : Seen(s, x)'.live => x[1] \in alive
  BY <1>3, <1>4, <1>14 DEF Fits
<1>18. \A b \in Settlers : income[b].rows \subseteq Ids
  BY DEF SettlementInv
<1>. QED BY <1>2, <1>4, <1>15, <1>16, <1>17, <1>18 DEF Fits

\* A step of a save keeps the invariant.
LEMMA SaverKeepsInv ==
    ASSUME CascadesAlone, InOrder, SettlementInv, NEW s \in Savers, SaverStep(s)
    PROVE  SettlementInv'
<1>0. saver[s] \in Entity /\ saver[s].op \in AllOps /\ DOMAIN saver = Savers /\ Cascades(s) /\ Removes(s) /\ Rests(s)
  BY DEF InOrder, RowsTyped, Entity, SettlementInv
\* A step of who is at work that leaves the table as it is, and what was written.
<1>1. ASSUME NEW step, step \notin {"idle", "done"}, pc' = [pc EXCEPT ![s] = step], UNCHANGED <<alive, row, income>>, AtWork(s),
             \A t \in Savers : w'[t] = w[t], \A t \in Savers \ {s} : saver'[t] = saver[t],
             saver'[s].op = saver[s].op, saver'[s].c = saver[s].c,
             saver[s].op \in Cascading =>
                /\ step # "removeAll" /\ (step \notin {"lock", "load", "reload"} => saver[s].c \in alive)
                /\ step \in {"save", "replace", "regenerate", "resave"} =>
                      \A x \in saver'[s].loaded : saver'[s].copy[x] = Seen(s, x)
                /\ step = "replace" => saver'[s].kept = {x \in RowsSeen(s) : Seen(s, x).batch # None},
             saver[s].op \in {"pick", "remove"} =>
                /\ ~saver'[s].saved /\ step \in {"regenerate", "removeAll", "commit"} /\ pc[s] # "commit"
                /\ step = "regenerate" => saver[s].op = "pick"
                /\ step = "removeAll" => saver[s].op = "remove"
                /\ step = "commit" => saver[s].op = "pick"
      PROVE  SettlementInv'
  <2>1. pc'[s] = step /\ AtWork(s)' /\ \A p \in (Settlers \cup Savers) \ {s} : pc'[p] = pc[p]
    BY <1>1 DEF InOrder, RowsTyped, AtWork
  <2>2. \A x \in Ids : Seen(s, x)' = Seen(s, x) /\ Sees(s)'[x] = Sees(s)[x]
    BY <1>1 DEF Seen, Sees
  <2>3. Cascades(s)'
    <3>. SUFFICES ASSUME saver[s].op \in Cascading PROVE Cascades(s)'
      BY <1>1 DEF Cascades
    <3>1. Fits(Sees(s))'
      BY <1>0, <1>1, <2>2 DEF Cascades, Fits, SettlementInv
    <3>2. saver[s].op \in Exclusive /\ \A p \in (Settlers \cup Savers) \ {s} : ~AtWork(p)'
      BY <1>0, <1>1, <2>1 DEF Cascades, AtWork
    <3>3. RowsSeen(s)' = {x \in Ids : x[1] = saver[s].c /\ Seen(s, x).live}
      BY <1>1, <2>2 DEF RowsSeen
    <3>4. step = "replace" => saver'[s].kept = {x \in RowsSeen(s)' : Seen(s, x)'.batch # None}
      BY <1>1, <2>2, <3>3 DEF RowsSeen
    <3>5. step \in {"save", "replace", "regenerate", "resave"} => \A x \in saver'[s].loaded : saver'[s].copy[x] = Seen(s, x)'
      BY <1>1 DEF Seen
    <3>. QED BY <1>1, <2>1, <3>1, <3>2, <3>4, <3>5 DEF Cascades
  <2>4. Removes(s)'
    BY <1>0, <1>1, <2>1 DEF Removes
  <2>5. Rests(s)'
    BY <2>1 DEF Rests
  <2>. QED BY <1>1, <2>3, <2>4, <2>5, SaverMoves
<1>2. ASSUME Rollback(s), AtWork(s) PROVE SettlementInv'
  BY <1>2, RollsBack
<1>3. ASSUME LockClosing(s), ~Rollback(s) PROVE SettlementInv'
  <2>. DEFINE step == CASE saver[s].op = "update" -> "load"
                        [] saver[s].op = "pick"   -> "regenerate"
                        [] saver[s].op = "remove" -> "removeAll"
  <2>1. pc[s] = "lock" /\ AtWork(s) /\ pc' = [pc EXCEPT ![s] = step] /\ UNCHANGED <<alive, row, income, w, saver>>
    BY <1>3 DEF LockClosing, Goto, AtWork
  <2>2. /\ saver[s].op \in Cascading => step = "load"
        /\ saver[s].op = "pick" => step = "regenerate"
        /\ saver[s].op = "remove" => step = "removeAll"
    BY <2>1 DEF InOrder, Cascading
  <2>3. step \in {"load", "regenerate", "removeAll"}
    BY <1>0, <2>2 DEF AllOps, Cascading
  <2>. HIDE DEF step
  <2>4. saver[s].op \in {"pick", "remove"} => ~saver[s].saved
    BY <1>0, <2>1 DEF Removes
  <2>. QED BY <1>1, <2>1, <2>2, <2>3, <2>4 DEF Cascading
\* From here to the commit of a save, everybody else is at rest.
<1>4. ASSUME pc[s] \in {"load", "reload", "save", "readRows", "replace", "resave"}
      PROVE  AtWork(s) /\ saver[s].op \in Cascading
  BY <1>0, <1>4 DEF AtWork, Removes, AllOps, Cascading
<1>5. ASSUME Load(s), ~Rollback(s) PROVE SettlementInv'
  <2>. DEFINE step == IF pc[s] = "load" THEN "save" ELSE "regenerate"
  <2>1. /\ pc[s] \in {"load", "reload"} /\ pc' = [pc EXCEPT ![s] = step] /\ UNCHANGED <<alive, row, income, w>>
        /\ saver[s].c \in alive
        /\ saver' = [saver EXCEPT ![s].loaded = RowsSeen(s), ![s].copy = [x \in Ids |-> Seen(s, x)]]
    BY <1>5 DEF Load, Goto
  <2>2. /\ \A t \in Savers \ {s} : saver'[t] = saver[t]
        /\ saver'[s].op = saver[s].op /\ saver'[s].c = saver[s].c
        /\ saver'[s].loaded = RowsSeen(s) /\ saver'[s].copy = [x \in Ids |-> Seen(s, x)]
    BY <1>0, <2>1 DEF Entity
  <2>3. \A x \in saver'[s].loaded : saver'[s].copy[x] = Seen(s, x)
    BY <2>2 DEF RowsSeen
  <2>4. step \in {"save", "regenerate"}
    OBVIOUS
  <2>. HIDE DEF step
  <2>. QED BY <1>1, <1>4, <2>1, <2>2, <2>3, <2>4 DEF Cascading
<1>6. ASSUME SaveClosing(s), ~Rollback(s) PROVE SettlementInv'
  <2>1. pc[s] = "save" /\ CascadeSave(s) /\ UNCHANGED <<alive, row, income>>
    BY <1>6 DEF SaveClosing, CascadeFails
  <2>2. PICK step \in {"commit", "readRows", "reload"} : pc' = [pc EXCEPT ![s] = step]
    BY <1>6 DEF SaveClosing, CascadeFails, Goto
  <2>3. saver[s].c \in alive /\ \A x \in saver[s].loaded : saver[s].copy[x] = Seen(s, x)
    BY <1>0, <1>4, <2>1 DEF Cascades
  <2>. QED BY <1>1, <1>4, <2>1, <2>2, <2>3, CascadeChangesNothing DEF Cascading
<1>7. ASSUME ReadRows(s) PROVE SettlementInv'
  <2>. DEFINE copy == [x \in Ids |-> Seen(s, x)]
              kept == {x \in RowsSeen(s) : Seen(s, x).batch # None}
              e    == [saver[s] EXCEPT !.loaded = RowsSeen(s), !.copy = copy, !.kept = kept]
  <2>1. /\ pc[s] = "readRows" /\ pc' = [pc EXCEPT ![s] = "replace"] /\ UNCHANGED <<alive, row, income, w>>
        /\ saver' = [saver EXCEPT ![s] = e]
    <3>1. saver' = [saver EXCEPT ![s] = e]
      BY <1>7 DEF ReadRows
    <3>. QED BY <1>7, <3>1 DEF ReadRows, Goto
  <2>. HIDE DEF copy, kept
  <2>2. e.op = saver[s].op /\ e.c = saver[s].c /\ e.loaded = RowsSeen(s) /\ e.copy = copy /\ e.kept = kept
    BY <1>0 DEF Entity
  <2>. HIDE DEF e
  <2>3. /\ \A t \in Savers \ {s} : saver'[t] = saver[t]
        /\ saver'[s].op = saver[s].op /\ saver'[s].c = saver[s].c
        /\ saver'[s].loaded = RowsSeen(s) /\ saver'[s].copy = [x \in Ids |-> Seen(s, x)]
        /\ saver'[s].kept = {x \in RowsSeen(s) : Seen(s, x).batch # None}
    BY <1>0, <2>1, <2>2 DEF copy, kept
  <2>4. saver[s].c \in alive /\ \A x \in saver'[s].loaded : saver'[s].copy[x] = Seen(s, x)
    BY <1>0, <1>4, <2>1, <2>3 DEF Cascades, RowsSeen
  <2>. QED BY <1>1, <1>4, <2>1, <2>3, <2>4 DEF Cascading
<1>8. ASSUME ReplaceRows(s) PROVE SettlementInv'
  <2>1. pc[s] = "replace" /\ pc' = [pc EXCEPT ![s] = "reload"] /\ UNCHANGED <<alive, row, income, saver>>
    BY <1>8 DEF ReplaceRows, Goto
  <2>2. AtWork(s) /\ saver[s].op \in Cascading /\ Fits(Sees(s))'
    BY <1>4, <1>8, <2>1, Replaces
  <2>3. pc'[s] = "reload" /\ AtWork(s)' /\ \A p \in (Settlers \cup Savers) \ {s} : pc'[p] = pc[p]
    BY <2>1 DEF InOrder, RowsTyped, AtWork
  <2>4. Cascades(s)' /\ Removes(s)' /\ Rests(s)'
    BY <1>0, <2>1, <2>2, <2>3 DEF Cascades, Removes, Rests, AtWork, Cascading
  <2>5. \A t \in Savers \ {s} : w'[t] = w[t]
    <3>1. PICK dto : WriteRows(s, Replacement(s, dto))
      BY <1>8 DEF ReplaceRows
    <3>. QED BY <3>1 DEF WriteRows, InOrder, RowsTyped
  <2>. QED BY <2>1, <2>2, <2>4, <2>5, SaverMoves
<1>9. ASSUME Regenerate(s) PROVE SettlementInv'
  <2>1. /\ pc[s] = "regenerate" /\ pc' = [pc EXCEPT ![s] = IF saver[s].op = "pick" THEN "commit" ELSE "resave"]
        /\ UNCHANGED <<alive, row, income, w, saver>> /\ AtWork(s)
    BY <1>9 DEF Regenerate, Goto, AtWork
  <2>2. saver[s].op # "remove"
    BY <1>0, <2>1 DEF Removes
  <2>3. CASE saver[s].op = "pick"
    <3>1. pc' = [pc EXCEPT ![s] = "commit"] /\ ~saver[s].saved
      BY <1>0, <2>1, <2>3 DEF Removes
    <3>. QED BY <1>1, <2>1, <2>3, <3>1 DEF Cascading
  <2>4. CASE saver[s].op \in Cascading
    <3>1. pc' = [pc EXCEPT ![s] = "resave"] /\ saver[s].c \in alive /\ \A x \in saver[s].loaded : saver[s].copy[x] = Seen(s, x)
      BY <1>0, <2>1, <2>4 DEF Cascades, Cascading
    <3>. QED BY <1>1, <2>1, <2>4, <3>1 DEF Cascading
  <2>. QED BY <1>0, <2>2, <2>3, <2>4 DEF AllOps, Cascading
<1>10. ASSUME SaveAgain(s), ~Rollback(s) PROVE SettlementInv'
  <2>1. pc[s] = "resave" /\ pc' = [pc EXCEPT ![s] = "commit"] /\ UNCHANGED <<alive, row, income>>
    BY <1>10 DEF SaveAgain, CascadeFails, Goto
  <2>2. saver[s].c \in alive /\ \A x \in saver[s].loaded : saver[s].copy[x] = Seen(s, x)
    BY <1>0, <1>4, <2>1 DEF Cascades
  <2>3. CascadeSave(s) \/ UNCHANGED <<w, saver>>
    BY <1>10 DEF SaveAgain, CascadeFails
  <2>4. /\ \A t \in Savers : w'[t] = w[t]
        /\ \A t \in Savers \ {s} : saver'[t] = saver[t]
        /\ saver'[s].op = saver[s].op /\ saver'[s].c = saver[s].c
    BY <2>2, <2>3, CascadeChangesNothing
  <2>. QED BY <1>1, <1>4, <2>1, <2>2, <2>4 DEF Cascading
<1>11. ASSUME RemoveAll(s) PROVE SettlementInv'
  <2>. DEFINE new == [x \in RowsSeen(s) |-> Absent]
  <2>1. pc[s] = "removeAll" /\ AtWork(s) /\ pc' = [pc EXCEPT ![s] = "commit"] /\ UNCHANGED <<alive, row, income, saver>>
    BY <1>11 DEF RemoveAll, Goto, AtWork
  <2>2. w' = [w EXCEPT ![s] = [x \in Ids |-> IF x \in RowsSeen(s) THEN Absent ELSE w[s][x]]]
    <3>1. WriteRows(s, new) /\ DOMAIN new = RowsSeen(s) /\ \A x \in RowsSeen(s) : new[x] = Absent
      BY <1>11 DEF RemoveAll
    <3>. HIDE DEF new
    <3>. QED BY <3>1 DEF WriteRows
  <2>3. /\ \A x \in Ids : w'[s][x] = IF x \in RowsSeen(s) THEN Absent ELSE w[s][x]
        /\ \A t \in Savers \ {s} : w'[t] = w[t]
    BY <2>2 DEF InOrder, RowsTyped
  <2>4. saver[s].op = "remove" /\ ~saver[s].saved /\ \A x \in Ids : w[s][x] = None
    BY <1>0, <2>1 DEF Removes, Cascades, AllOps, Cascading
  <2>5. Absent # None
    BY RowFields, SettlementAssumption DEF Row
  <2>6. \A x \in Ids : x[1] = saver[s].c => ~Seen(s, x)'.live
    BY <2>1, <2>3, <2>4, <2>5, RowFields DEF Seen, RowsSeen
  <2>7. pc'[s] = "commit" /\ AtWork(s)'
    BY <2>1 DEF InOrder, RowsTyped, AtWork
  <2>8. Removes(s)'
    BY <2>1, <2>3, <2>4, <2>6, <2>7 DEF Removes, RowsSeen
  <2>9. Cascades(s)' /\ Rests(s)'
    BY <2>1, <2>4, <2>7 DEF Cascades, Rests, Cascading
  <2>. QED BY <2>1, <2>3, <2>8, <2>9, SaverMoves
<1>12. ASSUME SaverDies(s) PROVE SettlementInv'
  BY <1>2, <1>12 DEF SaverDies, AtWork
<1>13. ASSUME LockClosing(s) \/ Load(s) \/ SaveClosing(s) \/ SaveAgain(s) PROVE AtWork(s)
  BY <1>13 DEF LockClosing, Load, SaveClosing, SaveAgain, AtWork
<1>. QED BY <1>2, <1>3, <1>5, <1>6, <1>7, <1>8, <1>9, <1>10, <1>11, <1>12, <1>13, SaverBegins, Commits DEF SaverStep

\* A step of a settlement keeps it.
LEMMA SettlerKeepsInv ==
    ASSUME InOrder, SettlementInv, NEW b \in Settlers, SettlerStep(b)
    PROVE  SettlementInv'
<1>1. ASSUME NEW ids \in SUBSET Ids, SettleRead(b, ids) PROVE SettlementInv'
  BY <1>1, SettlerMoves DEF SettleRead, Goto
<1>2. ASSUME SettleLock(b) PROVE SettlementInv'
  <2>1. AtWork(b) /\ UNCHANGED <<alive, row, income, w, saver>>
    BY <1>2 DEF SettleLock, AtWork
  <2>2. PICK step \in {"write", "done"} : pc' = [pc EXCEPT ![b] = step]
    BY <1>2 DEF SettleLock, Goto
  <2>. QED BY <2>1, <2>2, SettlerMoves
<1>3. ASSUME SettleDies(b) PROVE SettlementInv'
  BY <1>3, SettlerMoves DEF SettleDies, Goto, AtWork
<1>. QED BY <1>1, <1>2, <1>3, Marks DEF SettlerStep

\* As long as who saves a closing with its rows is alone, a row that a batch marked keeps
\* its mark while its closing exists, and its source gets no second row.
THEOREM SettlementsStayInOrder ==
    ASSUME CascadesAlone PROVE Spec => []SettlementInv
<1>1. InOrder /\ SettlementInv /\ [Next]_vars => SettlementInv'
  <2>1. InOrder /\ SettlementInv /\ UNCHANGED vars => SettlementInv'
    <3>. SUFFICES ASSUME SettlementInv, UNCHANGED vars PROVE SettlementInv'
      OBVIOUS
    <3>1. Fits(row)' /\ Apart' /\ \A b \in Settlers : income'[b].rows \subseteq Ids
      BY DEF SettlementInv, Fits, Apart, vars
    <3>2. ASSUME NEW s \in Savers PROVE Cascades(s)' /\ Removes(s)' /\ Rests(s)'
      <4>1. \A p \in Settlers \cup Savers : AtWork(p)' = AtWork(p)
        BY DEF AtWork, vars
      <4>2. \A x \in Ids : Seen(s, x)' = Seen(s, x) /\ Sees(s)'[x] = Sees(s)[x]
        BY DEF Seen, Sees, vars
      <4>3. Fits(Sees(s)) => Fits(Sees(s))'
        BY <4>2 DEF Fits, SettlementInv, vars
      <4>4. RowsSeen(s)' = RowsSeen(s)
        BY DEF RowsSeen, Seen, vars
      <4>5. Cascades(s)'
        <5>1. Cascades(s) /\ UNCHANGED <<pc, saver, alive>>
          BY DEF SettlementInv, vars
        <5>. QED BY <4>1, <4>3, <5>1 DEF Cascades, RowsSeen, Seen, vars
      <4>6. Removes(s)' /\ Rests(s)'
        BY <4>1, <4>2 DEF SettlementInv, Removes, Rests, vars
      <4>. QED BY <4>5, <4>6
    <3>. QED BY <3>1, <3>2 DEF SettlementInv
  <2>. QED BY <2>1, SettlerKeepsInv, SaverKeepsInv, CascadesAlone DEF Next
<1>. QED BY <1>1, SettlementInvInit, IncomesStaySound, SoundIsInOrder, PTL DEF Spec

\* "dos rendiciones simultaneas no duplican el ingreso": for any closings, sources and
\* number of people who settle, pick up and remove at the same time, no source of a closing
\* is in two incomes, as long as update, unlock and resync of closings overlap with nothing.
THEOREM SettledOnlyOnce ==
    ASSUME CascadesAlone PROVE Spec => []SettledOnce
<1>1. SettlementInv => SettledOnce
  BY DEF SettlementInv, Apart, SettledOnce
<1>. QED BY <1>1, SettlementsStayInOrder, PTL
-----------------------------------------------------------------------------
(* The tips of a day                                                          *)

\* A row of tip_allocations, what an edition may bring, and what a request remembers.
ShareRow == [active : BOOLEAN, amount : Nat, delivered : BOOLEAN]
Given    == UNION {[S -> Nat] : S \in SUBSET Employees}
Edition  == [op : {"none", "upsert", "closing", "deliver"}, step : {"idle", "lock", "write", "insert", "deliver"},
             total : Nat, given : {Unset} \cup Employees \cup Given, seen : SUBSET Employees, row : ShareRow]

TipsTypes ==
    /\ day \in [exists : BOOLEAN, locked : Requests \cup {Unset}, total : Nat, closing : Nat]
    /\ share \in [Employees -> ShareRow]
    /\ editing \in [Requests -> Edition]
    /\ shared \in BOOLEAN

\* What an edition is about to write adds up, and what a delivery is about to save is
\* the row as it stands, for nobody else does anything meanwhile.
EditionsAddUp ==
    \A p \in Requests : editing[p].step \in {"lock", "write", "insert"} =>
        /\ editing[p].op # "deliver"
        /\ editing[p].given = Unset \/ (editing[p].given \in Given /\ Makes(editing[p].given, editing[p].total))
DeliveriesAreAlone ==
    \A p \in Requests : editing[p].step = "deliver" =>
        /\ editing[p].op = "deliver" /\ editing[p].given \in Employees
        /\ editing[p].row = share[editing[p].given]
        /\ \A q \in Requests \ {p} : editing[q] = Idle

TipsInv == TipsTypes /\ EditionsAddUp /\ DeliveriesAreAlone /\ SharesMakeTotal

\* setDelivered saves a share as it was loaded: an edition in between would be undone.
DeliverAlone == "deliver" \notin Together

AmountsIn(table) == [e \in Employees |-> table[e].amount]
ActiveIn(table) == {e \in Employees : table[e].active}

\* The property only looks at the amounts, at who has a share, and at the total.
LEMMA SameShares ==
    ASSUME SharesMakeTotal, AmountsIn(share') = AmountsIn(share), ActiveIn(share') = ActiveIn(share),
           day'.total = day.total, shared' = shared
    PROVE  SharesMakeTotal'
BY DEF SharesMakeTotal, AmountsIn, ActiveIn, Active

LEMMA TipsStart == DayInit => TipsInv
<1>1. SUFFICES ASSUME DayInit PROVE TipsInv
  OBVIOUS
<1>2. TipsTypes
  BY <1>1 DEF DayInit, TipsTypes, ShareRow, Edition, NoShare, Idle
<1>3. \A p \in Requests : editing[p].step = "idle"
  BY <1>1 DEF DayInit, Idle
<1>. QED BY <1>1, <1>2, <1>3 DEF DayInit, TipsInv, EditionsAddUp, DeliveriesAreAlone, SharesMakeTotal

\* Somebody who asks for an edition finds no delivery under way.
LEMMA NobodyDelivers ==
    ASSUME DeliverAlone, TipsInv, NEW p \in Requests, NEW op, MayAsk(p, op), op # "deliver"
    PROVE  \A q \in Requests : editing[q].step # "deliver"
BY DEF DeliverAlone, TipsInv, DeliveriesAreAlone, MayAsk, Idle

\* A request that asks for an edition that adds up.
LEMMA EditionBegins ==
    ASSUME DeliverAlone, TipsInv, NEW p \in Requests, NEW op \in {"upsert", "closing"}, NEW total \in Nat,
           NEW given \in {Unset} \cup Given, given # Unset => Makes(given, total), MayAsk(p, op),
           Become(p, [Idle EXCEPT !.op = op, !.step = "lock", !.total = total, !.given = given, !.seen = Active]),
           day' \in [exists : BOOLEAN, locked : Requests \cup {Unset}, total : Nat, closing : Nat],
           day'.total = day.total, UNCHANGED <<share, shared>>
    PROVE  TipsInv'
<1>. DEFINE r == [Idle EXCEPT !.op = op, !.step = "lock", !.total = total, !.given = given, !.seen = Active]
<1>1. r \in Edition /\ r.step = "lock" /\ r.op = op /\ r.given = given /\ r.total = total
  BY DEF Edition, Idle, NoShare, ShareRow, Active
<1>. HIDE DEF r
<1>2. /\ editing' = [editing EXCEPT ![p] = r]
      /\ editing \in [Requests -> Edition] /\ editing' \in [Requests -> Edition]
  BY <1>1 DEF Become, r, TipsInv, TipsTypes
<1>3. TipsTypes'
  BY <1>2 DEF TipsInv, TipsTypes
<1>4. EditionsAddUp'
  BY <1>1, <1>2 DEF TipsInv, EditionsAddUp, Makes
<1>5. DeliveriesAreAlone'
  BY <1>1, <1>2, NobodyDelivers DEF DeliveriesAreAlone
<1>6. SharesMakeTotal'
  BY SameShares DEF TipsInv
<1>. QED BY <1>3, <1>4, <1>5, <1>6 DEF TipsInv

LEMMA AskUpsertKeeps ==
    ASSUME DeliverAlone, TipsInv, NEW p \in Requests, NEW total \in Totals, NEW given \in {Unset} \cup Given,
           AskUpsert(p, total, given)
    PROVE  TipsInv'
<1>1. total \in Nat
  BY TipsAssumption
<1>2. day' = day /\ day \in [exists : BOOLEAN, locked : Requests \cup {Unset}, total : Nat, closing : Nat]
  BY DEF AskUpsert, TipsInv, TipsTypes
<1>. QED BY <1>1, <1>2, EditionBegins DEF AskUpsert

\* What a closing scales is in proportion, a number of cents.
LEMMA RoundedIsNatural == \A a, b \in Nat : b # 0 => Rounded(a, b) \in Nat
<1>1. SUFFICES ASSUME NEW a \in Nat, NEW b \in Nat, b # 0 PROVE Rounded(a, b) \in Nat
  OBVIOUS
<1>2. 2 * a \in Nat
  OBVIOUS
<1>3. \A n \in Nat, m \in Nat : m > 0 => n \div m \in Nat
  OBVIOUS
<1>4. 2 * a + b \in Nat /\ 2 * b \in Nat /\ 2 * b > 0
  BY <1>1, <1>2
<1>. QED BY <1>3, <1>4 DEF Rounded

LEMMA CloseWithTipsKeeps ==
    ASSUME DeliverAlone, TipsInv, NEW p \in Requests, NEW tips \in Totals, CloseWithTips(p, tips)
    PROVE  TipsInv'
<1>. DEFINE scaled(x) == IF day.total = 0 THEN x ELSE Rounded(x * tips, day.total)
            total     == IF day.exists THEN scaled(day.total) ELSE tips
            given     == IF day.exists THEN [e \in Active |-> scaled(share[e].amount)] ELSE <<>>
<1>1. tips \in Nat /\ day.total \in Nat /\ \A e \in Employees : share[e].amount \in Nat
  BY TipsAssumption DEF TipsInv, TipsTypes, ShareRow
<1>2. \A x \in Nat : scaled(x) \in Nat
  <2>1. SUFFICES ASSUME NEW x \in Nat PROVE scaled(x) \in Nat
    OBVIOUS
  <2>2. x * tips \in Nat
    BY <1>1
  <2>. QED BY <1>1, <2>2, RoundedIsNatural
<1>. HIDE DEF scaled
<1>3. total \in Nat
  BY <1>1, <1>2
<1>4. given \in Given
  <2>1. Active \in SUBSET Employees /\ \A e \in Active : scaled(share[e].amount) \in Nat
    BY <1>1, <1>2 DEF Active
  <2>2. <<>> \in [{} -> Nat] /\ {} \in SUBSET Employees
    OBVIOUS
  <2>3. CASE day.exists
    <3>1. given \in [Active -> Nat]
      BY <2>1, <2>3
    <3>. QED BY <2>1, <3>1 DEF Given
  <2>4. CASE ~day.exists
    <3>1. given = <<>>
      BY <2>4
    <3>. QED BY <2>2, <3>1 DEF Given
  <2>. QED BY <2>3, <2>4
<1>. USE DEF scaled
<1>. HIDE DEF given, total
<1>5. /\ MayAsk(p, "closing") /\ day' = [day EXCEPT !.closing = tips]
      /\ IF Makes(given, total)
           THEN Become(p, [Idle EXCEPT !.op = "closing", !.step = "lock", !.total = total, !.given = given, !.seen = Active])
           ELSE UNCHANGED editing
      /\ UNCHANGED <<share, shared>>
  BY DEF CloseWithTips, given, total, scaled
<1>. HIDE DEF scaled
<1>6. /\ day' \in [exists : BOOLEAN, locked : Requests \cup {Unset}, total : Nat, closing : Nat]
      /\ day'.total = day.total
  BY <1>1, <1>5 DEF TipsInv, TipsTypes
<1>7. CASE Makes(given, total)
  BY <1>3, <1>4, <1>5, <1>6, <1>7, EditionBegins
<1>8. CASE ~Makes(given, total)
  <2>1. UNCHANGED <<editing, share, shared>>
    BY <1>5, <1>8
  <2>2. SharesMakeTotal'
    BY <1>6, <2>1, SameShares DEF TipsInv
  <2>3. TipsTypes'
    BY <1>6, <2>1 DEF TipsInv, TipsTypes
  <2>4. EditionsAddUp' /\ DeliveriesAreAlone'
    BY <2>1 DEF TipsInv, EditionsAddUp, DeliveriesAreAlone, Makes
  <2>. QED BY <2>2, <2>3, <2>4 DEF TipsInv
<1>. QED BY <1>7, <1>8

\* FOR UPDATE, and a transaction that ends without a word: the lock comes or goes.
LEMMA LockKeeps ==
    ASSUME DeliverAlone, TipsInv, NEW p \in Requests, LockDay(p) \/ RollBackEdition(p)
    PROVE  TipsInv'
<1>1. /\ editing[p].step \in {"lock", "write", "insert"}
      /\ day' \in [exists : BOOLEAN, locked : Requests \cup {Unset}, total : Nat, closing : Nat]
      /\ day'.total = day.total /\ UNCHANGED <<share, shared>>
  BY DEF LockDay, RollBackEdition, TipsInv, TipsTypes
<1>2. PICK r \in Edition :
         /\ editing' = [editing EXCEPT ![p] = r]
         /\ r = Idle \/ (r.step \in {"write", "insert"} /\ r.op = editing[p].op /\ r.given = editing[p].given
                         /\ r.total = editing[p].total)
  <2>1. CASE LockDay(p)
    <3>. DEFINE r == [editing[p] EXCEPT !.step = IF day.exists THEN "write" ELSE "insert"]
    <3>1. r \in Edition /\ r.step \in {"write", "insert"} /\ r.op = editing[p].op /\ r.given = editing[p].given
          /\ r.total = editing[p].total
      BY DEF TipsInv, TipsTypes, Edition
    <3>2. editing' = [editing EXCEPT ![p] = r]
      BY <2>1 DEF LockDay, Become
    <3>. QED BY <3>1, <3>2
  <2>2. CASE RollBackEdition(p)
    BY <2>2 DEF RollBackEdition, Become, Edition, Idle, NoShare, ShareRow
  <2>. QED BY <2>1, <2>2
<1>3. editing \in [Requests -> Edition] /\ editing' \in [Requests -> Edition]
  BY <1>2 DEF TipsInv, TipsTypes
<1>4. r.step # "deliver" /\ Idle.step = "idle"
  BY <1>2 DEF Idle
<1>5. TipsTypes'
  BY <1>1, <1>3 DEF TipsInv, TipsTypes
<1>6. EditionsAddUp'
  BY <1>1, <1>2, <1>3, <1>4 DEF TipsInv, EditionsAddUp, Makes
<1>7. \A q \in Requests : editing[q].step # "deliver"
  BY <1>1, <1>4 DEF TipsInv, DeliveriesAreAlone
<1>8. DeliveriesAreAlone'
  BY <1>2, <1>3, <1>4, <1>7 DEF DeliveriesAreAlone
<1>9. SharesMakeTotal'
  BY <1>1, SameShares DEF TipsInv
<1>. QED BY <1>5, <1>6, <1>8, <1>9 DEF TipsInv

\* What is written adds up: those named have the amounts they were given, and no other
\* employee has a share any more.
LEMMA WrittenAddsUp ==
    ASSUME TipsTypes, NEW p \in Requests, editing[p].given \in Given, Makes(editing[p].given, editing[p].total),
           editing[p].given # Unset, share' = Written(p), day'.total = editing[p].total
    PROVE  share' \in [Employees -> ShareRow] /\ SharesMakeTotal'
<1>. DEFINE given == editing[p].given
            D     == DOMAIN given
<1>1. D \subseteq Employees /\ \A e \in D : given[e] \in Nat
  BY DEF Given
<1>2. share' = [e \in Employees |->
            CASE e \in D -> [share[e] EXCEPT !.active = TRUE, !.amount = given[e]]
              [] e \in Active \ D -> [share[e] EXCEPT !.active = FALSE]
              [] OTHER -> share[e]]
  BY DEF Written, SharesSeen
<1>3. ASSUME NEW e \in Employees
      PROVE  share'[e] \in ShareRow /\ (share'[e].active <=> e \in D) /\ (e \in D => share'[e].amount = given[e])
  <2>1. share[e] \in ShareRow
    BY DEF TipsTypes
  <2>. HIDE DEF D, given
  <2>2. CASE e \in D
    <3>1. share'[e] = [share[e] EXCEPT !.active = TRUE, !.amount = given[e]] /\ given[e] \in Nat
      BY <1>1, <1>2, <2>2
    <3>. QED BY <2>1, <2>2, <3>1 DEF ShareRow
  <2>3. CASE e \in Active \ D
    <3>1. share'[e] = [share[e] EXCEPT !.active = FALSE]
      BY <1>2, <2>3
    <3>. QED BY <2>1, <2>3, <3>1 DEF ShareRow
  <2>4. CASE e \notin D /\ e \notin Active
    <3>1. share'[e] = share[e] /\ ~share[e].active
      BY <1>2, <2>4 DEF Active
    <3>. QED BY <2>1, <2>4, <3>1 DEF ShareRow
  <2>. QED BY <2>2, <2>3, <2>4
<1>4. share' \in [Employees -> ShareRow]
  BY <1>2, <1>3
<1>5. Active' = D
  BY <1>1, <1>3 DEF Active
<1>6. SumFunctionOnSet([e \in Employees |-> share'[e].amount], D) = SumFunctionOnSet(given, D)
  <2>1. IsFiniteSet(D)
    BY <1>1, TipsAssumption, FS_Subset
  <2>2. \A e \in D : [k \in Employees |-> share'[k].amount][e] = given[e]
    BY <1>1, <1>3
  <2>. QED BY <2>1, <2>2, SumDependsOnValues
<1>7. D # {} => Distance(SumFunctionOnSet(given, D), editing[p].total) <= Tolerance
  BY DEF Makes
<1>8. SharesMakeTotal'
  BY <1>5, <1>6, <1>7 DEF SharesMakeTotal
<1>. QED BY <1>4, <1>8

LEMMA CommitKeeps ==
    ASSUME DeliverAlone, TipsInv, NEW p \in Requests, CommitEdition(p)
    PROVE  TipsInv'
<1>1. /\ editing' = [editing EXCEPT ![p] = Idle] /\ editing[p].step \in {"write", "insert"}
      /\ editing \in [Requests -> Edition] /\ editing' \in [Requests -> Edition]
  BY DEF CommitEdition, Become, TipsInv, TipsTypes, Edition, Idle, NoShare, ShareRow
<1>2. Idle.step = "idle"
  BY DEF Idle
<1>3. \A q \in Requests : editing[q].step # "deliver"
  BY <1>1, <1>2 DEF TipsInv, DeliveriesAreAlone
<1>4. EditionsAddUp'
  BY <1>1, <1>2 DEF TipsInv, EditionsAddUp, Makes
<1>5. DeliveriesAreAlone'
  BY <1>1, <1>2, <1>3 DEF DeliveriesAreAlone
<1>6. TipsTypes' /\ SharesMakeTotal'
  <2>1. CASE UNCHANGED <<day, share, shared>>
    <3>1. SharesMakeTotal'
      BY <2>1, SameShares DEF TipsInv
    <3>. QED BY <1>1, <2>1, <3>1 DEF TipsInv, TipsTypes
  <2>2. CASE /\ day' = [exists |-> TRUE, locked |-> Unset, total |-> editing[p].total, closing |-> editing[p].total]
             /\ share' = Written(p) /\ shared' = (editing[p].given # Unset)
    <3>1. day' \in [exists : BOOLEAN, locked : Requests \cup {Unset}, total : Nat, closing : Nat]
          /\ day'.total = editing[p].total
      BY <1>1, <2>2 DEF Edition
    <3>2. shared' \in BOOLEAN /\ (shared' <=> editing[p].given # Unset)
      BY <2>2
    <3>3. CASE editing[p].given = Unset
      <4>1. share' = share
        BY <2>2, <3>3 DEF Written
      <4>2. SharesMakeTotal'
        BY <3>2, <3>3 DEF SharesMakeTotal
      <4>. QED BY <1>1, <3>1, <3>2, <4>1, <4>2 DEF TipsInv, TipsTypes
    <3>4. CASE editing[p].given # Unset
      <4>1. editing[p].given \in Given /\ Makes(editing[p].given, editing[p].total)
        BY <1>1, <3>4 DEF TipsInv, EditionsAddUp
      <4>2. share' \in [Employees -> ShareRow] /\ SharesMakeTotal'
        BY <2>2, <3>1, <3>4, <4>1, WrittenAddsUp DEF TipsInv
      <4>. QED BY <1>1, <3>1, <3>2, <4>2 DEF TipsTypes
    <3>. QED BY <3>3, <3>4
  <2>. QED BY <2>1, <2>2 DEF CommitEdition
<1>. QED BY <1>4, <1>5, <1>6 DEF TipsInv

LEMMA LoadShareKeeps ==
    ASSUME DeliverAlone, TipsInv, NEW p \in Requests, NEW e \in Employees, LoadShare(p, e)
    PROVE  TipsInv'
<1>. DEFINE r == [Idle EXCEPT !.op = "deliver", !.step = "deliver", !.given = e, !.row = share[e]]
<1>1. r \in Edition /\ r.step = "deliver" /\ r.op = "deliver" /\ r.given = e /\ r.row = share[e]
  BY DEF TipsInv, TipsTypes, Edition, Idle, NoShare, ShareRow
<1>2. \A q \in Requests : editing[q] = Idle
  BY DEF LoadShare, MayAsk, DeliverAlone
<1>. HIDE DEF r
<1>3. /\ editing' = [editing EXCEPT ![p] = r] /\ UNCHANGED <<day, share, shared>>
      /\ editing \in [Requests -> Edition] /\ editing' \in [Requests -> Edition]
  BY <1>1 DEF LoadShare, Become, r, TipsInv, TipsTypes
<1>4. Idle.step = "idle"
  BY DEF Idle
<1>5. TipsTypes'
  BY <1>3 DEF TipsInv, TipsTypes
<1>6. EditionsAddUp' /\ DeliveriesAreAlone'
  BY <1>1, <1>2, <1>3, <1>4 DEF EditionsAddUp, DeliveriesAreAlone
<1>7. SharesMakeTotal'
  BY <1>3, SameShares DEF TipsInv
<1>. QED BY <1>5, <1>6, <1>7 DEF TipsInv

\* A share is saved as it was loaded, and its tick with it.
LEMMA SaveShareKeeps ==
    ASSUME DeliverAlone, TipsInv, NEW p \in Requests, NEW delivered \in BOOLEAN, SaveShare(p, delivered)
    PROVE  TipsInv'
<1>. DEFINE e == editing[p].given
<1>1. e \in Employees /\ editing[p].row = share[e] /\ \A q \in Requests \ {p} : editing[q] = Idle
  BY DEF SaveShare, TipsInv, DeliveriesAreAlone
<1>2. share' = [share EXCEPT ![e] = [share[e] EXCEPT !.delivered = delivered]] /\ UNCHANGED <<day, shared>>
  BY <1>1 DEF SaveShare
<1>3. /\ editing' = [editing EXCEPT ![p] = Idle]
      /\ editing \in [Requests -> Edition] /\ editing' \in [Requests -> Edition]
  BY DEF SaveShare, Become, TipsInv, TipsTypes, Edition, Idle, NoShare, ShareRow
<1>4. \A q \in Requests : editing'[q] = Idle
  BY <1>1, <1>3
<1>. HIDE DEF e
<1>5. share \in [Employees -> ShareRow] /\ share' \in [Employees -> ShareRow]
      /\ \A k \in Employees : share'[k].amount = share[k].amount /\ share'[k].active = share[k].active
  BY <1>1, <1>2 DEF TipsInv, TipsTypes, ShareRow
<1>6. AmountsIn(share') = AmountsIn(share) /\ ActiveIn(share') = ActiveIn(share)
  BY <1>5 DEF AmountsIn, ActiveIn
<1>7. SharesMakeTotal'
  BY <1>2, <1>6, SameShares DEF TipsInv
<1>8. TipsTypes'
  BY <1>2, <1>3, <1>5 DEF TipsInv, TipsTypes
<1>9. EditionsAddUp' /\ DeliveriesAreAlone'
  BY <1>4 DEF EditionsAddUp, DeliveriesAreAlone, Idle
<1>. QED BY <1>7, <1>8, <1>9 DEF TipsInv

LEMMA DeliverAllKeeps ==
    ASSUME DeliverAlone, TipsInv, NEW p \in Requests, NEW delivered \in BOOLEAN, DeliverAll(p, delivered)
    PROVE  TipsInv'
<1>1. \A q \in Requests : editing[q] = Idle
  BY DEF DeliverAll, MayAsk, DeliverAlone
<1>2. UNCHANGED <<day, editing, shared>>
  BY DEF DeliverAll
<1>3. share \in [Employees -> ShareRow] /\ share' \in [Employees -> ShareRow]
      /\ \A k \in Employees : share'[k].amount = share[k].amount /\ share'[k].active = share[k].active
  BY DEF DeliverAll, TipsInv, TipsTypes, ShareRow
<1>4. AmountsIn(share') = AmountsIn(share) /\ ActiveIn(share') = ActiveIn(share)
  BY <1>3 DEF AmountsIn, ActiveIn
<1>5. SharesMakeTotal'
  BY <1>2, <1>4, SameShares DEF TipsInv
<1>6. TipsTypes'
  BY <1>2, <1>3 DEF TipsInv, TipsTypes
<1>7. EditionsAddUp' /\ DeliveriesAreAlone'
  BY <1>1, <1>2 DEF EditionsAddUp, DeliveriesAreAlone, Idle
<1>. QED BY <1>5, <1>6, <1>7 DEF TipsInv

LEMMA TipsStep == ASSUME DeliverAlone, TipsInv, [DayNext]_tipVars PROVE TipsInv'
<1>1. CASE DayNext
  <2>1. PICK p \in Requests :
           \/ \E total \in Totals : \/ AskUpsert(p, total, Unset) \/ CloseWithTips(p, total)
                                    \/ \E S \in SUBSET Employees : \E given \in [S -> Totals] : AskUpsert(p, total, given)
           \/ LockDay(p) \/ CommitEdition(p) \/ RollBackEdition(p)
           \/ \E e \in Employees : LoadShare(p, e)
           \/ \E delivered \in BOOLEAN : SaveShare(p, delivered) \/ DeliverAll(p, delivered)
    BY <1>1 DEF DayNext
  <2>2. ASSUME NEW S \in SUBSET Employees, NEW given \in [S -> Totals] PROVE given \in Given
    <3>1. given \in [S -> Nat]
      BY TipsAssumption
    <3>. QED BY <3>1 DEF Given
  <2>. QED BY <2>1, <2>2, AskUpsertKeeps, CloseWithTipsKeeps, LockKeeps, CommitKeeps, LoadShareKeeps, SaveShareKeeps, DeliverAllKeeps
<1>2. CASE UNCHANGED tipVars
  <2>1. UNCHANGED <<day, share, editing, shared>>
    BY <1>2 DEF tipVars
  <2>2. SharesMakeTotal'
    BY <2>1, SameShares DEF TipsInv
  <2>. QED BY <2>1, <2>2 DEF TipsInv, TipsTypes, EditionsAddUp, DeliveriesAreAlone, Makes
<1>. QED BY <1>1, <1>2

\* However editions and closings of a day overlap, the shares of the tips add up to the total
\* within the tolerance, whoever works and whatever was given.
THEOREM TipsMakeTheTotal == ASSUME DeliverAlone PROVE DaySpec => []SharesMakeTotal
<1>1. DayInit => TipsInv
  BY TipsStart
<1>2. TipsInv /\ [DayNext]_tipVars => TipsInv'
  BY TipsStep
<1>3. TipsInv => SharesMakeTotal
  BY DEF TipsInv
<1>. QED BY <1>1, <1>2, <1>3, PTL DEF DaySpec
-----------------------------------------------------------------------------
(* Accounts                                                                   *)

\* Only the account of who takes cash home is made, and a source pointed elsewhere, while
\* other requests run; nothing of accounts.service.ts runs in a transaction.
KeptApart == Overlapped \subseteq {"resolve", "source"}

AccountRow == [state : {"absent", "live", "removed"}, kind : AccountKinds \cup {"partner", Nil}, active : BOOLEAN,
               method : Methods \cup {Nil}]
SourceRow  == [state : {"absent", "live", "removed"}, name : Methods \cup {Nil}, account : AccountIds \cup {Nil}]
Placing    == [method : Methods, account : AccountIds \cup {Nil}]
Job        == [op : {"none", "create", "update", "deposits", "remove", "resolve", "list"},
               step : {"idle", "insert", "unlink", "link", "save", "clear", "load", "give", "transfer", "detach",
                       "retire", "delete", "default"},
               id : AccountIds \cup {Nil}, row : AccountRow, dest : AccountIds \cup Methods \cup {Nil},
               todo : SUBSET (Methods \cup Placing), users : SUBSET Users, flow : Int]

AccountsTyped ==
    /\ account \in [AccountIds -> AccountRow] /\ money \in [AccountIds -> Int] /\ source \in [SourceIds -> SourceRow]

\* No account but i has the method m.
FreeFor(m, i) == m # Nil => \A j \in AccountIds \ {i} : Live(j) => account[j].method # m

\* The row that a request is about to write takes its method from nobody.
Takes(r) == r.row.state = "live" /\ FreeFor(r.row.method, r.id)

\* Who is resolved the account of one who takes cash remembers nothing of the tables.
Aside(r) == /\ r.op \in {"none", "resolve"} /\ r.step \in {"idle", "insert", "unlink", "link"}
            /\ r.op = "none" => r.step = "idle"
            /\ r.step = "insert" => r.id \in AccountIds /\ r.row.state = "live" /\ r.row.method = Nil

\* What the others remember still holds.
Recalled(r) ==
    /\ r.step \notin {"idle", "clear", "default"} => r.id \in AccountIds
    /\ r.step \in {"insert", "save", "give"} => Takes(r)
    /\ r.step = "clear" => r.todo # {}
    /\ r.step \in {"clear", "load", "give"} => r.todo \subseteq Placing
    /\ r.step = "load" => r.dest \in Methods /\ FreeFor(r.dest, r.id)
    /\ r.step \in {"transfer", "detach", "retire", "delete"} => Live(r.id)
    /\ r.step \in {"transfer", "detach", "retire"} => r.row = account[r.id]
    /\ r.step = "transfer" => r.dest \in AccountIds \ {r.id} /\ Live(r.dest) /\ r.flow = money[r.id]
    /\ r.step \in {"detach", "retire", "delete"} => money[r.id] = 0
    /\ r.step = "delete" => account[r.id].method = Nil
    /\ r.step = "default" => /\ r.todo # {} /\ r.todo \subseteq Methods
                             /\ \A s \in SourceIds : Present(s) => source[s].name \notin r.todo

Remembered(p) ==
    LET r == running[p] IN
    \/ Aside(r)
    \/ /\ r.op \notin {"none", "resolve"} /\ r.step # "idle" /\ Recalled(r) /\ r.op \in OneAtATime
       /\ \A q \in Keepers \ {p} : running[q] = Resting

AccountsInv == AccountsTyped /\ running \in [Keepers -> Job] /\ (\A p \in Keepers : Remembered(p)) /\ AccountsInOrder

\* A request that rests, and rows that are not there, are of their types.
LEMMA RestingJob == Resting \in Job /\ Aside(Resting) /\ NoAccount \in AccountRow /\ NoSource \in SourceRow
BY DEF Resting, Job, Aside, NoAccount, AccountRow, NoSource, SourceRow

\* In an empty shop all of it holds.
LEMMA AccountsStart == AccountsInit => AccountsInv
<1>. SUFFICES ASSUME AccountsInit PROVE AccountsInv
  OBVIOUS
<1>1. AccountsTyped
  BY RestingJob DEF AccountsInit, AccountsTyped
<1>2. running \in [Keepers -> Job] /\ \A p \in Keepers : Remembered(p)
  BY RestingJob DEF AccountsInit, Remembered
<1>3. AccountsInOrder
  BY DEF AccountsInit, AccountsInOrder, RemovedIsEmpty, OneAccountPerMethod, OneSourcePerName, NoAccount, NoSource,
         Live, Present
<1>. QED BY <1>1, <1>2, <1>3 DEF AccountsInv

\* A request that runs alone moves on: nobody else is there to be wrong.
LEMMA AloneMoves ==
    ASSUME AccountsInv, NEW p \in Keepers, NEW r, r \in Job, running' = [running EXCEPT ![p] = r],
           \A q \in Keepers \ {p} : running[q] = Resting,
           r = Resting \/ (r.op \notin {"none", "resolve"} /\ r.step # "idle" /\ Recalled(r)' /\ r.op \in OneAtATime),
           AccountsTyped', AccountsInOrder'
    PROVE  AccountsInv'
<1>1. /\ running' \in [Keepers -> Job] /\ running'[p] = r
      /\ \A q \in Keepers \ {p} : running'[q] = Resting
  BY DEF AccountsInv
<1>2. \A q \in Keepers \ {p} : Remembered(q)'
  BY <1>1, RestingJob DEF Remembered, Aside
<1>3. Remembered(p)'
  BY <1>1, RestingJob DEF Remembered, Aside
<1>. QED BY <1>1, <1>2, <1>3 DEF AccountsInv

\* One that resolves an account moves on: neither it nor the others, who do the same, are wrong.
LEMMA AsideMoves ==
    ASSUME AccountsInv, NEW p \in Keepers, NEW r, r \in Job, running' = [running EXCEPT ![p] = r], Aside(r),
           \A q \in Keepers \ {p} : Aside(running[q]),
           AccountsTyped', AccountsInOrder'
    PROVE  AccountsInv'
<1>1. /\ running' \in [Keepers -> Job] /\ running'[p] = r
      /\ \A q \in Keepers \ {p} : running'[q] = running[q]
  BY DEF AccountsInv
<1>2. \A q \in Keepers : Aside(running'[q])
  BY <1>1
<1>3. \A q \in Keepers : Remembered(q)'
  BY <1>2 DEF Remembered, Aside
<1>. QED BY <1>1, <1>3 DEF AccountsInv

\* Who is not aside is alone.
LEMMA AloneOrAside ==
    ASSUME AccountsInv, NEW p \in Keepers
    PROVE  \/ running[p] # Resting /\ Aside(running[p]) /\ \A q \in Keepers \ {p} : Aside(running[q])
           \/ running[p] = Resting
           \/ /\ running[p].op \notin {"none", "resolve"} /\ running[p].step # "idle" /\ Recalled(running[p])
              /\ running[p].op \in OneAtATime /\ \A q \in Keepers \ {p} : running[q] = Resting
<1>1. CASE Aside(running[p]) /\ running[p] # Resting
  <2>1. ASSUME NEW q \in Keepers \ {p} PROVE Aside(running[q])
    BY <1>1 DEF AccountsInv, Remembered
  <2>. QED BY <1>1, <2>1
<1>. QED BY <1>1 DEF AccountsInv, Remembered

\* A row is written whose method is nobody else's.
LEMMA RowWritten ==
    ASSUME AccountsInv, NEW i \in AccountIds, NEW r \in AccountRow, r.state = "live", FreeFor(r.method, i),
           account' = [account EXCEPT ![i] = r], UNCHANGED <<money, source>>
    PROVE  AccountsTyped' /\ AccountsInOrder'
<1>1. account' \in [AccountIds -> AccountRow] /\ account'[i] = r /\ \A j \in AccountIds \ {i} : account'[j] = account[j]
  BY DEF AccountsInv, AccountsTyped
<1>2. AccountsTyped'
  BY <1>1 DEF AccountsInv, AccountsTyped
<1>3. RemovedIsEmpty'
  BY <1>1 DEF AccountsInv, AccountsInOrder, RemovedIsEmpty
<1>4. OneAccountPerMethod'
  <2>. SUFFICES ASSUME NEW j \in AccountIds, NEW k \in AccountIds, Live(j)', Live(k)',
                       account'[j].method = account'[k].method, j # k
                PROVE  account'[j].method = Nil
    BY DEF OneAccountPerMethod
  <2>1. CASE j # i /\ k # i
    BY <1>1, <2>1 DEF AccountsInv, AccountsInOrder, OneAccountPerMethod, Live
  <2>2. CASE j = i
    BY <1>1, <2>2 DEF FreeFor, Live
  <2>3. CASE k = i
    BY <1>1, <2>3 DEF FreeFor, Live
  <2>. QED BY <2>1, <2>2, <2>3
<1>5. OneSourcePerName'
  BY DEF AccountsInv, AccountsInOrder, OneSourcePerName, Present
<1>. QED BY <1>2, <1>3, <1>4, <1>5 DEF AccountsInOrder

\* clearLinkedPaymentMethod takes the method from all but one account, if not from all.
LEMMA MethodCleared ==
    ASSUME AccountsInv, NEW m \in Methods \cup {Nil}, NEW e \in AccountIds \cup {Nil},
           account' = Cleared(m, e), UNCHANGED <<money, source>>
    PROVE  /\ AccountsTyped' /\ AccountsInOrder' /\ FreeFor(m, e)'
           /\ e = Nil => \A i \in AccountIds : FreeFor(m, i)'
           /\ \A i \in AccountIds : Live(i)' = Live(i)
           /\ e # Nil => account'[e] = account[e]
<1>1. /\ DOMAIN account' = AccountIds
      /\ \A i \in AccountIds : account'[i] = IF m # Nil /\ i # e /\ account[i].method = m
                                             THEN [account[i] EXCEPT !.method = Nil] ELSE account[i]
  BY DEF Cleared
<1>2. ASSUME NEW i \in AccountIds
      PROVE  /\ account'[i] \in AccountRow /\ account'[i].state = account[i].state
             /\ account'[i].method = account[i].method \/ account'[i].method = Nil
             /\ m # Nil /\ i # e => account'[i].method # m
             /\ i = e => account'[i] = account[i]
  <2>1. account[i] \in AccountRow
    BY DEF AccountsInv, AccountsTyped
  <2>2. CASE m # Nil /\ i # e /\ account[i].method = m
    <3>1. account'[i] = [account[i] EXCEPT !.method = Nil]
      BY <1>1, <2>2
    <3>. QED BY <2>1, <2>2, <3>1 DEF AccountRow
  <2>3. CASE ~(m # Nil /\ i # e /\ account[i].method = m)
    BY <1>1, <2>1, <2>3
  <2>. QED BY <2>2, <2>3
<1>3. account' = [i \in AccountIds |-> account'[i]]
  BY DEF Cleared
<1>4. AccountsTyped'
  BY <1>2, <1>3 DEF AccountsInv, AccountsTyped
<1>5. \A i \in AccountIds : Live(i)' = Live(i)
  BY <1>2 DEF Live
<1>6. RemovedIsEmpty'
  BY <1>2 DEF AccountsInv, AccountsInOrder, RemovedIsEmpty
<1>7. OneAccountPerMethod'
  BY <1>2, <1>5 DEF AccountsInv, AccountsInOrder, OneAccountPerMethod
<1>8. OneSourcePerName'
  BY DEF AccountsInv, AccountsInOrder, OneSourcePerName, Present
<1>9. FreeFor(m, e)' /\ (e = Nil => \A i \in AccountIds : FreeFor(m, i)')
  BY <1>2, AccountsAssumption DEF FreeFor
<1>10. e # Nil => account'[e] = account[e]
  BY <1>2
<1>. QED BY <1>4, <1>5, <1>6, <1>7, <1>8, <1>9, <1>10 DEF AccountsInOrder

\* Nothing of the tables changes.
LEMMA TablesStay ==
    ASSUME AccountsInv, UNCHANGED <<account, money, source>>
    PROVE  AccountsTyped' /\ AccountsInOrder' /\ \A r : Recalled(r)' = Recalled(r)
BY DEF AccountsInv, AccountsTyped, AccountsInOrder, RemovedIsEmpty, OneAccountPerMethod, OneSourcePerName, Live, Present,
       Recalled, Takes, FreeFor

\* Who begins something else than to resolve an account finds nobody at work.
LEMMA BeginsAlone ==
    ASSUME KeptApart, NEW p \in Keepers, NEW op, op \notin {"resolve", "source"}, MayKeep(p, op)
    PROVE  running[p] = Resting /\ op \in OneAtATime /\ \A q \in Keepers : running[q] = Resting
BY DEF MayKeep, KeptApart

\* Who creates an account takes its method from its account, and remembers a row whose method nobody has.
LEMMA CreateAsked ==
    ASSUME AccountsInv, KeptApart, NEW p \in Keepers, NEW i \in AccountIds, NEW kind \in AccountKinds,
           NEW m \in Methods \cup {Nil}, NEW users \in SUBSET Users, AskCreate(p, i, kind, m, users)
    PROVE  AccountsInv'
<1>1. PICK r : r = [Resting EXCEPT !.op = "create", !.step = "insert", !.id = i, !.users = users,
                        !.row = [state |-> "live", kind |-> kind, active |-> TRUE, method |-> m]]
  OBVIOUS
<1>2. /\ running' = [running EXCEPT ![p] = r] /\ MayKeep(p, "create")
      /\ account' = Cleared(m, Nil) /\ UNCHANGED <<money, links, source>>
  BY <1>1 DEF AskCreate, Turn
<1>3. /\ r \in Job /\ r.op = "create" /\ r.step = "insert" /\ r.id = i
      /\ r.row.state = "live" /\ r.row.method = m
  BY <1>1, RestingJob DEF Resting, Job, AccountRow
<1>4. AccountsTyped' /\ AccountsInOrder' /\ FreeFor(m, i)'
  BY <1>2, MethodCleared
<1>5. Recalled(r)'
  BY <1>3, <1>4 DEF Recalled, Takes
<1>6. \A q \in Keepers : running[q] = Resting /\ "create" \in OneAtATime
  BY <1>2, BeginsAlone
<1>. QED BY <1>2, <1>3, <1>4, <1>5, <1>6, AloneMoves

\* Who edits one remembers the row it read, with a method that no other account has any more.
LEMMA UpdateAsked ==
    ASSUME AccountsInv, KeptApart, NEW p \in Keepers, NEW i \in AccountIds, NEW active \in BOOLEAN,
           NEW m \in Methods \cup {Nil}, NEW users \in SUBSET Users, AskUpdate(p, i, active, m, users)
    PROVE  AccountsInv'
<1>1. PICK r : r = [Resting EXCEPT !.op = "update", !.step = "save", !.id = i, !.users = users,
                        !.row = [account[i] EXCEPT !.active = active, !.method = m]]
  OBVIOUS
<1>2. /\ running' = [running EXCEPT ![p] = r] /\ MayKeep(p, "update") /\ Live(i)
      /\ account' = Cleared(m, i) /\ UNCHANGED <<money, links, source>>
  BY <1>1 DEF AskUpdate, Turn
<1>3. account[i] \in AccountRow
  BY DEF AccountsInv, AccountsTyped
<1>4. PICK entry : entry = [account[i] EXCEPT !.active = active, !.method = m]
  OBVIOUS
<1>5. entry \in AccountRow /\ entry.state = "live" /\ entry.method = m
  BY <1>2, <1>3, <1>4 DEF AccountRow, Live
<1>6. /\ r \in Job /\ r.op = "update" /\ r.step = "save" /\ r.id = i /\ r.row = entry
  BY <1>1, <1>4, <1>5, RestingJob DEF Resting, Job
<1>7. AccountsTyped' /\ AccountsInOrder' /\ FreeFor(m, i)'
  BY <1>2, MethodCleared
<1>8. Recalled(r)'
  BY <1>5, <1>6, <1>7 DEF Recalled, Takes
<1>9. \A q \in Keepers : running[q] = Resting /\ "update" \in OneAtATime
  BY <1>2, BeginsAlone
<1>. QED BY <1>2, <1>6, <1>7, <1>8, <1>9, AloneMoves

\* A request that has begun moves on or ends.
LEMMA Proceeds ==
    ASSUME AccountsInv, NEW p \in Keepers, NEW r, r \in Job, running' = [running EXCEPT ![p] = r],
           running[p] # Resting, AccountsTyped', AccountsInOrder',
           r = Resting \/ (/\ r.op = running[p].op /\ r.op # "none" /\ r.step # "idle"
                           /\ r.op = "resolve" => Aside(r)
                           /\ r.op # "resolve" => Recalled(r)')
    PROVE  AccountsInv'
<1>1. CASE running[p].op \notin {"none", "resolve"}
  <2>1. running[p].op \in OneAtATime /\ \A q \in Keepers \ {p} : running[q] = Resting
    BY <1>1, AloneOrAside DEF Aside
  <2>. QED BY <1>1, <2>1, AloneMoves
<1>2. CASE running[p].op \in {"none", "resolve"}
  <2>1. \A q \in Keepers \ {p} : Aside(running[q])
    BY <1>2, AloneOrAside
  <2>2. Aside(r)
    BY <1>2, RestingJob
  <2>. QED BY <2>1, <2>2, AsideMoves
<1>. QED BY <1>1, <1>2

\* What a request that has begun remembers, by its step.
LEMMA HasBegun ==
    ASSUME AccountsInv, NEW p \in Keepers, running[p].step # "idle"
    PROVE  /\ running[p] # Resting /\ running[p] \in Job /\ running[p].op # "none"
           /\ running[p].step \notin {"insert", "unlink", "link"} => running[p].op # "resolve" /\ Recalled(running[p])
           /\ running[p].step = "insert" => running[p].id \in AccountIds /\ Takes(running[p])
           /\ running[p].op # "resolve" => Recalled(running[p])
<1>1. running[p] # Resting /\ running[p] \in Job
  BY DEF Resting, AccountsInv
<1>2. CASE Aside(running[p])
  <2>1. running[p].op = "resolve"
    BY <1>2 DEF Aside
  <2>. QED BY <1>1, <1>2, <2>1 DEF Aside, Takes, FreeFor
<1>3. CASE ~Aside(running[p])
  BY <1>1, <1>3, AloneOrAside DEF Recalled
<1>. QED BY <1>2, <1>3

\* The row of a request is written, and what its people are is written next, or nothing is left.
LEMMA WritesItsRow ==
    ASSUME AccountsInv, NEW p \in Keepers, running[p].step \in {"insert", "save", "give"},
           account' = [account EXCEPT ![running[p].id] = running[p].row], UNCHANGED <<money, source>>,
           NEW step \in {"unlink", "clear"},
           step = "clear" => running[p].op # "resolve" /\ running[p].todo # {} /\ running[p].todo \subseteq Placing,
           \/ running' = [running EXCEPT ![p] = Resting]
           \/ running' = [running EXCEPT ![p] = [running[p] EXCEPT !.step = step]]
    PROVE  AccountsInv'
<1>1. /\ running[p] # Resting /\ running[p] \in Job /\ running[p].op # "none"
      /\ running[p].id \in AccountIds /\ Takes(running[p])
  BY HasBegun DEF Recalled
<1>2. AccountsTyped' /\ AccountsInOrder'
  <2>1. running[p].row \in AccountRow
    BY <1>1 DEF Job
  <2>. QED BY <1>1, <2>1, RowWritten DEF Takes
<1>3. PICK r : r = [running[p] EXCEPT !.step = step]
  OBVIOUS
<1>4. r \in Job /\ r.op = running[p].op /\ r.step = step /\ r.id = running[p].id /\ r.todo = running[p].todo
  BY <1>1, <1>3 DEF Job
<1>5. Recalled(r)' /\ (r.op = "resolve" => Aside(r))
  BY <1>1, <1>4 DEF Recalled, Aside
<1>6. CASE running' = [running EXCEPT ![p] = Resting]
  BY <1>1, <1>2, <1>6, RestingJob, Proceeds
<1>7. CASE running' = [running EXCEPT ![p] = r]
  BY <1>1, <1>2, <1>4, <1>5, <1>7, Proceeds
<1>. QED BY <1>3, <1>6, <1>7

\* The rows that creations, editions and deposits remember are written.
LEMMA RowsWritten ==
    ASSUME AccountsInv, NEW p \in Keepers, Insert(p) \/ Save(p) \/ GiveDeposit(p)
    PROVE  AccountsInv'
<1>1. CASE Insert(p)
  BY <1>1, WritesItsRow DEF Insert, At, End, GoTo, Turn
<1>2. CASE Save(p)
  BY <1>2, WritesItsRow DEF Save, At, GoTo, Turn
<1>3. CASE GiveDeposit(p)
  <2>1. running[p].step = "give" /\ running[p].op # "resolve" /\ running[p].todo \subseteq Placing
    BY <1>3, HasBegun DEF GiveDeposit, At, Recalled
  <2>. QED BY <1>3, <2>1, WritesItsRow DEF GiveDeposit, End, GoTo, Turn
<1>. QED BY <1>1, <1>2, <1>3

\* Links of users are no part of the order; who dies forgets what they remembered.
LEMMA LinksWritten ==
    ASSUME AccountsInv, NEW p \in Keepers, Unlink(p) \/ Link(p) \/ Detach(p) \/ Die(p)
    PROVE  AccountsInv'
<1>1. UNCHANGED <<account, money, source>> /\ AccountsTyped' /\ AccountsInOrder'
  BY TablesStay DEF Unlink, Link, Detach, Die
<1>2. CASE running[p] # Resting /\ running' = [running EXCEPT ![p] = Resting]
  BY <1>1, <1>2, RestingJob, Proceeds
<1>3. ASSUME NEW step, (step = "link" /\ running[p].step = "unlink") \/ (step = "retire" /\ running[p].step = "detach"),
             running' = [running EXCEPT ![p] = [running[p] EXCEPT !.step = step]]
      PROVE  AccountsInv'
  <2>1. PICK r : r = [running[p] EXCEPT !.step = step]
    OBVIOUS
  <2>2. /\ running[p] # Resting /\ running[p] \in Job /\ running[p].op # "none"
        /\ running[p].step # "unlink" => running[p].op # "resolve"
        /\ running[p].op # "resolve" => Recalled(running[p])
    BY <1>3, HasBegun
  <2>3. /\ r \in Job /\ r.op = running[p].op /\ r.step = step /\ r.id = running[p].id /\ r.row = running[p].row
        /\ running' = [running EXCEPT ![p] = r]
    BY <1>3, <2>1, <2>2 DEF Job
  <2>4. r.op # "resolve" => Recalled(r)
    BY <1>3, <2>2, <2>3 DEF Recalled
  <2>5. r.op # "resolve" => Recalled(r)'
    BY <1>1, <2>4, TablesStay
  <2>6. r.op = "resolve" => Aside(r)
    BY <1>3, <2>2, <2>3 DEF Aside
  <2>. QED BY <1>1, <1>3, <2>2, <2>3, <2>5, <2>6, Proceeds
<1>4. \/ running[p] # Resting /\ running' = [running EXCEPT ![p] = Resting]
      \/ \E step : /\ (step = "link" /\ running[p].step = "unlink") \/ (step = "retire" /\ running[p].step = "detach")
                   /\ running' = [running EXCEPT ![p] = [running[p] EXCEPT !.step = step]]
  BY RestingJob DEF Unlink, Link, Detach, Die, At, End, GoTo, Turn, Resting
<1>. QED BY <1>2, <1>3, <1>4

\* Who begins to resolve an account finds others that do so, at most.
LEMMA ResolveAsked ==
    ASSUME AccountsInv, NEW p \in Keepers, NEW u \in Users, NEW i \in AccountIds, AskResolve(p, u, i)
    PROVE  AccountsInv'
<1>1. PICK r : r = [Resting EXCEPT !.op = "resolve", !.step = "insert", !.id = i, !.users = {u},
                        !.row = [state |-> "live", kind |-> "partner", active |-> TRUE, method |-> Nil]]
  OBVIOUS
<1>2. running' = [running EXCEPT ![p] = r] /\ MayKeep(p, "resolve") /\ UNCHANGED <<account, money, source>>
  BY <1>1 DEF AskResolve, Turn
<1>3. r \in Job /\ Aside(r)
  BY <1>1, RestingJob DEF Resting, Job, Aside, AccountRow
<1>4. ASSUME NEW q \in Keepers PROVE Aside(running[q])
  <2>1. CASE running[q].op \notin OneAtATime
    BY <2>1 DEF AccountsInv, Remembered
  <2>2. CASE running[q] = Resting
    BY <2>2, RestingJob
  <2>. QED BY <1>2, <2>1, <2>2 DEF MayKeep
<1>. QED BY <1>2, <1>3, <1>4, TablesStay, AsideMoves

\* Money moves on accounts while nobody removes one.
LEMMA MoneyBooked ==
    ASSUME AccountsInv, NEW i \in AccountIds, NEW amount \in {-1, 1}, Book(i, amount)
    PROVE  AccountsInv'
<1>1. /\ \A q \in Keepers : running[q].op \notin OneAtATime
      /\ account[i].state = "live" /\ money' = [money EXCEPT ![i] = money[i] + amount]
      /\ UNCHANGED <<account, source, running>>
  BY DEF Book, Usable, Live
<1>2. money' \in [AccountIds -> Int] /\ \A j \in AccountIds \ {i} : money'[j] = money[j]
  BY <1>1 DEF AccountsInv, AccountsTyped
<1>3. AccountsTyped'
  BY <1>1, <1>2 DEF AccountsInv, AccountsTyped
<1>4. AccountsInOrder'
  BY <1>1, <1>2 DEF AccountsInv, AccountsInOrder, RemovedIsEmpty, OneAccountPerMethod, OneSourcePerName, Live, Present
<1>5. \A q \in Keepers : Remembered(q)'
  BY <1>1 DEF AccountsInv, Remembered, Aside
<1>. QED BY <1>1, <1>3, <1>4, <1>5 DEF AccountsInv

\* The method that comes first is one of them.
LEMMA FirstPlacing ==
    ASSUME NEW todo, todo # {}, todo \subseteq Placing
    PROVE  (CHOOSE e \in todo : \A f \in todo : e.method <= f.method) \in todo
<1>1. {e.method : e \in todo} # {} /\ {e.method : e \in todo} \subseteq Nat
  BY AccountsAssumption DEF Placing
<1>2. PICK n \in {e.method : e \in todo} : \A m \in {e.method : e \in todo} : n <= m
  BY <1>1, LeastNumber
<1>3. \E e \in todo : \A f \in todo : e.method <= f.method
  BY <1>2
<1>. QED BY <1>3

\* And so for methods by themselves.
LEMMA FirstMethod ==
    ASSUME NEW todo, todo # {}, todo \subseteq Methods
    PROVE  (CHOOSE e \in todo : \A f \in todo : e <= f) \in todo
<1>1. \E e \in todo : \A f \in todo : e <= f
  BY AccountsAssumption, LeastNumber
<1>. QED BY <1>1

\* Who places the methods begins with all of them.
LEMMA DepositsAsked ==
    ASSUME AccountsInv, KeptApart, NEW p \in Keepers, NEW todo \in SUBSET Placing, todo # {}, AskDeposits(p, todo)
    PROVE  AccountsInv'
<1>1. PICK r : r = [Resting EXCEPT !.op = "deposits", !.step = "clear", !.todo = todo]
  OBVIOUS
<1>2. running' = [running EXCEPT ![p] = r] /\ MayKeep(p, "deposits") /\ UNCHANGED <<account, money, source>>
  BY <1>1 DEF AskDeposits, Turn
<1>3. r \in Job /\ r.op = "deposits" /\ r.step = "clear" /\ r.todo = todo
  BY <1>1, RestingJob DEF Resting, Job
<1>4. Recalled(r)'
  BY <1>3 DEF Recalled
<1>5. "deposits" \in OneAtATime /\ \A q \in Keepers : running[q] = Resting
  BY <1>2, BeginsAlone
<1>. QED BY <1>2, <1>3, <1>4, <1>5, TablesStay, AloneMoves

\* The next method is taken from its account: nobody has it when it is given.
LEMMA DepositCleared ==
    ASSUME AccountsInv, NEW p \in Keepers, ClearDeposit(p)
    PROVE  AccountsInv'
<1>1. /\ running[p] # Resting /\ running[p] \in Job /\ running[p].op \notin {"none", "resolve"}
      /\ running[p].todo # {} /\ running[p].todo \subseteq Placing
  BY HasBegun DEF ClearDeposit, At, Recalled
<1>2. PICK d, rest : /\ d = CHOOSE e \in running[p].todo : \A f \in running[p].todo : e.method <= f.method
                     /\ rest = running[p].todo \ {d}
  OBVIOUS
<1>3. d \in Placing /\ rest \subseteq Placing
  BY <1>1, <1>2, FirstPlacing
<1>4. /\ account' = Cleared(d.method, Nil) /\ UNCHANGED <<money, source>>
      /\ \/ /\ d.account # Nil
            /\ running' = [running EXCEPT ![p] = [running[p] EXCEPT !.todo = rest, !.step = "load", !.id = d.account,
                                                                    !.dest = d.method]]
         \/ rest # {} /\ running' = [running EXCEPT ![p] = [running[p] EXCEPT !.todo = rest]]
         \/ running' = [running EXCEPT ![p] = Resting]
  BY <1>2 DEF ClearDeposit, Turn, End
<1>5. AccountsTyped' /\ AccountsInOrder' /\ \A i \in AccountIds : FreeFor(d.method, i)'
  BY <1>3, <1>4, MethodCleared DEF Placing
<1>6. CASE /\ d.account # Nil
           /\ running' = [running EXCEPT ![p] = [running[p] EXCEPT !.todo = rest, !.step = "load", !.id = d.account,
                                                                   !.dest = d.method]]
  <2>1. PICK r : r = [running[p] EXCEPT !.todo = rest, !.step = "load", !.id = d.account, !.dest = d.method]
    OBVIOUS
  <2>2. d.account \in AccountIds /\ d.method \in Methods
    BY <1>3, <1>6 DEF Placing
  <2>3. r \in Job /\ r.op = running[p].op /\ r.step = "load" /\ r.id = d.account /\ r.dest = d.method /\ r.todo = rest
    BY <1>1, <1>3, <2>1, <2>2 DEF Job
  <2>4. Recalled(r)'
    BY <1>3, <1>5, <2>2, <2>3 DEF Recalled
  <2>. QED BY <1>1, <1>5, <1>6, <2>1, <2>3, <2>4, Proceeds
<1>7. CASE rest # {} /\ running' = [running EXCEPT ![p] = [running[p] EXCEPT !.todo = rest]]
  <2>1. PICK r : r = [running[p] EXCEPT !.todo = rest]
    OBVIOUS
  <2>2. r \in Job /\ r.op = running[p].op /\ r.step = "clear" /\ r.todo = rest
    BY <1>1, <1>3, <2>1 DEF Job, ClearDeposit, At
  <2>3. Recalled(r)'
    BY <1>3, <1>7, <2>2 DEF Recalled
  <2>. QED BY <1>1, <1>5, <1>7, <2>1, <2>2, <2>3, Proceeds
<1>8. CASE running' = [running EXCEPT ![p] = Resting]
  BY <1>1, <1>5, <1>8, RestingJob, Proceeds
<1>. QED BY <1>4, <1>6, <1>7, <1>8

\* The account that gets it is read, and remembered with the method.
LEMMA DepositLoaded ==
    ASSUME AccountsInv, NEW p \in Keepers, LoadDeposit(p)
    PROVE  AccountsInv'
<1>1. /\ running[p] # Resting /\ running[p] \in Job /\ running[p].op \notin {"none", "resolve"}
      /\ running[p].id \in AccountIds /\ running[p].todo \subseteq Placing /\ running[p].dest \in Methods
      /\ FreeFor(running[p].dest, running[p].id)
  BY HasBegun DEF LoadDeposit, At, Recalled
<1>2. AccountsTyped' /\ AccountsInOrder' /\ \A r : Recalled(r)' = Recalled(r)
  BY TablesStay DEF LoadDeposit
<1>3. PICK entry, r : /\ entry = [account[running[p].id] EXCEPT !.method = running[p].dest]
                    /\ r = [running[p] EXCEPT !.step = "give", !.row = entry]
  OBVIOUS
<1>4. CASE Usable(running[p].id) /\ account[running[p].id].kind # "system"
  <2>1. running' = [running EXCEPT ![p] = r]
    BY <1>3, <1>4 DEF LoadDeposit, Turn
  <2>2. account[running[p].id] \in AccountRow
    BY <1>1 DEF AccountsInv, AccountsTyped
  <2>3. entry \in AccountRow /\ entry.state = "live" /\ entry.method = running[p].dest
    BY <1>1, <1>3, <1>4, <2>2 DEF AccountRow, Usable, Live
  <2>4. /\ r \in Job /\ r.op = running[p].op /\ r.step = "give" /\ r.id = running[p].id /\ r.row = entry
        /\ r.todo = running[p].todo
    BY <1>1, <1>3, <2>3 DEF Job
  <2>5. Recalled(r)
    BY <1>1, <2>3, <2>4 DEF Recalled, Takes
  <2>. QED BY <1>1, <1>2, <2>1, <2>4, <2>5, Proceeds
<1>5. CASE ~(Usable(running[p].id) /\ account[running[p].id].kind # "system")
  <2>1. running' = [running EXCEPT ![p] = Resting]
    BY <1>5 DEF LoadDeposit, Turn, End
  <2>. QED BY <1>1, <1>2, <2>1, RestingJob, Proceeds
<1>. QED BY <1>4, <1>5

\* Who removes an account remembers its row, what it holds and who gets it.
LEMMA RemoveAsked ==
    ASSUME AccountsInv, KeptApart, NEW p \in Keepers, NEW i \in AccountIds, NEW dest \in AccountIds \cup {Nil},
           AskRemove(p, i, dest)
    PROVE  AccountsInv'
<1>1. PICK step, r : /\ step = IF money[i] # 0 THEN "transfer" ELSE "detach"
                     /\ r = [Resting EXCEPT !.op = "remove", !.step = step, !.id = i, !.row = account[i], !.dest = dest,
                                            !.flow = money[i]]
  OBVIOUS
<1>2. /\ running' = [running EXCEPT ![p] = r] /\ MayKeep(p, "remove") /\ Live(i)
      /\ money[i] # 0 => dest # Nil /\ dest # i /\ Live(dest)
      /\ UNCHANGED <<account, money, source>>
  BY <1>1 DEF AskRemove, Turn, Usable
<1>3. account[i] \in AccountRow /\ money[i] \in Int
  BY DEF AccountsInv, AccountsTyped
<1>4. /\ r \in Job /\ r.op = "remove" /\ r.step = step /\ r.id = i /\ r.row = account[i] /\ r.dest = dest
      /\ r.flow = money[i]
  BY <1>1, <1>3, RestingJob DEF Resting, Job
<1>5. Recalled(r)
  BY <1>1, <1>2, <1>4 DEF Recalled
<1>6. "remove" \in OneAtATime /\ \A q \in Keepers : running[q] = Resting
  BY <1>2, BeginsAlone
<1>7. r.op \notin {"none", "resolve"} /\ r.step # "idle"
  BY <1>1, <1>4
<1>. QED BY <1>2, <1>4, <1>5, <1>6, <1>7, TablesStay, AloneMoves

\* The money of the account goes where it was said, and none is left.
LEMMA MoneyTransferred ==
    ASSUME AccountsInv, NEW p \in Keepers, Transfer(p)
    PROVE  AccountsInv'
<1>1. /\ running[p] # Resting /\ running[p] \in Job /\ running[p].op \notin {"none", "resolve"}
      /\ Recalled(running[p]) /\ running[p].step = "transfer"
  BY HasBegun DEF Transfer, At
<1>2. PICK i, dest : i = running[p].id /\ dest = running[p].dest
  OBVIOUS
<1>3. /\ i \in AccountIds /\ dest \in AccountIds \ {i} /\ Live(i) /\ Live(dest) /\ running[p].flow = money[i]
      /\ running[p].row = account[i]
  BY <1>1, <1>2 DEF Recalled
<1>4. /\ money' = [money EXCEPT ![i] = @ - money[i], ![dest] = @ + money[i]]
      /\ UNCHANGED <<account, source>> /\ running' = [running EXCEPT ![p] = [running[p] EXCEPT !.step = "detach"]]
  BY <1>2, <1>3 DEF Transfer, Transferred, GoTo, Turn
<1>5. /\ money' \in [AccountIds -> Int] /\ money'[i] = 0
      /\ \A j \in AccountIds \ {i, dest} : money'[j] = money[j]
  BY <1>3, <1>4 DEF AccountsInv, AccountsTyped
<1>6. AccountsTyped'
  BY <1>4, <1>5 DEF AccountsInv, AccountsTyped
<1>7. AccountsInOrder'
  BY <1>3, <1>4, <1>5 DEF AccountsInv, AccountsInOrder, RemovedIsEmpty, OneAccountPerMethod, OneSourcePerName, Live, Present
<1>8. PICK r : r = [running[p] EXCEPT !.step = "detach"]
  OBVIOUS
<1>9. r \in Job /\ r.op = running[p].op /\ r.step = "detach" /\ r.id = i /\ r.row = account[i]
  BY <1>1, <1>2, <1>3, <1>8 DEF Job
<1>10. Recalled(r)'
  BY <1>3, <1>4, <1>5, <1>9 DEF Recalled, Live
<1>. QED BY <1>1, <1>4, <1>6, <1>7, <1>8, <1>9, <1>10, Proceeds

\* An account that holds nothing loses its method.
LEMMA AccountRetired ==
    ASSUME AccountsInv, NEW p \in Keepers, Retire(p)
    PROVE  AccountsInv'
<1>1. /\ running[p] # Resting /\ running[p] \in Job /\ running[p].op \notin {"none", "resolve"}
      /\ Recalled(running[p]) /\ running[p].step = "retire"
  BY HasBegun DEF Retire, At
<1>2. PICK i, entry : i = running[p].id /\ entry = [account[i] EXCEPT !.active = FALSE, !.method = Nil]
  OBVIOUS
<1>3. i \in AccountIds /\ Live(i) /\ money[i] = 0 /\ running[p].row = account[i]
  BY <1>1, <1>2 DEF Recalled
<1>4. /\ account' = [account EXCEPT ![i] = entry] /\ UNCHANGED <<money, source>>
      /\ running' = [running EXCEPT ![p] = [running[p] EXCEPT !.step = "delete"]]
  BY <1>2, <1>3 DEF Retire, GoTo, Turn
<1>5. entry \in AccountRow /\ entry.state = "live" /\ entry.method = Nil
  <2>1. account[i] \in AccountRow
    BY <1>3 DEF AccountsInv, AccountsTyped
  <2>. QED BY <1>2, <1>3, <2>1 DEF AccountRow, Live
<1>6. AccountsTyped' /\ AccountsInOrder'
  BY <1>3, <1>4, <1>5, RowWritten DEF FreeFor
<1>7. account'[i] = entry
  BY <1>3, <1>4 DEF AccountsInv, AccountsTyped
<1>8. PICK r : r = [running[p] EXCEPT !.step = "delete"]
  OBVIOUS
<1>9. r \in Job /\ r.op = running[p].op /\ r.step = "delete" /\ r.id = i
  BY <1>1, <1>2, <1>8 DEF Job
<1>10. Recalled(r)'
  BY <1>3, <1>4, <1>5, <1>7, <1>9 DEF Recalled, Live
<1>. QED BY <1>1, <1>4, <1>6, <1>8, <1>9, <1>10, Proceeds

\* One that holds nothing and has no method is removed.
LEMMA AccountDeleted ==
    ASSUME AccountsInv, NEW p \in Keepers, Delete(p)
    PROVE  AccountsInv'
<1>1. running[p] # Resting /\ Recalled(running[p]) /\ running[p].step = "delete"
  BY HasBegun DEF Delete, At
<1>2. PICK i, entry : i = running[p].id /\ entry = [account[i] EXCEPT !.state = "removed"]
  OBVIOUS
<1>3. i \in AccountIds /\ money[i] = 0 /\ account[i].method = Nil
  BY <1>1, <1>2 DEF Recalled
<1>4. account' = [account EXCEPT ![i] = entry] /\ UNCHANGED <<money, source>> /\ running' = [running EXCEPT ![p] = Resting]
  BY <1>2 DEF Delete, End, Turn
<1>5. entry \in AccountRow /\ entry.state = "removed" /\ entry.method = Nil
  <2>1. account[i] \in AccountRow
    BY <1>3 DEF AccountsInv, AccountsTyped
  <2>. QED BY <1>2, <1>3, <2>1 DEF AccountRow
<1>6. /\ account' \in [AccountIds -> AccountRow] /\ account'[i] = entry
      /\ \A j \in AccountIds \ {i} : account'[j] = account[j]
  BY <1>3, <1>4, <1>5 DEF AccountsInv, AccountsTyped
<1>7. AccountsTyped'
  BY <1>4, <1>6 DEF AccountsInv, AccountsTyped
<1>8. RemovedIsEmpty'
  BY <1>3, <1>4, <1>5, <1>6 DEF AccountsInv, AccountsInOrder, RemovedIsEmpty
<1>9. OneAccountPerMethod'
  BY <1>5, <1>6 DEF AccountsInv, AccountsInOrder, OneAccountPerMethod, Live
<1>10. OneSourcePerName'
  BY <1>4 DEF AccountsInv, AccountsInOrder, OneSourcePerName, Present
<1>. QED BY <1>1, <1>4, <1>7, <1>8, <1>9, <1>10, RestingJob, Proceeds DEF AccountsInOrder

\* Who lists the sources remembers the names that nobody has.
LEMMA ListAsked ==
    ASSUME AccountsInv, KeptApart, NEW p \in Keepers, AskList(p)
    PROVE  AccountsInv'
<1>1. PICK r : r = [Resting EXCEPT !.op = "list", !.step = "default", !.todo = Missing, !.row = NoAccount]
  OBVIOUS
<1>2. /\ running' = [running EXCEPT ![p] = r] /\ MayKeep(p, "list") /\ Missing # {}
      /\ UNCHANGED <<account, money, source>>
  BY <1>1 DEF AskList, Turn
<1>3. Missing \subseteq Methods /\ \A s \in SourceIds : Present(s) => source[s].name \notin Missing
  BY DEF Missing
<1>4. r \in Job /\ r.op = "list" /\ r.step = "default" /\ r.todo = Missing
  BY <1>1, <1>3, RestingJob DEF Resting, Job
<1>5. Recalled(r)
  BY <1>2, <1>3, <1>4 DEF Recalled
<1>6. "list" \in OneAtATime /\ \A q \in Keepers : running[q] = Resting
  BY <1>2, BeginsAlone
<1>. QED BY <1>2, <1>4, <1>5, <1>6, TablesStay, AloneMoves

\* The next name, which no source has, gets its source.
LEMMA DefaultWritten ==
    ASSUME AccountsInv, NEW p \in Keepers, NEW s \in SourceIds, NEW i \in AccountIds \cup {Nil}, WriteDefault(p, s, i)
    PROVE  AccountsInv'
<1>1. /\ running[p] # Resting /\ running[p] \in Job /\ running[p].op \notin {"none", "resolve"}
      /\ running[p].todo # {} /\ running[p].todo \subseteq Methods
      /\ \A t \in SourceIds : Present(t) => source[t].name \notin running[p].todo
  BY HasBegun DEF WriteDefault, At, Recalled
<1>2. PICK n, rest : n = (CHOOSE e \in running[p].todo : \A f \in running[p].todo : e <= f) /\ rest = running[p].todo \ {n}
  OBVIOUS
<1>3. n \in running[p].todo /\ n \in Methods /\ rest \subseteq Methods
  BY <1>1, <1>2, FirstMethod
<1>4. PICK entry : entry = [state |-> "live", name |-> n, account |-> i]
  OBVIOUS
<1>5. entry \in SourceRow /\ entry.name = n
  BY <1>3, <1>4 DEF SourceRow
<1>6. /\ source[s].state = "absent" /\ source' = [source EXCEPT ![s] = entry] /\ UNCHANGED <<account, money>>
      /\ \/ running' = [running EXCEPT ![p] = Resting]
         \/ rest # {} /\ running' = [running EXCEPT ![p] = [running[p] EXCEPT !.todo = rest]]
  <2>1. source[s].state = "absent" /\ source' = [source EXCEPT ![s] = entry] /\ UNCHANGED <<account, money>>
    BY <1>2, <1>4 DEF WriteDefault
  <2>2. IF running[p].todo = {n} THEN End(p) ELSE Turn(p, [running[p] EXCEPT !.todo = @ \ {n}])
    BY <1>2 DEF WriteDefault
  <2>3. CASE running[p].todo = {n}
    BY <2>1, <2>2, <2>3 DEF Turn, End
  <2>4. CASE running[p].todo # {n}
    <3>1. rest # {}
      BY <1>2, <1>3, <2>4
    <3>. QED BY <1>2, <2>1, <2>2, <2>4, <3>1 DEF Turn
  <2>. QED BY <2>3, <2>4
<1>7. source' \in [SourceIds -> SourceRow] /\ source'[s] = entry /\ \A t \in SourceIds \ {s} : source'[t] = source[t]
  BY <1>5, <1>6 DEF AccountsInv, AccountsTyped
<1>8. AccountsTyped'
  BY <1>6, <1>7 DEF AccountsInv, AccountsTyped
<1>9. RemovedIsEmpty' /\ OneAccountPerMethod'
  BY <1>6 DEF AccountsInv, AccountsInOrder, RemovedIsEmpty, OneAccountPerMethod, Live
<1>10. OneSourcePerName'
  BY <1>1, <1>3, <1>5, <1>7 DEF AccountsInv, AccountsInOrder, OneSourcePerName, Present
<1>11. AccountsInOrder'
  BY <1>9, <1>10 DEF AccountsInOrder
<1>12. CASE running' = [running EXCEPT ![p] = Resting]
  BY <1>1, <1>8, <1>11, <1>12, RestingJob, Proceeds
<1>13. CASE rest # {} /\ running' = [running EXCEPT ![p] = [running[p] EXCEPT !.todo = rest]]
  <2>1. PICK r : r = [running[p] EXCEPT !.todo = rest]
    OBVIOUS
  <2>2. r \in Job /\ r.op = running[p].op /\ r.step = "default" /\ r.todo = rest
    BY <1>1, <1>3, <2>1 DEF Job, WriteDefault, At
  <2>3. \A t \in SourceIds : Present(t)' => source'[t].name \notin rest
    BY <1>1, <1>2, <1>5, <1>7 DEF Present
  <2>4. Recalled(r)'
    BY <1>3, <1>13, <2>2, <2>3 DEF Recalled
  <2>. QED BY <1>1, <1>8, <1>11, <1>13, <2>1, <2>2, <2>4, Proceeds
<1>. QED BY <1>6, <1>12, <1>13

\* A source gets another account or is removed while nobody runs by themselves.
LEMMA SourceChanged ==
    ASSUME AccountsInv, NEW s \in SourceIds, Present(s), NEW p, NEW op, MayKeep(p, op),
           NEW entry \in SourceRow, entry.name = source[s].name,
           source' = [source EXCEPT ![s] = entry], UNCHANGED <<account, money, running>>
    PROVE  AccountsInv'
<1>1. source' \in [SourceIds -> SourceRow] /\ source'[s] = entry /\ \A t \in SourceIds \ {s} : source'[t] = source[t]
  BY DEF AccountsInv, AccountsTyped
<1>2. AccountsTyped'
  BY <1>1 DEF AccountsInv, AccountsTyped
<1>3. RemovedIsEmpty' /\ OneAccountPerMethod'
  BY DEF AccountsInv, AccountsInOrder, RemovedIsEmpty, OneAccountPerMethod, Live
<1>4. OneSourcePerName'
  BY <1>1 DEF AccountsInv, AccountsInOrder, OneSourcePerName, Present
<1>5. ASSUME NEW q \in Keepers PROVE Aside(running[q])
  <2>1. CASE running[q].op \notin OneAtATime
    BY <2>1 DEF AccountsInv, Remembered
  <2>2. CASE running[q] = Resting
    BY <2>2, RestingJob
  <2>. QED BY <2>1, <2>2 DEF MayKeep
<1>6. \A q \in Keepers : Remembered(q)'
  BY <1>5 DEF Remembered, Aside
<1>. QED BY <1>2, <1>3, <1>4, <1>6 DEF AccountsInv, AccountsInOrder

\* Sources that are pointed elsewhere, given an account or removed keep their names.
LEMMA SourcesKept ==
    ASSUME AccountsInv, NEW s \in SourceIds,
           RemoveSource(s) \/ \E i \in AccountIds : GiveAccount(s, i) \/ PointSource(s, i)
    PROVE  AccountsInv'
<1>1. source[s] \in SourceRow
  BY DEF AccountsInv, AccountsTyped
<1>2. CASE RemoveSource(s)
  <2>1. PICK entry : entry = [source[s] EXCEPT !.state = "removed"]
    OBVIOUS
  <2>2. entry \in SourceRow /\ entry.name = source[s].name
    BY <1>1, <2>1 DEF SourceRow
  <2>3. /\ Present(s) /\ MayKeep(CHOOSE p \in Keepers : TRUE, "source")
        /\ source' = [source EXCEPT ![s] = entry] /\ UNCHANGED <<account, money, running>>
    BY <1>2, <2>1 DEF RemoveSource
  <2>. QED BY <2>2, <2>3, SourceChanged
<1>3. ASSUME NEW i \in AccountIds, GiveAccount(s, i) \/ PointSource(s, i) PROVE AccountsInv'
  <2>1. PICK entry : entry = [source[s] EXCEPT !.account = i]
    OBVIOUS
  <2>2. entry \in SourceRow /\ entry.name = source[s].name
    BY <1>1, <2>1 DEF SourceRow
  <2>3. PICK op : /\ Present(s) /\ MayKeep(CHOOSE p \in Keepers : TRUE, op)
                  /\ source' = [source EXCEPT ![s] = entry] /\ UNCHANGED <<account, money, running>>
    BY <1>3, <2>1 DEF GiveAccount, PointSource
  <2>. QED BY <2>2, <2>3, SourceChanged
<1>. QED BY <1>2, <1>3

\* Every step keeps the invariant.
LEMMA AccountsStep ==
    ASSUME AccountsInv, KeptApart, [AccountsNext]_accountVars
    PROVE  AccountsInv'
<1>1. CASE UNCHANGED accountVars
  <2>1. UNCHANGED <<account, money, source, running>>
    BY <1>1 DEF accountVars
  <2>2. AccountsTyped' /\ AccountsInOrder' /\ \A r : Recalled(r)' = Recalled(r)
    BY <2>1, TablesStay
  <2>. QED BY <2>1, <2>2 DEF AccountsInv, Remembered, Aside
<1>2. ASSUME NEW p \in Keepers,
             \/ Insert(p) \/ Unlink(p) \/ Link(p) \/ Save(p) \/ ClearDeposit(p) \/ LoadDeposit(p) \/ GiveDeposit(p)
             \/ Transfer(p) \/ Detach(p) \/ Retire(p) \/ Delete(p) \/ AskList(p) \/ Die(p)
      PROVE  AccountsInv'
  BY <1>2, RowsWritten, LinksWritten, DepositCleared, DepositLoaded, MoneyTransferred, AccountRetired, AccountDeleted,
     ListAsked
<1>3. ASSUME NEW p \in Keepers, NEW i \in AccountIds, NEW m \in Methods \cup {Nil}, NEW us \in SUBSET Users,
             \/ \E kind \in AccountKinds : AskCreate(p, i, kind, m, us)
             \/ \E active \in BOOLEAN : AskUpdate(p, i, active, m, us)
      PROVE  AccountsInv'
  BY <1>3, CreateAsked, UpdateAsked
<1>4. ASSUME NEW p \in Keepers, NEW ms \in (SUBSET Methods) \ {{}}, NEW f \in [ms -> AccountIds \cup {Nil}],
             AskDeposits(p, {[method |-> m, account |-> f[m]] : m \in ms})
      PROVE  AccountsInv'
  <2>1. PICK todo : todo = {[method |-> m, account |-> f[m]] : m \in ms}
    OBVIOUS
  <2>2. \A m \in ms : [method |-> m, account |-> f[m]] \in Placing
    BY DEF Placing
  <2>3. todo \subseteq Placing
    BY <2>1, <2>2
  <2>4. PICK m \in ms : TRUE
    OBVIOUS
  <2>5. [method |-> m, account |-> f[m]] \in todo
    BY <2>1
  <2>. QED BY <1>4, <2>1, <2>3, <2>5, DepositsAsked
<1>5. ASSUME NEW i \in AccountIds, NEW amount \in {-1, 1}, Book(i, amount) PROVE AccountsInv'
  BY <1>5, MoneyBooked
<1>6. ASSUME NEW p \in Keepers, NEW i \in AccountIds, NEW dest \in AccountIds \cup {Nil}, AskRemove(p, i, dest)
      PROVE  AccountsInv'
  BY <1>6, RemoveAsked
<1>7. ASSUME NEW p \in Keepers, NEW u \in Users, NEW i \in AccountIds, AskResolve(p, u, i) PROVE AccountsInv'
  BY <1>7, ResolveAsked
<1>8. ASSUME NEW p \in Keepers, NEW s \in SourceIds, NEW i \in AccountIds \cup {Nil}, WriteDefault(p, s, i)
      PROVE  AccountsInv'
  BY <1>8, DefaultWritten
<1>9. ASSUME NEW s \in SourceIds, RemoveSource(s) \/ \E i \in AccountIds : GiveAccount(s, i) \/ PointSource(s, i)
      PROVE  AccountsInv'
  BY <1>9, SourcesKept
<1>10. CASE AccountsNext
  BY <1>2, <1>3, <1>4, <1>5, <1>6, <1>7, <1>8, <1>9, <1>10 DEF AccountsNext
<1>. QED BY <1>1, <1>10

\* An account that was removed holds nothing, a payment method has one account and a default source one row,
\* whatever requests died between two statements (accounts.service.ts, shop-closing-sources.service.ts), in a shop
\* whose requests overlap only in resolving accounts and pointing sources.
THEOREM AccountsStayInOrder == ASSUME KeptApart PROVE AccountsSpec => []AccountsInOrder
<1>1. AccountsInv /\ [AccountsNext]_accountVars => AccountsInv'
  BY AccountsStep
<1>2. AccountsInv => AccountsInOrder
  BY DEF AccountsInv
<1>. QED BY AccountsStart, <1>1, <1>2, PTL DEF AccountsSpec
=============================================================================
