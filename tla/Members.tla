------------------------------ MODULE Members ------------------------------
(***************************************************************************)
(* One user and the shops it belongs to.  Creating, editing and removing a      *)
(* user is several statements without a transaction: the user, then each          *)
(* membership by itself, then the accounts linked in the shop that is edited.      *)
(* A super administrator's edition deletes every membership and makes them again   *)
(* from what it remembers of the old ones.  One request runs at a time, and the     *)
(* process may die between two statements.                                         *)
(***************************************************************************)
EXTENDS Naturals, FiniteSets

CONSTANTS
    Shops,
    Managed,      \* the shops of the administrator who is not a super administrator
    MaxEdits,     \* bound: requests
    Unset

\* "admin" is the role of a user who administers everything it belongs to, and has no levels.
UserRoles == {"admin", "cashier"}

ASSUME MembersAssumption == Unset \notin BOOLEAN /\ Unset \notin UserRoles

VARIABLES
    user,         \* its state and its global role
    link,         \* membership of each shop: role, levels, a flag set by administrators, a preference of its own
    accounts,     \* shops where accounts of the ledger are linked to it
    employed,     \* an employee is linked to it
    request,      \* the request under way
    given,        \* what was last chosen for the flag in each shop
    meant,        \* the shops it should belong to
    died,         \* a request died since the memberships were last made anew
    forms

memberVars == <<user, link, accounts, employed, request, given, meant, died, forms>>

NoLink == [role |-> Unset, levels |-> Unset, flag |-> FALSE, own |-> FALSE]
Member(s) == link[s] # NoLink
\* The levels of a form; otherwise those that the role stands for.
LevelsFor(dto, role) == IF role = "admin" THEN Unset ELSE IF dto.levels # Unset THEN dto.levels ELSE dto.role

\* A form changes one thing besides the shops.
Empty == [shops |-> Unset, at |-> Unset, flag |-> Unset, role |-> Unset, global |-> Unset, levels |-> Unset, accounts |-> Unset]
FormsOf(ss, at) ==
    LET f == [Empty EXCEPT !.shops = ss, !.at = at]
    IN {f, [f EXCEPT !.role = "admin"], [f EXCEPT !.levels = "own"]} \cup {[f EXCEPT !.global = r] : r \in UserRoles}
       \cup (IF at = Unset THEN {} ELSE {[f EXCEPT !.flag = b] : b \in BOOLEAN} \cup {[f EXCEPT !.accounts = b] : b \in BOOLEAN})
Forms == UNION {FormsOf(ss, at) : ss \in {Unset} \cup SUBSET Shops, at \in Shops \cup {Unset}}

\* No request is under way.
Still == [op |-> "none", actor |-> Unset, dto |-> Empty, before |-> [s \in Shops |-> NoLink], doomed |-> {}, todo |-> {}, step |-> "idle"]

MembersInit ==
    /\ user = [state |-> "absent", role |-> Unset] /\ link = [s \in Shops |-> NoLink] /\ accounts = {} /\ employed = FALSE
    /\ request = Still /\ given = [s \in Shops |-> FALSE] /\ meant = {} /\ died = FALSE /\ forms = 0

Start(op, actor, dto, doomed, todo) ==
    request' = [op |-> op, actor |-> actor, dto |-> dto, before |-> link, doomed |-> doomed, todo |-> todo, step |-> "links"]

\* A membership of a shop the user did not belong to.
NewLink(dto, s, role) ==
    [role |-> IF dto.role # Unset THEN dto.role ELSE role, levels |-> LevelsFor([dto EXCEPT !.role = IF @ = Unset THEN role ELSE @], role),
     flag |-> dto.at = s /\ dto.flag = TRUE, own |-> FALSE]
\* A membership that stays.
Patched(l, dto, s, role) ==
    [l EXCEPT !.role = IF dto.role # Unset THEN dto.role ELSE @,
              !.levels = IF dto.levels = Unset THEN @ ELSE IF role = "admin" THEN Unset ELSE dto.levels,
              !.flag = IF dto.at = s /\ dto.flag # Unset THEN dto.flag ELSE @]
\* A membership made anew by a super administrator, who remembers the flags of the one before.
\* Mutant: not those of the shops that are not being edited.
AnewForgetting(l, dto, s, role) == NewLink(dto, s, role)
Anew(l, dto, s, role) ==
    [NewLink(dto, s, role) EXCEPT !.flag = IF dto.at = s /\ dto.flag # Unset THEN dto.flag ELSE l.flag]
-----------------------------------------------------------------------------
(* Requests                                                                   *)

CreateUser ==
    /\ request = Still /\ forms < MaxEdits /\ forms' = forms + 1 /\ user.state = "absent"
    /\ \E form \in Forms, r \in UserRoles, actor \in {"super", "local"} :
          LET dto == [form EXCEPT !.global = r]
              shops == (IF dto.shops = Unset THEN {} ELSE dto.shops) \cup (IF dto.at = Unset THEN {} ELSE {dto.at})
          IN /\ form.global = Unset /\ shops # {} /\ (actor = "local" => shops \subseteq Managed /\ dto.global # "admin")
             /\ user' = [state |-> "active", role |-> dto.global]
             /\ Start("create", actor, dto, {}, shops)
    /\ UNCHANGED <<link, accounts, employed, given, meant, died>>

\* The user is saved first.  Shops that the administrator does not manage, or levels of other users, are refused only afterwards.
UpdateUser ==
    /\ request = Still /\ forms < MaxEdits /\ forms' = forms + 1 /\ user.state = "active"
    /\ \E dto \in Forms, actor \in {"super", "local"} :
          LET member  == {s \in Shops : Member(s)}
              wanted  == IF dto.shops = Unset THEN {} ELSE dto.shops
              scope   == actor = "super" \/ IF dto.at # Unset THEN dto.at \in Managed ELSE (member \cup wanted) \cap Managed # {}
              rank    == actor = "local" => dto.global # "admin" /\ (dto.global # Unset => user.role # "admin")
              refused == actor = "local" /\ ~(wanted \subseteq Managed)
              patch   == dto.shops = Unset /\ dto.at # Unset /\ (dto.role # Unset \/ dto.levels # Unset \/ dto.flag # Unset)
              linking == dto.accounts # Unset
          IN /\ scope /\ rank
             /\ user' = [user EXCEPT !.role = IF dto.global # Unset THEN dto.global ELSE @]
             /\ IF refused \/ (dto.shops = Unset /\ ~patch /\ ~linking) THEN UNCHANGED request
                ELSE Start("update", actor, dto,
                           IF dto.shops = Unset THEN {} ELSE IF actor = "super" THEN member ELSE (member \cap Managed) \ wanted,
                           IF patch THEN {dto.at} ELSE IF actor = "super" THEN wanted ELSE wanted \cap Managed)
    /\ UNCHANGED <<link, accounts, employed, given, meant, died>>

Anewed == request.op = "update" /\ request.actor = "super" /\ request.dto.shops # Unset

\* All at once, or one by one.
Unlink ==
    /\ request.op = "update" /\ request.doomed # {}
    /\ \E s \in request.doomed :
          LET gone == IF Anewed THEN request.doomed ELSE {s}
          IN /\ link' = [x \in Shops |-> IF x \in gone THEN NoLink ELSE link[x]]
             /\ request' = [request EXCEPT !.doomed = @ \ gone]
             /\ meant' = meant \ gone
    /\ UNCHANGED <<user, accounts, employed, given, died, forms>>

Write ==
    /\ request.op \in {"create", "update"} /\ request.doomed = {} /\ request.todo # {}
    /\ \E s \in request.todo :
          LET dto == request.dto
              was == request.before[s]
          IN /\ link' = [link EXCEPT ![s] =
                            IF request.op = "create" THEN NewLink(dto, s, user.role)
                            ELSE IF Anewed THEN IF was = NoLink THEN NewLink(dto, s, user.role) ELSE Anew(was, dto, s, user.role)
                            ELSE IF Member(s) THEN Patched(link[s], dto, s, user.role) ELSE NewLink(dto, s, user.role)]
             /\ given' = [given EXCEPT ![s] = IF dto.at = s /\ dto.flag # Unset THEN dto.flag ELSE IF was = NoLink THEN FALSE ELSE @]
             /\ request' = [request EXCEPT !.todo = @ \ {s}]
    /\ UNCHANGED <<user, accounts, employed, meant, died, forms>>

\* The accounts of the shop that is edited: the links go, then the new ones come.
UnlinkAccounts ==
    /\ request.op \in {"create", "update"} /\ request.doomed = {} /\ request.todo = {} /\ request.step = "links"
    /\ request.dto.accounts # Unset
    /\ accounts' = accounts \ {request.dto.at} /\ request' = [request EXCEPT !.step = "accounts"]
    /\ UNCHANGED <<user, link, employed, given, meant, died, forms>>

Finish ==
    /\ request.op \in {"create", "update"} /\ request.doomed = {} /\ request.todo = {}
    /\ request.step = "accounts" \/ request.dto.accounts = Unset
    /\ accounts' = IF request.dto.accounts = TRUE THEN accounts \cup {request.dto.at} ELSE accounts
    /\ LET dto == request.dto
           wanted == (IF dto.shops = Unset THEN {} ELSE dto.shops) \cup (IF dto.at = Unset THEN {} ELSE {dto.at})
       IN meant' = IF request.op = "create" THEN wanted
                   ELSE IF dto.shops = Unset THEN meant \cup (IF dto.role # Unset \/ dto.levels # Unset \/ dto.flag # Unset THEN {dto.at} ELSE {})
                   ELSE IF Anewed THEN dto.shops ELSE (meant \ Managed) \cup dto.shops
    /\ died' = (died /\ ~Anewed) /\ request' = Still
    /\ UNCHANGED <<user, link, employed, given, forms>>

\* Statement by statement: accounts, memberships, employee, and the user at last.
RemoveUser ==
    /\ request = Still /\ forms < MaxEdits /\ forms' = forms + 1 /\ user.state = "active"
    /\ request' = [Still EXCEPT !.op = "remove", !.step = "accounts"]
    /\ UNCHANGED <<user, link, accounts, employed, given, meant, died>>
Removing ==
    /\ request.op = "remove"
    /\ CASE request.step = "accounts" -> /\ accounts' = {} /\ request' = [request EXCEPT !.step = "links"]
                                         /\ UNCHANGED <<user, link, employed, meant>>
         [] request.step = "links"    -> /\ link' = [s \in Shops |-> NoLink] /\ meant' = {} /\ request' = [request EXCEPT !.step = "employee"]
                                         /\ UNCHANGED <<user, accounts, employed>>
         [] request.step = "employee" -> /\ employed' = FALSE /\ request' = [request EXCEPT !.step = "user"]
                                         /\ UNCHANGED <<user, link, accounts, meant>>
         [] request.step = "user"     -> /\ user' = [user EXCEPT !.state = "removed"] /\ request' = Still
                                         /\ UNCHANGED <<link, accounts, employed, meant>>
    /\ UNCHANGED <<given, died, forms>>

\* A preference of the user in one shop: muted notifications, menu, monitor of the salon.
Prefer ==
    /\ request = Still /\ user.state = "active"
    /\ \E s \in Shops, b \in BOOLEAN : Member(s) /\ link' = [link EXCEPT ![s].own = b]
    /\ UNCHANGED <<user, accounts, employed, request, given, meant, died, forms>>

Employ ==
    /\ request = Still /\ user.state = "active" /\ ~employed /\ employed' = TRUE
    /\ UNCHANGED <<user, link, accounts, request, given, meant, died, forms>>

RequestDies ==
    /\ request # Still /\ request' = Still /\ died' = TRUE
    /\ UNCHANGED <<user, link, accounts, employed, given, meant, forms>>

MembersNext == CreateUser \/ UpdateUser \/ Unlink \/ Write \/ UnlinkAccounts \/ Finish \/ RemoveUser \/ Removing \/ Prefer \/ Employ \/ RequestDies
MembersSpec == MembersInit /\ [][MembersNext]_memberVars
-----------------------------------------------------------------------------
(* Properties                                                                 *)

MembersTypeOK ==
    /\ user \in [state : {"absent", "active", "removed"}, role : UserRoles \cup {Unset}]
    /\ link \in [Shops -> [role : UserRoles \cup {Unset}, levels : UserRoles \cup {"own", Unset}, flag : BOOLEAN, own : BOOLEAN]]
    /\ accounts \subseteq Shops /\ employed \in BOOLEAN /\ meant \subseteq Shops /\ given \in [Shops -> BOOLEAN]

\* A flag of a membership is the one last chosen for it, whoever made the membership anew.
FlagIsLastGiven == \A s \in Shops : Member(s) => link[s].flag = given[s]
\* Unless a request died, the user belongs to the shops that were meant.
BelongsAsMeant == request = Still /\ ~died => {s \in Shops : Member(s)} = meant
\* Nothing points at a removed user.
RemovedIsDetached == user.state = "removed" => (\A s \in Shops : ~Member(s)) /\ accounts = {} /\ ~employed
MembersInOrder == FlagIsLastGiven /\ BelongsAsMeant /\ RemovedIsDetached
=============================================================================
