--------------------------- MODULE Reimbursements ---------------------------
(***************************************************************************)
(* What producers spend out of their pocket and get back.  A reimbursement is  *)
(* loaded, checked and written later.  pay writes with one UPDATE that claims  *)
(* a pending row; the others save() the entity they loaded, and save() writes  *)
(* back every column that differs from the row, the status included.           *)
(***************************************************************************)
EXTENDS Naturals

CONSTANTS
    Callers,    \* requests running at once
    AtOnce,     \* operations that may overlap
    OneByOne,   \* operations asked for when nothing else runs
    MaxClaims   \* bound: rows of the table reimbursements

VARIABLES
    claim,      \* the table reimbursements
    asked,      \* what each request is doing and the row it loaded
    handed      \* how often the money of a row was given: ghost, see PaidOnce

claimVars == <<claim, asked, handed>>

Claims    == 1..MaxClaims
ClaimRow  == [exists : BOOLEAN, active : BOOLEAN, status : {"PENDING", "PAID", "CANCELLED"}]
NoClaim   == [exists |-> FALSE, active |-> FALSE, status |-> "PENDING"]
NotAsking == [op |-> "none", id |-> 0, row |-> NoClaim]

ClaimInit ==
    /\ claim = [i \in Claims |-> NoClaim]
    /\ asked = [p \in Callers |-> NotAsking]
    /\ handed = [i \in Claims |-> 0]

MayClaim(p, op) ==
    /\ asked[p] = NotAsking /\ op \in AtOnce \cup OneByOne
    /\ \A q \in Callers : asked[q] = NotAsking \/ (op \in AtOnce /\ asked[q].op \in AtOnce)

CreateMine(p, i) ==
    /\ MayClaim(p, "create") /\ ~claim[i].exists
    /\ claim' = [claim EXCEPT ![i] = [exists |-> TRUE, active |-> TRUE, status |-> "PENDING"]]
    /\ UNCHANGED <<asked, handed>>

\* updateMine, removeMine, pay and cancel refuse what is not active and pending.
LoadClaim(p, op, i) ==
    /\ MayClaim(p, op) /\ claim[i].active /\ claim[i].status = "PENDING"
    /\ asked' = [asked EXCEPT ![p] = [op |-> op, id |-> i, row |-> claim[i]]]
    /\ UNCHANGED <<claim, handed>>

\* Mutant: the UPDATE trusts what was loaded.
ClaimedAsLoaded(i) == TRUE
\* The conditions of the UPDATE.
Claimed(i)         == claim[i].active /\ claim[i].status = "PENDING"

PayClaim(p) ==
    /\ asked[p].op = "pay"
    /\ LET i == asked[p].id IN
       IF Claimed(i)
         THEN /\ claim' = [claim EXCEPT ![i].status = "PAID"]
              /\ handed' = [handed EXCEPT ![i] = @ + 1]
         ELSE UNCHANGED <<claim, handed>>
    /\ asked' = [asked EXCEPT ![p] = NotAsking]

SaveClaim(p) ==
    /\ asked[p].op \in {"update", "cancel", "remove"}
    /\ claim' = [claim EXCEPT ![asked[p].id] =
         CASE asked[p].op = "cancel" -> [asked[p].row EXCEPT !.status = "CANCELLED"]
           [] asked[p].op = "remove" -> [asked[p].row EXCEPT !.active = FALSE]
           [] OTHER                  -> asked[p].row]
    /\ asked' = [asked EXCEPT ![p] = NotAsking] /\ UNCHANGED handed

ClaimNext == \E p \in Callers :
    \/ \E i \in Claims : \/ CreateMine(p, i)
                         \/ \E op \in {"pay", "update", "cancel", "remove"} : LoadClaim(p, op, i)
    \/ PayClaim(p) \/ SaveClaim(p)

ClaimSpec == ClaimInit /\ [][ClaimNext]_claimVars
-----------------------------------------------------------------------------
\* The money of a reimbursement is given once, also when two people press the
\* button, one cancels and its owner removes it at the same time.  (An edition of
\* the owner that overlaps with a payment writes PENDING back: it is in OneByOne.)
PaidOnce == \A i \in Claims : handed[i] <= 1
=============================================================================
