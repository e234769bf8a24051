------------------------------- MODULE Inbox --------------------------------
(***************************************************************************)
(* Who is told what happens in a shop, and by which channel: the rows of the  *)
(* inbox, the pushes to the devices a user subscribed, and the mails.           *)
(***************************************************************************)
EXTENDS Naturals, FiniteSets

CONSTANTS
    Users, Shops, Devices,
    Kinds,      \* what may be told, among "created", "edited", "assigned", "order" and the duties
    Persons,    \* the users there may be at the start
    Links,      \* and their memberships
    Handed,     \* who has subscribed each device before
    MaxTold, MaxEdits,
    None

VARIABLES
    person,     \* users: [role, on, reachable], the role the one in every shop
    link,       \* memberships: None or [admin, duties, app, email], the last two what is muted
    inbox,      \* rows: [event, user, shop, kind, read, seen]
    news,       \* what is being told: [kind, shop, to, save, mail, push]
    flying,     \* pushes on their way: <<device, user>>
    letters,    \* mails that were sent: <<event, user>>
    device,     \* the user whose subscription the row of a device holds, or None
    holder,     \* who subscribed it last and did not take it back
    dead,       \* devices whose address the push service has given up
    touches

inboxVars == <<person, link, inbox, news, flying, letters, device, holder, dead, touches>>

\* A member who keeps the stock, the reservations, the attendance or the shortages.
Duties == {"stock", "reservation", "attendance", "shortage"}
ByRole == {"created", "order"} \cup Duties
Member(s)     == {u \in Users : link[u, s] # None}
Owners        == {u \in Users : person[u].role = "owner" /\ person[u].on}
ShopAdmins(s) == {u \in Member(s) : link[u, s].admin}

\* Closings, payments, movements, pickups, hours and refunds are told to the
\* administrators, whether or not they are still active, and to the owners.
ToldCreated(s) == ShopAdmins(s) \cup Owners
\* Those to choose from when something is edited or removed.
Recipients(s)  == {u \in Member(s) : person[u].on} \cup Owners
ToldEdited(s, admins, chosen) ==
    Recipients(s) \cap (chosen \cup (IF admins THEN ShopAdmins(s) \cup Owners ELSE {}))
MayReceiveEvenIdle(u, s) == person[u].on
MayReceiveOrders(u, s)   == person[u].role \in {"owner", "admin"} \/ link[u, s].admin \/ "order" \in link[u, s].duties
ToldOrder(s)   == {u \in Member(s) : person[u].on /\ MayReceiveOrders(u, s)}
Keeping(d, s)  == {u \in Member(s) : d \in link[u, s].duties}
ToldStock(s)   == Keeping("stock", s)
ToldPunch(s)   == Keeping("attendance", s)
ToldPetition(s) == Keeping("reservation", s)
ToldShortage(s, actor) == Keeping("shortage", s) \ {actor}
\* Who has to validate a payment or to pay it is told again on demand.
ToldAssigned(chosen)   == chosen
\* Who acts is not told, but for orders, stock, petitions and attendance.
Told(k, s, actor, admins, chosen) ==
    CASE k = "created"  -> ToldCreated(s) \ {actor}
      [] k = "edited"   -> ToldEdited(s, admins, chosen) \ {actor}
      [] k = "assigned" -> ToldAssigned(chosen)
      [] k = "order"    -> ToldOrder(s)
      [] k = "shortage" -> ToldShortage(s, actor)
      [] k = "stock"    -> ToldStock(s)
      [] k = "attendance"  -> ToldPunch(s)
      [] k = "reservation" -> ToldPetition(s)
\* What a member finds to mute among the preferences.
Eligible(u, s) ==
    UNION {IF person[u].role = "owner" \/ link[u, s].admin THEN {"created", "edited", "assigned"} ELSE {},
           IF person[u].role \in {"owner", "admin"} \/ link[u, s].admin \/ "order" \in link[u, s].duties THEN {"order"} ELSE {}, link[u, s].duties \ {"order"}}

Muted(u, s, k, channel) ==
    u \in Member(s) /\ k \in (IF channel = "app" THEN link[u, s].app ELSE link[u, s].email)

Init ==
    /\ person \in Persons /\ link \in Links
    /\ inbox = {} /\ news = <<>> /\ flying = {} /\ letters = {}
    /\ device \in Handed /\ holder = device /\ dead = {} /\ touches = 0

Touch == touches < MaxEdits /\ touches' = touches + 1

Tell(k, s, actor, admins, chosen) ==
    /\ Cardinality(DOMAIN news) < MaxTold
    /\ LET to == {u \in Told(k, s, actor, admins, chosen) : person[u].reachable}
       IN  /\ to # {}
           /\ news' = [e \in DOMAIN news \cup {Cardinality(DOMAIN news) + 1} |->
                          IF e \in DOMAIN news THEN news[e]
                          ELSE [kind |-> k, shop |-> s, to |-> to, save |-> {}, mail |-> {}, push |-> {}]]
    /\ UNCHANGED <<person, link, inbox, flying, letters, device, holder, dead, touches>>

\* The preferences of each recipient are looked up, one after the other.
Ask(e, u) ==
    /\ u \in news[e].to
    /\ LET n == news[e] IN
       news' = [news EXCEPT ![e].to = @ \ {u},
                            ![e].save = IF Muted(u, n.shop, n.kind, "app") THEN @ ELSE @ \cup {u},
                            ![e].mail = IF Muted(u, n.shop, n.kind, "email") THEN @ ELSE @ \cup {u}]
    /\ UNCHANGED <<person, link, inbox, flying, letters, device, holder, dead, touches>>
Save(e) ==
    /\ news[e].to = {} /\ news[e].save # {}
    /\ inbox' = inbox \cup {[event |-> e, user |-> u, shop |-> news[e].shop, kind |-> news[e].kind, read |-> FALSE, seen |-> FALSE] :
                               u \in news[e].save}
    /\ news' = [news EXCEPT ![e].save = {}, ![e].push = news[e].save]
    /\ UNCHANGED <<person, link, flying, letters, device, holder, dead, touches>>

\* Nobody waits for the pushes nor for the mails.
Push(e, u) ==
    /\ u \in news[e].push
    /\ news' = [news EXCEPT ![e].push = @ \ {u}]
    /\ flying' = flying \cup {<<d, u>> : d \in {x \in Devices : device[x] = u}}
    /\ UNCHANGED <<person, link, inbox, letters, device, holder, dead, touches>>
\* The row of a device that is gone is removed, whoever holds it by then.
Deliver(f) ==
    /\ f \in flying /\ flying' = flying \ {f}
    /\ device' = IF f[1] \in dead THEN [device EXCEPT ![f[1]] = None] ELSE device
    /\ UNCHANGED <<person, link, inbox, news, letters, holder, dead, touches>>
\* The shop may have mails off, or this kind, or not for this user.
Mailed(u, allowed) == allowed /\ person[u].on
Mail(e, u, allowed) ==
    /\ news[e].to = {} /\ news[e].save = {} /\ u \in news[e].mail
    /\ news' = [news EXCEPT ![e].mail = @ \ {u}]
    /\ letters' = IF Mailed(u, allowed) THEN letters \cup {<<e, u>>} ELSE letters
    /\ UNCHANGED <<person, link, inbox, flying, device, holder, dead, touches>>

Mine(u, s)   == {r \in inbox : r.user = u /\ (s = None \/ r.shop = s)}
Unread(u, s) == {r \in Mine(u, s) : ~r.read}
Unseen(u, s) == {r \in Mine(u, s) : ~r.seen}
Rewrite(old, F(_)) == inbox' = (inbox \ old) \cup {F(r) : r \in old}
Opened(r)      == [r EXCEPT !.read = TRUE, !.seen = TRUE]
Glanced(r)     == [r EXCEPT !.seen = TRUE]
Reading == Touch /\ UNCHANGED <<person, link, news, flying, letters, device, holder, dead>>
MarkRead(u, r)    == Reading /\ r \in Mine(u, None) /\ Rewrite({r}, Opened)
MarkAllRead(u, s) == Reading /\ Unread(u, s) # {} /\ Rewrite(Unread(u, s), Opened)
MarkSeen(u, s)    == Reading /\ Unseen(u, s) # {} /\ Rewrite(Unseen(u, s), Glanced)

\* A device is subscribed by whoever opens the app on it, and its row is one.
Subscribe(u, d) ==
    /\ Touch /\ d \notin dead
    /\ device' = [device EXCEPT ![d] = u] /\ holder' = [holder EXCEPT ![d] = u]
    /\ UNCHANGED <<person, link, inbox, news, flying, letters, dead>>
Unsubscribe(u, d) ==
    /\ Touch
    /\ device' = IF device[d] = u THEN [device EXCEPT ![d] = None] ELSE device
    /\ holder' = IF holder[d] = u THEN [holder EXCEPT ![d] = None] ELSE holder
    /\ UNCHANGED <<person, link, inbox, news, flying, letters, dead>>
Expire(d) ==
    /\ Touch /\ d \notin dead /\ dead' = dead \cup {d}
    /\ UNCHANGED <<person, link, inbox, news, flying, letters, device, holder>>

Mute(u, s, app, email) ==
    /\ Touch /\ u \in Member(s)
    /\ link' = [link EXCEPT ![u, s].app = app, ![u, s].email = email]
    /\ UNCHANGED <<person, inbox, news, flying, letters, device, holder, dead>>
Leave(u, s) ==
    /\ Touch /\ u \in Member(s) /\ link' = [link EXCEPT ![u, s] = None]
    /\ UNCHANGED <<person, inbox, news, flying, letters, device, holder, dead>>
Deactivate(u) ==
    /\ Touch /\ person[u].on /\ person' = [person EXCEPT ![u].on = FALSE]
    /\ UNCHANGED <<link, inbox, news, flying, letters, device, holder, dead>>

Next ==
    \/ \E k \in Kinds, s \in Shops, actor \in Users, admins \in BOOLEAN, chosen \in {{}} \cup {{u} : u \in Users} :
          Tell(k, s, actor, admins, chosen)
    \/ \E e \in DOMAIN news : Save(e) \/ \E u \in Users : Ask(e, u) \/ Push(e, u) \/ \E allowed \in BOOLEAN : Mail(e, u, allowed)
    \/ \E f \in flying : Deliver(f)
    \/ \E u \in Users : Deactivate(u) \/ \E r \in inbox : MarkRead(u, r)
    \/ \E u \in Users, s \in Shops \cup {None} : MarkAllRead(u, s) \/ MarkSeen(u, s)
    \/ \E u \in Users, d \in Devices : Subscribe(u, d) \/ Unsubscribe(u, d)
    \/ \E d \in Devices : Expire(d)
    \/ \E u \in Users, s \in Shops : Leave(u, s) \/ \E k \in Kinds : Mute(u, s, {k}, {}) \/ Mute(u, s, {}, {k})

\* The badge never counts what was read already: opening a row also takes it off the badge.
BadgeCountsUnread == \A u \in Users, s \in Shops \cup {None} : Unseen(u, s) \subseteq Unread(u, s)
\* What eight services tell a member because of his role or his duties is among what he may
\* mute in his preferences.
MayMuteWhatIsTold ==
    \A s \in Shops, k \in ByRole : \A u \in Told(k, s, None, TRUE, {}) \cap Member(s) : k \in Eligible(u, s)
\* The pushes of a live device go to whoever subscribed it last and did not take it back,
\* whatever an earlier holder does late.
DeviceFollowsHolder == \A d \in Devices \ dead : device[d] = holder[d]
\* The three together.
InboxInOrder == BadgeCountsUnread /\ MayMuteWhatIsTold /\ DeviceFollowsHolder
=============================================================================
