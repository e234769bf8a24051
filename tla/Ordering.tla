------------------------------ MODULE Ordering ------------------------------
(***************************************************************************)
(* When and how a shop takes orders: hours of its channels, delivery zones,    *)
(* payment methods of the web and of the counter, and the register that must    *)
(* be open.  What the page of the shop announces and what an order finds are     *)
(* worked out by different code.  Weekdays and minutes are small numbers, a      *)
(* polygon is the set of points inside it; names, colours, extras and ETAs are   *)
(* left out.                                                                    *)
(***************************************************************************)
EXTENDS Integers, FiniteSets

CONSTANTS
    DayLength,    \* minutes of a day
    Week,         \* days of a week
    Hours,        \* opening hours the shop may save: None or windows of each day
    Zones,        \* sets of delivery zones it may save
    DefaultZones, \* those it starts delivery with
    Catalogs,     \* lists of payment methods it may save
    Points,       \* places on the map
    MaxEdits,     \* bound: saved settings
    None

VARIABLES
    shop,         \* row of shops
    drawer,       \* a register is open (a DRAFT closing)
    now,          \* minute of the week
    order,        \* the last order accepted
    asked,        \* methods asked for with the quick panel, until the list is edited
    edits

orderingVars == <<shop, drawer, now, order, asked, edits>>

Channels == {"TAKEAWAY", "DELIVERY"}
Kinds    == {"CASH", "TRANSFER", "CARD"}
Methods  == {"CASH", "TRANSFER"}
\* a list of payment methods is a function of their ids
Method(kind, active) == [kind |-> kind, active |-> active, channels |-> Channels]

DayOf(t)    == t \div DayLength
MinuteOf(t) == t % DayLength
-----------------------------------------------------------------------------
(* Hours                                                                      *)

\* isNowInWindow: to the same minute is the whole day, to an earlier one passes midnight.
InWindow(minute, w) ==
    CASE w.open = w.close -> TRUE
      [] w.open < w.close -> minute >= w.open /\ minute < w.close
      [] OTHER            -> minute >= w.open \/ minute < w.close

\* isOrderingChannelOpenNow: the windows of today, open when there are none for any day.
OpenNow(hours, t) == hours = None \/ \E w \in hours[DayOf(t)] : InWindow(MinuteOf(t), w)
-----------------------------------------------------------------------------
(* Payment methods                                                            *)

DefaultItems == [i \in {"op_cash", "op_transfer"} |-> Method(IF i = "op_cash" THEN "CASH" ELSE "TRANSFER", TRUE)]

\* orderingItemsFromLegacyMethods
FromMethods(methods) ==
    [i \in {"op_cash", "op_transfer"} |->
        LET kind == IF i = "op_cash" THEN "CASH" ELSE "TRANSFER"
        IN Method(kind, methods = {} \/ kind \in methods)]

\* normalizeOrderingPayments
Normalized(items, methods) == IF DOMAIN items = {} THEN FromMethods(methods) ELSE items

\* deriveOrderingMethods: a card counts as cash; a list with nothing active offers everything.
Offered(items) ==
    LET ms == {IF items[i].kind = "TRANSFER" THEN "TRANSFER" ELSE "CASH" : i \in {j \in DOMAIN items : items[j].active}}
    IN IF ms = {} THEN Methods ELSE ms

\* syncOrderingPayItemsFromMethods: the quick panel turns every method of a kind on or off, and adds the
\* default one of a kind that has none.
SyncedOnly(items, methods) ==
    [i \in DOMAIN items |-> [items[i] EXCEPT !.active = (IF items[i].kind = "TRANSFER" THEN "TRANSFER" ELSE "CASH") \in methods]]
Synced(items, methods) ==
    LET has(kind) == \E i \in DOMAIN items : (items[i].kind = "TRANSFER") = (kind = "TRANSFER")
        added == {i \in {"op_cash", "op_transfer"} :
                    LET kind == IF i = "op_cash" THEN "CASH" ELSE "TRANSFER" IN kind \in methods /\ ~has(kind)}
    IN [i \in DOMAIN items \cup added |->
          IF i \in DOMAIN items THEN SyncedOnly(items, methods)[i] ELSE DefaultItems[i]]

\* migrateOrderingPaymentsSplit, before anything reads or writes the methods: what there was goes to the
\* counter, the web starts again with the default ones.
Split(s) ==
    IF s.counter # None THEN s
    ELSE [s EXCEPT !.counter = IF s.payments = None THEN DefaultItems ELSE s.payments, !.payments = DefaultItems]

\* resolvePayCatalog
Catalog(s, counter) == IF counter THEN s.counter ELSE IF s.payments = None THEN DefaultItems ELSE s.payments
CatalogMethods(s, counter) == IF counter \/ s.payments = None THEN Methods ELSE Offered(s.payments)
-----------------------------------------------------------------------------
(* Zones                                                                      *)

Mapped(zones) == \E z \in zones : z.inside # {}
\* findZoneAtPoint: the smallest that contains it.
At(point, zones) ==
    LET hits == {z \in zones : point \in z.inside}
    IN {z \in hits : \A y \in hits : Cardinality(z.inside) <= Cardinality(y.inside)}
\* The zone a delivery is charged: the map decides when there is one, else what the customer chose.
Charged(s, point, chosen) == IF Mapped(s.zones) THEN At(point, s.zones) ELSE {z \in s.zones : z.id = chosen}
-----------------------------------------------------------------------------
(* What the page shows and what an order finds                                *)

\* buildOrderingConfig
ShownOpen(channel) ==
    /\ ~shop.closed /\ drawer
    /\ IF channel = "TAKEAWAY" THEN shop.takeaway ELSE shop.delivery /\ shop.zones # {}
    /\ OpenNow(shop.hours[channel], now)
ShownItems(counter) == {i \in DOMAIN Catalog(Split(shop), counter) : Catalog(Split(shop), counter)[i].active}

\* createOrderForShop: the channel; both callers bypass the hours.
ChannelTaken(channel, counter) ==
    CASE channel = "COUNTER"  -> counter
      [] channel = "TAKEAWAY" -> shop.takeaway
      [] channel = "DELIVERY" -> shop.delivery /\ shop.zones # {}
\* Its payment methods are those active, and on the web those of the channel.
Payable(s, channel, counter) ==
    {i \in DOMAIN Catalog(s, counter) : Catalog(s, counter)[i].active /\ (counter \/ channel \in Catalog(s, counter)[i].channels)}

Accepts(channel, counter, pay, kind, point, chosen) ==
    /\ ~counter => ~shop.closed /\ drawer
    /\ ChannelTaken(channel, counter)
    /\ IF pay # None THEN pay \in Payable(Split(shop), channel, counter)
       ELSE kind \in CatalogMethods(Split(shop), counter) \cup {"CARD"}
    /\ channel = "DELIVERY" => Charged(shop, point, chosen) # {}
-----------------------------------------------------------------------------
Init ==
    /\ shop = [closed |-> TRUE, takeaway |-> TRUE, delivery |-> FALSE, hours |-> [c \in Channels |-> None],
               zones |-> {}, payments |-> None, counter |-> None]
    /\ drawer = FALSE /\ now = 0 /\ order = None /\ asked = None /\ edits = 0

\* createPublic and createStaff: the methods are split, the order is written.
Place(channel, counter, pay, kind, point, chosen) ==
    /\ channel \in (IF counter THEN {"COUNTER", "DELIVERY"} ELSE Channels)
    /\ Accepts(channel, counter, pay, kind, point, chosen)
    /\ shop' = Split(shop)
    /\ \E z \in IF channel = "DELIVERY" THEN Charged(shop, point, chosen) ELSE {[id |-> None, fee |-> 0]} :
          order' = [channel |-> channel, counter |-> counter, zone |-> z.id, fee |-> z.fee,
                    method |-> IF pay # None THEN Catalog(Split(shop), counter)[pay].kind ELSE kind]
    /\ UNCHANGED <<drawer, now, asked, edits>>

\* openRegister opens the orders of the web, the lock of the closing closes them.
OpenDrawer  == ~drawer /\ drawer' = TRUE /\ shop' = [shop EXCEPT !.closed = FALSE] /\ UNCHANGED <<now, order, asked, edits>>
CloseDrawer == drawer /\ drawer' = FALSE /\ shop' = [shop EXCEPT !.closed = TRUE] /\ UNCHANGED <<now, order, asked, edits>>

\* update and updateOrderingCatalog split the methods and then change what they are given.
Edit(s, heard) ==
    /\ edits < MaxEdits /\ shop' = s /\ edits' = edits + 1 /\ asked' = heard /\ UNCHANGED <<drawer, now, order>>

\* applyOrderingForceClosedChange: opening needs the register.
ForceClosed(closed)   == (~closed => drawer) /\ Edit([Split(shop) EXCEPT !.closed = closed], asked)
SetTakeaway(on)       == Edit([Split(shop) EXCEPT !.takeaway = on], asked)
SetDelivery(on)       == Edit([Split(shop) EXCEPT !.delivery = on, !.zones = IF on /\ @ = {} THEN DefaultZones ELSE @], asked)
SetHours(c, hours)    == Edit([Split(shop) EXCEPT !.hours[c] = hours], asked)
SetZones(zones)       == Edit([Split(shop) EXCEPT !.zones = zones], asked)
SetCounter(items)     == Edit([Split(shop) EXCEPT !.counter = IF DOMAIN items = {} THEN DefaultItems ELSE items], asked)
\* An empty list starts again: update with every method, updateOrderingCatalog with those offered so far.
SetPayments(items)    == \E methods \in {{}, Offered(Split(shop).payments)} :
                            Edit([Split(shop) EXCEPT !.payments = Normalized(items, methods)], None)
QuickPanel(methods)   == Edit([Split(shop) EXCEPT !.payments = Normalized(Synced(@, methods), methods)], methods)

Tick == now' = (now + 1) % (DayLength * Week) /\ UNCHANGED <<shop, drawer, order, asked, edits>>

Next ==
    \/ OpenDrawer \/ CloseDrawer \/ Tick
    \/ \E on \in BOOLEAN : ForceClosed(on) \/ SetTakeaway(on) \/ SetDelivery(on)
    \/ \E c \in Channels, h \in Hours : SetHours(c, h)
    \/ \E zones \in Zones : SetZones(zones)
    \/ \E items \in Catalogs : SetCounter(items) \/ SetPayments(items)
    \/ \E methods \in SUBSET Methods : QuickPanel(methods)
    \/ \E channel \in Channels \cup {"COUNTER"}, counter \in BOOLEAN, point \in Points, chosen \in {z.id : z \in shop.zones} \cup {None} :
          \/ \E pay \in DOMAIN Catalog(Split(shop), counter) : Place(channel, counter, pay, None, point, chosen)
          \/ \E kind \in Kinds : Place(channel, counter, None, kind, point, chosen)

Spec == Init /\ [][Next]_orderingVars
-----------------------------------------------------------------------------
(* Properties                                                                 *)

\* Whoever orders by a channel the page shows open, with a method it shows for that channel, from a place
\* some zone reaches, is served; and the page leaves no channel open without a way to pay.
ShownIsServed ==
    \A channel \in Channels : ShownOpen(channel) =>
        \A i \in ShownItems(FALSE), point \in Points, z \in shop.zones \cup {[id |-> None, fee |-> 0, inside |-> {}]} :
            /\ channel \in Catalog(Split(shop), FALSE)[i].channels
            /\ channel = "DELIVERY" => IF Mapped(shop.zones) THEN \E y \in shop.zones : point \in y.inside ELSE z \in shop.zones
            => Accepts(channel, FALSE, i, "CASH", point, z.id)

\* The methods chosen in the quick panel are the ones the web offers, until the list is edited.
QuickPanelHeard == asked \notin {None, {}} => Offered(shop.payments) = asked
=============================================================================
