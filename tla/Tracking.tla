------------------------------ MODULE Tracking ------------------------------
(***************************************************************************)
(* Live tracking of one booking (apps/tracking): the staff member's phone  *)
(* sends its position over a WebSocket, the consumer stores it, estimates  *)
(* when the car will be reached and broadcasts both to the booking's       *)
(* group; who has no socket asks for the last known position over HTTP.    *)
(*                                                                         *)
(* A consumer handles one message at a time, but its handlers await the    *)
(* database, the Maps service and the channel layer, and at every await    *)
(* the other consumers of the booking go on.  The estimate is cached for   *)
(* all of them.                                                            *)
(***************************************************************************)
EXTENDS Integers, Sequences, FiniteSets

CONSTANTS
    Conn,       \* WebSocket connections
    UserOf,     \* UserOf[c]: the user of connection c's token
    Owner,      \* the customer who made the booking
    Staff,      \* users with role "staff"
    Admin,      \* users with role "admin"
    Lifetime,   \* how long an estimate is cached (the code's 60 s)
    Patience,   \* how long a ping waits at most for the database and Maps
                \* (the code gives Maps 3 s)
    Room,       \* capacity of a channel in the channel layer
    NoEta,      \* there is no estimate
    LastMoment, \* bound: the time the model ends
    MaxPings,   \* bound: pings the phones send
    MaxMoves    \* bound: connections made and changes of the booking

Moment == 0 .. LastMoment

ASSUME TrackingAssumption ==
    /\ UserOf \in [Conn -> {Owner} \cup Staff \cup Admin]
    /\ {Patience, Room, LastMoment, MaxPings, MaxMoves} \subseteq Nat
    /\ Lifetime \in Nat \ {0}
    /\ NoEta \notin Nat

VARIABLES
    now,      \* the time
    there,    \* the Booking row exists
    assigned, \* the booking's assigned_staff column
    located,  \* the booking's destination has coordinates
    conn,     \* conn[c]: how far connection c is
    group,    \* connections in the group booking_<id>
    inbox,    \* inbox[c]: messages of the channel layer waiting for c
    hand,     \* hand[c]: the ping the consumer of c is handling
    stored,   \* the moments recorded_at of the TrackingPing rows
    cache,    \* the cached estimate, and when it was cached
    shown,    \* shown[c]: the ping c's client was sent last, if any
    pings,    \* pings sent so far
    moves     \* connections and changes of the booking so far

worldVars == <<there, assigned, located, moves>>
vars == <<now, worldVars, conn, group, inbox, hand, stored, cache, shown, pings>>

-----------------------------------------------------------------------------

(* A broadcast: when the position was taken, and the moment the position was
   taken from which the estimate was computed. *)
Message == [at : Moment, eta : Moment \cup {NoEta}]

(* What the consumer of a connection is doing with a ping. *)
Hand == [pc : {"idle", "store", "eta", "fetch", "send"},
         at : Moment, eta : Moment \cup {NoEta}, near : BOOLEAN]

Idle == [pc |-> "idle", at |-> 0, eta |-> NoEta, near |-> FALSE]

Nothing == [eta |-> NoEta, since |-> 0]

Init ==
    /\ now = 0
    /\ there = TRUE
    /\ assigned \in Staff
    /\ located = TRUE
    /\ conn = [c \in Conn |-> "closed"]
    /\ group = {}
    /\ inbox = [c \in Conn |-> <<>>]
    /\ hand = [c \in Conn |-> Idle]
    /\ stored = {}
    /\ cache = Nothing
    /\ shown = [c \in Conn |-> {}]
    /\ pings = 0
    /\ moves = 0

(* Time does not run away from a handler: Maps is given up after its timeout
   and the database answers. *)
Tick ==
    /\ now < LastMoment
    /\ \A c \in Conn : hand[c].pc \in {"store", "eta", "fetch"} => now - hand[c].at < Patience
    /\ now' = now + 1
    /\ UNCHANGED <<worldVars, conn, group, inbox, hand, stored, cache, shown, pings>>

(* The booking is assigned to another staff member. *)
Reassign(m) ==
    /\ moves < MaxMoves
    /\ m # assigned
    /\ assigned' = m
    /\ moves' = moves + 1
    /\ UNCHANGED <<now, there, located, conn, group, inbox, hand, stored, cache, shown, pings>>

(* The coordinates of the booking are removed or entered. *)
Relocate ==
    /\ moves < MaxMoves
    /\ located' = ~located
    /\ moves' = moves + 1
    /\ UNCHANGED <<now, there, assigned, conn, group, inbox, hand, stored, cache, shown, pings>>

(* The booking is deleted in the admin site, and its TrackingPing rows with it
   (on_delete=CASCADE); who has a connection keeps it. *)
Remove ==
    /\ there
    /\ moves < MaxMoves
    /\ there' = FALSE
    /\ stored' = {}
    /\ moves' = moves + 1
    /\ UNCHANGED <<now, assigned, located, conn, group, inbox, hand, cache, shown, pings>>

-----------------------------------------------------------------------------
(* connect and disconnect *)

HasPermission(c) == there /\ UserOf[c] \in Admin \cup {Owner, assigned}

(* The permission is checked once; the next await adds the channel. *)
Connect(c) ==
    /\ conn[c] = "closed"
    /\ moves < MaxMoves
    /\ HasPermission(c)
    /\ conn' = [conn EXCEPT ![c] = "checked"]
    /\ moves' = moves + 1
    /\ UNCHANGED <<now, there, assigned, located, group, inbox, hand, stored, cache, shown, pings>>

Accept(c) ==
    /\ conn[c] = "checked"
    /\ conn' = [conn EXCEPT ![c] = "open"]
    /\ group' = group \cup {c}
    /\ UNCHANGED <<now, worldVars, inbox, hand, stored, cache, shown, pings>>

(* The client leaves, or the server process dies with what it was doing. *)
Disconnect(c) ==
    /\ conn[c] # "closed"
    /\ conn' = [conn EXCEPT ![c] = "closed"]
    /\ group' = group \ {c}
    /\ inbox' = [inbox EXCEPT ![c] = <<>>]
    /\ hand' = [hand EXCEPT ![c] = Idle]
    /\ shown' = [shown EXCEPT ![c] = {}]
    /\ UNCHANGED <<now, worldVars, stored, cache, pings>>

-----------------------------------------------------------------------------
(* _handle_ping *)

(* Only staff and admins send pings.  recorded_at is taken and the
   destination looked up. *)
BeginPing(c) ==
    /\ conn[c] = "open"
    /\ hand[c].pc = "idle"
    /\ UserOf[c] \in Staff \cup Admin
    /\ pings < MaxPings
    /\ pings' = pings + 1
    /\ hand' = [hand EXCEPT ![c] =
                [Idle EXCEPT !.pc = "store", !.at = now, !.near = there /\ located]]
    /\ UNCHANGED <<now, worldVars, conn, group, inbox, stored, cache, shown>>

WithPing(c) == stored \cup {hand[c].at}

(* _store_ping stores nothing without a booking, and the ping goes on; without
   a destination there is no estimate. *)
StorePing(c) ==
    /\ hand[c].pc = "store"
    /\ stored' = IF there THEN WithPing(c) ELSE stored
    /\ hand' = [hand EXCEPT ![c].pc = IF hand[c].near THEN "eta" ELSE "send"]
    /\ UNCHANGED <<now, worldVars, conn, group, inbox, cache, shown, pings>>

CacheHit == cache.eta # NoEta /\ now - cache.since < Lifetime

(* Mutant: the estimate is put back into the cache whenever it is used. *)
CacheRenewed == [cache EXCEPT !.since = now]

CacheKept == cache

(* A cached estimate is taken as it is: whoever's position it was computed
   from, however far the car has come since. *)
UseCache(c) ==
    /\ hand[c].pc = "eta"
    /\ CacheHit
    /\ hand' = [hand EXCEPT ![c].pc = "send", ![c].eta = cache.eta]
    /\ cache' = CacheKept
    /\ UNCHANGED <<now, worldVars, conn, group, inbox, stored, shown, pings>>

(* Without MAPS_API_KEY: the straight line divided by 40 km/h.  Which of the
   two it is depends on the settings; the model has both. *)
StraightLine(c) ==
    /\ hand[c].pc = "eta"
    /\ ~CacheHit
    /\ hand' = [hand EXCEPT ![c].pc = "send", ![c].eta = hand[c].at]
    /\ cache' = [eta |-> hand[c].at, since |-> now]
    /\ UNCHANGED <<now, worldVars, conn, group, inbox, stored, shown, pings>>

AskMaps(c) ==
    /\ hand[c].pc = "eta"
    /\ ~CacheHit
    /\ hand' = [hand EXCEPT ![c].pc = "fetch"]
    /\ UNCHANGED <<now, worldVars, conn, group, inbox, stored, cache, shown, pings>>

(* Maps answers; the answer is cached although another consumer may have
   cached a later one meanwhile. *)
MapsAnswers(c) ==
    /\ hand[c].pc = "fetch"
    /\ hand' = [hand EXCEPT ![c].pc = "send", ![c].eta = hand[c].at]
    /\ cache' = [eta |-> hand[c].at, since |-> now]
    /\ UNCHANGED <<now, worldVars, conn, group, inbox, stored, shown, pings>>

(* Maps fails or does not answer: None, and nothing is cached. *)
MapsFails(c) ==
    /\ hand[c].pc = "fetch"
    /\ hand' = [hand EXCEPT ![c].pc = "send"]
    /\ UNCHANGED <<now, worldVars, conn, group, inbox, stored, cache, shown, pings>>

Ping(c) == [at |-> hand[c].at, eta |-> hand[c].eta]

(* group_send: a channel that is full loses the message. *)
Broadcast(c) ==
    /\ hand[c].pc = "send"
    /\ inbox' = [d \in Conn |->
            IF d \in group /\ Len(inbox[d]) < Room THEN Append(inbox[d], Ping(c))
            ELSE inbox[d]]
    /\ hand' = [hand EXCEPT ![c] = Idle]
    /\ UNCHANGED <<now, worldVars, conn, group, stored, cache, shown, pings>>

(* tracking_ping: a consumer that is busy with a ping of its own relays the
   others' afterwards. *)
Relay(c) ==
    /\ hand[c].pc = "idle"
    /\ inbox[c] # <<>>
    /\ shown' = [shown EXCEPT ![c] = {Head(inbox[c])}]
    /\ inbox' = [inbox EXCEPT ![c] = Tail(@)]
    /\ UNCHANGED <<now, worldVars, conn, group, hand, stored, cache, pings>>

(* TrackView answers the owner and the staff member the booking is assigned
   to.  Nobody else, an administrator neither, though the socket shows them. *)
Answered(u) == there /\ u \in {Owner, assigned}

(* Mutant: the oldest row, the order the rows are stored in. *)
FirstKnown(u, m) == Answered(u) /\ m \in stored /\ \A n \in stored : m <= n

(* The position u is told over HTTP: the latest TrackingPing. *)
LastKnown(u, m) == Answered(u) /\ m \in stored /\ \A n \in stored : n <= m

-----------------------------------------------------------------------------

Consumer(c) ==
    \/ Connect(c)
    \/ Accept(c)
    \/ Disconnect(c)
    \/ BeginPing(c)
    \/ StorePing(c)
    \/ UseCache(c)
    \/ StraightLine(c)
    \/ AskMaps(c)
    \/ MapsAnswers(c)
    \/ MapsFails(c)
    \/ Broadcast(c)
    \/ Relay(c)

Next ==
    \/ Tick
    \/ \E m \in Staff : Reassign(m)
    \/ Relocate \/ Remove
    \/ \E c \in Conn : Consumer(c)

Spec == Init /\ [][Next]_vars

-----------------------------------------------------------------------------
(* Properties *)

(* Rows, connections and messages have their declared shape. *)
TypeOK ==
    /\ now \in Moment
    /\ assigned \in Staff /\ located \in BOOLEAN /\ there \in BOOLEAN
    /\ {pings, moves} \subseteq Nat
    /\ hand \in [Conn -> Hand]
    /\ conn \in [Conn -> {"closed", "checked", "open"}]
    /\ group \subseteq Conn
    /\ inbox \in [Conn -> Seq(Message)]
    /\ shown \in [Conn -> SUBSET Message]
    /\ stored \subseteq Moment
    /\ cache \in [eta : Moment \cup {NoEta}, since : Moment]

(* Who falls back from the socket to HTTP and is answered at all is not shown
   an older position than the socket showed: TrackView tells the customer and
   the staff member of the booking a position at least as late as any their
   clients were sent, however the consumers interleave, whichever of them died
   on the way, and whoever the booking was assigned to meanwhile. *)
HttpKeepsUp ==
    \A c \in Conn : \A ping \in shown[c] :
        Answered(UserOf[c]) => \E m \in Moment : LastKnown(UserOf[c], m) /\ m >= ping.at

(* The estimate that goes out with a ping is not older than a cached one may
   be: a ping handled at once carries an estimate computed no longer ago
   than the lifetime of the cache and the time Maps was waited for. *)
EstimateIsRecent ==
    \A c \in Conn :
        hand[c].pc = "send" /\ hand[c].eta # NoEta
            => hand[c].at - hand[c].eta < Lifetime + Patience

=============================================================================
