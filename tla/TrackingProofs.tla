--------------------------- MODULE TrackingProofs ---------------------------
(***************************************************************************)
(* Proofs about Tracking, for any connections, users, lifetime of the      *)
(* cache, patience and capacity of the channel layer.                      *)
(*                                                                         *)
(* HttpKeepsUp: a ping is stored before it is broadcast, so whatever waits *)
(* in an inbox or was shown is a stored position, and of the stored        *)
(* positions there is a latest.  EstimateIsRecent: an estimate is cached   *)
(* at most Patience after its position was taken, and used less than       *)
(* Lifetime after it was cached.                                           *)
(***************************************************************************)
EXTENDS Tracking, TLAPS

(* A message broadcast carries a position that is stored while the booking is
   there. *)
Stored(ping) == there => ping.at \in stored

(* Pings past _store_ping are stored, and so is all that was broadcast. *)
BroadcastIsStored ==
    \A c \in Conn :
        /\ there /\ hand[c].pc \in {"eta", "fetch", "send"} => hand[c].at \in stored
        /\ \A i \in 1 .. Len(inbox[c]) : Stored(inbox[c][i])
        /\ \A ping \in shown[c] : Stored(ping)

(* Of the stored positions there is a latest. *)
IsLast(m) == m \in stored /\ \A n \in stored : n <= m

OneIsLast == stored = {} \/ \E m \in Moment : IsLast(m)

(* A position is not taken in the future, and one being handled waits for
   the database and Maps for at most Patience. *)
InTime(c) ==
    /\ hand[c].at <= now
    /\ hand[c].pc \in {"store", "eta", "fetch"} => now - hand[c].at <= Patience

HandledInTime == \A c \in Conn : InTime(c)

(* The cached estimate was computed when Maps had been waited for at most. *)
CachedInTime ==
    /\ cache.since <= now
    /\ cache.eta # NoEta => cache.since - cache.eta <= Patience

(* EstimateIsRecent of one connection; none is due before it is computed. *)
Recent(c) ==
    /\ hand[c].pc \in {"store", "eta", "fetch"} => hand[c].eta = NoEta
    /\ hand[c].pc = "send" /\ hand[c].eta # NoEta
            => hand[c].at - hand[c].eta < Lifetime + Patience

HttpInv == TypeOK /\ BroadcastIsStored /\ OneIsLast

EtaInv == TypeOK /\ HandledInTime /\ CachedInTime /\ (\A c \in Conn : Recent(c))

-----------------------------------------------------------------------------
(* Types *)

LEMMA IdleType ==
    Idle \in Hand /\ Idle.pc = "idle" /\ Idle.at = 0 /\ Idle.eta = NoEta
  BY TrackingAssumption DEF Idle, Hand, Moment

LEMMA InitTypes == Init => TypeOK
  BY IdleType, TrackingAssumption DEF Init, TypeOK, Moment, Message, Nothing

(* The ping of a connection, as it is broadcast. *)
LEMMA PingType ==
    ASSUME TypeOK, NEW c \in Conn
    PROVE  Ping(c) \in Message /\ Ping(c).at = hand[c].at
  BY DEF TypeOK, Ping, Message, Hand

(* What a consumer does with an element of a sequence of messages. *)
LEMMA HeadAndTail ==
    ASSUME NEW S, NEW q \in Seq(S), q # <<>>
    PROVE  /\ Head(q) \in S /\ Tail(q) \in Seq(S)
           /\ Head(q) = q[1] /\ 1 \in 1 .. Len(q)
           /\ \A i \in 1 .. Len(Tail(q)) : i + 1 \in 1 .. Len(q) /\ Tail(q)[i] = q[i + 1]
  OBVIOUS

LEMMA Appended ==
    ASSUME NEW S, NEW q \in Seq(S), NEW x \in S
    PROVE  /\ Append(q, x) \in Seq(S)
           /\ \A i \in 1 .. Len(Append(q, x)) :
                  (i \in 1 .. Len(q) /\ Append(q, x)[i] = q[i]) \/ Append(q, x)[i] = x
  OBVIOUS

LEMMA TypeStep == TypeOK /\ [Next]_vars => TypeOK'
  <1>. SUFFICES ASSUME TypeOK, [Next]_vars PROVE TypeOK'
    OBVIOUS
  <1>. USE TrackingAssumption
  <1>1. CASE Tick
    BY <1>1 DEF Tick, TypeOK, Moment, worldVars
  <1>2. ASSUME NEW m \in Staff, Reassign(m) PROVE TypeOK'
    BY <1>2 DEF Reassign, TypeOK
  <1>3. CASE Relocate
    <2>1. located' \in BOOLEAN
      BY <1>3 DEF Relocate
    <2>2. moves' \in Nat
      BY <1>3 DEF Relocate, TypeOK
    <2>. QED
      BY <1>3, <2>1, <2>2 DEF Relocate, TypeOK
  <1>11. CASE Remove
    <2>1. there' \in BOOLEAN /\ stored' \subseteq Moment
      BY <1>11 DEF Remove
    <2>2. moves' \in Nat
      BY <1>11 DEF Remove, TypeOK
    <2>. QED
      BY <1>11, <2>1, <2>2 DEF Remove, TypeOK
  <1>4. ASSUME NEW c \in Conn, Connect(c) \/ Accept(c) PROVE TypeOK'
    <2>1. CASE Connect(c)
      BY <2>1 DEF Connect, TypeOK
    <2>2. CASE Accept(c)
      BY <2>2 DEF Accept, TypeOK, worldVars
    <2>. QED
      BY <1>4, <2>1, <2>2
  <1>5. ASSUME NEW c \in Conn, Disconnect(c) PROVE TypeOK'
    <2>1. /\ inbox' = [inbox EXCEPT ![c] = <<>>] /\ shown' = [shown EXCEPT ![c] = {}]
          /\ hand' = [hand EXCEPT ![c] = Idle] /\ conn' = [conn EXCEPT ![c] = "closed"]
          /\ group' = group \ {c} /\ UNCHANGED <<now, worldVars, stored, cache, pings>>
      BY <1>5 DEF Disconnect
    <2>2. <<>> \in Seq(Message)
      OBVIOUS
    <2>. QED
      BY <2>1, <2>2, IdleType DEF TypeOK, worldVars
  <1>6. ASSUME NEW c \in Conn, BeginPing(c) PROVE TypeOK'
    <2>. DEFINE r == [Idle EXCEPT !.pc = "store", !.at = now, !.near = there /\ located]
    <2>1. r \in Hand
      BY DEF TypeOK, Hand, Idle, Moment
    <2>2. hand' = [hand EXCEPT ![c] = r]
      BY <1>6 DEF BeginPing
    <2>. HIDE DEF r
    <2>3. hand' \in [Conn -> Hand]
      BY <2>1, <2>2 DEF TypeOK
    <2>. QED
      BY <1>6, <2>3 DEF BeginPing, TypeOK, worldVars
  <1>7. ASSUME NEW c \in Conn,
               StorePing(c) \/ UseCache(c) \/ StraightLine(c)
               \/ AskMaps(c) \/ MapsAnswers(c) \/ MapsFails(c)
        PROVE  TypeOK'
    <2>1. hand[c] \in Hand
      BY DEF TypeOK
    <2>3. hand' \in [Conn -> Hand]
      <3>1. CASE StorePing(c)
        BY <2>1, <3>1 DEF StorePing, Hand, TypeOK
      <3>2. CASE UseCache(c)
        BY <2>1, <3>2 DEF UseCache, Hand, TypeOK
      <3>3. CASE StraightLine(c)
        BY <2>1, <3>3 DEF StraightLine, Hand, TypeOK
      <3>4. CASE AskMaps(c)
        BY <2>1, <3>4 DEF AskMaps, Hand, TypeOK
      <3>5. CASE MapsAnswers(c)
        BY <2>1, <3>5 DEF MapsAnswers, Hand, TypeOK
      <3>6. CASE MapsFails(c)
        BY <2>1, <3>6 DEF MapsFails, Hand, TypeOK
      <3>. QED
        BY <1>7, <3>1, <3>2, <3>3, <3>4, <3>5, <3>6
    <2>4. stored' \subseteq Moment /\ cache' \in [eta : Moment \cup {NoEta}, since : Moment]
      BY <1>7, <2>1 DEF StorePing, WithPing, UseCache, CacheKept, StraightLine, AskMaps, MapsAnswers,
                   MapsFails, TypeOK, Hand
    <2>. QED
      BY <1>7, <2>3, <2>4 DEF StorePing, UseCache, StraightLine, AskMaps, MapsAnswers,
                              MapsFails, TypeOK, worldVars
  <1>8. ASSUME NEW c \in Conn, Broadcast(c) PROVE TypeOK'
    <2>1. inbox' \in [Conn -> Seq(Message)]
      BY <1>8, PingType, Appended DEF Broadcast, TypeOK
    <2>2. hand' \in [Conn -> Hand]
      BY <1>8, IdleType DEF Broadcast, TypeOK
    <2>. QED
      BY <1>8, <2>1, <2>2 DEF Broadcast, TypeOK, worldVars
  <1>9. ASSUME NEW c \in Conn, Relay(c) PROVE TypeOK'
    <2>1. Head(inbox[c]) \in Message /\ Tail(inbox[c]) \in Seq(Message)
      BY <1>9, HeadAndTail DEF Relay, TypeOK
    <2>. QED
      BY <1>9, <2>1 DEF Relay, TypeOK, worldVars
  <1>10. CASE UNCHANGED vars
    BY <1>10 DEF vars, worldVars, TypeOK
  <1>. QED
    BY <1>1, <1>2, <1>3, <1>4, <1>5, <1>6, <1>7, <1>8, <1>9, <1>10, <1>11 DEF Next, Consumer

-----------------------------------------------------------------------------
(* Who asks over HTTP *)

(* A position is only ever added, and the later of it and the latest before
   is the latest. *)
LEMMA LastIsKept ==
    ASSUME TypeOK, OneIsLast, NEW x \in Moment, stored' = stored \cup {x}
    PROVE  OneIsLast'
  <1>1. CASE stored = {}
    BY <1>1, TrackingAssumption DEF OneIsLast, IsLast, Moment
  <1>2. ASSUME NEW m \in Moment, IsLast(m) PROVE OneIsLast'
    <2>1. CASE x <= m
      BY <1>2, <2>1 DEF OneIsLast, IsLast
    <2>2. CASE m < x
      <3>1. stored \subseteq Int /\ m \in Int /\ x \in Int
        BY TrackingAssumption DEF TypeOK, Moment
      <3>2. \A n \in stored : n <= x
        BY <1>2, <2>2, <3>1 DEF IsLast
      <3>3. IsLast(x)'
        BY <3>1, <3>2 DEF IsLast
      <3>. QED
        BY <3>3 DEF OneIsLast
    <2>. QED
      BY <2>1, <2>2, TrackingAssumption DEF Moment
  <1>. QED
    BY <1>1, <1>2 DEF OneIsLast

(* Nothing that is broadcast loses its row. *)
LEMMA BroadcastKept ==
    ASSUME TypeOK, BroadcastIsStored, stored \subseteq stored',
           UNCHANGED <<there, hand, inbox, shown>>
    PROVE  BroadcastIsStored'
  BY DEF BroadcastIsStored, Stored

LEMMA HttpStep == HttpInv /\ [Next]_vars => HttpInv'
  <1>. SUFFICES ASSUME HttpInv, [Next]_vars PROVE BroadcastIsStored' /\ OneIsLast'
    BY TypeStep DEF HttpInv
  <1>0. TypeOK /\ BroadcastIsStored /\ OneIsLast
    BY DEF HttpInv
  <1>k. stored' = stored => OneIsLast'
    BY <1>0 DEF OneIsLast, IsLast
  <1>1. CASE Tick \/ Relocate \/ (\E m \in Staff : Reassign(m))
             \/ (\E c \in Conn : Connect(c) \/ Accept(c)) \/ UNCHANGED vars
    BY <1>0, <1>1, <1>k, BroadcastKept
       DEF Tick, Relocate, Reassign, Connect, Accept, vars, worldVars
  <1>8. CASE Remove
    BY <1>8 DEF Remove, BroadcastIsStored, Stored, OneIsLast
  <1>2. ASSUME NEW c \in Conn, Disconnect(c) PROVE BroadcastIsStored' /\ OneIsLast'
    BY <1>0, <1>2, <1>k, IdleType DEF Disconnect, BroadcastIsStored, Stored, TypeOK, worldVars
  <1>3. ASSUME NEW c \in Conn, BeginPing(c) PROVE BroadcastIsStored' /\ OneIsLast'
    BY <1>0, <1>3, <1>k DEF BeginPing, BroadcastIsStored, Stored, TypeOK, Idle, worldVars
  <1>4. ASSUME NEW c \in Conn, StorePing(c) PROVE BroadcastIsStored' /\ OneIsLast'
    <2>1. /\ hand[c].at \in Moment /\ there' = there
          /\ stored' = IF there THEN stored \cup {hand[c].at} ELSE stored
      BY <1>0, <1>4 DEF StorePing, WithPing, TypeOK, Hand, worldVars
    <2>2. hand'[c].at = hand[c].at /\ \A d \in Conn \ {c} : hand'[d] = hand[d]
      BY <1>0, <1>4 DEF StorePing, TypeOK, Hand
    <2>3. UNCHANGED <<inbox, shown>>
      BY <1>4 DEF StorePing
    <2>4. OneIsLast'
      <3>1. CASE there
        BY <1>0, <2>1, <3>1, LastIsKept
      <3>2. CASE ~there
        BY <1>k, <2>1, <3>2
      <3>. QED
        BY <3>1, <3>2
    <2>5. there => hand'[c].at \in stored' /\ stored \subseteq stored'
      BY <2>1, <2>2
    <2>6. ASSUME NEW d \in Conn, there, hand'[d].pc \in {"eta", "fetch", "send"}
          PROVE  hand'[d].at \in stored'
      BY <1>0, <2>2, <2>5, <2>6 DEF BroadcastIsStored
    <2>7. BroadcastIsStored'
      BY <1>0, <2>1, <2>3, <2>5, <2>6 DEF BroadcastIsStored, Stored
    <2>. QED
      BY <2>4, <2>7
  <1>5. ASSUME NEW c \in Conn,
               UseCache(c) \/ StraightLine(c) \/ AskMaps(c) \/ MapsAnswers(c) \/ MapsFails(c)
        PROVE  BroadcastIsStored' /\ OneIsLast'
    <2>1. hand'[c].at = hand[c].at /\ \A d \in Conn \ {c} : hand'[d] = hand[d]
      BY <1>0, <1>5 DEF UseCache, StraightLine, AskMaps, MapsAnswers, MapsFails, TypeOK, Hand
    <2>2. UNCHANGED <<there, stored, inbox, shown>> /\ hand[c].pc \in {"eta", "fetch"}
      BY <1>5 DEF UseCache, StraightLine, AskMaps, MapsAnswers, MapsFails, worldVars
    <2>. QED
      BY <1>0, <1>k, <2>1, <2>2 DEF BroadcastIsStored, Stored
  <1>6. ASSUME NEW c \in Conn, Broadcast(c) PROVE BroadcastIsStored' /\ OneIsLast'
    <2>1. UNCHANGED <<there, stored, shown>>
      BY <1>6 DEF Broadcast, worldVars
    <2>2. Ping(c) \in Message /\ Stored(Ping(c))
      BY <1>0, <1>6, PingType DEF Broadcast, BroadcastIsStored, Stored
    <2>3. \A d \in Conn : hand'[d].pc \in {"eta", "fetch", "send"} => hand'[d] = hand[d]
      BY <1>0, <1>6, IdleType DEF Broadcast, TypeOK
    <2>4. ASSUME NEW d \in Conn, NEW i \in 1 .. Len(inbox'[d]) PROVE Stored(inbox'[d][i])
      <3>1. inbox'[d] = inbox[d] \/ inbox'[d] = Append(inbox[d], Ping(c))
        BY <1>6 DEF Broadcast
      <3>2. inbox[d] \in Seq(Message)
        BY <1>0 DEF TypeOK
      <3>3. PICK q \in Seq(Message) : q = inbox[d]
        BY <3>2
      <3>4. PICK x \in Message : x = Ping(c)
        BY <2>2
      <3>5. \A j \in 1 .. Len(q) : Stored(q[j])
        BY <1>0, <3>3 DEF BroadcastIsStored
      <3>6. CASE inbox'[d] = q
        BY <2>4, <3>5, <3>6
      <3>7. CASE inbox'[d] = Append(q, x)
        BY <2>2, <2>4, <3>4, <3>5, <3>7, Appended
      <3>. QED
        BY <3>1, <3>3, <3>4, <3>6, <3>7
    <2>. QED
      BY <1>0, <1>k, <2>1, <2>3, <2>4 DEF BroadcastIsStored, Stored
  <1>7. ASSUME NEW c \in Conn, Relay(c) PROVE BroadcastIsStored' /\ OneIsLast'
    <2>1. inbox[c] \in Seq(Message) /\ inbox[c] # <<>>
      BY <1>0, <1>7 DEF Relay, TypeOK
    <2>2. /\ Stored(Head(inbox[c]))
          /\ \A i \in 1 .. Len(Tail(inbox[c])) : Stored(Tail(inbox[c])[i])
      BY <1>0, <2>1, HeadAndTail DEF BroadcastIsStored
    <2>. QED
      BY <1>0, <1>7, <1>k, <2>2 DEF Relay, BroadcastIsStored, Stored, TypeOK, worldVars
  <1>. QED
    BY <1>1, <1>2, <1>3, <1>4, <1>5, <1>6, <1>7, <1>8 DEF Next, Consumer

LEMMA HttpInvariant == Spec => []HttpInv
  <1>1. Init => HttpInv
    BY InitTypes, IdleType DEF Init, HttpInv, BroadcastIsStored, OneIsLast
  <1>. QED
    BY <1>1, HttpStep, PTL DEF Spec

-----------------------------------------------------------------------------
(* The estimate *)

LEMMA CacheStep == EtaInv /\ [Next]_vars => CachedInTime'
  <1>. SUFFICES ASSUME EtaInv, [Next]_vars PROVE CachedInTime'
    OBVIOUS
  <1>0. TypeOK /\ CachedInTime
    BY DEF EtaInv
  <1>t. /\ now \in Int /\ cache.since \in Int
        /\ \A c \in Conn : hand[c] \in Hand /\ hand[c].at \in Int
        /\ Patience \in Int
    BY <1>0, TrackingAssumption DEF TypeOK, Hand, Moment
  <1>1. CASE Tick
    BY <1>0, <1>t, <1>1 DEF Tick, CachedInTime
  <1>2. ASSUME NEW c \in Conn, StraightLine(c) \/ MapsAnswers(c) PROVE CachedInTime'
    <2>1. /\ cache' = [eta |-> hand[c].at, since |-> now] /\ now' = now
          /\ hand[c].pc \in {"eta", "fetch"}
      BY <1>2 DEF StraightLine, MapsAnswers
    <2>2. hand[c].at \in Int /\ now - hand[c].at <= Patience
      BY <1>t, <2>1 DEF EtaInv, HandledInTime, InTime
    <2>. QED
      BY <1>t, <2>1, <2>2 DEF CachedInTime
  <1>3. CASE UNCHANGED <<now, cache>>
    BY <1>0, <1>3 DEF CachedInTime
  <1>4. ASSUME NEW c \in Conn, Consumer(c) PROVE CachedInTime'
    BY <1>2, <1>3, <1>4 DEF Consumer, Connect, Accept, Disconnect, BeginPing, StorePing,
       UseCache, CacheKept, AskMaps, MapsFails, Broadcast, Relay, worldVars
  <1>. QED
    BY <1>1, <1>3, <1>4 DEF Next, Relocate, Remove, Reassign, vars

LEMMA EtaStep == EtaInv /\ [Next]_vars => EtaInv'
  <1>. SUFFICES ASSUME EtaInv, [Next]_vars, NEW d \in Conn
                PROVE  InTime(d)' /\ Recent(d)'
    BY TypeStep, CacheStep DEF EtaInv, HandledInTime
  <1>0. TypeOK /\ InTime(d) /\ CachedInTime /\ Recent(d)
    BY DEF EtaInv, HandledInTime
  <1>t. /\ now \in Int /\ 0 <= now
        /\ cache.since \in Int /\ cache.eta \in Int \cup {NoEta}
        /\ hand[d] \in Hand /\ hand[d].at \in Int /\ hand[d].eta \in Int \cup {NoEta}
        /\ Lifetime \in Int /\ Lifetime > 0 /\ Patience \in Int /\ 0 <= Patience
    BY <1>0, TrackingAssumption DEF TypeOK, Hand, Moment
  <1>s. CASE UNCHANGED <<now, cache>> /\ hand'[d] = hand[d]
    BY <1>0, <1>s DEF InTime, Recent
  <1>1. CASE Tick
    <2>1. now' = now + 1 /\ UNCHANGED <<hand, cache>>
      BY <1>1 DEF Tick
    <2>2. hand[d].pc \in {"store", "eta", "fetch"} => now - hand[d].at < Patience
      BY <1>1 DEF Tick
    <2>. QED
      BY <1>0, <1>t, <2>1, <2>2 DEF InTime, Recent
  <1>2. CASE Relocate \/ Remove \/ (\E m \in Staff : Reassign(m))
             \/ (\E c \in Conn : Connect(c) \/ Accept(c) \/ Relay(c)) \/ UNCHANGED vars
    BY <1>s, <1>2 DEF Relocate, Remove, Reassign, Connect, Accept, Relay, vars, worldVars
  <1>3. ASSUME NEW c \in Conn, Disconnect(c) \/ Broadcast(c)
        PROVE  InTime(d)' /\ Recent(d)'
    <2>1. UNCHANGED <<now, cache>> /\ (hand'[d] = hand[d] \/ hand'[d] = Idle)
      BY <1>0, <1>3 DEF Disconnect, Broadcast, TypeOK
    <2>. QED
      BY <1>0, <1>s, <1>t, <2>1, IdleType DEF InTime, Recent
  <1>4. ASSUME NEW c \in Conn, BeginPing(c)
        PROVE  InTime(d)' /\ Recent(d)'
    <2>1. UNCHANGED <<now, cache>>
      BY <1>4 DEF BeginPing
    <2>2. \/ hand'[d] = hand[d]
          \/ hand'[d].at = now /\ hand'[d].pc = "store" /\ hand'[d].eta = NoEta
      BY <1>0, <1>4 DEF BeginPing, TypeOK, Idle
    <2>. QED
      BY <1>0, <1>s, <1>t, <2>1, <2>2 DEF InTime, Recent
  <1>5. ASSUME NEW c \in Conn, StorePing(c) \/ AskMaps(c) \/ MapsFails(c)
        PROVE  InTime(d)' /\ Recent(d)'
    <2>1. UNCHANGED <<now, cache>>
      BY <1>5 DEF StorePing, AskMaps, MapsFails
    <2>2. \/ hand'[d] = hand[d]
          \/ /\ hand'[d].at = hand[d].at
             /\ hand[d].pc \in {"store", "eta", "fetch"}
             /\ hand'[d].eta = NoEta
      <3>1. hand[c].pc \in {"store", "eta", "fetch"}
        BY <1>5 DEF StorePing, AskMaps, MapsFails
      <3>2. CASE c = d
        BY <1>0, <1>t, <1>5, <3>1, <3>2 DEF StorePing, AskMaps, MapsFails, TypeOK, Hand, Recent
      <3>. QED
        BY <1>0, <1>5, <3>2 DEF StorePing, AskMaps, MapsFails, TypeOK
    <2>. QED
      BY <1>0, <1>s, <1>t, <2>1, <2>2 DEF InTime, Recent
  <1>6. ASSUME NEW c \in Conn, UseCache(c)
        PROVE  InTime(d)' /\ Recent(d)'
    <2>1. UNCHANGED <<now, cache>> /\ cache.eta # NoEta /\ now - cache.since < Lifetime
      BY <1>6 DEF UseCache, CacheKept, CacheHit
    <2>2. \/ hand'[d] = hand[d]
          \/ hand'[d].at = hand[d].at /\ hand'[d].eta = cache.eta /\ hand'[d].pc = "send"
      BY <1>0, <1>t, <1>6 DEF UseCache, TypeOK, Hand
    <2>3. hand[d].at - cache.eta < Lifetime + Patience
      BY <1>0, <1>t, <2>1 DEF InTime, CachedInTime
    <2>. QED
      BY <1>0, <1>s, <1>t, <2>1, <2>2, <2>3 DEF InTime, Recent
  <1>7. ASSUME NEW c \in Conn, StraightLine(c) \/ MapsAnswers(c)
        PROVE  InTime(d)' /\ Recent(d)'
    <2>1. /\ cache' = [eta |-> hand[c].at, since |-> now] /\ now' = now
          /\ hand[c].pc \in {"eta", "fetch"}
      BY <1>7 DEF StraightLine, MapsAnswers
    <2>2. \/ hand'[d] = hand[d]
          \/ /\ hand'[d].at = hand[d].at /\ hand'[d].eta = hand[d].at
             /\ hand'[d].pc = "send"
      BY <1>0, <1>t, <1>7 DEF StraightLine, MapsAnswers, TypeOK, Hand
    <2>. QED
      BY <1>0, <1>t, <2>1, <2>2 DEF InTime, Recent
  <1>. QED
    BY <1>1, <1>2, <1>3, <1>4, <1>5, <1>6, <1>7 DEF Next, Consumer

LEMMA EtaInvariant == Spec => []EtaInv
  <1>1. Init => EtaInv
    BY InitTypes, IdleType, TrackingAssumption
       DEF Init, EtaInv, HandledInTime, InTime, CachedInTime, Recent, Nothing
  <1>. QED
    BY <1>1, EtaStep, PTL DEF Spec

-----------------------------------------------------------------------------

(* Positions, messages and what the consumers do keep their types. *)
THEOREM TypeCorrect == Spec => []TypeOK
  BY HttpInvariant, PTL DEF HttpInv

(* Over HTTP the customer and the staff member of a booking are told a position
   at least as late as any a socket showed them, for any number of consumers,
   however they interleave or die. *)
THEOREM HttpIsNotBehind == Spec => []HttpKeepsUp
  <1>1. ASSUME HttpInv, NEW c \in Conn, NEW ping \in shown[c], Answered(UserOf[c])
        PROVE  \E m \in Moment : LastKnown(UserOf[c], m) /\ m >= ping.at
    <2>1. ping.at \in stored
      BY <1>1 DEF HttpInv, BroadcastIsStored, Stored, Answered
    <2>2. PICK m \in Moment : IsLast(m)
      BY <1>1, <2>1 DEF HttpInv, OneIsLast
    <2>. QED
      BY <1>1, <2>1, <2>2, TrackingAssumption
         DEF HttpInv, TypeOK, IsLast, LastKnown, Moment
  <1>2. HttpInv => HttpKeepsUp
    BY <1>1 DEF HttpKeepsUp
  <1>. QED
    BY <1>2, HttpInvariant, PTL

(* An estimate that goes out with a ping was computed less than the lifetime
   of the cache and the wait for Maps before it, whoever computed it. *)
THEOREM RecentEstimates == Spec => []EstimateIsRecent
  <1>1. EtaInv => EstimateIsRecent
    BY DEF EtaInv, Recent, EstimateIsRecent
  <1>. QED
    BY <1>1, EtaInvariant, PTL

=============================================================================
