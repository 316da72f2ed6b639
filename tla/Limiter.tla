------------------------------- MODULE Limiter -------------------------------
(***************************************************************************)
(* The login limiter as operators on its map, and the address it counts    *)
(* by.  Two counters per failed login: the e-mail tried from one address,  *)
(* and everything tried from that address.                                 *)
(*                                                                         *)
(* The map keeps its keys in insertion order, which is the order of their  *)
(* `since`.  Ticks are coarser than Instant: keys of the same tick may be  *)
(* evicted in either order.                                                *)
(***************************************************************************)
EXTENDS Integers, FiniteSets, Sequences

CONSTANTS
    Addresses,      \* textual IP addresses
    Trusted,        \* those of the trusted ranges (proxies)
    Emails,         \* trimmed, lower-case e-mails
    AnyEmail,       \* the e-mail of a per-address key
    Window, MaxPerAccount, MaxPerIp, MaxKeys

ASSUME LimiterAssumption ==
    /\ Trusted \subseteq Addresses
    /\ AnyEmail \notin Emails
    /\ Window \in Nat \ {0}
    /\ MaxPerAccount \in Nat \ {0}
    /\ MaxPerIp \in Nat \ {0}
    /\ MaxKeys \in Nat \ {0}

Keys == Addresses \X (Emails \cup {AnyEmail})

Pair(i, e) == {<<i, e>>, <<i, AnyEmail>>}

Limit(k) == IF k[2] = AnyEmail THEN MaxPerIp ELSE MaxPerAccount

(* Broken: the left-most hop, which the client writes itself.              *)
LastHop(hops) == hops[Len(hops)]

(* hops: the peer, then X-Forwarded-For from right to left.                *)
ClientIp(hops) ==
    LET stops == {n \in 1..Len(hops) : n = Len(hops) \/ hops[n] \notin Trusted}
    IN hops[CHOOSE n \in stops : \A o \in stops : n <= o]

-------------------------------------------------------------------------------
Failures == [count : Nat \ {0}, since : Nat]

Expired(map, k, now) == map[k].since + Window <= now

IsLive(map, k, now) == k \in DOMAIN map /\ ~Expired(map, k, now)

Without(map, keys) == [k \in DOMAIN map \ keys |-> map[k]]

(* live(): the entries of keys that have expired are removed.              *)
Swept(map, keys, now) ==
    Without(map, {k \in keys \cap DOMAIN map : Expired(map, k, now)})

(* Broken: the attempt that reaches the maximum is still let through.      *)
LockedOneLate(map, i, e, now) ==
    \E k \in Pair(i, e) : IsLive(map, k, now) /\ map[k].count > Limit(k)

(* locked_for() is not zero.                                               *)
Locked(map, i, e, now) ==
    \E k \in Pair(i, e) : IsLive(map, k, now) /\ map[k].count >= Limit(k)

Oldest(map) ==
    {k \in DOMAIN map : \A l \in DOMAIN map : map[k].since <= map[l].since}

(* Broken: room is made once the map has grown past its bound.             *)
RoomInTooLate(map) ==
    IF Cardinality(DOMAIN map) > MaxKeys
    THEN {Without(map, {k}) : k \in Oldest(map)}
    ELSE {map}

(* What the map may be once there is room for one more key.                *)
RoomIn(map) ==
    IF Cardinality(DOMAIN map) >= MaxKeys
    THEN {Without(map, {k}) : k \in Oldest(map)}
    ELSE {map}

(* Broken: the end of the window is kept, and compared as its start.       *)
OpenedUntil(map, k, now) ==
    [l \in DOMAIN map \cup {k} |->
        IF l = k THEN [count |-> 1, since |-> now + Window] ELSE map[l]]

Opened(map, k, now) ==
    [l \in DOMAIN map \cup {k} |->
        IF l = k THEN [count |-> 1, since |-> now] ELSE map[l]]

(* One key of record_failure: the maps it may leave.                       *)
Counted(map, k, now) ==
    LET swept == Swept(map, {k}, now) IN
    IF k \in DOMAIN swept
    THEN {[swept EXCEPT ![k].count = @ + 1]}
    ELSE {Opened(room, k, now) : room \in RoomIn(swept)}

Recorded(map, i, e, now) ==
    UNION {Counted(m, <<i, AnyEmail>>, now) : m \in Counted(map, <<i, e>>, now)}
===============================================================================
