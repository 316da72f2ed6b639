---------------------------- MODULE LimiterProofs ----------------------------
(***************************************************************************)
(* What the limiter's operators keep, for any limits, any window and any   *)
(* bound on its keys: the shape of its map, the bound, and the address     *)
(* that is counted.                                                        *)
(***************************************************************************)
EXTENDS Limiter, FiniteSetTheorems, TLAPS

(* A map of the limiter at a time: its keys are among K, no more than      *)
(* MaxKeys, and no window opens in the future.                             *)
Sound(map, K, now) ==
    /\ DOMAIN map \subseteq K
    /\ map \in [DOMAIN map -> Failures]
    /\ \A k \in DOMAIN map : map[k].since <= now
    /\ IsFiniteSet(DOMAIN map)
    /\ Cardinality(DOMAIN map) <= MaxKeys

(* An empty limiter is sound: the server's start, and its restart.         *)
LEMMA EmptySound ==
    ASSUME NEW K, NEW now
    PROVE  Sound([k \in {} |-> 0], K, now)
<1>1. DOMAIN [k \in {} |-> 0] = {}
  OBVIOUS
<1>2. MaxKeys \in Nat \ {0}
  BY LimiterAssumption
<1> QED
  BY <1>1, <1>2, FS_EmptySet DEF Sound

(* A sound map stays sound as time passes.                                 *)
LEMMA LaterSound ==
    ASSUME NEW map, NEW K, NEW now \in Nat, NEW later \in Nat,
           Sound(map, K, now), now <= later
    PROVE  Sound(map, K, later)
<1>1. \A k \in DOMAIN map : map[k].since \in Nat /\ map[k].since <= now
  BY DEF Sound, Failures
<1>2. \A k \in DOMAIN map : map[k].since <= later
  BY <1>1
<1> QED
  BY <1>2 DEF Sound

(* So does one with fewer keys.                                            *)
LEMMA WithoutSound ==
    ASSUME NEW map, NEW K, NEW now, NEW keys, Sound(map, K, now)
    PROVE  /\ Sound(Without(map, keys), K, now)
           /\ DOMAIN Without(map, keys) = DOMAIN map \ keys
<1>1. /\ DOMAIN Without(map, keys) = DOMAIN map \ keys
      /\ \A k \in DOMAIN map \ keys : Without(map, keys)[k] = map[k]
  BY DEF Without
<1>2. /\ IsFiniteSet(DOMAIN map \ keys)
      /\ Cardinality(DOMAIN map \ keys) <= Cardinality(DOMAIN map)
  <2>1. DOMAIN map \ keys \in SUBSET DOMAIN map
    OBVIOUS
  <2> QED
    BY <2>1, FS_Subset DEF Sound
<1>3. /\ Cardinality(DOMAIN map) \in Nat
      /\ Cardinality(DOMAIN map \ keys) \in Nat
  BY <1>2, FS_CardinalityType DEF Sound
<1>4. Cardinality(DOMAIN map \ keys) <= MaxKeys
  BY <1>2, <1>3, LimiterAssumption DEF Sound
<1>5. Without(map, keys) \in [DOMAIN map \ keys -> Failures]
  BY DEF Without, Sound
<1> QED
  BY <1>1, <1>2, <1>4, <1>5 DEF Sound

(* live() only ever removes.                                               *)
LEMMA SweptSound ==
    ASSUME NEW map, NEW K, NEW now, NEW keys, Sound(map, K, now)
    PROVE  Sound(Swept(map, keys, now), K, now)
BY WithoutSound DEF Swept

(* Evicting the first key leaves a place for one more (record_failure).    *)
LEMMA RoomMade ==
    ASSUME NEW map, NEW K, NEW now, Sound(map, K, now), NEW room \in RoomIn(map)
    PROVE  /\ Sound(room, K, now)
           /\ DOMAIN room \subseteq DOMAIN map
           /\ Cardinality(DOMAIN room) < MaxKeys
<1>1. Cardinality(DOMAIN map) \in Nat /\ MaxKeys \in Nat \ {0}
  BY FS_CardinalityType, LimiterAssumption DEF Sound
<1>2. CASE Cardinality(DOMAIN map) < MaxKeys
  BY <1>1, <1>2 DEF RoomIn
<1>3. CASE ~(Cardinality(DOMAIN map) < MaxKeys)
  <2>1. PICK k \in Oldest(map) : room = Without(map, {k})
    <3>1. Cardinality(DOMAIN map) >= MaxKeys
      BY <1>1, <1>3
    <3>2. room \in {Without(map, {k}) : k \in Oldest(map)}
      BY <3>1, Zenon DEF RoomIn
    <3> QED
      BY <3>2
  <2>2. k \in DOMAIN map
    BY <2>1 DEF Oldest
  <2>3. Sound(room, K, now) /\ DOMAIN room = DOMAIN map \ {k}
    BY <2>1, WithoutSound
  <2>4. Cardinality(DOMAIN map \ {k}) = Cardinality(DOMAIN map) - 1
    BY <2>2, FS_RemoveElement DEF Sound
  <2>5. Cardinality(DOMAIN map) <= MaxKeys
    BY DEF Sound
  <2> QED
    BY <1>1, <2>3, <2>4, <2>5
<1> QED
  BY <1>2, <1>3

(* A key that opens in a map with room leaves it within its bound.         *)
LEMMA OpenedSound ==
    ASSUME NEW map, NEW K, NEW now \in Nat, NEW k \in K, Sound(map, K, now),
           Cardinality(DOMAIN map) < MaxKeys
    PROVE  Sound(Opened(map, k, now), K, now)
<1> DEFINE new == Opened(map, k, now)
<1>1. DOMAIN new = DOMAIN map \cup {k}
  BY DEF Opened
<1>2. /\ IsFiniteSet(DOMAIN new)
      /\ Cardinality(DOMAIN new) <= Cardinality(DOMAIN map) + 1
      /\ Cardinality(DOMAIN map) \in Nat
  <2>1. Cardinality(DOMAIN map) \in Nat
    BY FS_CardinalityType DEF Sound
  <2>2. /\ IsFiniteSet(DOMAIN map \cup {k})
        /\ Cardinality(DOMAIN map \cup {k}) =
              IF k \in DOMAIN map THEN Cardinality(DOMAIN map)
                                  ELSE Cardinality(DOMAIN map) + 1
    BY FS_AddElement DEF Sound
  <2> QED
    BY <1>1, <2>1, <2>2
<1>3. IsFiniteSet(DOMAIN new) /\ Cardinality(DOMAIN new) \in Nat
  BY <1>2, FS_CardinalityType
<1>4. Cardinality(DOMAIN new) <= MaxKeys
  BY <1>2, <1>3, LimiterAssumption
<1>5. \A l \in DOMAIN new : new[l] \in Failures /\ new[l].since <= now
  BY <1>1 DEF Opened, Sound, Failures
<1>6. new \in [DOMAIN new -> Failures]
  BY <1>1, <1>5 DEF Opened
<1>7. DOMAIN new \subseteq K
  BY <1>1 DEF Sound
<1> HIDE DEF new
<1>8. Sound(new, K, now)
  BY <1>3, <1>4, <1>5, <1>6, <1>7 DEF Sound
<1> QED
  BY <1>8 DEF new

(* record_failure, for one key: its map is sound, whichever key it evicts. *)
LEMMA CountedSound ==
    ASSUME NEW map, NEW K, NEW now \in Nat, NEW k \in K, Sound(map, K, now),
           NEW new \in Counted(map, k, now)
    PROVE  Sound(new, K, now)
<1> DEFINE swept == Swept(map, {k}, now)
<1>1. Sound(swept, K, now)
  BY SweptSound
<1>2. CASE k \in DOMAIN swept
  <2>1. new = [swept EXCEPT ![k].count = @ + 1]
    BY <1>2 DEF Counted
  <2> HIDE DEF swept
  <2>2. DOMAIN new = DOMAIN swept
    BY <2>1
  <2>3. swept[k] \in Failures /\ [swept[k] EXCEPT !.count = @ + 1] \in Failures
    BY <1>1, <1>2 DEF Sound, Failures
  <2>4. /\ new[k] = [swept[k] EXCEPT !.count = @ + 1]
        /\ \A l \in DOMAIN swept \ {k} : new[l] = swept[l]
    BY <1>2, <2>1
  <2>5. new \in [DOMAIN new -> Failures]
    BY <1>1, <1>2, <2>1, <2>3 DEF Sound
  <2>6. \A l \in DOMAIN new : new[l].since <= now
    BY <1>1, <2>2, <2>3, <2>4 DEF Sound, Failures
  <2> QED
    BY <1>1, <2>2, <2>5, <2>6 DEF Sound
<1>3. CASE k \notin DOMAIN swept
  <2>1. PICK room \in RoomIn(swept) : new = Opened(room, k, now)
    BY <1>3 DEF Counted
  <2>2. Sound(room, K, now) /\ Cardinality(DOMAIN room) < MaxKeys
    BY <1>1, RoomMade
  <2> QED
    BY <2>1, <2>2, OpenedSound
<1> QED
  BY <1>2, <1>3

(* record_failure moves two keys and makes room for each.                  *)
LEMMA RecordedSound ==
    ASSUME NEW map, NEW K, NEW now \in Nat, NEW i, NEW e, Pair(i, e) \subseteq K,
           Sound(map, K, now), NEW new \in Recorded(map, i, e, now)
    PROVE  Sound(new, K, now)
<1>1. <<i, e>> \in K /\ <<i, AnyEmail>> \in K
  BY DEF Pair
<1>2. PICK m \in Counted(map, <<i, e>>, now) : new \in Counted(m, <<i, AnyEmail>>, now)
  BY DEF Recorded
<1>3. Sound(m, K, now)
  BY <1>1, CountedSound
<1> QED
  BY <1>1, <1>2, <1>3, CountedSound

(* What record_failure does to each key of its map: the one it counts goes *)
(* on in its window or opens one, and a key that loses its place is as old *)
(* as any other.                                                           *)
LEMMA CountedEffect ==
    ASSUME NEW map, NEW K, NEW now \in Nat, NEW k, Sound(map, K, now),
           NEW new \in Counted(map, k, now)
    PROVE  /\ k \in DOMAIN new
           /\ IsLive(map, k, now) =>
                 /\ DOMAIN new = DOMAIN map
                 /\ new[k].count = map[k].count + 1
                 /\ new[k].since = map[k].since
           /\ ~IsLive(map, k, now) =>
                 new[k].count = 1 /\ new[k].since = now
           /\ \A l \in DOMAIN new \ {k} : l \in DOMAIN map /\ new[l] = map[l]
           /\ \A l \in DOMAIN map \ DOMAIN new, j \in DOMAIN map \ {k} :
                 map[l].since <= map[j].since
<1> DEFINE swept == Swept(map, {k}, now)
<1>1. CASE IsLive(map, k, now)
  <2>1. k \in DOMAIN map /\ ~Expired(map, k, now)
    BY <1>1 DEF IsLive
  <2>2. {l \in {k} \cap DOMAIN map : Expired(map, l, now)} = {}
    BY <2>1
  <2>3. swept = [l \in DOMAIN map |-> map[l]]
    <3>1. DOMAIN map \ {} = DOMAIN map
      OBVIOUS
    <3> QED
      BY <2>2, <3>1 DEF Swept, Without
  <2>4. swept = map
    BY <2>3 DEF Sound
  <2>5. new = [map EXCEPT ![k].count = @ + 1]
    BY <2>1, <2>4 DEF Counted
  <2>6. map[k] \in Failures
    BY <2>1 DEF Sound
  <2>7. DOMAIN new = DOMAIN map /\ \A l \in DOMAIN map \ {k} : new[l] = map[l]
    BY <2>5
  <2>8. new[k] = [map[k] EXCEPT !.count = @ + 1]
    BY <2>1, <2>5
  <2>9. new[k].count = map[k].count + 1 /\ new[k].since = map[k].since
    BY <2>6, <2>8 DEF Failures
  <2> QED
    BY <1>1, <2>1, <2>7, <2>9
<1>2. CASE ~IsLive(map, k, now)
  <2>1. /\ DOMAIN swept = DOMAIN map \ {l \in {k} \cap DOMAIN map : Expired(map, l, now)}
        /\ \A l \in DOMAIN swept : swept[l] = map[l]
    BY DEF Swept, Without
  <2>2. DOMAIN swept = DOMAIN map \ {k}
    BY <1>2, <2>1 DEF IsLive
  <2>3. k \notin DOMAIN swept
    BY <2>2
  <2> HIDE DEF swept
  <2>4. PICK room \in RoomIn(swept) : new = Opened(room, k, now)
    <3>1. new \in {Opened(room, k, now) : room \in RoomIn(swept)}
      BY <2>3 DEF Counted, swept
    <3> QED
      BY <3>1
  <2>5. /\ DOMAIN room \subseteq DOMAIN swept
        /\ \A l \in DOMAIN room : room[l] = swept[l]
        /\ \A l \in DOMAIN swept \ DOMAIN room, j \in DOMAIN swept :
              swept[l].since <= swept[j].since
    <3>1. CASE room = swept
      BY <3>1
    <3>2. CASE room # swept
      <4>1. room \in {Without(swept, {o}) : o \in Oldest(swept)}
        BY <3>2, Zenon DEF RoomIn
      <4>2. PICK o \in Oldest(swept) : room = Without(swept, {o})
        BY <4>1
      <4>3. DOMAIN room = DOMAIN swept \ {o} /\ \A l \in DOMAIN room : room[l] = swept[l]
        BY <4>2 DEF Without
      <4>4. \A j \in DOMAIN swept : swept[o].since <= swept[j].since
        BY DEF Oldest
      <4> QED
        BY <4>3, <4>4
    <3> QED
      BY <3>1, <3>2
  <2>6. /\ DOMAIN new = DOMAIN room \cup {k}
        /\ new[k] = [count |-> 1, since |-> now]
        /\ \A l \in DOMAIN room \ {k} : new[l] = room[l]
    BY <2>4 DEF Opened
  <2>7. \A l \in DOMAIN new \ {k} : l \in DOMAIN map /\ new[l] = map[l]
    BY <2>1, <2>2, <2>5, <2>6 DEF swept
  <2>8. \A l \in DOMAIN map \ DOMAIN new, j \in DOMAIN map \ {k} :
                 map[l].since <= map[j].since
    <3> TAKE l \in DOMAIN map \ DOMAIN new, j \in DOMAIN map \ {k}
    <3>1. l \in DOMAIN swept \ DOMAIN room /\ j \in DOMAIN swept
      BY <2>2, <2>6
    <3>2. swept[l] = map[l] /\ swept[j] = map[j]
      BY <2>1, <3>1 DEF swept
    <3> QED
      BY <2>5, <3>1, <3>2
  <2> QED
    BY <1>2, <2>6, <2>7, <2>8
<1> QED
  BY <1>1, <1>2

(* A key goes on: with one more failure if it is among those counted.      *)
GoesOn(map, new, l, counted) ==
    /\ l \in DOMAIN new
    /\ new[l].since = map[l].since
    /\ new[l].count = map[l].count + (IF l \in counted THEN 1 ELSE 0)

(* What the two calls of record_failure do together: a key that was there  *)
(* and alive goes on or is as old as any other that does.                  *)
LEMMA RecordedEffect ==
    ASSUME NEW map, NEW K, NEW now \in Nat, NEW i, NEW e \in Emails, Pair(i, e) \subseteq K,
           Sound(map, K, now), NEW new \in Recorded(map, i, e, now)
    PROVE  /\ \A l \in DOMAIN new \ Pair(i, e) : l \in DOMAIN map /\ new[l] = map[l]
           /\ \A l \in DOMAIN new \cap Pair(i, e) :
                 \/ IsLive(map, l, now) /\ GoesOn(map, new, l, Pair(i, e))
                 \/ new[l].count = 1 /\ new[l].since = now
           /\ \A l, j \in DOMAIN map :
                 /\ IsLive(map, l, now) /\ ~GoesOn(map, new, l, Pair(i, e))
                 /\ IsLive(map, j, now) /\ GoesOn(map, new, j, Pair(i, e))
                 => map[l].since <= map[j].since
<1> DEFINE one == <<i, e>>
           all == <<i, AnyEmail>>
<1>1. one # all /\ Pair(i, e) = {one, all} /\ one \in K /\ all \in K
  BY LimiterAssumption DEF Pair
<1>2. PICK mid \in Counted(map, one, now) : new \in Counted(mid, all, now)
  BY DEF Recorded
<1> HIDE DEF one, all
<1>3. Sound(mid, K, now)
  BY <1>1, CountedSound
<1>4. /\ one \in DOMAIN mid
      /\ IsLive(map, one, now) =>
            /\ DOMAIN mid = DOMAIN map
            /\ mid[one].count = map[one].count + 1
            /\ mid[one].since = map[one].since
      /\ ~IsLive(map, one, now) => mid[one].count = 1 /\ mid[one].since = now
      /\ \A l \in DOMAIN mid \ {one} : l \in DOMAIN map /\ mid[l] = map[l]
      /\ \A l \in DOMAIN map \ DOMAIN mid, j \in DOMAIN map \ {one} :
            map[l].since <= map[j].since
  BY CountedEffect
<1>5. /\ all \in DOMAIN new
      /\ IsLive(mid, all, now) =>
            /\ DOMAIN new = DOMAIN mid
            /\ new[all].count = mid[all].count + 1
            /\ new[all].since = mid[all].since
      /\ ~IsLive(mid, all, now) => new[all].count = 1 /\ new[all].since = now
      /\ \A l \in DOMAIN new \ {all} : l \in DOMAIN mid /\ new[l] = mid[l]
      /\ \A l \in DOMAIN mid \ DOMAIN new, j \in DOMAIN mid \ {all} :
            mid[l].since <= mid[j].since
  BY <1>2, <1>3, CountedEffect
<1>6. \A l \in DOMAIN map : /\ map[l].since \in Nat /\ map[l].count \in Nat
                             /\ map[l].since <= now
  BY DEF Sound, Failures
<1>7. \A l \in DOMAIN new \ Pair(i, e) : l \in DOMAIN map /\ new[l] = map[l]
  BY <1>1, <1>4, <1>5
<1>8. \A l \in DOMAIN mid : IsLive(mid, l, now) <=> mid[l].since + Window > now
  BY <1>3, LimiterAssumption DEF IsLive, Expired, Sound, Failures
<1>9. \A l \in DOMAIN map : IsLive(map, l, now) <=> map[l].since + Window > now
  BY <1>6, LimiterAssumption DEF IsLive, Expired
<1>10. \A l \in DOMAIN new \cap Pair(i, e) :
          \/ IsLive(map, l, now) /\ GoesOn(map, new, l, Pair(i, e))
          \/ new[l].count = 1 /\ new[l].since = now
  <2>1. one \in DOMAIN new =>
          \/ IsLive(map, one, now) /\ GoesOn(map, new, one, Pair(i, e))
          \/ new[one].count = 1 /\ new[one].since = now
    BY <1>1, <1>4, <1>5 DEF GoesOn
  <2>2. \/ IsLive(map, all, now) /\ GoesOn(map, new, all, Pair(i, e))
        \/ new[all].count = 1 /\ new[all].since = now
    <3>1. CASE IsLive(mid, all, now)
      <4>1. all \in DOMAIN mid
        BY <3>1 DEF IsLive
      <4>2. all \in DOMAIN map /\ mid[all] = map[all]
        BY <1>1, <1>4, <4>1
      <4>3. IsLive(map, all, now)
        BY <1>8, <1>9, <3>1, <4>1, <4>2
      <4>4. GoesOn(map, new, all, Pair(i, e))
        BY <1>1, <1>5, <3>1, <4>2 DEF GoesOn
      <4> QED
        BY <4>3, <4>4
    <3>2. CASE ~IsLive(mid, all, now)
      BY <1>5, <3>2
    <3> QED
      BY <3>1, <3>2
  <2> QED
    BY <1>1, <2>1, <2>2
<1>11. ASSUME NEW l \in DOMAIN map, NEW j \in DOMAIN map,
              IsLive(map, l, now), ~GoesOn(map, new, l, Pair(i, e)),
              IsLive(map, j, now), GoesOn(map, new, j, Pair(i, e))
       PROVE  map[l].since <= map[j].since
  (* A key lost goes when the first or the second call makes room.         *)
  <2>1. CASE l \notin DOMAIN mid
    <3>1. l # one /\ ~IsLive(map, one, now)
      BY <1>4, <2>1
    <3>2. j # one
      BY <1>11, <3>1
    <3> QED
      BY <1>4, <2>1, <3>2
  <2>2. CASE l \in DOMAIN mid
    <3>1. mid[l].since = map[l].since
      BY <1>4, <1>11, <2>2
    <3>2. IsLive(mid, l, now)
      BY <1>8, <1>9, <1>11, <2>2, <3>1
    <3>3. l # all
      <4>1. SUFFICES ASSUME l = all PROVE FALSE
        OBVIOUS
      <4>2. mid[all] = map[all] /\ IsLive(mid, all, now)
        BY <1>1, <1>4, <2>2, <3>2, <4>1
      <4>3. GoesOn(map, new, all, Pair(i, e))
        BY <1>1, <1>5, <4>2 DEF GoesOn
      <4> QED
        BY <1>11, <4>1, <4>3
    <3>4. l \notin DOMAIN new
      <4>1. SUFFICES ASSUME l \in DOMAIN new PROVE FALSE
        OBVIOUS
      <4>2. new[l] = mid[l]
        BY <1>5, <3>3, <4>1
      <4>3. CASE l = one
        BY <1>1, <1>4, <1>11, <4>1, <4>2, <4>3 DEF GoesOn
      <4>4. CASE l # one
        <5>1. mid[l] = map[l] /\ l \notin Pair(i, e)
          BY <1>1, <1>4, <2>2, <3>3, <4>4
        <5> QED
          BY <1>6, <1>11, <4>1, <4>2, <5>1 DEF GoesOn
      <4> QED
        BY <4>3, <4>4
    <3>5. ~IsLive(mid, all, now)
      BY <1>5, <2>2, <3>4
    <3>6. j \in DOMAIN mid
      <4>1. CASE j = all
        <5>1. SUFFICES ASSUME j \notin DOMAIN mid PROVE FALSE
          OBVIOUS
        <5>2. new[all].count = 1 /\ map[all].count + 1 = 1
          BY <1>1, <1>5, <1>11, <3>5, <4>1 DEF GoesOn
        <5>3. map[all].count \in Nat \ {0}
          BY <4>1 DEF Sound, Failures
        <5> QED
          BY <5>2, <5>3
      <4>2. CASE j # all
        BY <1>5, <1>11, <4>2 DEF GoesOn
      <4> QED
        BY <4>1, <4>2
    <3>7. mid[j].since = map[j].since
      BY <1>4, <1>11, <3>6
    <3>8. j # all
      BY <1>8, <1>9, <1>11, <3>5, <3>6, <3>7
    <3> QED
      BY <1>5, <2>2, <3>1, <3>4, <3>6, <3>7, <3>8
  <2> QED
    BY <2>1, <2>2
<1> QED
  BY <1>7, <1>10, <1>11

(* client_ip: behind one trusted proxy, the address that is counted is the *)
(* one the proxy saw, whatever the X-Forwarded-For the client sent.        *)
THEOREM CountsWhatTheProxySaw ==
    ASSUME NEW proxy \in Trusted, NEW seen \in Addresses \ Trusted,
           NEW header \in Seq(Addresses)
    PROVE  ClientIp(<<proxy, seen>> \o header) = seen
<1> DEFINE hops == <<proxy, seen>> \o header
           stops == {n \in 1..Len(hops) : n = Len(hops) \/ hops[n] \notin Trusted}
<1>1. proxy \in Addresses /\ <<proxy, seen>> \in Seq(Addresses)
  BY LimiterAssumption
<1>2. /\ Len(hops) \in Nat /\ Len(hops) >= 2
      /\ hops[1] = proxy /\ hops[2] = seen
  BY <1>1
<1> HIDE DEF hops
<1>3. 2 \in stops /\ 1 \notin stops
  BY <1>2
<1>4. \A n \in stops : n \in Nat /\ n >= 2
  BY <1>2, <1>3
<1>5. (CHOOSE n \in stops : \A o \in stops : n <= o) = 2
  BY <1>3, <1>4
<1>6. ClientIp(hops) = hops[CHOOSE n \in stops : \A o \in stops : n <= o]
  BY DEF ClientIp
<1> QED
  BY <1>2, <1>5, <1>6 DEF hops
===============================================================================
