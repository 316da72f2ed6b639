---------------------------- MODULE PlanningProofs ----------------------------
(***************************************************************************)
(* Theorems of PlanningScreen, for any half-days and statuses, any number  *)
(* of openings of the planning and any bounds: the types; that undo is     *)
(* offered only where it reverts exactly; that a screen stays frozen until *)
(* it shows the lock it asked for; and, for the first opening, that what   *)
(* may be edited is what is saved and what is validated is what was shown. *)
(***************************************************************************)
EXTENDS PlanningScreen, SequenceTheorems, FiniteSetTheorems, TLAPS

-------------------------------------------------------------------------------
(* Changes of a planning and the writes they make.                         *)

(* A change is a function from some half-days to values.                   *)
LEMMA ChangeIsFunction ==
    \A c : c \in Change <=> DOMAIN c \in SUBSET Halves /\ c \in [DOMAIN c -> Values]
<1>1. ASSUME NEW c, c \in Change
      PROVE  DOMAIN c \in SUBSET Halves /\ c \in [DOMAIN c -> Values]
  <2>1. PICK H \in SUBSET Halves : c \in [H -> Values]
    BY <1>1 DEF Change
  <2>2. QED BY <2>1
<1>2. ASSUME NEW c, DOMAIN c \in SUBSET Halves, c \in [DOMAIN c -> Values]
      PROVE  c \in Change
  BY <1>2 DEF Change
<1>3. QED BY <1>1, <1>2

(* A change over a planning is a planning.                                 *)
LEMMA OverIsPlanning ==
    ASSUME NEW c \in Change, NEW p \in Planning
    PROVE  Over(c, p) \in Planning
BY ChangeIsFunction DEF Over, Planning

(* A part of a change is a change: what one request carries.               *)
LEMMA RestrictIsChange ==
    ASSUME NEW c \in Change, NEW H \in SUBSET DOMAIN c
    PROVE  /\ Restrict(c, H) \in Change
           /\ DOMAIN Restrict(c, H) = H
BY ChangeIsFunction DEF Restrict

(* A planning is the change of all half-days.                              *)
LEMMA PlanningIsChange == \A p \in Planning : p \in Change /\ DOMAIN p = Halves
BY ChangeIsFunction DEF Planning

(* What is kept to undo a change is a change.                              *)
LEMMA SnapshotIsChange ==
    ASSUME NEW c \in Change, NEW p \in Planning
    PROVE  Snapshot(c, p) \in Change
BY ChangeIsFunction, PlanningIsChange, RestrictIsChange DEF Snapshot

(* Undoing a change at once puts the planning back as it was (undo.ts).    *)
LEMMA UndoIsExact ==
    ASSUME NEW c \in Change, NEW p \in Planning
    PROVE  Over(Snapshot(c, p), Over(c, p)) = p
BY ChangeIsFunction DEF Over, Snapshot, Restrict, Planning

(* A change makes a write of a screen.                                     *)
LEMMA OneWrite ==
    ASSUME NEW s \in Screens, NEW c \in Change
    PROVE  LET w == [screen |-> s, values |-> c] IN
           /\ <<w>> \in Seq(Write)
           /\ Len(<<w>>) = 1
           /\ <<w>>[1] = w
BY DEF Write

(* The writes of a change are writes of its screen, and there are some     *)
(* when the change is not empty.                                           *)
LEMMA ToWritesIsSeq ==
    ASSUME NEW s \in Screens, NEW c \in Change
    PROVE  /\ ToWrites(s, c) \in Seq(Write)
           /\ \A i \in 1..Len(ToWrites(s, c)) : ToWrites(s, c)[i].screen = s
           /\ DOMAIN c # {} => ToWrites(s, c) # <<>>
<1> DEFINE U == Upserts(c)
           C == DOMAIN c \ Upserts(c)
           Part(H) == IF H = {} THEN <<>>
                      ELSE <<[screen |-> s, values |-> Restrict(c, H)]>>
<1>1. U \in SUBSET DOMAIN c /\ C \in SUBSET DOMAIN c
  BY DEF Upserts
<1>2. ASSUME NEW H \in SUBSET DOMAIN c
      PROVE  /\ Part(H) \in Seq(Write)
             /\ \A i \in 1..Len(Part(H)) : Part(H)[i].screen = s
             /\ H # {} => Len(Part(H)) = 1
             /\ H = {} => Len(Part(H)) = 0
  BY RestrictIsChange, OneWrite
<1>3. ToWrites(s, c) = Part(U) \o Part(C)
  BY DEF ToWrites
<1>4. U # {} \/ C # {} \/ DOMAIN c = {}
  BY DEF Upserts
<1> DEFINE u == Part(U)
           d == Part(C)
<1>5. /\ u \in Seq(Write) /\ d \in Seq(Write)
      /\ Len(u) \in Nat /\ Len(d) \in Nat
      /\ \A i \in 1..Len(u) : u[i].screen = s
      /\ \A i \in 1..Len(d) : d[i].screen = s
      /\ DOMAIN c # {} => Len(u) + Len(d) > 0
  BY <1>1, <1>2, <1>4
<1> HIDE DEF u, d
<1>6. /\ u \o d \in Seq(Write)
      /\ Len(u \o d) = Len(u) + Len(d)
      /\ \A i \in 1..Len(u \o d) :
            (u \o d)[i] = IF i <= Len(u) THEN u[i] ELSE d[i - Len(u)]
  BY <1>5, ConcatProperties
<1>7. \A i \in 1..Len(u \o d) : (u \o d)[i].screen = s
  BY <1>5, <1>6
<1>8. QED
  BY <1>3, <1>5, <1>6, <1>7, EmptySeq DEF u, d

-------------------------------------------------------------------------------
(* What the steps make of a load and of a store.                           *)

Superseded(l, S) == [l EXCEPT !.latest = @ /\ l.screen \notin S]

(* A call of load() that starts: the latest, not sent yet.                 *)
LEMMA NewLoadIsLoad ==
    ASSUME NEW s \in Screens, NEW a \in BOOLEAN
    PROVE  LET l == NewLoad(s, a) IN
           /\ l \in Load
           /\ l.screen = s /\ l.latest /\ l.awaited = a
           /\ ~l.sent /\ ~l.dirty /\ ~l.old
           /\ l.rows = None /\ l.flags = None
BY DEF NewLoad, Load

(* A load that loses to a later one of its screen keeps all but its being  *)
(* the latest.                                                             *)
LEMMA SupersededIsLoad ==
    ASSUME NEW l \in Load, NEW S
    PROVE  LET k == Superseded(l, S) IN
           /\ k \in Load
           /\ k.latest <=> l.latest /\ l.screen \notin S
           /\ k.screen = l.screen /\ k.awaited = l.awaited /\ k.sent = l.sent
           /\ k.dirty = l.dirty /\ k.old = l.old
           /\ k.rows = l.rows /\ k.flags = l.flags
<1>1. CASE l.latest /\ l.screen \notin S
  <2>1. Superseded(l, S) = [l EXCEPT !.latest = TRUE]
    BY <1>1 DEF Superseded
  <2>2. QED BY <1>1, <2>1 DEF Load
<1>2. CASE ~(l.latest /\ l.screen \notin S)
  <2>1. Superseded(l, S) = [l EXCEPT !.latest = FALSE]
    BY <1>2 DEF Superseded
  <2>2. QED BY <1>2, <2>1 DEF Load
<1>3. QED BY <1>1, <1>2

(* What is under way after load(): the loads of before, and the new ones.  *)
LEMMA ReloadHas ==
    ASSUME NEW ls, NEW S, NEW a, NEW l \in Reload(ls, S, a)
    PROVE  \/ \E k \in ls : l = Superseded(k, S)
           \/ \E s \in S : l = NewLoad(s, a)
BY DEF Reload, Superseded

(* The calls of load() stay calls of load().                               *)
LEMMA ReloadIsLoads ==
    ASSUME NEW ls \in SUBSET Load, NEW S \in SUBSET Screens, NEW a \in BOOLEAN
    PROVE  Reload(ls, S, a) \in SUBSET Load
BY ReloadHas, SupersededIsLoad, NewLoadIsLoad

Missed(l, s) == [l EXCEPT !.dirty = @ \/ (l.screen = s /\ l.sent)]

(* A load whose answer misses an edit keeps all but that.                  *)
LEMMA MissedIsLoad ==
    ASSUME NEW l \in Load, NEW s
    PROVE  LET k == Missed(l, s) IN
           /\ k \in Load
           /\ k.dirty <=> l.dirty \/ (l.screen = s /\ l.sent)
           /\ k.screen = l.screen /\ k.latest = l.latest
           /\ k.awaited = l.awaited /\ k.sent = l.sent /\ k.old = l.old
           /\ k.rows = l.rows /\ k.flags = l.flags
<1>1. CASE l.dirty \/ (l.screen = s /\ l.sent)
  <2>1. Missed(l, s) = [l EXCEPT !.dirty = TRUE]
    BY <1>1 DEF Missed
  <2>2. QED BY <1>1, <2>1 DEF Load
<1>2. CASE ~(l.dirty \/ (l.screen = s /\ l.sent))
  <2>1. Missed(l, s) = [l EXCEPT !.dirty = FALSE]
    BY <1>2 DEF Missed
  <2>2. QED BY <1>2, <2>1 DEF Load
<1>3. QED BY <1>1, <1>2

(* After an edit, the loads are those of before, some missing the edit.    *)
LEMMA EditedIsLoads ==
    ASSUME NEW ls \in SUBSET Load, NEW s, NEW l \in Edited(ls, s)
    PROVE  l \in Load /\ \E k \in ls : l = Missed(k, s)
<1>1. PICK k \in ls : l = Missed(k, s)
  BY DEF Edited, Missed
<1>2. QED BY <1>1, MissedIsLoad

(* The lock has been confirmed since the read was sent.                    *)
Aged(l, s) == [l EXCEPT !.old = @ \/ (l.screen = s /\ l.sent)]

(* A load sent before the lock was confirmed keeps all but that.           *)
LEMMA AgedIsLoad ==
    ASSUME NEW l \in Load, NEW s
    PROVE  LET k == Aged(l, s) IN
           /\ k \in Load
           /\ k.old <=> l.old \/ (l.screen = s /\ l.sent)
           /\ k.screen = l.screen /\ k.latest = l.latest
           /\ k.awaited = l.awaited /\ k.sent = l.sent /\ k.dirty = l.dirty
           /\ k.rows = l.rows /\ k.flags = l.flags
<1>1. CASE l.old \/ (l.screen = s /\ l.sent)
  <2>1. Aged(l, s) = [l EXCEPT !.old = TRUE]
    BY <1>1 DEF Aged
  <2>2. QED BY <1>1, <2>1 DEF Load
<1>2. CASE ~(l.old \/ (l.screen = s /\ l.sent))
  <2>1. Aged(l, s) = [l EXCEPT !.old = FALSE]
    BY <1>2 DEF Aged
  <2>2. QED BY <1>2, <2>1 DEF Load
<1>3. QED BY <1>1, <1>2

(* A load that returns ends the busy state of whoever awaited it, and      *)
(* nothing else.                                                           *)
LEMMA ReturnedIsStore ==
    ASSUME NEW st \in Store, NEW l \in Load
    PROVE  LET t == Returned(st, l) IN
           /\ t \in Store
           /\ t.phase = IF l.awaited THEN "none" ELSE st.phase
           /\ t.data = st.data /\ t.map = st.map /\ t.error = st.error
           /\ t.stale = st.stale /\ t.undo = st.undo
<1>1. CASE l.awaited
  <2>1. Returned(st, l) = [st EXCEPT !.phase = "none"]
    BY <1>1 DEF Returned
  <2>2. QED BY <1>1, <2>1 DEF Store, Phases
<1>2. CASE ~l.awaited
  BY <1>2 DEF Returned
<1>3. QED BY <1>1, <1>2

(* An answer shown replaces the entries and the lock state and makes the   *)
(* copy fresh.                                                             *)
LEMMA ShownIsStore ==
    ASSUME NEW st \in Store, NEW l \in Load, Answered(l)
    PROVE  LET t == Shown(st, l) IN
           /\ t \in Store
           /\ t.data = l.flags /\ t.map = l.rows
           /\ ~t.error /\ ~t.stale
           /\ t.undo = st.undo /\ t.phase = st.phase
BY DEF Answered, Shown, Store, Load

NewPhase(st, p) == [st EXCEPT !.phase = p]

(* A step of a validation or a reopening changes the phase alone.          *)
LEMMA NewPhaseIsStore ==
    ASSUME NEW st \in Store, NEW p \in Phases
    PROVE  LET t == NewPhase(st, p) IN
           /\ t \in Store /\ t.phase = p
           /\ t.data = st.data /\ t.map = st.map /\ t.error = st.error
           /\ t.stale = st.stale /\ t.undo = st.undo
BY DEF Store, NewPhase

(* forgetUndo() changes nothing else.                                      *)
LEMMA NoUndoIsStore ==
    ASSUME NEW st \in Store
    PROVE  LET t == [st EXCEPT !.undo = None] IN
           /\ t \in Store /\ t.undo = None
           /\ t.data = st.data /\ t.map = st.map /\ t.error = st.error
           /\ t.stale = st.stale /\ t.phase = st.phase
BY DEF Store

Applied(st, c, u) == [st EXCEPT !.map = Over(c, @), !.undo = u]

(* An edit changes the entries and what can be undone.                     *)
LEMMA AppliedIsStore ==
    ASSUME NEW st \in Store, NEW c \in Change, NEW u \in Change \cup {None}
    PROVE  LET t == Applied(st, c, u) IN
           /\ t \in Store
           /\ t.map = Over(c, st.map) /\ t.undo = u
           /\ t.data = st.data /\ t.error = st.error
           /\ t.stale = st.stale /\ t.phase = st.phase
<1>1. st.map \in Planning
  BY DEF Store
<1>2. Over(c, st.map) \in Planning
  BY <1>1, OverIsPlanning
<1>3. QED BY <1>2 DEF Store, Applied

(* A load that fails makes a copy that shows something stale.              *)
LEMMA FailedIsStore ==
    ASSUME NEW st \in Store
    PROVE  LET t == [st EXCEPT !.error = TRUE, !.stale = @ \/ st.data # None] IN
           /\ t \in Store
           /\ t.error
           /\ t.stale <=> st.stale \/ st.data # None
           /\ t.data = st.data /\ t.map = st.map
           /\ t.undo = st.undo /\ t.phase = st.phase
<1>1. CASE st.stale \/ st.data # None
  <2>1. [st EXCEPT !.error = TRUE, !.stale = @ \/ st.data # None]
            = [st EXCEPT !.error = TRUE, !.stale = TRUE]
    BY <1>1
  <2>2. QED BY <1>1, <2>1 DEF Store
<1>2. CASE ~(st.stale \/ st.data # None)
  <2>1. [st EXCEPT !.error = TRUE, !.stale = @ \/ st.data # None]
            = [st EXCEPT !.error = TRUE, !.stale = FALSE]
    BY <1>2
  <2>2. QED BY <1>2, <2>1 DEF Store
<1>3. QED BY <1>1, <1>2

(* A write that fails makes the copy stale and forgets the undo.           *)
LEMMA DroppedIsStore ==
    ASSUME NEW st \in Store
    PROVE  LET t == [st EXCEPT !.stale = TRUE, !.undo = None] IN
           /\ t \in Store /\ t.stale /\ t.undo = None
           /\ t.data = st.data /\ t.map = st.map
           /\ t.error = st.error /\ t.phase = st.phase
BY DEF Store

-------------------------------------------------------------------------------
(* The type invariant.                                                     *)

(* An assignment to one screen's store leaves the others alone.            *)
LEMMA SetStoreSets ==
    ASSUME NEW s \in Screens, NEW st \in Store,
           store \in [Screens -> Store], SetStore(s, st)
    PROVE  /\ store' \in [Screens -> Store]
           /\ store'[s] = st
           /\ \A r \in Screens : r # s => store'[r] = store[r]
BY DEF SetStore

QueueOK == WriteQueueTypeOK /\ (out = "none" <=> QueueIdle)

ServerOK ==
    /\ entries \in Planning
    /\ validated \in BOOLEAN
    /\ shut \in BOOLEAN
    /\ late \in SUBSET Late

PageOK ==
    /\ screen \in Screens
    /\ dialog \in Dialog \cup {None}
    /\ toast \in Screens \cup {None}

HistoryOK ==
    /\ prior \in [Screens -> Planning]
    /\ agreed \in [Screens -> Planning]
    /\ told \in SUBSET Screens
    /\ theirs \in [Screens -> SUBSET Halves]
    /\ since \in [Screens -> SUBSET Halves]

Parts ==
    /\ QueueOK
    /\ ServerOK
    /\ store \in [Screens -> Store]
    /\ loads \in SUBSET Load
    /\ PageOK
    /\ HistoryOK

(* The type invariant by groups of variables, before and after a step.     *)
LEMMA TypeParts == (TypeOK <=> Parts) /\ (TypeOK' <=> Parts')
BY DEF TypeOK, Parts, QueueOK, ServerOK, PageOK, HistoryOK

(* A queue that is not empty: its head, its tail, its writes.              *)
LEMMA QueueOnly ==
    ASSUME QueueOK, queue # <<>>
    PROVE  /\ Head(queue) \in Write
           /\ Tail(queue) \in Seq(Write)
           /\ Len(Tail(queue)) = Len(queue) - 1
           /\ Len(queue) \in Nat \ {0}
           /\ DOMAIN queue = 1..Len(queue)
           /\ \A i \in 1..Len(queue) : queue[i] \in Write
BY HeadTailProperties, EmptySeq, LenProperties, ElementOfSeq DEF QueueOK, WriteQueueTypeOK

(* Pushing writes: they come after those queued, and a request is out as   *)
(* soon as the queue is not empty.                                         *)
LEMMA PushKeeps ==
    ASSUME QueueOK, NEW w \in Seq(Write), Push(w)
    PROVE  /\ QueueOK'
           /\ Len(queue') = Len(queue) + Len(w)
           /\ \A i \in 1..Len(queue') :
                 queue'[i] = IF i <= Len(queue) THEN queue[i] ELSE w[i - Len(queue)]
<1>1. /\ queue' \in Seq(Write)
      /\ Len(queue') = Len(queue) + Len(w)
      /\ \A i \in 1..Len(queue') :
            queue'[i] = IF i <= Len(queue) THEN queue[i] ELSE w[i - Len(queue)]
  BY ConcatProperties DEF Push, QueueOK, WriteQueueTypeOK
<1>2. queue' = <<>> <=> queue = <<>> /\ w = <<>>
  BY ConcatEqualIffEmpty DEF Push, QueueOK, WriteQueueTypeOK
<1>3. WriteQueueTypeOK'
  BY <1>1 DEF Push, QueueOK, WriteQueueTypeOK
<1>4. (out = "none" <=> QueueIdle)'
  BY <1>2 DEF Push, QueueOK, WriteQueueTypeOK, QueueIdle
<1>5. QED BY <1>1, <1>3, <1>4 DEF QueueOK

(* The queue goes on to its next write, or to rest.                        *)
LEMMA NextJobKeeps ==
    ASSUME QueueOK, out # "none", NextJob
    PROVE  QueueOK'
<1>1. queue # <<>>
  BY DEF QueueOK, QueueIdle
<1>2. Len(queue) > 1 <=> queue' # <<>>
  BY <1>1, QueueOnly, EmptySeq DEF NextJob
<1>3. QED BY <1>1, <1>2, QueueOnly DEF QueueOK, NextJob, WriteQueueTypeOK, QueueIdle

(* A failure empties the queue.                                            *)
LEMMA DropAllKeeps ==
    ASSUME QueueOK, DropAll
    PROVE  QueueOK'
BY EmptySeq DEF QueueOK, DropAll, WriteQueueTypeOK, QueueIdle

(* The owners told of a failure are screens.                               *)
LEMMA ToldAreScreens ==
    ASSUME QueueOK
    PROVE  Told \in SUBSET Screens
<1>1. ASSUME NEW i \in DOMAIN queue
      PROVE  queue[i].screen \in Screens
  <2>1. queue[i] \in Write
    BY ElementOfSeq, LenProperties DEF QueueOK, WriteQueueTypeOK
  <2>2. QED BY <2>1 DEF Write
<1>2. QED BY <1>1 DEF Told

(* What the server may still complete is a write or a lock.                *)
LEMMA MayLandKeeps ==
    ASSUME ServerOK, NEW what \in {"write", "lock"}, NEW c \in Change,
           MayLand(what, c)
    PROVE  late' \in SUBSET Late
BY DEF ServerOK, MayLand, Late

(* An edit keeps the types of all it assigns.                              *)
LEMMA ApplyKeeps ==
    ASSUME TypeOK, NEW s \in Screens, NEW c \in Change, NEW w \in Seq(Write),
           Apply(s, c, w)
    PROVE  /\ QueueOK' /\ ServerOK' /\ store' \in [Screens -> Store]
           /\ loads' \in SUBSET Load /\ HistoryOK'
           /\ screen' \in Screens /\ toast' \in Screens
<1> USE TypeParts DEF Parts
<1>1. QueueOK'
  BY PushKeeps DEF Apply
<1>2. store' \in [Screens -> Store]
  <2>1. store[s] \in Store /\ store[s].map \in Planning
    BY DEF Store
  <2>2. [store[s] EXCEPT !.map = Over(c, @),
                         !.undo = Snapshot(c, store[s].map)] \in Store
    BY <2>1, AppliedIsStore, SnapshotIsChange DEF Applied
  <2>3. QED BY <2>2, SetStoreSets DEF Apply
<1>3. loads' \in SUBSET Load
  BY EditedIsLoads DEF Apply
<1>4. HistoryOK'
  <2>1. store[s].map \in Planning
    BY DEF Store
  <2>2. QED BY <2>1 DEF Apply, HistoryOK
<1>5. ServerOK' /\ screen' \in Screens /\ toast' \in Screens
  BY DEF Apply, ServerOK, PageOK, server
<1>6. QED BY <1>1, <1>2, <1>3, <1>4, <1>5

-------------------------------------------------------------------------------
(* The type invariant, step by step: at the start.                         *)
LEMMA InitType == Init => TypeOK
<1> SUFFICES ASSUME Init PROVE TypeOK
  OBVIOUS
<1>1. QueueOK
  BY EmptySeq DEF Init, WriteQueueInit, QueueOK, WriteQueueTypeOK, QueueIdle
<1>2. ServerOK
  BY DEF Init, ServerOK
<1>3. EmptyPlanning \in Planning
  BY DEF EmptyPlanning, Planning, Values
<1>4. NewStore \in Store
  BY <1>3 DEF NewStore, Store, Phases
<1>5. 1 \in Screens
  BY WriteQueueAssumption DEF Screens
<1>6. store \in [Screens -> Store] /\ PageOK /\ HistoryOK
  BY <1>3, <1>4, <1>5 DEF Init, PageOK, HistoryOK
<1>7. loads \in SUBSET Load
  BY <1>5, NewLoadIsLoad DEF Init
<1>8. QED BY <1>1, <1>2, <1>6, <1>7, TypeParts DEF Parts

(* The type invariant when the user edits, undoes or clears.               *)
LEMMA EditsType ==
    ASSUME TypeOK
    PROVE  /\ \A H \in SUBSET Halves, v \in Values : Commit(H, v) => TypeOK'
           /\ \A s \in Screens : Undo(s) => TypeOK'
           /\ Expire => TypeOK'
           /\ ConfirmClear => TypeOK'
<1> USE TypeParts DEF Parts
<1>1. ASSUME NEW H \in SUBSET Halves, NEW v \in Values, Commit(H, v)
      PROVE  TypeOK'
  <2> DEFINE c == Effective([h \in H |-> v], store[screen].map)
  <2>1. c \in Change
    <3>1. [h \in H |-> v] \in Change /\ DOMAIN [h \in H |-> v] = H
      BY DEF Change
    <3>2. QED BY <3>1, RestrictIsChange DEF Effective
  <2>2. ToWrites(screen, c) \in Seq(Write)
    BY <2>1, ToWritesIsSeq DEF PageOK
  <2>3. Apply(screen, c, ToWrites(screen, c)) /\ UNCHANGED dialog
    BY <1>1 DEF Commit
  <2> HIDE DEF c
  <2>4. QED BY <2>1, <2>2, <2>3, ApplyKeeps DEF PageOK
<1>2. ASSUME NEW s \in Screens, Undo(s)
      PROVE  TypeOK'
  <2> DEFINE c == store[s].undo
  <2>1. c \in Change /\ store[s] \in Store
    BY <1>2 DEF Undo, Store
  <2>2. QueueOK'
    BY <1>2, <2>1, ToWritesIsSeq, PushKeeps DEF Undo
  <2>3. store' \in [Screens -> Store]
    <3>1. [store[s] EXCEPT !.map = Over(c, @), !.undo = None] \in Store
      BY <2>1, AppliedIsStore DEF Applied
    <3>2. QED BY <1>2, <3>1, SetStoreSets DEF Undo
  <2>4. loads' \in SUBSET Load
    BY <1>2, EditedIsLoads DEF Undo
  <2>5. ServerOK' /\ PageOK' /\ HistoryOK'
    BY <1>2 DEF Undo, ServerOK, PageOK, HistoryOK, server, history
  <2>6. QED BY <2>2, <2>3, <2>4, <2>5
<1>3. ASSUME Expire
      PROVE  TypeOK'
  <2>1. toast \in Screens
    BY <1>3 DEF Expire, PageOK
  <2>2. store' \in [Screens -> Store]
    BY <1>3, <2>1, NoUndoIsStore, SetStoreSets DEF Expire
  <2>3. QueueOK' /\ ServerOK' /\ PageOK' /\ HistoryOK' /\ loads' = loads
    BY <1>3 DEF Expire, writeVars, QueueOK, WriteQueueTypeOK, QueueIdle,
                server, ServerOK, PageOK, history, HistoryOK
  <2>4. QED BY <2>2, <2>3
<1>4. ASSUME ConfirmClear
      PROVE  TypeOK'
  <2> DEFINE s == dialog.screen
             filled == Filled(store[s].map)
             c == [h \in filled |-> Blank]
             w == <<[screen |-> s, values |-> EmptyPlanning]>>
  <2>1. s \in Screens /\ dialog' = None
    BY <1>4 DEF ConfirmClear, PageOK, Dialog
  <2>2. c \in Change
    <3>1. filled \in SUBSET Halves
      BY DEF Filled
    <3> HIDE DEF filled
    <3>2. QED BY <3>1 DEF Change, Values
  <2>3. w \in Seq(Write)
    <3>1. EmptyPlanning \in Change
      BY DEF EmptyPlanning, Change, Values
    <3>2. QED BY <2>1, <3>1, OneWrite
  <2>4. \/ UNCHANGED <<writeVars, server, store, loads, screen, toast, history>>
        \/ Apply(s, c, w)
    BY <1>4 DEF ConfirmClear
  <2> HIDE DEF s, filled, c, w
  <2>5. CASE Apply(s, c, w)
    BY <2>1, <2>2, <2>3, <2>5, ApplyKeeps DEF PageOK
  <2>6. CASE UNCHANGED <<writeVars, server, store, loads, screen, toast, history>>
    BY <2>1, <2>6 DEF writeVars, QueueOK, WriteQueueTypeOK, QueueIdle,
                server, ServerOK, PageOK, history, HistoryOK
  <2>7. QED BY <2>4, <2>5, <2>6
<1>5. QED BY <1>1, <1>2, <1>3, <1>4

(* The type invariant when the user asks, declines, confirms, retries or   *)
(* opens the planning again.                                               *)
LEMMA DialogsType ==
    ASSUME TypeOK
    PROVE  /\ AskClear \/ AskLock \/ Decline => TypeOK'
           /\ ConfirmLock => TypeOK'
           /\ Retry \/ Reopen => TypeOK'
<1> USE TypeParts DEF Parts
<1>1. ASSUME AskClear \/ AskLock \/ Decline
      PROVE  TypeOK'
  <2>1. QueueOK'
    BY <1>1 DEF AskClear, AskLock, Decline, Mark, writeVars, QueueOK,
                WriteQueueTypeOK, QueueIdle
  <2>2. dialog' \in Dialog \cup {None}
    BY <1>1 DEF AskClear, AskLock, Decline, PageOK, Dialog
  <2>3. agreed' \in [Screens -> Planning]
    <3>1. store[screen].map \in Planning
      BY DEF PageOK, Store
    <3>2. QED BY <1>1, <3>1 DEF AskClear, AskLock, Decline, HistoryOK, history
  <2>4. /\ ServerOK' /\ store' = store /\ loads' = loads
        /\ screen' = screen /\ toast' = toast /\ prior' = prior /\ told' = told
        /\ theirs' = theirs /\ since' = since
    BY <1>1 DEF AskClear, AskLock, Decline, server, ServerOK, history
  <2>5. QED BY <2>1, <2>2, <2>3, <2>4 DEF PageOK, HistoryOK
<1>2. ASSUME ConfirmLock
      PROVE  TypeOK'
  <2> DEFINE s == dialog.screen
  <2>1. s \in Screens
    BY <1>2 DEF ConfirmLock, PageOK, Dialog
  <2>2. [store[s] EXCEPT !.undo = None, !.phase = "settling"] \in Store
    BY <2>1 DEF Store, Phases
  <2>3. store' \in [Screens -> Store]
    BY <1>2, <2>1, <2>2, SetStoreSets DEF ConfirmLock
  <2>4. QueueOK' /\ ServerOK' /\ PageOK' /\ HistoryOK' /\ loads' = loads
    BY <1>2 DEF ConfirmLock, writeVars, QueueOK, WriteQueueTypeOK, QueueIdle,
                server, ServerOK, PageOK, history, HistoryOK
  <2>5. QED BY <2>3, <2>4
<1>3. ASSUME Retry \/ Reopen
      PROVE  TypeOK'
  <2>1. screen' \in Screens
    <3>1. screen' = screen \/ (screen < LastScreen /\ screen' = screen + 1)
      BY <1>3 DEF Retry, Reopen, page
    <3>2. QED BY <3>1, WriteQueueAssumption DEF PageOK, Screens
  <2>2. store' \in [Screens -> Store]
    BY <1>3, NoUndoIsStore, SetStoreSets DEF Retry, Reopen, PageOK
  <2>3. loads' \in SUBSET Load
    BY <1>3, <2>1, ReloadIsLoads DEF Retry, Reopen, PageOK
  <2>4. QueueOK' /\ ServerOK' /\ HistoryOK'
    BY <1>3 DEF Retry, Reopen, writeVars, QueueOK, WriteQueueTypeOK, QueueIdle,
                server, ServerOK, history, HistoryOK
  <2>5. PageOK'
    BY <1>3, <2>1 DEF Retry, Reopen, PageOK, page
  <2>6. QED BY <2>2, <2>3, <2>4, <2>5
<1>4. QED BY <1>1, <1>2, <1>3

(* The type invariant when a promise continues.                            *)
LEMMA ContinueType ==
    ASSUME TypeOK
    PROVE  Continue => TypeOK'
<1> USE TypeParts DEF Parts
<1>1. ASSUME NEW l \in loads, StartGet(l)
      PROVE  TypeOK'
  <2>1. l \in Load /\ l.screen \in Screens
    BY DEF Load
  <2>2. [l EXCEPT !.sent = TRUE] \in Load
    BY <2>1 DEF Load
  <2>3. loads' \in SUBSET Load
    BY <1>1, <2>2 DEF StartGet
  <2>4. store' \in [Screens -> Store]
    BY <1>1, <2>1, ReturnedIsStore, SetStoreSets DEF StartGet
  <2>5. QueueOK' /\ ServerOK' /\ PageOK' /\ HistoryOK'
    BY <1>1 DEF StartGet, writeVars, QueueOK, WriteQueueTypeOK, QueueIdle,
                server, ServerOK, page, PageOK, history, HistoryOK
  <2>6. QED BY <2>3, <2>4, <2>5
<1>2. ASSUME NEW s \in Screens, SendLock(s)
      PROVE  TypeOK'
  <2>1. /\ NewPhase(store[s], "reloading") \in Store
        /\ NewPhase(store[s], "sent") \in Store
    BY NewPhaseIsStore DEF Phases
  <2>2. store' \in [Screens -> Store]
    BY <1>2, <2>1, SetStoreSets DEF SendLock, NewPhase
  <2>3. loads' \in SUBSET Load
    BY <1>2, ReloadIsLoads DEF SendLock
  <2>4. QueueOK' /\ ServerOK' /\ PageOK' /\ HistoryOK'
    BY <1>2 DEF SendLock, writeVars, QueueOK, WriteQueueTypeOK, QueueIdle,
                server, ServerOK, page, PageOK, history, HistoryOK
  <2>5. QED BY <2>2, <2>3, <2>4
<1>3. QED BY <1>1, <1>2 DEF Continue

(* The type invariant when a write is served, answered, refused or lost.   *)
LEMMA WritesType ==
    ASSUME TypeOK
    PROVE  /\ ServeWrite => TypeOK'
           /\ WriteAnswered => TypeOK'
           /\ WriteRefused \/ WriteLost => TypeOK'
<1> USE TypeParts DEF Parts
<1>1. ASSUME ServeWrite
      PROVE  TypeOK'
  <2>1. Head(queue).values \in Change
    BY <1>1, QueueOnly DEF ServeWrite, QueueOK, QueueIdle, Write
  <2>2. entries' \in Planning
    BY <1>1, <2>1, OverIsPlanning DEF ServeWrite, ServerOK
  <2>3. QueueOK'
    BY <1>1 DEF ServeWrite, QueueOK, WriteQueueTypeOK, QueueIdle
  <2>4. QED BY <1>1, <2>2, <2>3 DEF ServeWrite, ServerOK, page, PageOK, history,
                                    HistoryOK
<1>2. ASSUME WriteAnswered
      PROVE  TypeOK'
  <2>1. QueueOK'
    BY <1>2, NextJobKeeps DEF WriteAnswered
  <2>2. QED BY <1>2, <2>1 DEF WriteAnswered, server, ServerOK, page, PageOK,
                              history, HistoryOK
<1>3. ASSUME WriteRefused \/ WriteLost
      PROVE  TypeOK'
  <2>1. WriteFails
    BY <1>3 DEF WriteRefused, WriteLost
  <2>2. QueueOK'
    BY <2>1, DropAllKeeps DEF WriteFails
  <2>3. store' \in [Screens -> Store]
    <3>1. \A r \in Screens :
             [store[r] EXCEPT !.stale = TRUE, !.undo = None] \in Store
      BY DroppedIsStore
    <3>2. QED BY <2>1, <3>1 DEF WriteFails
  <2>4. loads' \in SUBSET Load
    BY <2>1, ToldAreScreens, ReloadIsLoads DEF WriteFails
  <2>5. PageOK' /\ HistoryOK'
    BY <2>1 DEF WriteFails, PageOK, HistoryOK, history
  <2>6. ServerOK'
    <3>1. CASE WriteRefused
      BY <3>1 DEF WriteRefused, server, ServerOK
    <3>2. CASE WriteLost
      <4>1. Head(queue).values \in Change
        BY <3>2, QueueOnly DEF WriteLost, QueueOK, QueueIdle, Write
      <4>2. late' \in SUBSET Late
        BY <3>2, <4>1, MayLandKeeps DEF WriteLost, ServerOK
      <4>3. QED BY <3>2, <4>2 DEF WriteLost, ServerOK
    <3>3. QED BY <1>3, <3>1, <3>2
  <2>7. QED BY <2>2, <2>3, <2>4, <2>5, <2>6
<1>4. QED BY <1>1, <1>2, <1>3

(* The type invariant when a validation or a reopening is served, answered *)
(* or lost.                                                                *)
LEMMA LocksType ==
    ASSUME TypeOK, NEW s \in Screens
    PROVE  ServeLock(s) \/ LockAnswered(s) \/ LockLost(s) => TypeOK'
<1> USE TypeParts DEF Parts
<1> SUFFICES ASSUME ServeLock(s) \/ LockAnswered(s) \/ LockLost(s)
             PROVE  TypeOK'
  OBVIOUS
<1>1. store' \in [Screens -> Store]
  <2>1. /\ NewPhase(store[s], "done") \in Store
        /\ NewPhase(store[s], "refused") \in Store
        /\ NewPhase(store[s], "reloading") \in Store
    BY NewPhaseIsStore DEF Phases
  <2>2. \E p \in {"done", "refused", "reloading"} : SetStore(s, NewPhase(store[s], p))
    BY DEF ServeLock, LockAnswered, LockLost, EndLock, NewPhase
  <2>3. QED BY <2>1, <2>2, SetStoreSets
<1>2. loads' \in SUBSET Load
  <2> DEFINE aged == {[l EXCEPT !.old = @ \/ (l.screen = s /\ l.sent)] : l \in loads}
  <2>1. aged \in SUBSET Load
    <3>1. \A l \in loads : Aged(l, s) \in Load
      BY AgedIsLoad
    <3>2. QED BY <3>1 DEF Aged
  <2> HIDE DEF aged
  <2>2. \/ loads' = loads
        \/ loads' = Reload(aged, {s}, TRUE)
        \/ loads' = Reload(loads, {s}, TRUE)
    BY DEF ServeLock, LockAnswered, LockLost, aged
  <2>3. QED BY <2>1, <2>2, ReloadIsLoads
<1>3. late' \in SUBSET Late
  <2>1. Restrict(entries, {}) \in Change
    BY PlanningIsChange, RestrictIsChange DEF ServerOK
  <2>2. QED BY <2>1, MayLandKeeps DEF ServeLock, LockAnswered, LockLost, EndLock,
                                      ServerOK
<1>4. ServerOK'
  BY <1>3, PlanningAssumption DEF ServeLock, LockAnswered, LockLost, EndLock, ServerOK
<1>5. QueueOK' /\ PageOK'
  BY DEF ServeLock, LockAnswered, LockLost, EndLock, writeVars, QueueOK,
         WriteQueueTypeOK, QueueIdle, page, PageOK
<1>6. HistoryOK'
  BY DEF ServeLock, LockAnswered, LockLost, EndLock, history, HistoryOK
<1>7. QED BY <1>1, <1>2, <1>4, <1>5, <1>6

(* The type invariant when a load is read for, answered or lost.           *)
LEMMA LoadsType ==
    ASSUME TypeOK, NEW l \in loads
    PROVE  /\ ReadRows(l) \/ ReadFlags(l) => TypeOK'
           /\ LoadAnswered(l) => TypeOK'
           /\ LoadLost(l) => TypeOK'
<1> USE TypeParts DEF Parts
<1> DEFINE s == l.screen
<1>1. l \in Load /\ s \in Screens
  BY DEF Load
<1> HIDE DEF s
<1>2. ASSUME ReadRows(l) \/ ReadFlags(l)
      PROVE  TypeOK'
  <2>1. Editable \in BOOLEAN
    BY DEF Editable, ServerOK
  <2> DEFINE f == [editable |-> Editable, validated |-> validated, shut |-> shut]
  <2>2. f \in Flags
    BY <2>1 DEF Flags, ServerOK
  <2>3. /\ [l EXCEPT !.rows = entries] \in Load
        /\ [l EXCEPT !.flags = f] \in Load
    BY <1>1, <2>2 DEF Load, ServerOK
  <2>4. loads' \in SUBSET Load
    BY <1>2, <2>3 DEF ReadRows, ReadFlags
  <2>5. HistoryOK'
    BY <1>1, <1>2 DEF ReadRows, ReadFlags, history, HistoryOK
  <2>6. QED BY <1>2, <2>4, <2>5 DEF ReadRows, ReadFlags, writeVars, QueueOK,
               WriteQueueTypeOK, QueueIdle, server, ServerOK, page, PageOK
<1>3. ASSUME LoadAnswered(l)
      PROVE  TypeOK'
  <2>1. store' \in [Screens -> Store]
    BY <1>1, <1>3, ShownIsStore, ReturnedIsStore, SetStoreSets DEF LoadAnswered, s
  <2>2. loads' \in SUBSET Load
    <3>1. Reload(loads \ {l}, {s}, l.awaited) \in SUBSET Load
      BY <1>1, ReloadIsLoads DEF Load
    <3>2. QED BY <1>3, <3>1 DEF LoadAnswered, s
  <2>3. told' \in SUBSET Screens
    BY <1>3 DEF LoadAnswered, HistoryOK
  <2>4. /\ QueueOK' /\ ServerOK' /\ PageOK'
        /\ prior' = prior /\ agreed' = agreed /\ since' = since
    BY <1>3 DEF LoadAnswered, writeVars, QueueOK, WriteQueueTypeOK, QueueIdle,
                server, ServerOK, page, PageOK
  <2>5. theirs' \in [Screens -> SUBSET Halves]
    BY <1>1, <1>3 DEF LoadAnswered, HistoryOK, s
  <2>6. QED BY <2>1, <2>2, <2>3, <2>4, <2>5 DEF HistoryOK
<1>4. ASSUME LoadLost(l)
      PROVE  TypeOK'
  <2>1. store' \in [Screens -> Store]
    BY <1>1, <1>4, FailedIsStore, ReturnedIsStore, SetStoreSets DEF LoadLost, s
  <2>2. QED BY <1>4, <2>1 DEF LoadLost, writeVars, QueueOK, WriteQueueTypeOK,
               QueueIdle, server, ServerOK, page, PageOK, history, HistoryOK
<1>5. QED BY <1>2, <1>3, <1>4

(* The type invariant when others change the planning or its locks, or a   *)
(* late request lands.                                                     *)
LEMMA OthersType ==
    ASSUME TypeOK
    PROVE  /\ Elsewhere => TypeOK'
           /\ \A w \in late : Land(w) => TypeOK'
<1> USE TypeParts DEF Parts
<1>1. ASSUME Elsewhere
      PROVE  TypeOK'
  <2>1. ASSUME NEW change \in Change, WriteElsewhere(change)
        PROVE  /\ entries' \in Planning
               /\ theirs' \in [Screens -> SUBSET Halves]
               /\ since' \in [Screens -> SUBSET Halves]
    BY <2>1, ChangeIsFunction, OverIsPlanning DEF WriteElsewhere, ServerOK, HistoryOK
  <2>2. ServerOK' /\ HistoryOK'
    BY <1>1, <2>1 DEF Elsewhere, ServerOK, HistoryOK
  <2>3. QED BY <1>1, <2>2 DEF Elsewhere, writeVars, QueueOK, WriteQueueTypeOK,
                              QueueIdle, page, PageOK
<1>2. ASSUME NEW w \in late, Land(w)
      PROVE  TypeOK'
  <2>1. w.values \in Change
    BY DEF ServerOK, Late
  <2>2. entries' \in Planning
    BY <1>2, <2>1, OverIsPlanning DEF Land, ServerOK
  <2>3. ServerOK'
    BY <1>2, <2>2, PlanningAssumption DEF Land, ServerOK
  <2>4. QED BY <1>2, <2>3 DEF Land, writeVars, QueueOK, WriteQueueTypeOK,
               QueueIdle, page, PageOK, history, HistoryOK
<1>3. QED BY <1>1, <1>2

(* Every store, load, write and dialog has the shape the code gives it,    *)
(* and a request is out exactly while the queue is not empty, whatever the *)
(* half-days, the statuses, the number of screens and the bounds.          *)
THEOREM TypeInvariant == Spec => []TypeOK
<1>1. TypeOK /\ [Next]_vars => TypeOK'
  <2> SUFFICES ASSUME TypeOK, [Next]_vars
               PROVE  TypeOK'
    OBVIOUS
  <2>1. CASE Continue
    BY <2>1, ContinueType
  <2>2. CASE User
    BY <2>2, EditsType, DialogsType DEF User
  <2>3. CASE Network
    BY <2>3, WritesType, LocksType, LoadsType DEF Network
  <2>4. CASE Elsewhere \/ \E w \in late : Land(w)
    BY <2>4, OthersType
  <2>5. CASE UNCHANGED vars
    BY <2>5 DEF vars, writeVars, server, page, history, TypeOK, WriteQueueTypeOK,
                QueueIdle
  <2>6. QED BY <2>1, <2>2, <2>3, <2>4, <2>5 DEF Next
<1>2. QED BY <1>1, InitType, PTL DEF Spec

-------------------------------------------------------------------------------
(* The inductive invariant.                                                *)

Closed(st) == st.data = None \/ ~st.data.editable \/ st.stale

(* Nothing is known of a screen before it is opened.                       *)
Opened ==
    /\ \A s \in Screens : screen < s =>
          store[s].data = None /\ store[s].undo = None /\ store[s].phase = "none"
    /\ \A l \in loads : l.screen <= screen
    /\ \A i \in 1..Len(queue) : queue[i].screen <= screen
    /\ dialog # None => dialog.screen <= screen

(* One load of a screen is the latest, and one is awaited.                 *)
AloneIn(ls) ==
    \A k, l \in ls :
        /\ k.screen = l.screen
        /\ (k.latest /\ l.latest) \/ (k.awaited /\ l.awaited)
        => k = l

(* Whatever a load is going to show, the screen is frozen until then.      *)
LoadFits(l, st) ==
    /\ l.awaited => st.phase = "reloading"
    /\ l.latest => ~l.dirty /\ ~l.old
    /\ l.latest /\ ~l.awaited => Closed(st)

LoadsOK == \A l \in loads : LoadFits(l, store[l.screen])

NoLatest(s) == \A l \in loads : l.screen = s => ~l.latest

(* What can be undone is on a copy that may be edited and has not changed. *)
UndoFits(st, p) ==
    st.undo # None => /\ st.phase = "none"
                      /\ ~Closed(st)
                      /\ Over(st.undo, st.map) = p

UndoOK == \A s \in Screens : UndoFits(store[s], prior[s])

(* The screen's offer goes only with its undo: a write that fails is the   *)
(* screen's own as long as it has something to undo.                       *)
OfferOK ==
    /\ toast # None => store[toast].undo # None
    /\ store[screen].undo # None =>
          /\ toast = screen
          /\ Len(queue) > 0 => queue[Len(queue)].screen = screen
          /\ dialog # None => dialog.screen = screen

(* The lock confirmed is not shown: the load that will is still to come,   *)
(* unless the screen has become read-only.                                 *)
ToldOK ==
    \A s \in told :
        \/ Closed(store[s])
        \/ \E l \in loads : l.screen = s /\ l.latest /\ l.awaited

FlagsFit(d) == d # None => (d.editable <=> ~d.shut /\ (Admin \/ ~d.validated))

FlagsOK ==
    /\ \A s \in Screens : FlagsFit(store[s].data)
    /\ \A l \in loads : FlagsFit(l.flags)

Asked(s) == dialog # None /\ dialog.about = "lock" /\ dialog.screen = s

(* The copy is the one its author agreed to lock.                          *)
AsAgreed(s) == store[s].map = agreed[s] /\ ~Closed(store[s]) /\ NoLatest(s)

(* From the question to the request, nothing changes the copy but what     *)
(* cancels the request; and while it is out, no write of the screen is.    *)
LockFits(s) ==
    /\ Asked(s) => store[s].phase = "none"
    /\ Asked(s) \/ store[s].phase = "settling" => s \in missed \/ AsAgreed(s)
    /\ store[s].phase = "sent" =>
          /\ AsAgreed(s)
          /\ \A i \in 1..Len(queue) : queue[i].screen # s

LockOK == \A s \in Screens : LockFits(s)

IInv ==
    /\ Opened
    /\ AloneIn(loads)
    /\ LoadsOK
    /\ UndoOK
    /\ OfferOK
    /\ ToldOK
    /\ FlagsOK
    /\ LockOK

-------------------------------------------------------------------------------
(* What becomes of the loads.                                              *)

Fresh(l, S, a) ==
    /\ l.screen \in S
    /\ l.latest
    /\ l.awaited = a
    /\ ~l.sent /\ ~l.dirty /\ ~l.old
    /\ l.rows = None /\ l.flags = None

Follows(l, k) ==
    /\ l.screen = k.screen
    /\ l.awaited = k.awaited
    /\ l.latest => k.latest /\ l.dirty = k.dirty /\ l.old = k.old

Carries(l, k) ==
    /\ Follows(l, k)
    /\ l.sent = k.sent /\ l.rows = k.rows /\ l.flags = k.flags

(* A load under way after load() is a new one, or one of before with no    *)
(* more than its being the latest lost.                                    *)
LEMMA ReloadCarries ==
    ASSUME NEW ls \in SUBSET Load, NEW S \in SUBSET Screens, NEW a \in BOOLEAN,
           NEW l \in Reload(ls, S, a)
    PROVE  \/ Fresh(l, S, a)
           \/ \E k \in ls : Carries(l, k) /\ (l.latest => l.screen \notin S)
<1>1. CASE \E k \in ls : l = Superseded(k, S)
  BY <1>1, SupersededIsLoad DEF Carries, Follows
<1>2. CASE \E s \in S : l = NewLoad(s, a)
  BY <1>2, NewLoadIsLoad DEF Fresh
<1>3. QED BY <1>1, <1>2, ReloadHas

(* load() by a screen puts a load under way that is its latest.            *)
LEMMA ReloadAdds ==
    ASSUME NEW ls, NEW S \in SUBSET Screens, NEW a \in BOOLEAN, NEW s \in S
    PROVE  /\ NewLoad(s, a) \in Reload(ls, S, a)
           /\ NewLoad(s, a).screen = s /\ NewLoad(s, a).latest
           /\ NewLoad(s, a).awaited = a
BY NewLoadIsLoad DEF Reload

(* The load that stays the latest is still there.                          *)
LEMMA ReloadLeaves ==
    ASSUME NEW ls \in SUBSET Load, NEW S \in SUBSET Screens, NEW a \in BOOLEAN,
           NEW k \in ls, k.screen \notin S
    PROVE  \E l \in Reload(ls, S, a) :
              l.screen = k.screen /\ l.latest = k.latest /\ l.awaited = k.awaited
<1>1. Superseded(k, S) \in Reload(ls, S, a)
  BY DEF Reload, Superseded
<1>2. (k.latest /\ k.screen \notin S) <=> k.latest
  OBVIOUS
<1>3. /\ Superseded(k, S).screen = k.screen
      /\ Superseded(k, S).latest = k.latest
      /\ Superseded(k, S).awaited = k.awaited
  BY SupersededIsLoad DEF Load
<1>4. QED BY <1>1, <1>3

(* load() leaves each screen one latest load, and one awaited when none    *)
(* was.                                                                    *)
LEMMA ReloadAlone ==
    ASSUME NEW ls \in SUBSET Load, NEW S \in SUBSET Screens, NEW a \in BOOLEAN,
           AloneIn(ls),
           a => \A l \in ls : l.screen \in S => ~l.awaited
    PROVE  AloneIn(Reload(ls, S, a))
<1> SUFFICES ASSUME NEW k \in Reload(ls, S, a), NEW l \in Reload(ls, S, a),
                    k.screen = l.screen,
                    (k.latest /\ l.latest) \/ (k.awaited /\ l.awaited)
             PROVE  k = l
  BY DEF AloneIn
<1>1. ASSUME NEW i \in ls, k = Superseded(i, S), NEW j \in ls, l = Superseded(j, S)
      PROVE  k = l
  <2>1. i = j
    BY <1>1, SupersededIsLoad DEF AloneIn
  <2>2. QED BY <1>1, <2>1
<1>2. ASSUME NEW r \in S, k = NewLoad(r, a), NEW t \in S, l = NewLoad(t, a)
      PROVE  k = l
  BY <1>2, NewLoadIsLoad
<1>3. ASSUME NEW i \in ls, NEW r \in S,
             \/ k = Superseded(i, S) /\ l = NewLoad(r, a)
             \/ l = Superseded(i, S) /\ k = NewLoad(r, a)
      PROVE  FALSE
  <2>1. i.screen = r /\ ((i.latest /\ i.screen \notin S) \/ (i.awaited /\ a))
    BY <1>3, SupersededIsLoad, NewLoadIsLoad
  <2>2. QED BY <2>1
<1>4. QED BY <1>1, <1>2, <1>3, ReloadHas

(* An edit does not change which loads are the latest or awaited.          *)
LEMMA EditedAlone ==
    ASSUME NEW ls \in SUBSET Load, NEW s, AloneIn(ls)
    PROVE  AloneIn(Edited(ls, s))
<1> SUFFICES ASSUME NEW k \in Edited(ls, s), NEW l \in Edited(ls, s),
                    k.screen = l.screen,
                    (k.latest /\ l.latest) \/ (k.awaited /\ l.awaited)
             PROVE  k = l
  BY DEF AloneIn
<1>1. PICK i \in ls : k = Missed(i, s)
  BY EditedIsLoads
<1>2. PICK j \in ls : l = Missed(j, s)
  BY EditedIsLoads
<1>3. i = j
  BY <1>1, <1>2, MissedIsLoad DEF AloneIn
<1>4. QED BY <1>1, <1>2, <1>3

(* Nor does reading for a load.                                            *)
LEMMA ReplacedAlone ==
    ASSUME NEW ls, NEW l \in ls, NEW m, AloneIn(ls),
           m.screen = l.screen, m.latest = l.latest, m.awaited = l.awaited
    PROVE  AloneIn((ls \ {l}) \cup {m})
BY DEF AloneIn

(* The latest load of a screen finds it frozen.                            *)
LEMMA LatestFrozen ==
    ASSUME LoadsOK, NEW l \in loads, l.latest
    PROVE  Closed(store[l.screen]) \/ store[l.screen].phase = "reloading"
BY DEF LoadsOK, LoadFits

-------------------------------------------------------------------------------
(* The invariant, action by action.                                        *)

(* The inductive invariant, step by step: at the start.                    *)
LEMMA InitInv == Init => IInv
<1> SUFFICES ASSUME Init PROVE IInv
  OBVIOUS
<1>1. 1 \in Screens
  BY WriteQueueAssumption DEF Screens
<1>2. /\ NewStore.data = None /\ NewStore.undo = None /\ NewStore.phase = "none"
      /\ ~NewStore.stale
  BY DEF NewStore
<1>3. /\ NewLoad(1, FALSE).screen = 1 /\ ~NewLoad(1, FALSE).awaited
      /\ ~NewLoad(1, FALSE).dirty /\ ~NewLoad(1, FALSE).old
      /\ NewLoad(1, FALSE).flags = None
  BY <1>1, NewLoadIsLoad
<1>4. /\ loads = {NewLoad(1, FALSE)} /\ screen = 1 /\ dialog = None
      /\ toast = None /\ told = {} /\ queue = <<>> /\ Len(queue) = 0
      /\ \A s \in Screens : store[s] = NewStore
  BY EmptySeq DEF Init, WriteQueueInit
<1>5. Opened
  <2>1. ASSUME NEW l \in loads
        PROVE  l.screen <= screen
    <3>1. l.screen = 1
      BY <1>3, <1>4
    <3>2. QED BY <1>4, <3>1
  <2>2. \A i \in 1..Len(queue) : queue[i].screen <= screen
    BY <1>4
  <2>3. \A s \in Screens :
           store[s].data = None /\ store[s].undo = None /\ store[s].phase = "none"
    BY <1>2, <1>4
  <2>4. QED BY <1>4, <2>1, <2>2, <2>3 DEF Opened
<1>6. AloneIn(loads)
  BY <1>4 DEF AloneIn
<1>7. LoadsOK
  BY <1>1, <1>2, <1>3, <1>4 DEF LoadsOK, LoadFits, Closed
<1>8. UndoOK /\ OfferOK
  BY <1>1, <1>2, <1>4 DEF UndoOK, UndoFits, OfferOK
<1>9. ToldOK
  BY <1>4 DEF ToldOK
<1>10. FlagsOK
  BY <1>1, <1>2, <1>3, <1>4 DEF FlagsOK, FlagsFit
<1>11. LockOK
  BY <1>2, <1>4 DEF LockOK, LockFits, Asked
<1>12. QED BY <1>5, <1>6, <1>7, <1>8, <1>9, <1>10, <1>11 DEF IInv

(* Steps at the server alone.                                              *)
LEMMA ServerInv ==
    ASSUME IInv,
           UNCHANGED <<queue, missed, store, loads, page, prior, agreed, told>>
    PROVE  IInv'
<1> USE DEF page
<1>1. Opened' /\ AloneIn(loads)'
  BY DEF IInv, Opened, AloneIn
<1>2. LoadsOK' /\ UndoOK' /\ OfferOK'
  BY DEF IInv, LoadsOK, LoadFits, Closed, UndoOK, UndoFits, Over, OfferOK
<1>3. ToldOK' /\ FlagsOK'
  BY DEF IInv, ToldOK, Closed, FlagsOK, FlagsFit
<1>4. LockOK'
  BY DEF IInv, LockOK, LockFits, Asked, AsAgreed, NoLatest, Closed
<1>5. QED BY <1>1, <1>2, <1>3, <1>4 DEF IInv

(* A write is answered: the queue loses its head.                          *)
LEMMA AnsweredInv ==
    ASSUME TypeOK, IInv, WriteAnswered
    PROVE  IInv'
<1> USE TypeParts DEF Parts, page, history
<1>1. /\ queue # <<>> /\ queue' = Tail(queue)
      /\ UNCHANGED <<missed, store, loads, page, prior, agreed, told>>
  BY DEF WriteAnswered, NextJob, QueueOK, QueueIdle
<1>2. /\ Len(queue') \in Nat /\ Len(queue) \in Nat
      /\ Len(queue') = Len(queue) - 1
      /\ \A i \in 1..Len(queue') : queue'[i] = queue[i + 1]
  BY <1>1, QueueOnly, HeadTailProperties DEF QueueOK, WriteQueueTypeOK
<1>3. \A i \in 1..Len(queue') :
         \E j \in 1..Len(queue) : queue'[i] = queue[j]
  BY <1>2
<1>4. Opened' /\ AloneIn(loads)'
  BY <1>1, <1>3 DEF IInv, Opened, AloneIn
<1>5. LoadsOK' /\ UndoOK'
  BY <1>1 DEF IInv, LoadsOK, LoadFits, Closed, UndoOK, UndoFits, Over
<1>6. OfferOK'
  <2>1. Len(queue') > 0 => /\ Len(queue) > 0
                           /\ queue'[Len(queue')] = queue[Len(queue)]
    BY <1>2
  <2>2. QED BY <1>1, <2>1 DEF IInv, OfferOK
<1>7. ToldOK' /\ FlagsOK'
  BY <1>1 DEF IInv, ToldOK, Closed, FlagsOK, FlagsFit
<1>8. LockOK'
  BY <1>1, <1>3 DEF IInv, LockOK, LockFits, Asked, AsAgreed, NoLatest, Closed
<1>9. QED BY <1>4, <1>5, <1>6, <1>7, <1>8 DEF IInv

(* A question is asked or declined.                                        *)
LEMMA DialogsInv ==
    ASSUME TypeOK, IInv, AskClear \/ AskLock \/ Decline
    PROVE  IInv'
<1> USE TypeParts DEF Parts, page, history, writeVars, server
<1>1. UNCHANGED <<queue, store, loads, screen, toast, prior, told>>
  BY DEF AskClear, AskLock, Decline, Mark
<1>2. \/ dialog' = None
      \/ dialog = None /\ dialog' # None /\ dialog'.screen = screen
  BY PlanningAssumption DEF AskClear, AskLock, Decline, PageOK
<1>3. Opened' /\ AloneIn(loads)'
  BY <1>1, <1>2 DEF IInv, Opened, AloneIn, PageOK, Screens
<1>4. LoadsOK' /\ UndoOK'
  BY <1>1 DEF IInv, LoadsOK, LoadFits, Closed, UndoOK, UndoFits, Over
<1>5. OfferOK'
  BY <1>1, <1>2 DEF IInv, OfferOK
<1>6. ToldOK' /\ FlagsOK'
  BY <1>1 DEF IInv, ToldOK, Closed, FlagsOK, FlagsFit
<1>7. LockOK'
  <2>1. CASE AskLock
    <3>1. /\ dialog = None /\ CanLock(screen) /\ screen \in Screens
          /\ missed' = missed \ {screen}
          /\ agreed' = [agreed EXCEPT ![screen] = store[screen].map]
          /\ dialog' = [screen |-> screen, about |-> "lock"]
      BY <2>1 DEF AskLock, Mark, PageOK
    <3>2. store[screen].phase = "none" /\ ~Closed(store[screen])
      <4>1. store[screen] \in Store
        BY <3>1
      <4>2. FlagsFit(store[screen].data)
        BY <3>1 DEF IInv, FlagsOK
      <4>3. store[screen].data \in Flags
        BY <3>1, <4>1 DEF CanLock, Store
      <4>4. store[screen].data.editable
        BY <3>1, <4>2, <4>3, PlanningAssumption DEF CanLock, FlagsFit, Flags
      <4>5. QED BY <3>1, <4>4 DEF CanLock, Busy, Closed
    <3>3. NoLatest(screen)
      BY <3>2, LatestFrozen DEF NoLatest, IInv
    <3>4. agreed'[screen] = store[screen].map
      BY <3>1 DEF HistoryOK
    <3>5. ASSUME NEW r \in Screens, r = screen
          PROVE  LockFits(r)'
      <4>1. AsAgreed(r)'
        BY <1>1, <3>2, <3>3, <3>4, <3>5 DEF AsAgreed, NoLatest, Closed
      <4>2. QED BY <1>1, <3>2, <3>5, <4>1 DEF LockFits
    <3>6. ASSUME NEW r \in Screens, r # screen
          PROVE  LockFits(r)'
      <4>1. ~Asked(r)' /\ agreed'[r] = agreed[r] /\ (r \in missed => r \in missed')
        BY <3>1, <3>6 DEF Asked, HistoryOK
      <4>2. LockFits(r)
        BY DEF IInv, LockOK
      <4>3. QED BY <1>1, <4>1, <4>2 DEF LockFits, AsAgreed, NoLatest, Closed
    <3>7. QED BY <3>5, <3>6 DEF LockOK
  <2>2. CASE AskClear \/ Decline
    <3>1. missed' = missed /\ agreed' = agreed
      BY <2>2 DEF AskClear, Decline
    <3>2. \A r \in Screens : ~Asked(r)'
      BY <2>2 DEF AskClear, Decline, Asked
    <3>3. QED
      BY <1>1, <3>1, <3>2 DEF IInv, LockOK, LockFits, AsAgreed, NoLatest, Closed
  <2>3. QED BY <2>1, <2>2
<1>8. QED BY <1>3, <1>4, <1>5, <1>6, <1>7 DEF IInv

(* Steps that read for a load.                                             *)
LEMMA ReadInv ==
    ASSUME TypeOK, TypeOK', IInv, NEW l \in loads, ReadRows(l) \/ ReadFlags(l)
    PROVE  IInv'
<1> USE TypeParts DEF Parts, page, history, writeVars
<1>1. UNCHANGED <<queue, store, screen, toast, prior, told, missed, dialog, agreed>>
  BY DEF ReadRows, ReadFlags
<1> DEFINE f == [editable |-> Editable, validated |-> validated, shut |-> shut]
<1>2. PICK m : /\ loads' = (loads \ {l}) \cup {m}
               /\ m = [l EXCEPT !.rows = entries] \/ m = [l EXCEPT !.flags = f]
  BY DEF ReadRows, ReadFlags
<1>3. /\ m \in Load /\ l \in Load
      /\ m.screen = l.screen /\ m.latest = l.latest /\ m.awaited = l.awaited
      /\ m.dirty = l.dirty /\ m.old = l.old
      /\ m.flags = l.flags \/ m.flags = f
  BY <1>2 DEF Load
<1>4. FlagsFit(f)
  BY DEF FlagsFit, Editable, ServerOK
<1> HIDE DEF f
<1>5. Opened'
  BY <1>1, <1>2, <1>3 DEF IInv, Opened
<1>6. AloneIn(loads)'
  BY <1>2, <1>3, ReplacedAlone DEF IInv
<1>7. LoadsOK'
  BY <1>1, <1>2, <1>3 DEF IInv, LoadsOK, LoadFits, Closed
<1>8. UndoOK' /\ OfferOK'
  BY <1>1 DEF IInv, UndoOK, UndoFits, Over, Closed, OfferOK
<1>9. ToldOK'
  BY <1>1, <1>2, <1>3 DEF IInv, ToldOK, Closed
<1>10. FlagsOK'
  BY <1>1, <1>2, <1>3, <1>4 DEF IInv, FlagsOK, FlagsFit
<1>11. LockOK'
  BY <1>1, <1>2, <1>3 DEF IInv, LockOK, LockFits, Asked, AsAgreed, NoLatest, Closed
<1>12. QED BY <1>5, <1>6, <1>7, <1>8, <1>9, <1>10, <1>11 DEF IInv

(* A load returns and its screen shows nothing new.                        *)
LEMMA ReturnedInv ==
    ASSUME TypeOK, IInv, NEW l \in loads, NEW st \in Store,
           UNCHANGED <<queue, screen, toast, prior, told, missed, dialog, agreed>>,
           loads' = loads \ {l}, SetStore(l.screen, Returned(st, l)),
           st.data = store[l.screen].data, st.map = store[l.screen].map,
           st.undo = store[l.screen].undo, st.phase = store[l.screen].phase,
           \/ ~l.latest /\ st.stale = store[l.screen].stale
           \/ l.latest /\ (st.stale <=> store[l.screen].stale \/ st.data # None)
    PROVE  IInv'
<1> USE TypeParts DEF Parts
<1> DEFINE s == l.screen
           t == Returned(st, l)
<1>1. l \in Load /\ s \in Screens /\ store[s] \in Store
  BY DEF Load
<1>2. /\ t \in Store
      /\ t.phase = IF l.awaited THEN "none" ELSE store[s].phase
      /\ t.data = store[s].data /\ t.map = store[s].map /\ t.undo = store[s].undo
      /\ l.awaited => store[s].phase = "reloading"
      /\ l.latest => Closed(t)
      /\ Closed(store[s]) => Closed(t)
      /\ ~l.latest => (Closed(t) <=> Closed(store[s]))
  BY <1>1, ReturnedIsStore DEF IInv, LoadsOK, LoadFits, Closed, Store
<1>3. /\ store'[s] = t
      /\ \A r \in Screens : r # s => store'[r] = store[r]
  BY <1>1, <1>2, SetStoreSets
<1> HIDE DEF s, t
<1>4. l.screen = s
  BY DEF s
<1>5. Opened'
  BY <1>1, <1>2, <1>3 DEF IInv, Opened
<1>6. AloneIn(loads)'
  BY DEF IInv, AloneIn
<1>7. LoadsOK'
  <2> SUFFICES ASSUME NEW k \in loads, k # l
               PROVE  LoadFits(k, store[k.screen])'
    BY DEF LoadsOK
  <2>1. LoadFits(k, store[k.screen]) /\ k \in Load /\ k.screen \in Screens
    BY DEF IInv, LoadsOK, Load
  <2>2. CASE k.screen = s
    <3>1. ~(k.latest /\ l.latest) /\ ~(k.awaited /\ l.awaited)
      BY <1>4, <2>2 DEF IInv, AloneIn
    <3>2. QED BY <1>2, <1>3, <2>1, <2>2, <3>1 DEF LoadFits
  <2>3. CASE k.screen # s
    BY <1>3, <2>1, <2>3 DEF LoadFits
  <2>4. QED BY <2>2, <2>3
<1>8. UndoOK'
  <2> SUFFICES ASSUME NEW r \in Screens
               PROVE  UndoFits(store[r], prior[r])'
    BY DEF UndoOK
  <2>1. UndoFits(store[r], prior[r])
    BY DEF IInv, UndoOK
  <2>2. CASE r = s
    <3>1. store[s].undo # None => ~l.awaited /\ ~l.latest
      BY <1>2, <1>4, <2>1, <2>2, LatestFrozen DEF UndoFits, IInv
    <3>2. QED BY <1>2, <1>3, <2>1, <2>2, <3>1 DEF UndoFits, Over
  <2>3. CASE r # s
    BY <1>3, <2>1, <2>3 DEF UndoFits, Over
  <2>4. QED BY <2>2, <2>3
<1>9. OfferOK'
  <2>1. \A r \in Screens : store'[r].undo = store[r].undo
    BY <1>2, <1>3
  <2>2. QED BY <2>1 DEF IInv, OfferOK, PageOK
<1>10. ToldOK'
  <2> SUFFICES ASSUME NEW r \in told
               PROVE  \/ Closed(store'[r])
                      \/ \E k \in loads' : k.screen = r /\ k.latest /\ k.awaited
    BY DEF ToldOK, Closed
  <2>1. \/ Closed(store[r])
        \/ \E k \in loads : k.screen = r /\ k.latest /\ k.awaited
    BY DEF IInv, ToldOK
  <2>2. r \in Screens
    BY DEF HistoryOK
  <2>3. CASE r = s
    BY <1>2, <1>3, <1>4, <2>1, <2>3 DEF Closed
  <2>4. CASE r # s
    BY <1>3, <1>4, <2>1, <2>2, <2>4 DEF Closed
  <2>5. QED BY <2>3, <2>4
<1>11. FlagsOK'
  BY <1>2, <1>3 DEF IInv, FlagsOK, FlagsFit
<1>12. LockOK'
  <2> SUFFICES ASSUME NEW r \in Screens
               PROVE  LockFits(r)'
    BY DEF LockOK
  <2>1. LockFits(r) /\ (Asked(r)' <=> Asked(r)) /\ (NoLatest(r) => NoLatest(r)')
    BY DEF IInv, LockOK, Asked, NoLatest
  <2>2. CASE r = s
    <3>1. NoLatest(s) => ~l.latest
      BY <1>4 DEF NoLatest
    <3>2. AsAgreed(s) => AsAgreed(s)'
      BY <1>2, <1>3, <2>1, <2>2, <3>1 DEF AsAgreed, Closed
    <3>3. QED BY <1>2, <1>3, <2>1, <2>2, <3>2 DEF LockFits
  <2>3. CASE r # s
    <3>1. AsAgreed(r) => AsAgreed(r)'
      BY <1>3, <2>1, <2>3 DEF AsAgreed, Closed
    <3>2. QED BY <1>3, <2>1, <2>3, <3>1 DEF LockFits
  <2>4. QED BY <2>2, <2>3
<1>13. QED BY <1>5, <1>6, <1>7, <1>8, <1>9, <1>10, <1>11, <1>12 DEF IInv

(* A load goes past the queue: it is sent, or has lost and returns.        *)
LEMMA StartGetInv ==
    ASSUME TypeOK, TypeOK', IInv, NEW l \in loads, StartGet(l)
    PROVE  IInv'
<1> USE TypeParts DEF Parts, page, history, writeVars
<1>1. UNCHANGED <<queue, screen, toast, prior, told, missed, dialog, agreed>>
  BY DEF StartGet
<1>2. l \in Load /\ l.screen \in Screens /\ store[l.screen] \in Store
  BY DEF Load
<1>3. CASE l.latest
  <2> DEFINE m == [l EXCEPT !.sent = TRUE]
  <2>1. loads' = (loads \ {l}) \cup {m} /\ store' = store
    BY <1>3 DEF StartGet
  <2>2. /\ m.screen = l.screen /\ m.latest = l.latest /\ m.awaited = l.awaited
        /\ m.dirty = l.dirty /\ m.old = l.old /\ m.flags = l.flags
    BY <1>2 DEF Load
  <2> HIDE DEF m
  <2>3. Opened'
    BY <1>1, <2>1, <2>2 DEF IInv, Opened
  <2>4. AloneIn(loads)'
    BY <2>1, <2>2, ReplacedAlone DEF IInv
  <2>5. LoadsOK'
    BY <2>1, <2>2 DEF IInv, LoadsOK, LoadFits, Closed
  <2>6. UndoOK' /\ OfferOK'
    BY <1>1, <2>1 DEF IInv, UndoOK, UndoFits, Over, Closed, OfferOK
  <2>7. ToldOK'
    BY <1>1, <2>1, <2>2 DEF IInv, ToldOK, Closed
  <2>8. FlagsOK'
    BY <1>1, <2>1, <2>2 DEF IInv, FlagsOK, FlagsFit
  <2>9. LockOK'
    BY <1>1, <2>1, <2>2 DEF IInv, LockOK, LockFits, Asked, AsAgreed, NoLatest, Closed
  <2>10. QED BY <2>3, <2>4, <2>5, <2>6, <2>7, <2>8, <2>9 DEF IInv
<1>4. CASE ~l.latest
  <2>1. loads' = loads \ {l} /\ SetStore(l.screen, Returned(store[l.screen], l))
    BY <1>4 DEF StartGet
  <2> DEFINE st == store[l.screen]
  <2>2. /\ st \in Store /\ SetStore(l.screen, Returned(st, l))
        /\ st.data = store[l.screen].data /\ st.map = store[l.screen].map
        /\ st.undo = store[l.screen].undo /\ st.phase = store[l.screen].phase
        /\ st.stale = store[l.screen].stale
    BY <1>2, <2>1
  <2> HIDE DEF st
  <2>3. QED BY <1>1, <1>4, <2>1, <2>2, ReturnedInv
<1>5. QED BY <1>3, <1>4

(* A load fails: its screen becomes stale if it was still the latest.      *)
LEMMA LoadLostInv ==
    ASSUME TypeOK, IInv, NEW l \in loads, LoadLost(l)
    PROVE  IInv'
<1> USE TypeParts DEF Parts, page, history, writeVars
<1>1. UNCHANGED <<queue, screen, toast, prior, told, missed, dialog, agreed>>
  BY DEF LoadLost
<1> DEFINE s == l.screen
           failed == [store[s] EXCEPT !.error = TRUE, !.stale = @ \/ store[s].data # None]
           st == IF l.latest THEN failed ELSE store[s]
<1>2. store[s] \in Store
  BY DEF Load
<1>3. /\ st \in Store
      /\ st.data = store[s].data /\ st.map = store[s].map
      /\ st.undo = store[s].undo /\ st.phase = store[s].phase
      /\ \/ ~l.latest /\ st.stale = store[s].stale
         \/ l.latest /\ (st.stale <=> store[s].stale \/ st.data # None)
  BY <1>2, FailedIsStore
<1>4. loads' = loads \ {l} /\ SetStore(s, Returned(st, l))
  BY DEF LoadLost
<1> HIDE DEF st, failed
<1>5. QED BY <1>1, <1>3, <1>4, ReturnedInv

(* The answer is shown: the load was the screen's latest.                  *)
LEMMA ShownInv ==
    ASSUME TypeOK, IInv, NEW l \in loads, l.latest, Answered(l),
           UNCHANGED <<queue, screen, toast, prior, missed, dialog, agreed>>,
           loads' = loads \ {l},
           SetStore(l.screen, Returned(Shown(store[l.screen], l), l)),
           told' = told \ {l.screen}
    PROVE  IInv'
<1> USE TypeParts DEF Parts
<1> DEFINE s == l.screen
           t == Returned(Shown(store[s], l), l)
<1>1. l \in Load /\ s \in Screens /\ store[s] \in Store
  BY DEF Load
<1>2. /\ t \in Store
      /\ t.phase = IF l.awaited THEN "none" ELSE store[s].phase
      /\ t.data = l.flags /\ t.undo = store[s].undo
      /\ l.awaited => store[s].phase = "reloading"
  BY <1>1, ShownIsStore, ReturnedIsStore DEF IInv, LoadsOK, LoadFits
<1>3. /\ store'[s] = t
      /\ \A r \in Screens : r # s => store'[r] = store[r]
  BY <1>1, <1>2, SetStoreSets
<1>4. /\ Closed(store[s]) \/ store[s].phase = "reloading"
      /\ ~NoLatest(s)
      /\ s <= screen
  BY LatestFrozen DEF IInv, NoLatest, Opened
<1> HIDE DEF s, t
<1>5. l.screen = s
  BY DEF s
<1>6. store[s].undo = None
  BY <1>1, <1>4 DEF IInv, UndoOK, UndoFits
<1>7. Opened'
  <2>1. \A r \in Screens : screen < r => r # s
    BY <1>1, <1>4 DEF PageOK, Screens
  <2>2. QED BY <1>3, <2>1 DEF IInv, Opened
<1>8. AloneIn(loads)'
  BY DEF IInv, AloneIn
<1>9. LoadsOK'
  <2> SUFFICES ASSUME NEW k \in loads, k # l
               PROVE  LoadFits(k, store[k.screen])'
    BY DEF LoadsOK
  <2>1. LoadFits(k, store[k.screen]) /\ k \in Load /\ k.screen \in Screens
    BY DEF IInv, LoadsOK, Load
  <2>2. CASE k.screen = s
    <3>1. ~k.latest /\ ~(k.awaited /\ l.awaited)
      BY <1>5, <2>2 DEF IInv, AloneIn
    <3>2. QED BY <1>2, <1>3, <2>1, <2>2, <3>1 DEF LoadFits
  <2>3. CASE k.screen # s
    BY <1>3, <2>1, <2>3 DEF LoadFits
  <2>4. QED BY <2>2, <2>3
<1>10. UndoOK'
  <2> SUFFICES ASSUME NEW r \in Screens
               PROVE  UndoFits(store[r], prior[r])'
    BY DEF UndoOK
  <2>1. UndoFits(store[r], prior[r])
    BY DEF IInv, UndoOK
  <2>2. CASE r = s
    BY <1>2, <1>3, <1>6, <2>2 DEF UndoFits
  <2>3. CASE r # s
    BY <1>3, <2>1, <2>3 DEF UndoFits, Over
  <2>4. QED BY <2>2, <2>3
<1>11. OfferOK'
  <2>1. \A r \in Screens : store'[r].undo = store[r].undo
    BY <1>2, <1>3
  <2>2. QED BY <2>1 DEF IInv, OfferOK, PageOK
<1>12. ToldOK'
  <2> SUFFICES ASSUME NEW r \in told, r # s
               PROVE  \/ Closed(store'[r])
                      \/ \E k \in loads' : k.screen = r /\ k.latest /\ k.awaited
    BY <1>5 DEF ToldOK, Closed
  <2>1. \/ Closed(store[r])
        \/ \E k \in loads : k.screen = r /\ k.latest /\ k.awaited
    BY DEF IInv, ToldOK
  <2>2. r \in Screens
    BY DEF HistoryOK
  <2>3. QED BY <1>3, <1>5, <2>1, <2>2 DEF Closed
<1>13. FlagsOK'
  BY <1>2, <1>3 DEF IInv, FlagsOK, FlagsFit
<1>14. LockOK'
  <2> SUFFICES ASSUME NEW r \in Screens
               PROVE  LockFits(r)'
    BY DEF LockOK
  <2>1. LockFits(r) /\ (Asked(r)' <=> Asked(r)) /\ (NoLatest(r) => NoLatest(r)')
    BY DEF IInv, LockOK, Asked, NoLatest
  <2>2. CASE r = s
    BY <1>2, <1>3, <1>4, <2>1, <2>2 DEF LockFits, AsAgreed
  <2>3. CASE r # s
    <3>1. AsAgreed(r) => AsAgreed(r)'
      BY <1>3, <2>1, <2>3 DEF AsAgreed, Closed
    <3>2. QED BY <1>3, <2>1, <2>3, <3>1 DEF LockFits
  <2>4. QED BY <2>2, <2>3
<1>15. QED BY <1>7, <1>8, <1>9, <1>10, <1>11, <1>12, <1>13, <1>14 DEF IInv

(* A load is answered: shown, lost, or asked again.                        *)
LEMMA LoadAnsweredInv ==
    ASSUME TypeOK, IInv, NEW l \in loads, LoadAnswered(l)
    PROVE  IInv'
<1> USE TypeParts DEF Parts
<1>1. UNCHANGED <<queue, screen, toast, prior, missed, dialog, agreed>>
  BY DEF LoadAnswered, page, writeVars
<1>2. CASE ~l.latest
  <2> DEFINE st == store[l.screen]
  <2>1. /\ st \in Store /\ SetStore(l.screen, Returned(st, l))
        /\ st.data = store[l.screen].data /\ st.map = store[l.screen].map
        /\ st.undo = store[l.screen].undo /\ st.phase = store[l.screen].phase
        /\ st.stale = store[l.screen].stale
        /\ loads' = loads \ {l} /\ UNCHANGED told
    BY <1>2 DEF LoadAnswered, Load
  <2> HIDE DEF st
  <2>2. QED BY <1>1, <1>2, <2>1, ReturnedInv
<1>3. CASE l.latest
  <2>1. ~l.dirty /\ ~l.old
    BY <1>3 DEF IInv, LoadsOK, LoadFits
  <2>2. /\ Answered(l)
        /\ loads' = loads \ {l}
        /\ SetStore(l.screen, Returned(Shown(store[l.screen], l), l))
        /\ told' = told \ {l.screen}
    BY <1>3, <2>1 DEF LoadAnswered
  <2>3. QED BY <1>1, <1>3, <2>2, ShownInv
<1>4. QED BY <1>2, <1>3

(* A validation or reopening has ended: the screen reloads.                *)
LEMMA ReloadingInv ==
    ASSUME TypeOK, IInv, NEW s \in Screens, NEW ls \in SUBSET Load,
           store[s].phase \in {"settling", "sent", "done", "refused"},
           SetStore(s, NewPhase(store[s], "reloading")),
           loads' = Reload(ls, {s}, TRUE),
           AloneIn(ls),
           \A l \in ls : \E k \in loads :
               /\ l.screen = k.screen /\ l.awaited = k.awaited
               /\ l.latest = k.latest /\ l.dirty = k.dirty /\ l.flags = k.flags
               /\ l.screen # s => l.old = k.old,
           \A k \in loads : \E l \in ls :
               l.screen = k.screen /\ l.awaited = k.awaited /\ l.latest = k.latest,
           told' \in {told, told \cup {s}},
           UNCHANGED <<queue, screen, toast, prior, missed, dialog, agreed>>
    PROVE  IInv'
<1> USE TypeParts DEF Parts
<1> DEFINE t == NewPhase(store[s], "reloading")
<1>1. /\ t \in Store /\ t.phase = "reloading"
      /\ t.data = store[s].data /\ t.map = store[s].map /\ t.undo = store[s].undo
      /\ Closed(t) <=> Closed(store[s])
  BY NewPhaseIsStore DEF Phases, Closed
<1>2. /\ store'[s] = t
      /\ \A r \in Screens : r # s => store'[r] = store[r]
  BY <1>1, SetStoreSets
<1>3. /\ s <= screen
      /\ ~Asked(s)
      /\ store[s].undo = None
      /\ \A k \in loads : k.screen = s => ~k.awaited
  BY DEF IInv, Opened, LoadsOK, LoadFits, UndoOK, UndoFits, LockOK, LockFits,
         PageOK, Screens
<1> HIDE DEF t
<1>4. ASSUME NEW l \in loads'
      PROVE  \/ Fresh(l, {s}, TRUE)
             \/ \E k \in loads : /\ Follows(l, k) /\ l.flags = k.flags
                                 /\ l.latest => l.screen # s
  <2>1. l \in Reload(ls, {s}, TRUE) /\ {s} \in SUBSET Screens /\ TRUE \in BOOLEAN
    OBVIOUS
  <2>2. \/ Fresh(l, {s}, TRUE)
        \/ \E j \in ls : Carries(l, j) /\ (l.latest => l.screen \notin {s})
    BY <2>1, ReloadCarries
  <2>3. ASSUME NEW j \in ls, Carries(l, j), l.latest => l.screen \notin {s}
        PROVE  \E k \in loads : /\ Follows(l, k) /\ l.flags = k.flags
                                /\ l.latest => l.screen # s
    <3>1. PICK k \in loads : /\ j.screen = k.screen /\ j.awaited = k.awaited
                             /\ j.latest = k.latest /\ j.dirty = k.dirty
                             /\ j.flags = k.flags
                             /\ j.screen # s => j.old = k.old
      OBVIOUS
    <3>2. Follows(l, k) /\ l.flags = k.flags /\ (l.latest => l.screen # s)
      BY <2>3, <3>1 DEF Carries, Follows
    <3>3. QED BY <3>2
  <2>4. QED BY <2>2, <2>3
<1>5. Opened'
  <2>1. \A l \in loads' : l.screen <= screen
    BY <1>3, <1>4 DEF IInv, Opened, Fresh, Follows
  <2>2. \A r \in Screens : screen < r => r # s
    BY <1>3 DEF PageOK, Screens
  <2>3. QED BY <1>2, <2>1, <2>2 DEF IInv, Opened
<1>6. AloneIn(loads)'
  <2>1. \A l \in ls : l.screen \in {s} => ~l.awaited
    BY <1>3
  <2>2. AloneIn(Reload(ls, {s}, TRUE))
    BY <2>1, ReloadAlone
  <2>3. QED BY <2>2 DEF AloneIn
<1>7. LoadsOK'
  <2> SUFFICES ASSUME NEW l \in loads'
               PROVE  LoadFits(l, store'[l.screen])
    BY DEF LoadsOK, LoadFits, Closed
  <2>1. CASE Fresh(l, {s}, TRUE)
    BY <1>1, <1>2, <2>1 DEF Fresh, LoadFits
  <2>2. CASE \E k \in loads : /\ Follows(l, k) /\ l.flags = k.flags
                              /\ l.latest => l.screen # s
    <3>1. PICK k \in loads : Follows(l, k) /\ (l.latest => l.screen # s)
      BY <2>2
    <3>2. LoadFits(k, store[k.screen]) /\ k.screen \in Screens
      BY DEF IInv, LoadsOK, Load
    <3>3. CASE k.screen = s
      BY <1>3, <3>1, <3>3 DEF LoadFits, Follows
    <3>4. CASE k.screen # s
      BY <1>2, <3>1, <3>2, <3>4 DEF LoadFits, Follows
    <3>5. QED BY <3>3, <3>4
  <2>3. QED BY <1>4, <2>1, <2>2
<1>8. UndoOK'
  <2> SUFFICES ASSUME NEW r \in Screens
               PROVE  UndoFits(store[r], prior[r])'
    BY DEF UndoOK
  <2>1. UndoFits(store[r], prior[r])
    BY DEF IInv, UndoOK
  <2>2. QED BY <1>1, <1>2, <1>3, <2>1 DEF UndoFits, Over
<1>9. OfferOK'
  <2>1. \A r \in Screens : store'[r].undo = store[r].undo
    BY <1>1, <1>2
  <2>2. QED BY <2>1 DEF IInv, OfferOK, PageOK
<1>10. ToldOK'
  <2> SUFFICES ASSUME NEW r \in told \cup {s}
               PROVE  \/ Closed(store'[r])
                      \/ \E l \in loads' : l.screen = r /\ l.latest /\ l.awaited
    BY DEF ToldOK, Closed
  <2>1. CASE r = s
    <3>1. {s} \in SUBSET Screens /\ s \in {s} /\ TRUE \in BOOLEAN
      OBVIOUS
    <3>2. QED BY <2>1, <3>1, ReloadAdds
  <2>2. CASE r # s
    <3>1. \/ Closed(store[r])
          \/ \E k \in loads : k.screen = r /\ k.latest /\ k.awaited
      BY <2>2 DEF IInv, ToldOK
    <3>2. r \in Screens
      BY DEF HistoryOK
    <3>3. ASSUME NEW k \in loads, k.screen = r, k.latest, k.awaited
          PROVE  \E l \in loads' : l.screen = r /\ l.latest /\ l.awaited
      <4>1. PICK j \in ls : j.screen = r /\ j.latest /\ j.awaited
        BY <3>3
      <4>2. j.screen \notin {s} /\ {s} \in SUBSET Screens /\ TRUE \in BOOLEAN
        BY <2>2, <4>1
      <4>3. \E l \in Reload(ls, {s}, TRUE) :
               l.screen = j.screen /\ l.latest = j.latest /\ l.awaited = j.awaited
        BY <4>2, ReloadLeaves
      <4>4. QED BY <4>1, <4>3
    <3>4. QED BY <1>2, <2>2, <3>1, <3>2, <3>3 DEF Closed
  <2>3. QED BY <2>1, <2>2
<1>11. FlagsOK'
  <2>1. ASSUME NEW l \in loads'
        PROVE  FlagsFit(l.flags)
    <3>1. \/ l.flags = None
          \/ \E k \in loads : l.flags = k.flags
      BY <1>4 DEF Fresh
    <3>2. QED BY <3>1 DEF IInv, FlagsOK, FlagsFit
  <2>2. QED BY <1>1, <1>2, <2>1 DEF IInv, FlagsOK, FlagsFit
<1>12. LockOK'
  <2> SUFFICES ASSUME NEW r \in Screens
               PROVE  LockFits(r)'
    BY DEF LockOK
  <2>1. LockFits(r) /\ (Asked(r)' <=> Asked(r))
    BY DEF IInv, LockOK, Asked
  <2>2. CASE r = s
    BY <1>1, <1>2, <1>3, <2>1, <2>2 DEF LockFits
  <2>3. CASE r # s
    <3>1. NoLatest(r) => NoLatest(r)'
      BY <1>4, <2>3 DEF NoLatest, Fresh, Follows
    <3>2. AsAgreed(r) => AsAgreed(r)'
      BY <1>2, <2>3, <3>1 DEF AsAgreed, Closed
    <3>3. QED BY <1>2, <2>1, <2>3, <3>2 DEF LockFits
  <2>4. QED BY <2>2, <2>3
<1>13. QED BY <1>5, <1>6, <1>7, <1>8, <1>9, <1>10, <1>11, <1>12 DEF IInv

(* A validation or reopening goes on: nothing else changes on the page.    *)
LEMMA PhaseInv ==
    ASSUME TypeOK, IInv, NEW s \in Screens, NEW p \in {"sent", "done", "refused"},
           store[s].phase \in {"settling", "sent"},
           SetStore(s, NewPhase(store[s], p)),
           p = "sent" => AsAgreed(s) /\ queue = <<>>,
           UNCHANGED <<queue, loads, screen, toast, prior, missed, dialog, agreed, told>>
    PROVE  IInv'
<1> USE TypeParts DEF Parts
<1> DEFINE t == NewPhase(store[s], p)
<1>1. /\ t \in Store /\ t.phase = p
      /\ t.data = store[s].data /\ t.map = store[s].map /\ t.undo = store[s].undo
      /\ Closed(t) <=> Closed(store[s])
  BY NewPhaseIsStore DEF Phases, Closed
<1>2. /\ store'[s] = t
      /\ \A r \in Screens : r # s => store'[r] = store[r]
  BY <1>1, SetStoreSets
<1>3. /\ s <= screen
      /\ ~Asked(s)
      /\ store[s].undo = None
      /\ \A k \in loads : k.screen = s => ~k.awaited
  BY DEF IInv, Opened, LoadsOK, LoadFits, UndoOK, UndoFits, LockOK, LockFits,
         PageOK, Screens
<1> HIDE DEF t
<1>4. Opened'
  <2>1. \A r \in Screens : screen < r => r # s
    BY <1>3 DEF PageOK, Screens
  <2>2. QED BY <1>2, <2>1 DEF IInv, Opened
<1>5. AloneIn(loads)'
  BY DEF IInv, AloneIn
<1>6. LoadsOK'
  <2> SUFFICES ASSUME NEW k \in loads
               PROVE  LoadFits(k, store[k.screen])'
    BY DEF LoadsOK
  <2>1. LoadFits(k, store[k.screen]) /\ k.screen \in Screens
    BY DEF IInv, LoadsOK, Load
  <2>2. QED BY <1>1, <1>2, <1>3, <2>1 DEF LoadFits
<1>7. UndoOK'
  <2> SUFFICES ASSUME NEW r \in Screens
               PROVE  UndoFits(store[r], prior[r])'
    BY DEF UndoOK
  <2>1. UndoFits(store[r], prior[r])
    BY DEF IInv, UndoOK
  <2>2. QED BY <1>1, <1>2, <1>3, <2>1 DEF UndoFits, Over
<1>8. OfferOK'
  <2>1. \A r \in Screens : store'[r].undo = store[r].undo
    BY <1>1, <1>2
  <2>2. QED BY <2>1 DEF IInv, OfferOK, PageOK
<1>9. ToldOK'
  <2>1. \A r \in told : Closed(store'[r]) <=> Closed(store[r])
    BY <1>1, <1>2 DEF HistoryOK
  <2>2. QED BY <2>1 DEF IInv, ToldOK, Closed
<1>10. FlagsOK'
  BY <1>1, <1>2 DEF IInv, FlagsOK, FlagsFit
<1>11. LockOK'
  <2> SUFFICES ASSUME NEW r \in Screens
               PROVE  LockFits(r)'
    BY DEF LockOK
  <2>1. LockFits(r) /\ (Asked(r)' <=> Asked(r)) /\ (NoLatest(r) <=> NoLatest(r)')
    BY DEF IInv, LockOK, Asked, NoLatest
  <2>2. AsAgreed(r) => AsAgreed(r)'
    BY <1>1, <1>2, <2>1 DEF AsAgreed, Closed
  <2>3. CASE r = s
    <3>1. queue = <<>> => \A i \in 1..Len(queue') : queue'[i].screen # s
      BY EmptySeq
    <3>2. p = "sent" => AsAgreed(s)'
      BY <2>2, <2>3
    <3>3. QED BY <1>1, <1>2, <1>3, <2>1, <2>3, <3>1, <3>2 DEF LockFits
  <2>4. CASE r # s
    BY <1>2, <2>1, <2>2, <2>4 DEF LockFits
  <2>5. QED BY <2>3, <2>4
<1>12. QED BY <1>4, <1>5, <1>6, <1>7, <1>8, <1>9, <1>10, <1>11 DEF IInv

(* The loads left as they are, in the form ReloadingInv asks for.          *)
LEMMA LoadsAsTheyAre ==
    \A l \in loads : \E k \in loads :
        /\ l.screen = k.screen /\ l.awaited = k.awaited
        /\ l.latest = k.latest /\ l.dirty = k.dirty /\ l.flags = k.flags
        /\ l.old = k.old
OBVIOUS

(* settled(mark) is over: the lock is asked for if no write has failed.    *)
LEMMA SendLockInv ==
    ASSUME TypeOK, IInv, NEW s \in Screens, SendLock(s)
    PROVE  IInv'
<1> USE TypeParts DEF Parts
<1>1. /\ store[s].phase = "settling" /\ queue = <<>>
      /\ UNCHANGED <<queue, screen, toast, prior, missed, dialog, agreed, told>>
  BY DEF SendLock, QueueIdle, page, history, writeVars
<1>2. CASE s \in missed \/ store[s].stale
  <2>1. /\ SetStore(s, NewPhase(store[s], "reloading"))
        /\ loads' = Reload(loads, {s}, TRUE)
    BY <1>2 DEF SendLock, NewPhase
  <2>2. AloneIn(loads)
    BY DEF IInv
  <2>3. told' \in {told, told \cup {s}}
    BY <1>1
  <2>4. QED BY <1>1, <2>1, <2>2, <2>3, LoadsAsTheyAre, ReloadingInv
<1>3. CASE ~(s \in missed \/ store[s].stale)
  <2>1. SetStore(s, NewPhase(store[s], "sent")) /\ loads' = loads
    BY <1>3 DEF SendLock, NewPhase
  <2>2. AsAgreed(s)
    BY <1>1, <1>3 DEF IInv, LockOK, LockFits
  <2>3. QED BY <1>1, <2>1, <2>2, PhaseInv
<1>4. QED BY <1>2, <1>3

(* The server accepts or refuses the lock.                                 *)
LEMMA ServeLockInv ==
    ASSUME TypeOK, IInv, NEW s \in Screens, ServeLock(s)
    PROVE  IInv'
<1> USE TypeParts DEF Parts
<1>1. PICK p \in {"done", "refused"} : SetStore(s, NewPhase(store[s], p))
  BY DEF ServeLock, NewPhase
<1>2. /\ store[s].phase = "sent"
      /\ UNCHANGED <<queue, loads, screen, toast, prior, missed, dialog, agreed, told>>
  BY DEF ServeLock, page, history, writeVars
<1>3. p # "sent" /\ p \in {"sent", "done", "refused"}
  OBVIOUS
<1>4. QED BY <1>1, <1>2, <1>3, PhaseInv

(* The lock's answer comes or is lost: the screen reloads.                 *)
LEMMA EndLockInv ==
    ASSUME TypeOK, IInv, NEW s \in Screens, LockAnswered(s) \/ LockLost(s)
    PROVE  IInv'
<1> USE TypeParts DEF Parts
<1>1. /\ store[s].phase \in {"settling", "sent", "done", "refused"}
      /\ SetStore(s, NewPhase(store[s], "reloading"))
      /\ UNCHANGED <<queue, screen, toast, prior, missed, dialog, agreed>>
      /\ told' \in {told, told \cup {s}}
  BY DEF LockAnswered, LockLost, EndLock, page, writeVars, NewPhase
<1> DEFINE aged == {[l EXCEPT !.old = @ \/ (l.screen = s /\ l.sent)] : l \in loads}
<1>2. loads' = Reload(loads, {s}, TRUE) \/ loads' = Reload(aged, {s}, TRUE)
  BY DEF LockAnswered, LockLost
<1>3. CASE loads' = Reload(loads, {s}, TRUE)
  <2>1. AloneIn(loads)
    BY DEF IInv
  <2>2. QED BY <1>1, <1>3, <2>1, LoadsAsTheyAre, ReloadingInv
<1>4. CASE loads' = Reload(aged, {s}, TRUE)
  <2>1. aged = {Aged(l, s) : l \in loads}
    BY DEF Aged
  <2> HIDE DEF aged
  <2>2. ASSUME NEW k \in loads
        PROVE  LET l == Aged(k, s) IN
               /\ l \in Load
               /\ l.screen = k.screen /\ l.awaited = k.awaited
               /\ l.latest = k.latest /\ l.dirty = k.dirty /\ l.flags = k.flags
               /\ l.screen # s => l.old = k.old
    <3>1. k \in Load /\ Aged(k, s) \in Load
      BY AgedIsLoad
    <3>2. k.screen # s => (Aged(k, s).old <=> k.old)
      BY <3>1, AgedIsLoad
    <3>3. k.screen # s => Aged(k, s).old = k.old
      BY <3>1, <3>2 DEF Load
    <3>4. QED BY <3>1, <3>3, AgedIsLoad
  <2>3. AloneIn(aged)
    BY <2>1, <2>2 DEF IInv, AloneIn
  <2>4. /\ aged \in SUBSET Load
        /\ \A l \in aged : \E k \in loads :
               /\ l.screen = k.screen /\ l.awaited = k.awaited
               /\ l.latest = k.latest /\ l.dirty = k.dirty /\ l.flags = k.flags
               /\ l.screen # s => l.old = k.old
        /\ \A k \in loads : \E l \in aged :
               l.screen = k.screen /\ l.awaited = k.awaited /\ l.latest = k.latest
    BY <2>1, <2>2
  <2>5. QED BY <1>1, <1>4, <2>3, <2>4, ReloadingInv
<1>5. QED BY <1>2, <1>3, <1>4

(* The validation or reopening is confirmed: no undo from here on.         *)
LEMMA ConfirmLockInv ==
    ASSUME TypeOK, TypeOK', IInv, ConfirmLock
    PROVE  IInv'
<1> USE TypeParts DEF Parts
<1> DEFINE s == dialog.screen
           t == [store[s] EXCEPT !.undo = None, !.phase = "settling"]
<1>1. /\ s \in Screens /\ Asked(s) /\ dialog' = None /\ toast' = None
      /\ SetStore(s, t)
      /\ UNCHANGED <<queue, loads, screen, prior, missed, agreed, told>>
  BY DEF ConfirmLock, PageOK, Dialog, Asked, writeVars, history
<1>2. /\ t.phase = "settling" /\ t.undo = None
      /\ t.data = store[s].data /\ t.map = store[s].map
      /\ Closed(t) <=> Closed(store[s])
  BY <1>1 DEF Store, Closed
<1>3. /\ store'[s] = t
      /\ \A r \in Screens : r # s => store'[r] = store[r]
  BY <1>1 DEF SetStore
<1>4. /\ s <= screen
      /\ store[s].phase = "none"
      /\ \A k \in loads : k.screen = s => ~k.awaited
  BY <1>1 DEF IInv, Opened, Asked, LoadsOK, LoadFits, LockOK, LockFits
<1> HIDE DEF s, t
<1>5. Opened'
  <2>1. \A r \in Screens : screen < r => r # s
    BY <1>1, <1>4 DEF PageOK, Screens
  <2>2. QED BY <1>1, <1>3, <2>1 DEF IInv, Opened
<1>6. AloneIn(loads)'
  BY <1>1 DEF IInv, AloneIn
<1>7. LoadsOK'
  <2> SUFFICES ASSUME NEW k \in loads
               PROVE  LoadFits(k, store[k.screen])'
    BY <1>1 DEF LoadsOK
  <2>1. LoadFits(k, store[k.screen]) /\ k.screen \in Screens
    BY DEF IInv, LoadsOK, Load
  <2>2. QED BY <1>2, <1>3, <1>4, <2>1 DEF LoadFits
<1>8. UndoOK'
  <2> SUFFICES ASSUME NEW r \in Screens
               PROVE  UndoFits(store[r], prior[r])'
    BY DEF UndoOK
  <2>1. UndoFits(store[r], prior[r])
    BY DEF IInv, UndoOK
  <2>2. QED BY <1>1, <1>2, <1>3, <2>1 DEF UndoFits, Over
<1>9. OfferOK'
  <2>1. store[screen].undo # None => s = screen
    BY <1>1 DEF IInv, OfferOK, s, Asked
  <2>2. store'[screen].undo = None
    BY <1>1, <1>2, <1>3, <2>1 DEF PageOK
  <2>3. QED BY <1>1, <2>2 DEF OfferOK
<1>10. ToldOK'
  <2>1. \A r \in told : Closed(store'[r]) <=> Closed(store[r])
    BY <1>2, <1>3 DEF HistoryOK
  <2>2. QED BY <1>1, <2>1 DEF IInv, ToldOK, Closed
<1>11. FlagsOK'
  BY <1>1, <1>2, <1>3 DEF IInv, FlagsOK, FlagsFit
<1>12. LockOK'
  <2> SUFFICES ASSUME NEW r \in Screens
               PROVE  LockFits(r)'
    BY DEF LockOK
  <2>1. LockFits(r) /\ ~Asked(r)' /\ (NoLatest(r) <=> NoLatest(r)')
    BY <1>1 DEF IInv, LockOK, Asked, NoLatest
  <2>2. AsAgreed(r) => AsAgreed(r)'
    BY <1>1, <1>2, <1>3, <2>1 DEF AsAgreed, Closed
  <2>3. CASE r = s
    BY <1>1, <1>2, <1>3, <2>1, <2>2, <2>3 DEF LockFits
  <2>4. CASE r # s
    BY <1>1, <1>3, <2>1, <2>2, <2>4 DEF LockFits
  <2>5. QED BY <2>3, <2>4
<1>13. QED BY <1>5, <1>6, <1>7, <1>8, <1>9, <1>10, <1>11, <1>12 DEF IInv

(* An edit of an open screen: writes of its own queued, its map and undo   *)
(* changed together.                                                       *)
LEMMA EditInv ==
    ASSUME TypeOK, IInv, NEW s \in Screens, NEW t, NEW w \in Seq(Write),
           ~Closed(store[s]), store[s].phase = "none",
           \A r \in Screens : ~Asked(r),
           SetStore(s, t),
           t.data = store[s].data, t.stale = store[s].stale, t.phase = store[s].phase,
           loads' = Edited(loads, s),
           Push(w), \A i \in 1..Len(w) : w[i].screen = s,
           UndoFits(t, prior'[s]),
           \A r \in Screens : r # s => prior'[r] = prior[r],
           dialog' \in {dialog, None},
           UNCHANGED <<screen, agreed, told>>,
           OfferOK'
    PROVE  IInv'
<1> USE TypeParts DEF Parts
<1>1. /\ store'[s] = t
      /\ \A r \in Screens : r # s => store'[r] = store[r]
      /\ Closed(t) <=> Closed(store[s])
  BY DEF SetStore, Closed
<1>2. /\ Len(queue) \in Nat /\ Len(w) \in Nat /\ missed' = missed
      /\ \A i \in 1..Len(queue') :
            \/ \E j \in 1..Len(queue) : queue'[i] = queue[j]
            \/ queue'[i].screen = s
  <2>1. /\ Len(queue) \in Nat /\ Len(w) \in Nat /\ missed' = missed
        /\ Len(queue') = Len(queue) + Len(w)
        /\ \A i \in 1..Len(queue') :
              queue'[i] = IF i <= Len(queue) THEN queue[i] ELSE w[i - Len(queue)]
    BY PushKeeps, LenProperties DEF QueueOK, WriteQueueTypeOK, Push
  <2>2. QED BY <2>1
<1>3. ASSUME NEW l \in loads'
      PROVE  \E k \in loads : Follows(l, k) /\ l.flags = k.flags
  <2>1. PICK k \in loads : l = Missed(k, s)
    BY EditedIsLoads
  <2>2. k \in Load
    OBVIOUS
  <2>3. k.latest => k.screen # s
    BY <2>2, LatestFrozen DEF IInv
  <2>4. k.latest => l.dirty = k.dirty
    BY <2>1, <2>2, <2>3, MissedIsLoad DEF Load
  <2>5. QED BY <2>1, <2>2, <2>4, MissedIsLoad DEF Follows
<1>4. ASSUME NEW k \in loads
      PROVE  \E l \in loads' :
                l.screen = k.screen /\ l.latest = k.latest /\ l.awaited = k.awaited
  <2>1. Missed(k, s) \in loads' /\ k \in Load
    BY DEF Edited, Missed
  <2>2. QED BY <2>1, MissedIsLoad
<1>5. s <= screen
  BY DEF IInv, Opened, Closed, PageOK, Screens
<1>6. Opened'
  <2>1. \A l \in loads' : l.screen <= screen
    BY <1>3 DEF IInv, Opened, Follows
  <2>2. \A r \in Screens : screen < r => r # s
    BY <1>5 DEF PageOK, Screens
  <2>3. \A i \in 1..Len(queue') : queue'[i].screen <= screen
    BY <1>2, <1>5 DEF IInv, Opened
  <2>4. QED BY <1>1, <2>1, <2>2, <2>3 DEF IInv, Opened
<1>7. AloneIn(loads)'
  <2>1. AloneIn(Edited(loads, s))
    BY EditedAlone DEF IInv
  <2>2. QED BY <2>1 DEF AloneIn
<1>8. LoadsOK'
  <2> SUFFICES ASSUME NEW l \in loads'
               PROVE  LoadFits(l, store'[l.screen])
    BY DEF LoadsOK, LoadFits, Closed
  <2>1. PICK k \in loads : Follows(l, k)
    BY <1>3
  <2>2. LoadFits(k, store[k.screen]) /\ k.screen \in Screens
    BY DEF IInv, LoadsOK, Load
  <2>3. QED BY <1>1, <2>1, <2>2 DEF LoadFits, Follows
<1>9. UndoOK'
  <2> SUFFICES ASSUME NEW r \in Screens
               PROVE  UndoFits(store[r], prior[r])'
    BY DEF UndoOK
  <2>1. UndoFits(store[r], prior[r])
    BY DEF IInv, UndoOK
  <2>2. QED BY <1>1, <2>1 DEF UndoFits, Over, Closed
<1>10. ToldOK'
  <2> SUFFICES ASSUME NEW r \in told
               PROVE  \/ Closed(store'[r])
                      \/ \E l \in loads' : l.screen = r /\ l.latest /\ l.awaited
    BY DEF ToldOK, Closed
  <2>1. \/ Closed(store[r])
        \/ \E k \in loads : k.screen = r /\ k.latest /\ k.awaited
    BY DEF IInv, ToldOK
  <2>2. r \in Screens
    BY DEF HistoryOK
  <2>3. QED BY <1>1, <1>4, <2>1, <2>2
<1>11. FlagsOK'
  <2>1. \A l \in loads' : FlagsFit(l.flags)
    BY <1>3 DEF IInv, FlagsOK
  <2>2. QED BY <1>1, <2>1 DEF IInv, FlagsOK, FlagsFit
<1>12. LockOK'
  <2> SUFFICES ASSUME NEW r \in Screens
               PROVE  LockFits(r)'
    BY DEF LockOK
  <2>1. LockFits(r) /\ ~Asked(r)'
    BY DEF IInv, LockOK, Asked
  <2>2. CASE r = s
    BY <1>1, <2>1, <2>2 DEF LockFits
  <2>3. CASE r # s
    <3>1. NoLatest(r) => NoLatest(r)'
      BY <1>3 DEF NoLatest, Follows
    <3>2. AsAgreed(r) => AsAgreed(r)'
      BY <1>1, <2>3, <3>1 DEF AsAgreed, Closed
    <3>3. QED BY <1>1, <1>2, <2>1, <2>3, <3>2 DEF LockFits
  <2>4. QED BY <2>2, <2>3
<1>13. QED BY <1>6, <1>7, <1>8, <1>9, <1>10, <1>11, <1>12 DEF IInv

(* An edit that offers its undo: a commit or « Tout effacer ».             *)
LEMMA ApplyInv ==
    ASSUME TypeOK, IInv, NEW s \in Screens, NEW c \in Change, NEW w \in Seq(Write),
           ~Frozen(s), Apply(s, c, w), w # <<>>, \A i \in 1..Len(w) : w[i].screen = s,
           \A r \in Screens : ~Asked(r),
           dialog' = None,
           IF dialog = None THEN s = screen ELSE dialog.screen = s
    PROVE  IInv'
<1> USE TypeParts DEF Parts
<1> DEFINE u == Snapshot(c, store[s].map)
<1>1. store[s] \in Store /\ store[s].map \in Planning /\ u \in Change /\ u # None
  BY SnapshotIsChange, PlanningAssumption DEF Store
<1> DEFINE t == Applied(store[s], c, u)
<1>2. /\ t.data = store[s].data /\ t.stale = store[s].stale
      /\ t.phase = store[s].phase
      /\ t.undo = u /\ t.map = Over(c, store[s].map)
  <2> HIDE DEF u
  <2>1. u \in Change \cup {None}
    BY <1>1
  <2>2. QED BY <1>1, <2>1, AppliedIsStore
<1>3. /\ ~Closed(store[s]) /\ store[s].phase = "none"
  BY DEF Frozen, Locked, Busy, Closed
<1>4. prior'[s] = store[s].map /\ \A r \in Screens : r # s => prior'[r] = prior[r]
  BY DEF Apply, HistoryOK
<1>5. /\ SetStore(s, t) /\ loads' = Edited(loads, s) /\ Push(w) /\ toast' = s
      /\ UNCHANGED <<screen, agreed, told>>
  BY DEF Apply, Applied
<1>6. Over(u, t.map) = prior'[s]
  BY <1>1, <1>2, <1>4, UndoIsExact
<1>7. UndoFits(t, prior'[s])
  BY <1>2, <1>3, <1>6 DEF UndoFits, Closed
<1> HIDE DEF u, t
<1>8. OfferOK'
  <2>1. /\ store'[s] = t
        /\ \A r \in Screens : r # s => store'[r] = store[r]
    BY <1>5 DEF SetStore
  <2>2. queue'[Len(queue')].screen = s
    <3>1. /\ Len(queue) \in Nat /\ Len(w) \in Nat \ {0}
          /\ Len(queue') = Len(queue) + Len(w)
          /\ \A i \in 1..Len(queue') :
                queue'[i] = IF i <= Len(queue) THEN queue[i] ELSE w[i - Len(queue)]
      BY <1>5, PushKeeps, LenProperties, EmptySeq DEF QueueOK, WriteQueueTypeOK
    <3>2. queue'[Len(queue')] = w[Len(w)]
      BY <3>1
    <3>3. QED BY <3>1, <3>2
  <2>3. store[screen].undo # None => s = screen
    BY DEF IInv, OfferOK
  <2>4. QED BY <1>1, <1>2, <1>5, <2>1, <2>2, <2>3 DEF OfferOK, PageOK
<1>9. dialog' \in {dialog, None}
  OBVIOUS
<1>10. QED BY <1>2, <1>3, <1>4, <1>5, <1>7, <1>8, <1>9, EditInv

(* A click, a stroke of the brush or « Remplir ».                          *)
LEMMA CommitInv ==
    ASSUME TypeOK, IInv, NEW H \in SUBSET Halves, NEW v \in Values, Commit(H, v)
    PROVE  IInv'
<1> USE TypeParts DEF Parts
<1> DEFINE c == Effective([h \in H |-> v], store[screen].map)
<1>1. c \in Change
  <2>1. [h \in H |-> v] \in Change /\ DOMAIN [h \in H |-> v] = H
    BY DEF Change
  <2>2. QED BY <2>1, RestrictIsChange DEF Effective
<1>2. /\ dialog = None /\ dialog' = None /\ ~Frozen(screen) /\ DOMAIN c # {}
      /\ Apply(screen, c, ToWrites(screen, c))
  BY DEF Commit
<1> HIDE DEF c
<1>3. screen \in Screens /\ \A r \in Screens : ~Asked(r)
  BY <1>2 DEF PageOK, Asked
<1>4. /\ ToWrites(screen, c) \in Seq(Write)
      /\ ToWrites(screen, c) # <<>>
      /\ \A i \in 1..Len(ToWrites(screen, c)) : ToWrites(screen, c)[i].screen = screen
  BY <1>1, <1>2, <1>3, ToWritesIsSeq
<1>5. QED BY <1>1, <1>2, <1>3, <1>4, ApplyInv

(* « Tout effacer » confirmed: nothing if the screen has frozen since.     *)
LEMMA ConfirmClearInv ==
    ASSUME TypeOK, IInv, ConfirmClear
    PROVE  IInv'
<1> USE TypeParts DEF Parts
<1> DEFINE s == dialog.screen
           filled == Filled(store[s].map)
           c == [h \in filled |-> Blank]
           e == [screen |-> s, values |-> EmptyPlanning]
<1>1. /\ s \in Screens /\ dialog # None /\ dialog.about = "clear" /\ dialog' = None
  BY DEF ConfirmClear, PageOK, Dialog
<1>2. \A r \in Screens : ~Asked(r) /\ ~Asked(r)'
  BY <1>1 DEF Asked
<1>3. CASE Frozen(s) \/ filled = {}
  <2>1. UNCHANGED <<queue, store, loads, screen, toast, prior, missed, agreed, told>>
    BY <1>3 DEF ConfirmClear, writeVars, history
  <2>2. Opened' /\ AloneIn(loads)'
    BY <1>1, <2>1 DEF IInv, Opened, AloneIn
  <2>3. LoadsOK' /\ UndoOK' /\ OfferOK'
    BY <1>1, <2>1 DEF IInv, LoadsOK, LoadFits, Closed, UndoOK, UndoFits, Over, OfferOK
  <2>4. ToldOK' /\ FlagsOK'
    BY <2>1 DEF IInv, ToldOK, Closed, FlagsOK, FlagsFit
  <2>5. LockOK'
    BY <1>2, <2>1 DEF IInv, LockOK, LockFits, AsAgreed, NoLatest, Closed
  <2>6. QED BY <2>2, <2>3, <2>4, <2>5 DEF IInv
<1>4. CASE ~(Frozen(s) \/ filled = {})
  <2>1. Apply(s, c, <<e>>)
    BY <1>4 DEF ConfirmClear
  <2>2. c \in Change
    <3>1. filled \in SUBSET Halves
      BY DEF Filled
    <3> HIDE DEF filled
    <3>2. QED BY <3>1 DEF Change, Values
  <2>3. /\ <<e>> \in Seq(Write) /\ <<e>> # <<>>
        /\ \A i \in 1..Len(<<e>>) : <<e>>[i].screen = s
    <3>1. EmptyPlanning \in Change
      BY DEF EmptyPlanning, Change, Values
    <3>2. <<e>> \in Seq(Write) /\ Len(<<e>>) = 1 /\ <<e>>[1] = e
      BY <1>1, <3>1, OneWrite
    <3>3. e.screen = s
      OBVIOUS
    <3> HIDE DEF e, s
    <3>4. QED BY <3>2, <3>3, EmptySeq
  <2>4. IF dialog = None THEN s = screen ELSE dialog.screen = s
    BY <1>1
  <2> HIDE DEF s, filled, c, e
  <2>5. ~Frozen(s)
    BY <1>4
  <2>6. QED BY <1>1, <1>2, <2>1, <2>2, <2>3, <2>4, <2>5, ApplyInv
<1>5. QED BY <1>3, <1>4

(* Undo, by its button or the keyboard.                                    *)
LEMMA UndoInv ==
    ASSUME TypeOK, IInv, NEW s \in Screens, Undo(s)
    PROVE  IInv'
<1> USE TypeParts DEF Parts
<1> DEFINE c == store[s].undo
           t == Applied(store[s], c, None)
           w == ToWrites(s, c)
<1>1. c \in Change /\ c # None /\ store[s] \in Store
  BY DEF Undo, Store
<1>2. /\ dialog = None /\ dialog' = dialog /\ SetStore(s, t) /\ toast' = None
      /\ loads' = Edited(loads, s) /\ Push(w)
      /\ UNCHANGED <<screen, prior, agreed, told>>
      /\ toast = s \/ s = screen
  BY DEF Undo, history, Applied
<1>3. /\ t.data = store[s].data /\ t.stale = store[s].stale
      /\ t.phase = store[s].phase /\ t.undo = None
  <2> HIDE DEF c
  <2>1. QED BY <1>1, AppliedIsStore
<1>4. /\ w \in Seq(Write)
      /\ \A i \in 1..Len(w) : w[i].screen = s
  BY <1>1, ToWritesIsSeq
<1>5. ~Closed(store[s]) /\ store[s].phase = "none"
  BY <1>1 DEF IInv, UndoOK, UndoFits
<1> HIDE DEF c, t, w
<1>6. OfferOK'
  <2>1. store[screen].undo # None => s = screen
    BY <1>2 DEF IInv, OfferOK
  <2>2. store'[screen].undo = None
    BY <1>2, <1>3, <2>1 DEF SetStore, PageOK
  <2>3. QED BY <1>2, <2>2 DEF OfferOK
<1>7. UndoFits(t, prior'[s]) /\ (\A r \in Screens : ~Asked(r)) /\ dialog' \in {dialog, None}
  BY <1>2, <1>3 DEF UndoFits, Asked
<1>8. \A r \in Screens : r # s => prior'[r] = prior[r]
  BY <1>2
<1>9. UNCHANGED <<screen, agreed, told>>
  BY <1>2
<1>10. QED BY <1>2, <1>3, <1>4, <1>5, <1>6, <1>7, <1>8, <1>9, EditInv

(* Loads that no validation awaits, of screens that are read-only: these   *)
(* screens may become stale and lose their undo at the same time.          *)
LEMMA ReloadKeeps ==
    ASSUME TypeOK, IInv, NEW S \in SUBSET Screens,
           loads' = Reload(loads, S, FALSE),
           \A r \in Screens :
               /\ store'[r].data = store[r].data /\ store'[r].phase = store[r].phase
               /\ Closed(store[r]) => Closed(store'[r])
               /\ r \in S => Closed(store'[r]),
           told' = told
    PROVE  /\ AloneIn(loads)' /\ LoadsOK' /\ ToldOK' /\ FlagsOK'
           /\ \A l \in loads' : \/ l.screen \in S
                               \/ \E k \in loads : l.screen = k.screen
           /\ \A r \in Screens \ S : NoLatest(r) => NoLatest(r)'
<1> USE TypeParts DEF Parts
<1>1. ASSUME NEW l \in loads'
      PROVE  \/ Fresh(l, S, FALSE)
             \/ \E k \in loads : Carries(l, k) /\ (l.latest => l.screen \notin S)
  <2>1. l \in Reload(loads, S, FALSE) /\ FALSE \in BOOLEAN
    OBVIOUS
  <2>2. QED BY <2>1, ReloadCarries
<1>2. AloneIn(loads)'
  <2>1. AloneIn(Reload(loads, S, FALSE))
    BY ReloadAlone DEF IInv
  <2>2. QED BY <2>1 DEF AloneIn
<1>3. LoadsOK'
  <2> SUFFICES ASSUME NEW l \in loads'
               PROVE  LoadFits(l, store'[l.screen])
    BY DEF LoadsOK, LoadFits, Closed
  <2>1. CASE Fresh(l, S, FALSE)
    BY <2>1 DEF Fresh, LoadFits
  <2>2. CASE \E k \in loads : Carries(l, k)
    <3>1. PICK k \in loads : Carries(l, k)
      BY <2>2
    <3>2. LoadFits(k, store[k.screen]) /\ k.screen \in Screens
      BY DEF IInv, LoadsOK, Load
    <3>3. QED BY <3>1, <3>2 DEF LoadFits, Carries, Follows
  <2>3. QED BY <1>1, <2>1, <2>2
<1>4. ToldOK'
  <2> SUFFICES ASSUME NEW r \in told
               PROVE  \/ Closed(store'[r])
                      \/ \E l \in loads' : l.screen = r /\ l.latest /\ l.awaited
    BY DEF ToldOK, Closed
  <2>1. \/ Closed(store[r])
        \/ \E k \in loads : k.screen = r /\ k.latest /\ k.awaited
    BY DEF IInv, ToldOK
  <2>2. r \in Screens
    BY DEF HistoryOK
  <2>3. ASSUME NEW k \in loads, k.screen = r, k.latest, k.awaited, r \notin S
        PROVE  \E l \in loads' : l.screen = r /\ l.latest /\ l.awaited
    <3>1. k.screen \notin S /\ FALSE \in BOOLEAN
      BY <2>3
    <3>2. \E l \in Reload(loads, S, FALSE) :
             l.screen = k.screen /\ l.latest = k.latest /\ l.awaited = k.awaited
      BY <3>1, ReloadLeaves
    <3>3. QED BY <2>3, <3>2
  <2>4. QED BY <2>1, <2>2, <2>3
<1>5. FlagsOK'
  <2>1. ASSUME NEW l \in loads'
        PROVE  FlagsFit(l.flags)
    <3>1. \/ l.flags = None
          \/ \E k \in loads : l.flags = k.flags
      BY <1>1 DEF Fresh, Carries
    <3>2. QED BY <3>1 DEF IInv, FlagsOK, FlagsFit
  <2>2. QED BY <2>1 DEF IInv, FlagsOK, FlagsFit
<1>6. \A l \in loads' : \/ l.screen \in S
                       \/ \E k \in loads : l.screen = k.screen
  BY <1>1 DEF Fresh, Carries, Follows
<1>7. ASSUME NEW r \in Screens \ S, NoLatest(r)
      PROVE  NoLatest(r)'
  <2> SUFFICES ASSUME NEW l \in loads', l.screen = r
               PROVE  ~l.latest
    BY DEF NoLatest
  <2>1. ~Fresh(l, S, FALSE)
    BY DEF Fresh
  <2>2. PICK k \in loads : Carries(l, k)
    BY <1>1, <2>1
  <2>3. QED BY <1>7, <2>2 DEF NoLatest, Carries, Follows
<1>8. QED BY <1>2, <1>3, <1>4, <1>5, <1>6, <1>7

(* « Réessayer ».                                                          *)
LEMMA RetryInv ==
    ASSUME TypeOK, IInv, Retry
    PROVE  IInv'
<1> USE TypeParts DEF Parts
<1>1. /\ UNCHANGED <<queue, store, screen, toast, prior, missed, dialog, agreed, told>>
      /\ loads' = Reload(loads, {screen}, FALSE)
      /\ Closed(store[screen]) /\ screen \in Screens
  BY DEF Retry, page, history, writeVars, Closed, PageOK
<1>2. /\ AloneIn(loads)' /\ LoadsOK' /\ ToldOK' /\ FlagsOK'
      /\ \A l \in loads' : \/ l.screen \in {screen}
                          \/ \E k \in loads : l.screen = k.screen
      /\ \A r \in Screens \ {screen} : NoLatest(r) => NoLatest(r)'
  <2>1. {screen} \in SUBSET Screens /\ told' = told
    BY <1>1
  <2>2. \A r \in Screens :
           /\ store'[r].data = store[r].data /\ store'[r].phase = store[r].phase
           /\ Closed(store[r]) => Closed(store'[r])
           /\ r \in {screen} => Closed(store'[r])
    BY <1>1
  <2>3. QED BY <1>1, <2>1, <2>2, ReloadKeeps
<1>3. Opened'
  <2>1. screen <= screen
    BY DEF PageOK, Screens
  <2>2. QED BY <1>1, <1>2, <2>1 DEF IInv, Opened
<1>4. UndoOK' /\ OfferOK'
  BY <1>1 DEF IInv, UndoOK, UndoFits, Over, Closed, OfferOK
<1>5. LockOK'
  <2> SUFFICES ASSUME NEW r \in Screens
               PROVE  LockFits(r)'
    BY DEF LockOK
  <2>1. LockFits(r) /\ (Asked(r)' <=> Asked(r))
    BY <1>1 DEF IInv, LockOK, Asked
  <2>2. AsAgreed(r) => AsAgreed(r)'
    BY <1>1, <1>2 DEF AsAgreed, Closed
  <2>3. QED BY <1>1, <2>1, <2>2 DEF LockFits
<1>6. QED BY <1>2, <1>3, <1>4, <1>5 DEF IInv

(* The planning is left and opened again.                                  *)
LEMMA ReopenInv ==
    ASSUME TypeOK, TypeOK', IInv, Reopen
    PROVE  IInv'
<1> USE TypeParts DEF Parts
<1> DEFINE n == screen + 1
           t == [store[screen] EXCEPT !.undo = None]
<1>1. /\ UNCHANGED <<queue, prior, missed, dialog, agreed, told>>
      /\ screen' = n /\ toast' = None /\ SetStore(screen, t)
      /\ loads' = Reload(loads, {n}, FALSE)
  BY DEF Reopen, history, writeVars
<1>2. /\ n \in Screens /\ screen \in Screens /\ n # screen
      /\ \A x \in Nat : x <= screen => x <= n
      /\ \A r \in Screens : n < r => screen < r
      /\ screen < n /\ n <= n
      /\ \A x \in Nat : x <= screen => x # n
  <2>1. screen \in Screens /\ screen + 1 \in Screens
    BY <1>1 DEF PageOK
  <2>2. QED BY <2>1 DEF Screens
<1> HIDE DEF n
<1>3. /\ t.undo = None /\ t.phase = store[screen].phase
      /\ t.data = store[screen].data /\ t.map = store[screen].map
      /\ Closed(t) <=> Closed(store[screen])
  BY <1>2, NoUndoIsStore DEF Closed
<1>4. /\ store'[screen] = t
      /\ \A r \in Screens : r # screen => store'[r] = store[r]
  BY <1>1, <1>2 DEF SetStore
<1> HIDE DEF t
<1>5. Closed(store[n]) /\ store[n].undo = None /\ store[n].phase = "none"
  BY <1>2 DEF IInv, Opened, Closed
<1>6. /\ AloneIn(loads)' /\ LoadsOK' /\ ToldOK' /\ FlagsOK'
      /\ \A l \in loads' : \/ l.screen \in {n}
                          \/ \E k \in loads : l.screen = k.screen
      /\ \A r \in Screens \ {n} : NoLatest(r) => NoLatest(r)'
  <2>1. {n} \in SUBSET Screens /\ told' = told
    BY <1>1, <1>2
  <2>2. \A r \in Screens :
           /\ store'[r].data = store[r].data /\ store'[r].phase = store[r].phase
           /\ Closed(store[r]) => Closed(store'[r])
           /\ r \in {n} => Closed(store'[r])
    BY <1>2, <1>3, <1>4, <1>5
  <2>3. QED BY <1>1, <2>1, <2>2, ReloadKeeps
<1>7. Opened'
  <2>1. \A r \in Screens : n < r =>
           store'[r].data = None /\ store'[r].undo = None /\ store'[r].phase = "none"
    BY <1>2, <1>3, <1>4 DEF IInv, Opened
  <2>2. \A l \in loads' : l.screen <= n
    <3>1. \A k \in loads : k.screen \in Nat /\ k.screen <= screen
      BY DEF IInv, Opened, Load, Screens
    <3>2. QED BY <1>2, <1>6, <3>1
  <2>3. \A i \in 1..Len(queue) : queue[i].screen <= n
    <3>1. \A i \in 1..Len(queue) : queue[i] \in Write
      BY ElementOfSeq DEF QueueOK, WriteQueueTypeOK
    <3>2. \A i \in 1..Len(queue) : queue[i].screen \in Nat /\ queue[i].screen <= screen
      BY <3>1 DEF IInv, Opened, Write, Screens
    <3>3. QED BY <1>2, <3>2
  <2>4. dialog # None => dialog.screen <= n
    <3>1. dialog # None => dialog.screen \in Nat /\ dialog.screen <= screen
      BY DEF IInv, Opened, PageOK, Dialog, Screens
    <3>2. QED BY <1>2, <3>1
  <2>5. QED BY <1>1, <2>1, <2>2, <2>3, <2>4 DEF Opened
<1>8. UndoOK'
  <2> SUFFICES ASSUME NEW r \in Screens
               PROVE  UndoFits(store[r], prior[r])'
    BY DEF UndoOK
  <2>1. UndoFits(store[r], prior[r])
    BY DEF IInv, UndoOK
  <2>2. QED BY <1>1, <1>3, <1>4, <2>1 DEF UndoFits, Over
<1>9. OfferOK'
  <2>1. store'[n].undo = None
    BY <1>2, <1>4, <1>5
  <2>2. QED BY <1>1, <2>1 DEF OfferOK
<1>10. LockOK'
  <2> SUFFICES ASSUME NEW r \in Screens
               PROVE  LockFits(r)'
    BY DEF LockOK
  <2>1. LockFits(r) /\ (Asked(r)' <=> Asked(r))
    BY <1>1 DEF IInv, LockOK, Asked
  <2>2. CASE r = n
    <3>1. ~Asked(n)
      BY <1>2 DEF IInv, Opened, Asked, PageOK, Screens
    <3>2. QED BY <1>2, <1>4, <1>5, <2>1, <2>2, <3>1 DEF LockFits
  <2>3. CASE r # n
    <3>1. AsAgreed(r) => AsAgreed(r)'
      BY <1>1, <1>3, <1>4, <1>6, <2>3 DEF AsAgreed, Closed
    <3>2. QED BY <1>1, <1>3, <1>4, <2>1, <3>1 DEF LockFits
  <2>4. QED BY <2>2, <2>3
<1>11. QED BY <1>6, <1>7, <1>8, <1>9, <1>10 DEF IInv

(* The undo offer leaves the screen.                                       *)
LEMMA ExpireInv ==
    ASSUME TypeOK, IInv, Expire
    PROVE  IInv'
<1> USE TypeParts DEF Parts
<1> DEFINE s == toast
           t == [store[s] EXCEPT !.undo = None]
<1>1. /\ s \in Screens /\ toast' = None /\ SetStore(s, t)
      /\ UNCHANGED <<queue, loads, screen, prior, missed, dialog, agreed, told>>
  BY DEF Expire, PageOK, writeVars, history
<1>2. /\ t.undo = None /\ t.phase = store[s].phase
      /\ t.data = store[s].data /\ t.map = store[s].map
      /\ Closed(t) <=> Closed(store[s])
  BY <1>1, NoUndoIsStore DEF Closed
<1>3. /\ store'[s] = t
      /\ \A r \in Screens : r # s => store'[r] = store[r]
  BY <1>1 DEF SetStore
<1>4. store[screen].undo # None => s = screen
  BY DEF IInv, OfferOK
<1> HIDE DEF s, t
<1>5. Opened' /\ AloneIn(loads)'
  BY <1>1, <1>2, <1>3 DEF IInv, Opened, AloneIn
<1>6. LoadsOK'
  <2> SUFFICES ASSUME NEW k \in loads
               PROVE  LoadFits(k, store[k.screen])'
    BY <1>1 DEF LoadsOK
  <2>1. LoadFits(k, store[k.screen]) /\ k.screen \in Screens
    BY DEF IInv, LoadsOK, Load
  <2>2. QED BY <1>2, <1>3, <2>1 DEF LoadFits
<1>7. UndoOK'
  <2> SUFFICES ASSUME NEW r \in Screens
               PROVE  UndoFits(store[r], prior[r])'
    BY DEF UndoOK
  <2>1. UndoFits(store[r], prior[r])
    BY DEF IInv, UndoOK
  <2>2. QED BY <1>1, <1>2, <1>3, <2>1 DEF UndoFits, Over
<1>8. OfferOK'
  <2>1. store'[screen].undo = None
    BY <1>2, <1>3, <1>4 DEF PageOK
  <2>2. QED BY <1>1, <2>1 DEF OfferOK
<1>9. ToldOK' /\ FlagsOK'
  <2>1. \A r \in Screens : /\ Closed(store'[r]) <=> Closed(store[r])
                          /\ store'[r].data = store[r].data
    BY <1>2, <1>3
  <2>2. QED BY <1>1, <2>1 DEF IInv, ToldOK, Closed, HistoryOK, FlagsOK, FlagsFit
<1>10. LockOK'
  <2> SUFFICES ASSUME NEW r \in Screens
               PROVE  LockFits(r)'
    BY DEF LockOK
  <2>1. LockFits(r) /\ (Asked(r)' <=> Asked(r)) /\ (NoLatest(r) <=> NoLatest(r)')
    BY <1>1 DEF IInv, LockOK, Asked, NoLatest
  <2>2. AsAgreed(r) => AsAgreed(r)'
    BY <1>1, <1>2, <1>3, <2>1 DEF AsAgreed, Closed
  <2>3. QED BY <1>1, <1>2, <1>3, <2>1, <2>2 DEF LockFits
<1>11. QED BY <1>5, <1>6, <1>7, <1>8, <1>9, <1>10 DEF IInv

(* A write fails: its screen and those of the writes dropped become stale, *)
(* forget their undo and reload.                                           *)
LEMMA WriteFailsInv ==
    ASSUME TypeOK, IInv, out # "none", WriteFails
    PROVE  IInv'
<1> USE TypeParts DEF Parts
<1>1. /\ UNCHANGED <<screen, dialog, prior, agreed, told>>
      /\ queue' = <<>> /\ missed' = Screens /\ toast' = None
      /\ loads' = Reload(loads, Told, FALSE)
      /\ Told \in SUBSET Screens
  BY ToldAreScreens DEF WriteFails, DropAll, history
<1>2. \A r \in Told : /\ store'[r].stale /\ store'[r].undo = None
                     /\ store'[r].data = store[r].data
                     /\ store'[r].map = store[r].map
                     /\ store'[r].phase = store[r].phase
  BY <1>1, DroppedIsStore DEF WriteFails
<1>3. \A r \in Screens \ Told : store'[r] = store[r]
  BY DEF WriteFails
<1>4. /\ AloneIn(loads)' /\ LoadsOK' /\ ToldOK' /\ FlagsOK'
      /\ \A l \in loads' : \/ l.screen \in Told
                          \/ \E k \in loads : l.screen = k.screen
      /\ \A r \in Screens \ Told : NoLatest(r) => NoLatest(r)'
  <2>1. \A r \in Screens :
           /\ store'[r].data = store[r].data /\ store'[r].phase = store[r].phase
           /\ Closed(store[r]) => Closed(store'[r])
           /\ r \in Told => Closed(store'[r])
    BY <1>2, <1>3 DEF Closed
  <2>2. told' = told
    BY <1>1
  <2> HIDE DEF Told
  <2>3. QED BY <1>1, <2>1, <2>2, ReloadKeeps
<1>5. /\ DOMAIN queue = 1..Len(queue) /\ Len(queue) \in Nat \ {0}
      /\ \A r \in Told : r <= screen
      /\ \A r \in Screens \ Told : \A i \in 1..Len(queue) : queue[i].screen # r
  <2>1. queue # <<>>
    BY DEF QueueOK, QueueIdle
  <2>2. DOMAIN queue = 1..Len(queue) /\ Len(queue) \in Nat \ {0}
    BY <2>1, QueueOnly
  <2>3. QED BY <2>2 DEF Told, IInv, Opened
<1>6. Opened'
  <2>1. \A l \in loads' : l.screen <= screen
    BY <1>4, <1>5 DEF IInv, Opened
  <2>2. \A r \in Screens : screen < r => r \notin Told
    BY <1>5 DEF PageOK, Screens
  <2>3. \A r \in Screens : screen < r => store'[r] = store[r]
    BY <1>3, <2>2
  <2>4. \A i \in 1..Len(queue') : queue'[i].screen <= screen'
    BY <1>1, EmptySeq
  <2>5. QED BY <1>1, <2>1, <2>3, <2>4 DEF IInv, Opened
<1>7. UndoOK'
  <2> SUFFICES ASSUME NEW r \in Screens
               PROVE  UndoFits(store[r], prior[r])'
    BY DEF UndoOK
  <2>1. UndoFits(store[r], prior[r])
    BY DEF IInv, UndoOK
  <2>2. CASE r \in Told
    BY <1>2, <2>2 DEF UndoFits
  <2>3. CASE r \notin Told
    BY <1>1, <1>3, <2>1, <2>3 DEF UndoFits, Over, Closed
  <2>4. QED BY <2>2, <2>3
<1>8. OfferOK'
  <2>1. store'[screen].undo = None
    <3>1. CASE screen \in Told
      BY <1>2, <3>1
    <3>2. CASE screen \notin Told
      <4>1. queue[Len(queue)].screen # screen
        BY <1>5, <3>2 DEF PageOK
      <4>2. QED BY <1>3, <1>5, <3>2, <4>1 DEF IInv, OfferOK, PageOK
    <3>3. QED BY <3>1, <3>2
  <2>2. QED BY <1>1, <2>1 DEF OfferOK
<1>9. LockOK'
  <2> SUFFICES ASSUME NEW r \in Screens
               PROVE  LockFits(r)'
    BY DEF LockOK
  <2>1. LockFits(r) /\ (Asked(r)' <=> Asked(r)) /\ store'[r].phase = store[r].phase
    BY <1>1, <1>2, <1>3 DEF IInv, LockOK, Asked
  <2>2. CASE store[r].phase = "sent"
    <3>1. r \notin Told
      BY <1>5, <2>1, <2>2 DEF LockFits, Told
    <3>2. AsAgreed(r)'
      BY <1>1, <1>3, <1>4, <2>1, <2>2, <3>1 DEF LockFits, AsAgreed, Closed
    <3>3. \A i \in 1..Len(queue') : queue'[i].screen # r
      BY <1>1, EmptySeq
    <3>4. QED BY <1>1, <2>1, <2>2, <3>2, <3>3 DEF LockFits
  <2>3. CASE store[r].phase # "sent"
    BY <1>1, <2>1, <2>3 DEF LockFits
  <2>4. QED BY <2>2, <2>3
<1>10. QED BY <1>4, <1>6, <1>7, <1>8, <1>9 DEF IInv

(* Every step keeps the inductive invariant.                               *)
LEMMA StepInv == TypeOK /\ TypeOK' /\ IInv /\ [Next]_vars => IInv'
<1> SUFFICES ASSUME TypeOK, TypeOK', IInv, [Next]_vars
             PROVE  IInv'
  OBVIOUS
<1>1. CASE Continue
  BY <1>1, StartGetInv, SendLockInv DEF Continue
<1>2. CASE User
  BY <1>2, CommitInv, UndoInv, ExpireInv, DialogsInv, ConfirmClearInv,
     ConfirmLockInv, RetryInv, ReopenInv DEF User
<1>3. CASE Network
  <2>1. ServeWrite => IInv'
    BY ServerInv DEF ServeWrite, history
  <2>2. WriteRefused \/ WriteLost => IInv'
    BY WriteFailsInv DEF WriteRefused, WriteLost
  <2>3. QED
    BY <1>3, <2>1, <2>2, AnsweredInv, ServeLockInv, EndLockInv, ReadInv,
       LoadAnsweredInv, LoadLostInv DEF Network
<1>4. CASE Elsewhere
  BY <1>4, ServerInv DEF Elsewhere, writeVars, history
<1>5. CASE \E w \in late : Land(w)
  BY <1>5, ServerInv DEF Land, writeVars, history
<1>6. CASE UNCHANGED vars
  BY <1>6, ServerInv DEF vars, writeVars, history
<1>7. QED BY <1>1, <1>2, <1>3, <1>4, <1>5, <1>6 DEF Next

(* The inductive invariant holds in every state, however many screens are  *)
(* opened, requests lost or completed late, and locks changed by others.   *)
THEOREM Inductive == Spec => []IInv
BY InitInv, StepInv, TypeInvariant, PTL DEF Spec

-------------------------------------------------------------------------------
(* Undo is only offered on a copy that may be edited, and puts it back as  *)
(* it was before the action it reverts.                                    *)
THEOREM UndoSafe == Spec => []UndoReverts
<1>1. IInv => UndoReverts
  BY DEF IInv, UndoOK, UndoFits, UndoReverts, Frozen, Locked, Busy, Closed
<1>2. QED BY <1>1, Inductive, PTL

(* The screen shown has something to undo exactly while its offer is on    *)
(* display.                                                                *)
THEOREM OfferMeansUndo == Spec => []UndoWhileOffered
<1>1. TypeOK /\ IInv => UndoWhileOffered
  BY TypeParts, PlanningAssumption DEF Parts, PageOK, IInv, OfferOK, UndoWhileOffered
<1>2. QED BY <1>1, TypeInvariant, Inductive, PTL

(* A screen whose validation or reopening was confirmed takes no edit      *)
(* before it shows a lock state read after that.                           *)
THEOREM FrozenUntilLockShown == Spec => []FrozenUntilShown
<1>1. IInv => FrozenUntilShown
  BY DEF IInv, ToldOK, LoadsOK, LoadFits, FrozenUntilShown, Frozen, Locked, Busy, Closed
<1>2. QED BY <1>1, Inductive, PTL

(* No edit is ever missed by the answer a screen is going to show.         *)
THEOREM EditsWaitForLoads == Spec => []NoEditUnderLoad
<1>1. IInv => NoEditUnderLoad
  BY DEF IInv, LoadsOK, LoadFits, NoEditUnderLoad
<1>2. QED BY <1>1, Inductive, PTL

-------------------------------------------------------------------------------
(* The writes of a queue q on top of a planning p.                         *)

FreeIn(q, h) == \A j \in 1..Len(q) : h \notin DOMAIN q[j].values

TopIn(q, h, i) ==
    /\ i \in 1..Len(q)
    /\ h \in DOMAIN q[i].values
    /\ \A j \in 1..Len(q) : h \in DOMAIN q[j].values => j <= i

(* Each half-day that is in the queue has a latest write there.  True of   *)
(* every finite sequence, but by an induction: the invariant carries it.   *)
HasTops(q) == \A h \in Halves : FreeIn(q, h) \/ \E i \in 1..Len(q) : TopIn(q, h, i)

(* The planning m is p with the writes of q on top.                        *)
IsAhead(m, q, p) ==
    \A h \in Halves :
        /\ FreeIn(q, h) => m[h] = p[h]
        /\ \A i \in 1..Len(q) : TopIn(q, h, i) => m[h] = q[i].values[h]

(* The writes w make the change c.                                         *)
Makes(w, c) ==
    \A h \in Halves :
        IF h \in DOMAIN c
        THEN \E j \in 1..Len(w) : TopIn(w, h, j) /\ w[j].values[h] = c[h]
        ELSE FreeIn(w, h)

(* IsAhead is what Ahead computes, when there are latest writes.           *)
LEMMA AheadIs ==
    ASSUME QueueOK, HasTops(queue), NEW p, NEW m \in Planning, IsAhead(m, queue, p)
    PROVE  m = Ahead(p)
<1>1. ASSUME NEW h \in Halves
      PROVE  m[h] = Ahead(p)[h]
  <2>1. DOMAIN queue = 1..Len(queue) /\ Len(queue) \in Nat
    BY LenProperties DEF QueueOK, WriteQueueTypeOK
  <2>2. Ahead(p)[h] = IF Queued(h) = {} THEN p[h] ELSE queue[Latest(h)].values[h]
    BY DEF Ahead
  <2>3. CASE FreeIn(queue, h)
    <3>1. Queued(h) = {}
      BY <2>1, <2>3 DEF FreeIn, Queued
    <3>2. QED BY <2>2, <2>3, <3>1 DEF IsAhead
  <2>4. ASSUME NEW i \in 1..Len(queue), TopIn(queue, h, i)
        PROVE  m[h] = Ahead(p)[h]
    <3>1. i \in Queued(h) /\ \A j \in Queued(h) : j <= i
      BY <2>1, <2>4 DEF TopIn, Queued
    <3>2. Latest(h) \in Queued(h) /\ \A j \in Queued(h) : j <= Latest(h)
      BY <3>1 DEF Latest
    <3>3. Queued(h) \subseteq Nat
      BY <2>1 DEF Queued
    <3>4. i <= Latest(h) /\ Latest(h) <= i /\ i \in Nat /\ Latest(h) \in Nat
      BY <3>1, <3>2, <3>3
    <3>5. Latest(h) = i
      BY <3>4
    <3>6. m[h] = queue[i].values[h]
      BY <2>4 DEF IsAhead
    <3>7. QED BY <2>2, <3>1, <3>5, <3>6
  <2>5. QED BY <2>3, <2>4 DEF HasTops
<1>2. QED BY <1>1 DEF Ahead, Planning

(* On an empty queue, a planning ahead of another is that planning.        *)
LEMMA NothingAhead ==
    \A q : q = <<>> =>
        /\ HasTops(q)
        /\ \A p : IsAhead(p, q, p)
        /\ \A m \in Planning, p \in Planning : IsAhead(m, q, p) => m = p
<1> SUFFICES ASSUME NEW q, q = <<>>
             PROVE  /\ HasTops(q)
                    /\ \A p : IsAhead(p, q, p)
                    /\ \A m \in Planning, p \in Planning : IsAhead(m, q, p) => m = p
  OBVIOUS
<1>1. Len(q) = 0
  BY EmptySeq
<1>2. \A i : i \notin 1..Len(q)
  BY <1>1
<1>3. \A h \in Halves : FreeIn(q, h)
  BY <1>2 DEF FreeIn
<1>4. HasTops(q) /\ \A p : IsAhead(p, q, p)
  BY <1>2, <1>3 DEF HasTops, IsAhead
<1>5. ASSUME NEW m \in Planning, NEW p \in Planning, IsAhead(m, q, p)
      PROVE  m = p
  <2>1. \A h \in Halves : m[h] = p[h]
    BY <1>3, <1>5 DEF IsAhead
  <2>2. QED BY <2>1 DEF Planning
<1>6. QED BY <1>4, <1>5

(* Writes that make a change, pushed on the queue, put the change on top.  *)
LEMMA PushAhead ==
    ASSUME NEW q \in Seq(Write), NEW w \in Seq(Write), NEW c, Makes(w, c), HasTops(q)
    PROVE  /\ HasTops(q \o w)
           /\ \A m, p : IsAhead(m, q, p) => IsAhead(Over(c, m), q \o w, p)
<1> DEFINE r == q \o w
<1>1. /\ Len(q) \in Nat /\ Len(w) \in Nat /\ Len(r) = Len(q) + Len(w)
      /\ \A i \in 1..Len(r) : r[i] = IF i <= Len(q) THEN q[i] ELSE w[i - Len(q)]
  BY ConcatProperties, LenProperties
<1> HIDE DEF r
<1>2. /\ \A i \in 1..Len(q) : i \in 1..Len(r) /\ r[i] = q[i]
      /\ \A j \in 1..Len(w) : Len(q) + j \in 1..Len(r) /\ r[Len(q) + j] = w[j]
      /\ \A i \in 1..Len(r) : \/ i \in 1..Len(q)
                               \/ \E j \in 1..Len(w) : i = Len(q) + j
  <2>1. ASSUME NEW i \in 1..Len(r), ~(i \in 1..Len(q))
        PROVE  \E j \in 1..Len(w) : i = Len(q) + j
    <3>1. i - Len(q) \in 1..Len(w) /\ i = Len(q) + (i - Len(q))
      BY <1>1, <2>1
    <3>2. QED BY <3>1
  <2>2. \A i \in 1..Len(q) : i \in 1..Len(r) /\ r[i] = q[i]
    BY <1>1
  <2>3. ASSUME NEW j \in 1..Len(w)
        PROVE  Len(q) + j \in 1..Len(r) /\ r[Len(q) + j] = w[j]
    <3>1. /\ Len(q) + j \in 1..Len(r) /\ ~(Len(q) + j <= Len(q))
          /\ (Len(q) + j) - Len(q) = j
      BY <1>1
    <3>2. QED BY <1>1, <3>1
  <2>4. QED BY <2>1, <2>2, <2>3
<1>3. ASSUME NEW h \in Halves, h \in DOMAIN c
      PROVE  \E i \in 1..Len(r) : TopIn(r, h, i) /\ r[i].values[h] = c[h]
  <2>1. PICK j \in 1..Len(w) : TopIn(w, h, j) /\ w[j].values[h] = c[h]
    BY <1>3 DEF Makes
  <2>2. /\ Len(q) + j \in 1..Len(r) /\ r[Len(q) + j] = w[j]
        /\ \A i \in 1..Len(q) : i <= Len(q) + j
        /\ \A k \in 1..Len(w) : k <= j => Len(q) + k <= Len(q) + j
    BY <1>1, <1>2
  <2>3. TopIn(r, h, Len(q) + j)
    BY <1>2, <2>1, <2>2 DEF TopIn
  <2>4. QED BY <2>1, <2>2, <2>3
<1>4. ASSUME NEW h \in Halves, h \notin DOMAIN c
      PROVE  /\ FreeIn(r, h) <=> FreeIn(q, h)
             /\ \A i \in 1..Len(r) :
                    TopIn(r, h, i) <=> i \in 1..Len(q) /\ TopIn(q, h, i)
  <2>1. FreeIn(w, h)
    BY <1>4 DEF Makes
  <2>2. \A i \in 1..Len(r) : h \in DOMAIN r[i].values =>
           i \in 1..Len(q) /\ h \in DOMAIN q[i].values
    BY <1>2, <2>1 DEF FreeIn
  <2>3. QED BY <1>2, <2>2 DEF FreeIn, TopIn
<1>5. HasTops(r)
  <2>1. ASSUME NEW h \in Halves
        PROVE  FreeIn(r, h) \/ \E i \in 1..Len(r) : TopIn(r, h, i)
    <3>1. CASE h \in DOMAIN c
      BY <1>3, <3>1
    <3>2. CASE h \notin DOMAIN c
      <4>1. CASE FreeIn(q, h)
        BY <1>4, <3>2, <4>1
      <4>2. CASE \E i \in 1..Len(q) : TopIn(q, h, i)
        BY <1>2, <1>4, <3>2, <4>2
      <4>3. QED BY <4>1, <4>2 DEF HasTops
    <3>3. QED BY <3>1, <3>2
  <2>2. QED BY <2>1 DEF HasTops
<1>6. ASSUME NEW m, NEW p, IsAhead(m, q, p)
      PROVE  IsAhead(Over(c, m), r, p)
  <2>1. ASSUME NEW h \in Halves
        PROVE  /\ FreeIn(r, h) => Over(c, m)[h] = p[h]
               /\ \A i \in 1..Len(r) : TopIn(r, h, i) => Over(c, m)[h] = r[i].values[h]
    <3>1. CASE h \in DOMAIN c
      <4>1. Over(c, m)[h] = c[h]
        BY <3>1 DEF Over
      <4>2. PICK k \in 1..Len(r) : TopIn(r, h, k) /\ r[k].values[h] = c[h]
        BY <1>3, <3>1
      <4>3. ~FreeIn(r, h)
        BY <4>2 DEF FreeIn, TopIn
      <4>4. \A i \in 1..Len(r) : TopIn(r, h, i) => i = k
        <5>1. ASSUME NEW i \in 1..Len(r), TopIn(r, h, i)
              PROVE  i <= k /\ k <= i
          BY <4>2, <5>1 DEF TopIn
        <5>2. QED BY <1>1, <5>1
      <4>5. QED BY <4>1, <4>2, <4>3, <4>4
    <3>2. CASE h \notin DOMAIN c
      <4>1. Over(c, m)[h] = m[h]
        BY <3>2 DEF Over
      <4>2. QED BY <1>2, <1>4, <1>6, <3>2, <4>1 DEF IsAhead
    <3>3. QED BY <3>1, <3>2
  <2>2. QED BY <2>1 DEF IsAhead
<1>7. QED BY <1>5, <1>6 DEF r

(* The server applying the head of the queue changes nothing of what is on *)
(* top.                                                                    *)
LEMMA ServeAhead ==
    ASSUME NEW q \in Seq(Write), q # <<>>, NEW m, NEW p, IsAhead(m, q, p)
    PROVE  IsAhead(m, q, Over(Head(q).values, p))
<1>1. Len(q) \in Nat \ {0} /\ Head(q) = q[1] /\ 1 \in 1..Len(q)
  BY EmptySeq, LenProperties, HeadTailProperties
<1>2. ASSUME NEW h \in Halves, FreeIn(q, h)
      PROVE  Over(Head(q).values, p)[h] = p[h]
  BY <1>1, <1>2 DEF FreeIn, Over
<1>3. QED BY <1>2 DEF IsAhead

(* Nor does dropping the head, once the server has applied it.             *)
LEMMA TailAhead ==
    ASSUME NEW q \in Seq(Write), q # <<>>, HasTops(q)
    PROVE  /\ HasTops(Tail(q))
           /\ \A m, p : IsAhead(m, q, p) /\ Over(Head(q).values, p) = p
                        => IsAhead(m, Tail(q), p)
<1> DEFINE r == Tail(q)
<1>1. /\ Len(q) \in Nat \ {0} /\ Len(r) = Len(q) - 1
      /\ \A i \in 1..Len(r) : r[i] = q[i + 1]
      /\ Head(q) = q[1]
  BY EmptySeq, LenProperties, HeadTailProperties
<1> HIDE DEF r
<1>2. /\ 1 \in 1..Len(q)
      /\ \A i \in 1..Len(r) : i + 1 \in 1..Len(q) /\ i + 1 # 1 /\ r[i] = q[i + 1]
      /\ \A j \in 1..Len(q) : j = 1 \/ \E i \in 1..Len(r) : j = i + 1
      /\ \A i \in 1..Len(r) : \A j \in 1..Len(r) : i <= j <=> i + 1 <= j + 1
      /\ \A i \in 1..Len(r) : ~(i + 1 <= 1) /\ 1 <= i + 1
  <2>1. ASSUME NEW j \in 1..Len(q), j # 1
        PROVE  \E i \in 1..Len(r) : j = i + 1
    <3>1. j - 1 \in 1..Len(r) /\ j = (j - 1) + 1
      BY <1>1, <2>1
    <3>2. QED BY <3>1
  <2>2. QED BY <1>1, <2>1
<1>3. ASSUME NEW h \in Halves
      PROVE  /\ FreeIn(q, h) => FreeIn(r, h)
             /\ FreeIn(r, h) => FreeIn(q, h) \/ (TopIn(q, h, 1) /\ h \in DOMAIN q[1].values)
             /\ \A i \in 1..Len(r) : TopIn(r, h, i) <=> TopIn(q, h, i + 1)
  <2>1. FreeIn(q, h) => FreeIn(r, h)
    BY <1>2 DEF FreeIn
  <2>2. ASSUME FreeIn(r, h), ~FreeIn(q, h)
        PROVE  TopIn(q, h, 1) /\ h \in DOMAIN q[1].values
    <3>1. \A j \in 1..Len(q) : h \in DOMAIN q[j].values => j = 1
      BY <1>2, <2>2 DEF FreeIn
    <3>2. QED BY <1>2, <2>2, <3>1 DEF FreeIn, TopIn
  <2>3. ASSUME NEW i \in 1..Len(r), TopIn(r, h, i)
        PROVE  TopIn(q, h, i + 1)
    <3>1. ASSUME NEW j \in 1..Len(q), h \in DOMAIN q[j].values
          PROVE  j <= i + 1
      BY <1>2, <2>3, <3>1 DEF TopIn
    <3>2. i + 1 \in 1..Len(q) /\ h \in DOMAIN q[i + 1].values
      BY <1>2, <2>3 DEF TopIn
    <3>3. QED BY <3>1, <3>2 DEF TopIn
  <2>4. ASSUME NEW i \in 1..Len(r), TopIn(q, h, i + 1)
        PROVE  TopIn(r, h, i)
    BY <1>2, <2>4 DEF TopIn
  <2>5. QED BY <2>1, <2>2, <2>3, <2>4
<1>4. HasTops(r)
  <2>1. ASSUME NEW h \in Halves
        PROVE  FreeIn(r, h) \/ \E i \in 1..Len(r) : TopIn(r, h, i)
    <3>1. CASE FreeIn(q, h)
      BY <1>3, <3>1
    <3>2. ASSUME NEW j \in 1..Len(q), TopIn(q, h, j)
          PROVE  FreeIn(r, h) \/ \E i \in 1..Len(r) : TopIn(r, h, i)
      <4>1. CASE j = 1
        <5>1. \A k \in 1..Len(q) : h \in DOMAIN q[k].values => k <= 1
          BY <3>2, <4>1 DEF TopIn
        <5>2. QED BY <1>2, <5>1 DEF FreeIn
      <4>2. CASE \E i \in 1..Len(r) : j = i + 1
        BY <1>3, <3>2, <4>2
      <4>3. QED BY <1>2, <4>1, <4>2
    <3>3. QED BY <3>1, <3>2 DEF HasTops
  <2>2. QED BY <2>1 DEF HasTops
<1>5. ASSUME NEW m, NEW p, IsAhead(m, q, p), Over(Head(q).values, p) = p
      PROVE  IsAhead(m, r, p)
  <2>1. ASSUME NEW h \in Halves, FreeIn(r, h)
        PROVE  m[h] = p[h]
    <3>1. CASE FreeIn(q, h)
      BY <1>5, <3>1 DEF IsAhead
    <3>2. CASE TopIn(q, h, 1) /\ h \in DOMAIN q[1].values
      <4>1. m[h] = q[1].values[h]
        BY <1>2, <1>5, <3>2 DEF IsAhead
      <4>2. Over(Head(q).values, p)[h] = q[1].values[h]
        BY <1>1, <3>2 DEF Over
      <4>3. QED BY <1>5, <4>1, <4>2
    <3>3. QED BY <1>3, <2>1, <3>1, <3>2
  <2>2. ASSUME NEW h \in Halves, NEW i \in 1..Len(r), TopIn(r, h, i)
        PROVE  m[h] = r[i].values[h]
    BY <1>2, <1>3, <1>5, <2>2 DEF IsAhead
  <2>3. QED BY <2>1, <2>2 DEF IsAhead
<1>6. QED BY <1>4, <1>5 DEF r

(* One write makes the change it carries.                                  *)
LEMMA OneMakes ==
    ASSUME NEW w, NEW c, w.values = c
    PROVE  Makes(<<w>>, c)
<1> DEFINE q == <<w>>
<1>1. Len(q) = 1 /\ q[1] = w
  OBVIOUS
<1> HIDE DEF q
<1>2. 1..Len(q) = {1}
  BY <1>1
<1>3. Makes(q, c)
  BY <1>1, <1>2 DEF Makes, FreeIn, TopIn
<1>4. QED BY <1>3 DEF q

(* Two writes of disjoint half-days make the change they carry together.   *)
LEMMA TwoMake ==
    ASSUME NEW v, NEW w, NEW c, NEW q, Len(q) = 2, q[1] = v, q[2] = w,
           DOMAIN v.values \cup DOMAIN w.values = DOMAIN c,
           DOMAIN v.values \cap DOMAIN w.values = {},
           \A h \in DOMAIN v.values : v.values[h] = c[h],
           \A h \in DOMAIN w.values : w.values[h] = c[h]
    PROVE  Makes(q, c)
<1>1. Len(q) = 2 /\ q[1] = v /\ q[2] = w
  OBVIOUS
<1>2. 1..Len(q) = {1, 2} /\ 1 <= 2 /\ 1 <= 1 /\ 2 <= 2
  BY <1>1
<1>3. ASSUME NEW h \in Halves
      PROVE  IF h \in DOMAIN c
             THEN \E j \in 1..Len(q) : TopIn(q, h, j) /\ q[j].values[h] = c[h]
             ELSE FreeIn(q, h)
  <2>1. CASE h \in DOMAIN v.values
    <3>1. TopIn(q, h, 1) /\ q[1].values[h] = c[h]
      BY <1>1, <1>2, <2>1 DEF TopIn
    <3>2. QED BY <1>2, <2>1, <3>1
  <2>2. CASE h \in DOMAIN w.values
    <3>1. TopIn(q, h, 2) /\ q[2].values[h] = c[h]
      BY <1>1, <1>2, <2>2 DEF TopIn
    <3>2. QED BY <1>2, <2>2, <3>1
  <2>3. CASE h \notin DOMAIN c
    BY <1>1, <1>2, <2>3 DEF FreeIn
  <2>4. QED BY <2>1, <2>2, <2>3
<1>4. QED BY <1>3 DEF Makes

(* The writes of a change make that change, upserts and clears apart.      *)
LEMMA ToWritesMakes ==
    ASSUME NEW s \in Screens, NEW c \in Change
    PROVE  Makes(ToWrites(s, c), c)
<1> DEFINE U == Upserts(c)
           C == DOMAIN c \ Upserts(c)
           u == [screen |-> s, values |-> Restrict(c, U)]
           d == [screen |-> s, values |-> Restrict(c, C)]
<1>1. U \in SUBSET DOMAIN c /\ C = DOMAIN c \ U
  BY DEF Upserts
<1>2. ToWrites(s, c) = (IF U = {} THEN <<>> ELSE <<u>>) \o (IF C = {} THEN <<>> ELSE <<d>>)
  BY DEF ToWrites
<1>3. /\ u.values = Restrict(c, U) /\ DOMAIN u.values = U
      /\ \A h \in U : u.values[h] = c[h]
      /\ d.values = Restrict(c, C) /\ DOMAIN d.values = C
      /\ \A h \in C : d.values[h] = c[h]
  BY <1>1 DEF Restrict
<1>4. c \in [DOMAIN c -> Values]
  BY ChangeIsFunction
<1>5. /\ U = DOMAIN c => Restrict(c, U) = c
      /\ C = DOMAIN c => Restrict(c, C) = c
  BY <1>4 DEF Restrict
<1>6. u \in Write /\ d \in Write
  BY <1>1, RestrictIsChange DEF Write
<1> HIDE DEF U, C, u, d
<1>7. CASE U = {} /\ C = {}
  <2>1. ToWrites(s, c) = <<>> /\ DOMAIN c = {}
    BY <1>1, <1>2, <1>7
  <2>2. \A h \in Halves : FreeIn(<<>>, h)
    BY EmptySeq DEF FreeIn
  <2>3. QED BY <2>1, <2>2 DEF Makes
<1>8. CASE U = {} /\ C # {}
  <2>1. ToWrites(s, c) = <<d>>
    BY <1>2, <1>6, <1>8, ConcatEmptySeq
  <2>2. d.values = c
    BY <1>1, <1>3, <1>5, <1>8
  <2>3. QED BY <2>1, <2>2, OneMakes
<1>9. CASE U # {} /\ C = {}
  <2>1. ToWrites(s, c) = <<u>>
    BY <1>2, <1>6, <1>9, ConcatEmptySeq
  <2>2. u.values = c
    BY <1>1, <1>3, <1>5, <1>9
  <2>3. QED BY <2>1, <2>2, OneMakes
<1>10. CASE U # {} /\ C # {}
  <2>1. LET w == ToWrites(s, c) IN Len(w) = 2 /\ w[1] = u /\ w[2] = d
    <3>1. ToWrites(s, c) = <<u>> \o <<d>>
      BY <1>2, <1>10
    <3>2. /\ <<u>> \in Seq(Write) /\ Len(<<u>>) = 1 /\ <<u>>[1] = u
          /\ <<d>> \in Seq(Write) /\ Len(<<d>>) = 1 /\ <<d>>[1] = d
      BY <1>6
    <3>3. QED BY <3>1, <3>2, ConcatProperties
  <2>2. QED BY <1>1, <1>3, <2>1, TwoMake
<1>11. QED BY <1>7, <1>8, <1>9, <1>10

-------------------------------------------------------------------------------
(* One screen, and no request that the server completes after the client   *)
(* has given up: what the screen shows is what is saved.                   *)

(* The plannings p and e differ only where others have written.            *)
SameBut(H, p, e) == \A h \in Halves \ H : p[h] = e[h]

LoadSaved(l, q, e, H) ==
    l.latest /\ (l.sent \/ l.rows # None)
    => q = <<>> /\ (l.rows # None => SameBut(H, l.rows, e))

(* The planning p is the server's as far as this screen can know it: the   *)
(* screen shows p with its queued writes on top, and the write the server  *)
(* has served is in it.                                                    *)
Known(p, st, q, o) ==
    /\ o = "done" => Over(Head(q).values, p) = p
    /\ ~Closed(st) => IsAhead(st.map, q, p)

SavedOK ==
    /\ late = {}
    /\ HasTops(queue)
    /\ screen = 1 =>
          /\ \E p \in Planning : /\ SameBut(theirs[1], p, entries)
                                /\ Known(p, store[1], queue, out)
          /\ \A l \in loads : LoadSaved(l, queue, entries, since[1])

(* Before the planning is opened again, all there is belongs to its first  *)
(* screen.                                                                 *)
LEMMA OnlyFirst ==
    ASSUME TypeOK, IInv, screen = 1
    PROVE  /\ 1 \in Screens
           /\ \A l \in loads : l.screen = 1
           /\ \A i \in 1..Len(queue) : queue[i].screen = 1
           /\ dialog # None => dialog.screen = 1
           /\ \A s \in Screens : store[s].undo # None => s = 1
<1> USE TypeParts DEF Parts
<1>1. \A r \in Screens : r <= 1 => r = 1
  BY WriteQueueAssumption DEF Screens
<1>2. \A r \in Screens : r = 1 \/ 1 < r
  BY WriteQueueAssumption DEF Screens
<1>3. \A l \in loads : l.screen \in Screens
  BY DEF Load
<1>4. \A i \in 1..Len(queue) : queue[i].screen \in Screens
  <2>1. ASSUME NEW i \in 1..Len(queue)
        PROVE  queue[i] \in Write
    BY ElementOfSeq DEF QueueOK, WriteQueueTypeOK
  <2>2. QED BY <2>1 DEF Write
<1>5. dialog # None => dialog.screen \in Screens
  BY DEF PageOK, Dialog
<1>6. 1 \in Screens
  BY WriteQueueAssumption DEF Screens
<1>7. \A i \in 1..Len(queue) : queue[i].screen <= screen
  BY DEF IInv, Opened
<1>8. QED BY <1>1, <1>2, <1>3, <1>4, <1>5, <1>6, <1>7 DEF IInv, Opened

(* A step that leaves the queue and the entries alone keeps SavedOK if the *)
(* screen shows what it showed, or what is saved.                          *)
LEMMA SavedKept ==
    ASSUME TypeOK, SavedOK, UNCHANGED <<queue, out, entries, late>>,
           screen' = 1 =>
             /\ screen = 1
             /\ \/ /\ theirs' = theirs
                   /\ ~Closed(store'[1]) =>
                         ~Closed(store[1]) /\ store'[1].map = store[1].map
                \/ /\ queue = <<>> /\ store'[1].map \in Planning
                   /\ SameBut(theirs'[1], store'[1].map, entries)
             /\ \A l \in loads' : LoadSaved(l, queue, entries, since'[1])
    PROVE  SavedOK'
<1> USE TypeParts DEF Parts
<1>1. late' = {} /\ HasTops(queue')
  BY DEF SavedOK
<1>2. ASSUME screen' = 1
      PROVE  \E p \in Planning : /\ SameBut(theirs'[1], p, entries')
                                /\ Known(p, store'[1], queue', out')
  <2>1. CASE /\ theirs' = theirs
             /\ ~Closed(store'[1]) =>
                   ~Closed(store[1]) /\ store'[1].map = store[1].map
    <3>1. PICK p \in Planning : /\ SameBut(theirs[1], p, entries)
                                /\ Known(p, store[1], queue, out)
      BY <1>2 DEF SavedOK
    <3>2. Known(p, store'[1], queue', out')
      BY <2>1, <3>1 DEF Known
    <3>3. QED BY <2>1, <3>1, <3>2
  <2>2. CASE /\ queue = <<>> /\ store'[1].map \in Planning
             /\ SameBut(theirs'[1], store'[1].map, entries)
    <3>1. out # "done"
      BY <2>2 DEF QueueOK, QueueIdle
    <3>2. Known(store'[1].map, store'[1], queue', out')
      BY <2>2, <3>1, NothingAhead DEF Known
    <3>3. QED BY <2>2, <3>2
  <2>3. QED BY <1>2, <2>1, <2>2
<1>3. screen' = 1 => \A l \in loads' : LoadSaved(l, queue', entries', since'[1])
  OBVIOUS
<1>4. QED BY <1>1, <1>2, <1>3 DEF SavedOK

(* A load that starts has read nothing that could be out of date.          *)
LEMMA ReloadSaved ==
    ASSUME NEW ls \in SUBSET Load, NEW S \in SUBSET Screens, NEW a \in BOOLEAN,
           NEW q, NEW e, NEW H, \A l \in ls : LoadSaved(l, q, e, H)
    PROVE  \A l \in Reload(ls, S, a) : LoadSaved(l, q, e, H)
<1> SUFFICES ASSUME NEW l \in Reload(ls, S, a)
             PROVE  LoadSaved(l, q, e, H)
  OBVIOUS
<1>1. CASE Fresh(l, S, a)
  BY <1>1 DEF Fresh, LoadSaved
<1>2. ASSUME NEW k \in ls, Carries(l, k)
      PROVE  LoadSaved(l, q, e, H)
  BY <1>2 DEF Carries, Follows, LoadSaved
<1>3. QED BY <1>1, <1>2, ReloadCarries

(* An edit of the screen finds no load of it that could count.             *)
LEMMA PushSaved ==
    ASSUME TypeOK, IInv, SavedOK, NEW s \in Screens, NEW t \in Store,
           NEW c, NEW w \in Seq(Write), Makes(w, c), Push(w),
           ~Closed(store[s]), store[s].phase = "none",
           SetStore(s, t), t.map = Over(c, store[s].map),
           t.data = store[s].data, t.stale = store[s].stale,
           loads' = Edited(loads, s),
           UNCHANGED <<entries, late, screen, theirs, since>>,
           screen = 1 => s = 1
    PROVE  SavedOK'
<1> USE TypeParts DEF Parts
<1>1. /\ queue \in Seq(Write) /\ queue' = queue \o w /\ HasTops(queue)
      /\ late = {}
  BY DEF QueueOK, WriteQueueTypeOK, Push, SavedOK
<1>2. /\ HasTops(queue')
      /\ \A m, p : IsAhead(m, queue, p) => IsAhead(Over(c, m), queue', p)
  BY <1>1, PushAhead
<1>3. ASSUME out' = "done"
      PROVE  out = "done" /\ Head(queue') = Head(queue)
  <2>1. out = "done" /\ queue # <<>>
    BY <1>3 DEF Push, QueueOK, QueueIdle
  <2>2. Head(queue') = Head(queue)
    <3>1. /\ Len(queue) \in Nat \ {0} /\ Len(w) \in Nat
          /\ Head(queue) = queue[1]
      BY <1>1, <2>1, QueueOnly, HeadTailProperties, LenProperties
    <3>2. /\ queue' \in Seq(Write) /\ queue'[1] = queue[1] /\ Len(queue') # 0
      BY <1>1, <3>1, ConcatProperties
    <3>3. queue' # <<>>
      BY <3>2, EmptySeq
    <3>4. QED BY <3>1, <3>2, <3>3, HeadTailProperties
  <2>3. QED BY <2>1, <2>2
<1>4. ASSUME screen' = 1
      PROVE  /\ \E p \in Planning : /\ SameBut(theirs'[1], p, entries')
                                   /\ Known(p, store'[1], queue', out')
             /\ \A l \in loads' : LoadSaved(l, queue', entries', since'[1])
  <2>1. screen = 1 /\ s = 1 /\ store'[s] = t
    BY <1>4, SetStoreSets
  <2>2. PICK p \in Planning : /\ SameBut(theirs[1], p, entries)
                              /\ Known(p, store[1], queue, out)
    BY <2>1 DEF SavedOK
  <2>3. IsAhead(store[1].map, queue, p)
    BY <2>1, <2>2 DEF Known
  <2>7. IsAhead(store'[1].map, queue', p)
    BY <1>2, <2>1, <2>3
  <2>8. Known(p, store'[1], queue', out')
    BY <1>3, <2>2, <2>7 DEF Known
  <2>4. ASSUME NEW l \in loads'
        PROVE  ~l.latest
    <3>1. PICK k \in loads : l = Missed(k, s)
      BY <2>4, EditedIsLoads
    <3>2. k \in Load /\ k.screen = s /\ l.latest = k.latest
      BY <2>1, <3>1, OnlyFirst, MissedIsLoad
    <3>3. LoadsOK
      BY DEF IInv
    <3>4. ~k.latest
      BY <3>2, <3>3, LatestFrozen
    <3>5. QED BY <3>2, <3>4
  <2>5. QED BY <2>2, <2>8, <2>4 DEF LoadSaved
<1>5. QED BY <1>1, <1>2, <1>4 DEF SavedOK

(* SavedOK, step by step: a commit.                                        *)
LEMMA CommitSaved ==
    ASSUME TypeOK, IInv, SavedOK, NEW H \in SUBSET Halves, NEW v \in Values, Commit(H, v)
    PROVE  SavedOK'
<1> USE TypeParts DEF Parts
<1> DEFINE s == screen
           c == Effective([h \in H |-> v], store[s].map)
           u == Snapshot(c, store[s].map)
           t == Applied(store[s], c, u)
<1>1. c \in Change
  <2>1. [h \in H |-> v] \in Change /\ DOMAIN [h \in H |-> v] = H
    BY DEF Change
  <2>2. QED BY <2>1, RestrictIsChange DEF Effective
<1>2. ~Frozen(s) /\ Apply(s, c, ToWrites(s, c)) /\ s \in Screens
  BY DEF Commit, PageOK
<1> HIDE DEF c
<1>3. store[s] \in Store /\ store[s].map \in Planning
  BY <1>2 DEF Store
<1>4. u \in Change
  BY <1>1, <1>3, SnapshotIsChange
<1> HIDE DEF u
<1>5. /\ t \in Store /\ t.map = Over(c, store[s].map)
      /\ t.data = store[s].data /\ t.stale = store[s].stale
  BY <1>1, <1>3, <1>4, AppliedIsStore
<1>6. /\ SetStore(s, t) /\ loads' = Edited(loads, s) /\ Push(ToWrites(s, c))
      /\ UNCHANGED <<entries, late, screen, theirs, since>>
  BY <1>2 DEF Apply, Applied, u, server
<1> HIDE DEF t
<1>7. ToWrites(s, c) \in Seq(Write) /\ Makes(ToWrites(s, c), c)
  BY <1>1, <1>2, ToWritesIsSeq, ToWritesMakes
<1>8. ~Closed(store[s]) /\ store[s].phase = "none"
  BY <1>2 DEF Frozen, Locked, Busy, Closed
<1>9. QED BY <1>2, <1>5, <1>6, <1>7, <1>8, PushSaved

(* SavedOK when the user undoes.                                           *)
LEMMA UndoSaved ==
    ASSUME TypeOK, IInv, SavedOK, NEW s \in Screens, Undo(s)
    PROVE  SavedOK'
<1> USE TypeParts DEF Parts
<1> DEFINE c == store[s].undo
           t == Applied(store[s], c, None)
<1>1. c \in Change /\ store[s] \in Store /\ c # None
  BY DEF Undo, Store
<1>2. /\ SetStore(s, t) /\ loads' = Edited(loads, s) /\ Push(ToWrites(s, c))
      /\ UNCHANGED <<entries, late, screen, theirs, since>>
  BY DEF Undo, Applied, server, history
<1>3. ~Closed(store[s]) /\ store[s].phase = "none"
  BY <1>1 DEF IInv, UndoOK, UndoFits
<1>4. screen = 1 => s = 1
  BY <1>1, OnlyFirst
<1> HIDE DEF c
<1>5. /\ t \in Store /\ t.map = Over(c, store[s].map)
      /\ t.data = store[s].data /\ t.stale = store[s].stale
  BY <1>1, AppliedIsStore
<1> HIDE DEF t
<1>6. ToWrites(s, c) \in Seq(Write) /\ Makes(ToWrites(s, c), c)
  BY <1>1, ToWritesIsSeq, ToWritesMakes
<1>7. QED BY <1>2, <1>3, <1>4, <1>5, <1>6, PushSaved

(* « Tout effacer » writes a blank in every half-day, filled or not.       *)
LEMMA ConfirmClearSaved ==
    ASSUME TypeOK, IInv, SavedOK, ConfirmClear
    PROVE  SavedOK'
<1> USE TypeParts DEF Parts
<1> DEFINE s == dialog.screen
           filled == Filled(store[s].map)
           c == [h \in filled |-> Blank]
           e == [screen |-> s, values |-> EmptyPlanning]
           u == Snapshot(c, store[s].map)
           t == Applied(store[s], c, u)
<1>1. s \in Screens /\ dialog # None /\ (screen = 1 => s = 1)
  BY OnlyFirst DEF ConfirmClear, PageOK, Dialog
<1>2. store[s] \in Store /\ store[s].map \in Planning
  BY <1>1 DEF Store
<1>3. CASE Frozen(s) \/ filled = {}
  <2>1. UNCHANGED <<queue, out, entries, late, store, loads, screen, theirs, since>>
    BY <1>3 DEF ConfirmClear, writeVars, server, history
  <2>2. QED BY <2>1, SavedKept DEF SavedOK
<1>4. CASE ~(Frozen(s) \/ filled = {})
  <2>1. Apply(s, c, <<e>>)
    BY <1>4 DEF ConfirmClear
  <2>2. c \in Change
    <3>1. filled \in SUBSET Halves
      BY DEF Filled
    <3> HIDE DEF filled
    <3>2. QED BY <3>1 DEF Change, Values
  <2>3. Over(c, store[s].map) = Over(EmptyPlanning, store[s].map)
    BY DEF Filled, Over, EmptyPlanning
  <2>4. <<e>> \in Seq(Write) /\ Makes(<<e>>, EmptyPlanning)
    <3>1. EmptyPlanning \in Change /\ e.values = EmptyPlanning
      BY DEF EmptyPlanning, Change, Values
    <3>2. QED BY <1>1, <3>1, OneWrite, OneMakes
  <2> HIDE DEF c
  <2>5. u \in Change
    BY <1>2, <2>2, SnapshotIsChange
  <2> HIDE DEF u
  <2>6. /\ t \in Store /\ t.map = Over(EmptyPlanning, store[s].map)
        /\ t.data = store[s].data /\ t.stale = store[s].stale
    BY <1>2, <2>2, <2>3, <2>5, AppliedIsStore
  <2>7. /\ SetStore(s, t) /\ loads' = Edited(loads, s) /\ Push(<<e>>)
        /\ UNCHANGED <<entries, late, screen, theirs, since>>
    BY <2>1 DEF Apply, Applied, u, server
  <2> HIDE DEF t, e
  <2>8. ~Closed(store[s]) /\ store[s].phase = "none"
    BY <1>4 DEF Frozen, Locked, Busy, Closed
  <2> HIDE DEF s
  <2>9. QED BY <1>1, <2>4, <2>6, <2>7, <2>8, PushSaved
<1>5. QED BY <1>3, <1>4

(* SavedOK when a question is asked, the offer expires, a lock is          *)
(* confirmed, the user retries or opens the planning again.                *)
LEMMA DialogsSaved ==
    ASSUME TypeOK, IInv, SavedOK
    PROVE  /\ AskClear \/ AskLock \/ Decline => SavedOK'
           /\ Expire \/ ConfirmLock => SavedOK'
           /\ Retry \/ Reopen => SavedOK'
<1> USE TypeParts DEF Parts
<1>1. ASSUME AskClear \/ AskLock \/ Decline
      PROVE  SavedOK'
  <2>1. UNCHANGED <<queue, out, entries, late, store, loads, screen, theirs, since>>
    BY <1>1 DEF AskClear, AskLock, Decline, Mark, page, writeVars, server, history
  <2>2. QED BY <2>1, SavedKept DEF SavedOK
<1>2. ASSUME Expire \/ ConfirmLock
      PROVE  SavedOK'
  <2>1. UNCHANGED <<queue, out, entries, late, loads, screen, theirs, since>>
    BY <1>2 DEF Expire, ConfirmLock, writeVars, server, history
  <2>2. \A r \in Screens : /\ store'[r].map = store[r].map
                           /\ store'[r].data = store[r].data
                           /\ store'[r].stale = store[r].stale
    <3>1. CASE Expire
      <4> DEFINE t == [store[toast] EXCEPT !.undo = None]
      <4>1. toast \in Screens /\ SetStore(toast, t)
        BY <3>1 DEF Expire, PageOK
      <4>2. /\ t \in Store /\ t.map = store[toast].map
            /\ t.data = store[toast].data /\ t.stale = store[toast].stale
        BY <4>1, NoUndoIsStore
      <4> HIDE DEF t
      <4>3. QED BY <4>1, <4>2, SetStoreSets
    <3>2. CASE ConfirmLock
      <4> DEFINE s == dialog.screen
                 t == [store[s] EXCEPT !.undo = None, !.phase = "settling"]
      <4>1. dialog # None
        BY <3>2 DEF ConfirmLock
      <4>2. s \in Screens
        BY <4>1 DEF PageOK, Dialog
      <4>3. SetStore(s, t)
        BY <3>2 DEF ConfirmLock
      <4>4. /\ t \in Store /\ t.map = store[s].map
            /\ t.data = store[s].data /\ t.stale = store[s].stale
        <5>1. ASSUME NEW st \in Store
              PROVE  LET x == [st EXCEPT !.undo = None, !.phase = "settling"] IN
                     /\ x \in Store /\ x.map = st.map
                     /\ x.data = st.data /\ x.stale = st.stale
          BY DEF Store, Phases
        <5>2. QED BY <4>2, <5>1
      <4> HIDE DEF t, s
      <4>5. QED BY <4>2, <4>3, <4>4, SetStoreSets
    <3>3. QED BY <1>2, <3>1, <3>2
  <2>4. ASSUME screen' = 1
        PROVE  /\ screen = 1 /\ 1 \in Screens
               /\ \A l \in loads' : LoadSaved(l, queue, entries, since'[1])
    BY <2>1, <2>4, OnlyFirst DEF SavedOK
  <2>5. QED BY <2>1, <2>2, <2>4, SavedKept DEF Closed
<1>3. ASSUME Retry
      PROVE  SavedOK'
  <2>1. /\ UNCHANGED <<queue, out, entries, late, store, screen, theirs, since>>
        /\ loads' = Reload(loads, {screen}, FALSE)
    BY <1>3 DEF Retry, page, writeVars, server, history
  <2>2. {screen} \in SUBSET Screens /\ FALSE \in BOOLEAN
    BY DEF PageOK
  <2>3. screen' = 1 => \A l \in loads' : LoadSaved(l, queue, entries, since[1])
    BY <2>1, <2>2, ReloadSaved DEF SavedOK
  <2>4. QED BY <2>1, <2>3, SavedKept
<1>4. ASSUME Reopen
      PROVE  SavedOK'
  <2>1. UNCHANGED <<queue, out, entries, late>> /\ screen' = screen + 1
    BY <1>4 DEF Reopen, writeVars, server
  <2>2. screen' # 1
    BY <2>1, WriteQueueAssumption DEF PageOK, Screens
  <2>3. QED BY <2>1, <2>2, SavedKept
<1>5. QED BY <1>1, <1>2, <1>3, <1>4

(* The phase alone changes, and the screen may load again.                 *)
LEMMA PhaseSaved ==
    ASSUME TypeOK, IInv, SavedOK, NEW s \in Screens, NEW p \in Phases,
           SetStore(s, NewPhase(store[s], p)),
           UNCHANGED <<queue, out, entries, late, screen, theirs, since>>,
           \/ loads' = loads
           \/ \E ls \in SUBSET Load :
                 /\ loads' = Reload(ls, {s}, TRUE)
                 /\ \A l \in ls : \E k \in loads :
                       l.latest = k.latest /\ l.sent = k.sent /\ l.rows = k.rows
    PROVE  SavedOK'
<1> USE TypeParts DEF Parts
<1>1. \A r \in Screens : /\ store'[r].map = store[r].map
                         /\ Closed(store'[r]) <=> Closed(store[r])
  BY NewPhaseIsStore, SetStoreSets DEF Closed
<1>2. ASSUME screen' = 1
      PROVE  /\ screen = 1 /\ 1 \in Screens
             /\ \A l \in loads' : LoadSaved(l, queue, entries, since[1])
  <2>1. /\ screen = 1 /\ 1 \in Screens
        /\ \A l \in loads : LoadSaved(l, queue, entries, since[1])
    BY <1>2, OnlyFirst DEF SavedOK
  <2>2. ASSUME NEW ls \in SUBSET Load, loads' = Reload(ls, {s}, TRUE),
               \A l \in ls : \E k \in loads :
                   l.latest = k.latest /\ l.sent = k.sent /\ l.rows = k.rows
        PROVE  \A l \in loads' : LoadSaved(l, queue, entries, since[1])
    <3>1. \A l \in ls : LoadSaved(l, queue, entries, since[1])
      BY <2>1, <2>2 DEF LoadSaved
    <3>2. {s} \in SUBSET Screens /\ TRUE \in BOOLEAN
      OBVIOUS
    <3>3. QED BY <2>2, <3>1, <3>2, ReloadSaved
  <2>3. QED BY <2>1, <2>2
<1>3. QED BY <1>1, <1>2, SavedKept

(* SavedOK along a validation or a reopening.                              *)
LEMMA LocksSaved ==
    ASSUME TypeOK, IInv, SavedOK, MaxLate = 0, NEW s \in Screens,
           SendLock(s) \/ ServeLock(s) \/ LockAnswered(s) \/ LockLost(s)
    PROVE  SavedOK'
<1> USE TypeParts DEF Parts, page, writeVars, server
<1>1. PICK p \in Phases : SetStore(s, NewPhase(store[s], p))
  BY DEF SendLock, ServeLock, LockAnswered, LockLost, EndLock, NewPhase, Phases
<1>2. UNCHANGED <<queue, out, entries, screen, theirs, since>>
  BY DEF history, SendLock, ServeLock, LockAnswered, LockLost, EndLock
<1>3. late' = late
  <2>1. ~(Cardinality(late) < MaxLate)
    BY FS_EmptySet DEF SavedOK
  <2>2. QED BY <2>1 DEF SendLock, ServeLock, LockAnswered, LockLost, MayLand
<1> DEFINE aged == {[l EXCEPT !.old = @ \/ (l.screen = s /\ l.sent)] : l \in loads}
<1>4. \/ loads' = loads
      \/ loads' = Reload(loads, {s}, TRUE)
      \/ loads' = Reload(aged, {s}, TRUE)
  BY DEF SendLock, ServeLock, LockAnswered, LockLost
<1>5. CASE loads' = loads
  BY <1>1, <1>2, <1>3, <1>5, PhaseSaved
<1>6. CASE loads' = Reload(loads, {s}, TRUE)
  <2>1. \A l \in loads : \E k \in loads :
           l.latest = k.latest /\ l.sent = k.sent /\ l.rows = k.rows
    OBVIOUS
  <2>2. QED BY <1>1, <1>2, <1>3, <1>6, <2>1, PhaseSaved
<1>7. CASE loads' = Reload(aged, {s}, TRUE)
  <2>1. ASSUME NEW l \in aged
        PROVE  l \in Load /\ \E k \in loads :
                  l.latest = k.latest /\ l.sent = k.sent /\ l.rows = k.rows
    <3>1. PICK k \in loads : l = Aged(k, s)
      BY DEF Aged
    <3>2. QED BY <3>1, AgedIsLoad
  <2>2. aged \in SUBSET Load
    BY <2>1
  <2> HIDE DEF aged
  <2>3. QED BY <1>1, <1>2, <1>3, <1>7, <2>1, <2>2, PhaseSaved
<1>8. QED BY <1>4, <1>5, <1>6, <1>7

(* SavedOK along a load: what it reads is saved, and still is when shown,  *)
(* for no write starts on a frozen screen.                                 *)
LEMMA LoadSteps ==
    ASSUME TypeOK, IInv, SavedOK, NEW l \in loads,
           StartGet(l) \/ ReadRows(l) \/ ReadFlags(l) \/ LoadAnswered(l) \/ LoadLost(l)
    PROVE  SavedOK'
<1> USE TypeParts DEF Parts, page, writeVars, server
<1>1. UNCHANGED <<queue, out, entries, late, screen>>
  BY DEF StartGet, ReadRows, ReadFlags, LoadAnswered, LoadLost
<1>2. l \in Load /\ l.screen \in Screens /\ store[l.screen] \in Store
  BY DEF Load
<1>3. screen = 1 => /\ 1 \in Screens
                    /\ \A k \in loads : LoadSaved(k, queue, entries, since[1])
  BY OnlyFirst DEF SavedOK
<1>4. ASSUME NEW m, loads' = (loads \ {l}) \cup {m}, store' = store,
             UNCHANGED <<theirs, since>>,
             screen = 1 => LoadSaved(m, queue, entries, since[1])
      PROVE  SavedOK'
  BY <1>1, <1>3, <1>4, SavedKept
<1>5. ASSUME NEW st \in Store, loads' = loads \ {l},
             SetStore(l.screen, Returned(st, l)), since' = since,
             screen = 1 =>
                \/ /\ theirs' = theirs
                   /\ ~Closed(st) => /\ ~Closed(store[l.screen])
                                     /\ st.map = store[l.screen].map
                \/ queue = <<>> /\ SameBut(theirs'[1], st.map, entries)
      PROVE  SavedOK'
  <2> DEFINE t == Returned(st, l)
  <2>1. t \in Store /\ t.map = st.map /\ (Closed(t) <=> Closed(st))
    BY <1>2, ReturnedIsStore DEF Closed
  <2>2. store'[l.screen] = t
    BY <1>2, <1>5, <2>1, SetStoreSets
  <2> HIDE DEF t
  <2>3. screen = 1 => l.screen = 1
    BY OnlyFirst
  <2>4. st.map \in Planning
    BY <1>5 DEF Store
  <2>5. QED BY <1>1, <1>3, <1>5, <2>1, <2>2, <2>3, <2>4, SavedKept
<1>6. CASE StartGet(l)
  <2>1. CASE l.latest
    <3> DEFINE m == [l EXCEPT !.sent = TRUE]
    <3>1. /\ loads' = (loads \ {l}) \cup {m} /\ store' = store /\ queue = <<>>
          /\ UNCHANGED <<theirs, since>>
      BY <1>6, <2>1 DEF StartGet, QueueIdle, history
    <3>2. m.rows = l.rows /\ m.latest = l.latest
      BY <1>2 DEF Load
    <3>3. screen = 1 => LoadSaved(m, queue, entries, since[1])
      BY <1>3, <2>1, <3>1, <3>2 DEF LoadSaved
    <3> HIDE DEF m
    <3>4. QED BY <1>4, <3>1, <3>3
  <2>2. CASE ~l.latest
    BY <1>2, <1>5, <1>6, <2>2 DEF StartGet, history
  <2>3. QED BY <2>1, <2>2
<1>7. CASE ReadRows(l)
  <2> DEFINE m == [l EXCEPT !.rows = entries]
  <2>1. /\ loads' = (loads \ {l}) \cup {m} /\ store' = store /\ l.sent
        /\ theirs' = theirs
        /\ since' = IF l.latest THEN [since EXCEPT ![l.screen] = {}] ELSE since
    BY <1>7 DEF ReadRows
  <2>2. m.rows = entries /\ m.latest = l.latest
    BY <1>2 DEF Load
  <2> HIDE DEF m
  <2>3. ASSUME screen = 1
        PROVE  \A k \in loads' : LoadSaved(k, queue, entries, since'[1])
    <3>1. l.screen = 1 /\ l.latest => queue = <<>>
      BY <1>3, <2>1, <2>3, OnlyFirst DEF LoadSaved
    <3>2. LoadSaved(m, queue, entries, since'[1])
      BY <2>2, <2>3, <3>1, OnlyFirst DEF LoadSaved, SameBut
    <3>3. ASSUME NEW k \in loads \ {l}
          PROVE  LoadSaved(k, queue, entries, since'[1])
      <4>1. k.screen = l.screen
        BY <2>3, OnlyFirst
      <4>2. l.latest => ~k.latest
        BY <3>3, <4>1 DEF IInv, AloneIn
      <4>3. ~l.latest => since' = since
        BY <2>1
      <4>4. QED BY <1>3, <2>3, <3>3, <4>2, <4>3 DEF LoadSaved
    <3>4. QED BY <2>1, <3>2, <3>3
  <2>4. QED BY <1>1, <2>1, <2>3, SavedKept
<1>8. CASE ReadFlags(l)
  <2> DEFINE f == [editable |-> Editable, validated |-> validated, shut |-> shut]
             m == [l EXCEPT !.flags = f]
  <2>1. /\ loads' = (loads \ {l}) \cup {m} /\ store' = store
        /\ UNCHANGED <<theirs, since>>
    BY <1>8 DEF ReadFlags, history
  <2>2. m.rows = l.rows /\ m.latest = l.latest /\ m.sent = l.sent
    BY <1>2 DEF Load
  <2>3. screen = 1 => LoadSaved(m, queue, entries, since[1])
    BY <1>3, <2>2 DEF LoadSaved
  <2> HIDE DEF m
  <2>4. QED BY <1>4, <2>1, <2>3
<1>9. CASE LoadLost(l)
  <2> DEFINE failed == [store[l.screen] EXCEPT
                           !.error = TRUE, !.stale = @ \/ store[l.screen].data # None]
             st == IF l.latest THEN failed ELSE store[l.screen]
  <2>1. /\ st \in Store /\ st.map = store[l.screen].map
        /\ ~Closed(st) => ~Closed(store[l.screen])
    <3>1. /\ failed \in Store /\ failed.map = store[l.screen].map
          /\ failed.stale <=> store[l.screen].stale \/ store[l.screen].data # None
          /\ failed.data = store[l.screen].data
      BY <1>2, FailedIsStore
    <3> HIDE DEF failed
    <3>2. QED BY <1>2, <3>1 DEF Closed
  <2>2. /\ loads' = loads \ {l} /\ SetStore(l.screen, Returned(st, l))
        /\ UNCHANGED <<theirs, since>>
    BY <1>9 DEF LoadLost, history
  <2> HIDE DEF st
  <2>3. QED BY <1>5, <2>1, <2>2
<1>10. CASE LoadAnswered(l)
  <2>1. CASE ~l.latest
    BY <1>2, <1>5, <1>10, <2>1 DEF LoadAnswered
  <2>2. CASE l.latest
    <3> DEFINE st == Shown(store[l.screen], l)
    <3>1. ~l.dirty
      BY <2>2 DEF IInv, LoadsOK, LoadFits
    <3>2. /\ Answered(l) /\ loads' = loads \ {l}
          /\ SetStore(l.screen, Returned(st, l))
          /\ theirs' = [theirs EXCEPT ![l.screen] = since[l.screen]]
          /\ since' = since
      BY <1>10, <2>2, <3>1 DEF LoadAnswered
    <3>3. st \in Store /\ st.map = l.rows
      BY <1>2, <3>2, ShownIsStore
    <3>4. screen = 1 => queue = <<>> /\ SameBut(since[1], l.rows, entries)
      BY <1>3, <2>2, <3>2 DEF Answered, LoadSaved
    <3>5. screen = 1 => queue = <<>> /\ SameBut(theirs'[1], st.map, entries)
      <4>1. screen = 1 => l.screen = 1 /\ theirs'[1] = since[1]
        BY <3>2, OnlyFirst DEF HistoryOK
      <4>2. QED BY <3>3, <3>4, <4>1
    <3> HIDE DEF st
    <3>6. QED BY <1>5, <3>2, <3>3, <3>5
  <2>3. QED BY <2>1, <2>2
<1>11. QED BY <1>6, <1>7, <1>8, <1>9, <1>10

(* SavedOK along a write: applied, then dropped from the queue, or lost    *)
(* with those behind it, and the screen stale.                             *)
LEMMA WritesSaved ==
    ASSUME TypeOK, IInv, SavedOK, MaxLate = 0
    PROVE  /\ ServeWrite => SavedOK'
           /\ WriteAnswered => SavedOK'
           /\ WriteRefused \/ WriteLost => SavedOK'
<1> USE TypeParts DEF Parts
<1>1. queue \in Seq(Write) /\ HasTops(queue) /\ late = {}
  BY DEF QueueOK, WriteQueueTypeOK, SavedOK
<1>2. screen = 1 /\ queue # <<>> =>
         \A l \in loads : ~(l.latest /\ (l.sent \/ l.rows # None))
  BY DEF SavedOK, LoadSaved
<1>3. ASSUME ServeWrite
      PROVE  SavedOK'
  <2>1. /\ out = "sent" /\ queue # <<>>
        /\ UNCHANGED <<queue, late, store, loads, screen, theirs, since>>
    BY <1>3 DEF ServeWrite, QueueOK, QueueIdle, page, history
  <2>2. screen = 1 => \A e : \A l \in loads : LoadSaved(l, queue, e, since[1])
    BY <1>2, <2>1 DEF LoadSaved
  <2>3. ASSUME screen = 1
        PROVE  \E p \in Planning : /\ SameBut(theirs[1], p, entries')
                                  /\ Known(p, store[1], queue, out')
    <3>1. PICK p \in Planning : /\ SameBut(theirs[1], p, entries)
                                /\ Known(p, store[1], queue, out)
      BY <2>3 DEF SavedOK
    <3>2. CASE Editable
      <4> DEFINE v == Head(queue).values
      <4>1. v \in Change
        BY <2>1, QueueOnly DEF Write
      <4>2. entries' = Over(v, entries)
        BY <1>3, <3>2 DEF ServeWrite
      <4> DEFINE e == Over(v, p)
      <4>3. e \in Planning /\ Over(v, e) = e
        BY <3>1, <4>1, OverIsPlanning DEF Over
      <4>4. SameBut(theirs[1], e, entries')
        BY <3>1, <4>2 DEF SameBut, Over
      <4>5. IsAhead(store[1].map, queue, p) => IsAhead(store[1].map, queue, e)
        BY <1>1, <2>1, ServeAhead
      <4> HIDE DEF e
      <4>6. Known(e, store[1], queue, out')
        BY <3>1, <4>3, <4>5 DEF Known
      <4>7. QED BY <4>3, <4>4, <4>6
    <3>3. CASE ~Editable
      <4>1. out' = "refused" /\ entries' = entries
        BY <1>3, <3>3 DEF ServeWrite
      <4>2. Known(p, store[1], queue, out')
        BY <3>1, <4>1 DEF Known
      <4>3. QED BY <3>1, <4>1, <4>2
    <3>4. QED BY <3>2, <3>3
  <2>4. QED BY <1>1, <2>1, <2>2, <2>3 DEF SavedOK
<1>4. ASSUME WriteAnswered
      PROVE  SavedOK'
  <2>1. /\ out = "done" /\ queue # <<>> /\ queue' = Tail(queue)
        /\ out' # "done"
        /\ UNCHANGED <<entries, late, store, loads, screen, theirs, since>>
    BY <1>4 DEF WriteAnswered, NextJob, QueueOK, QueueIdle, server, page, history
  <2>2. HasTops(queue')
    BY <1>1, <2>1, TailAhead
  <2>3. ASSUME screen = 1
        PROVE  \E p \in Planning : /\ SameBut(theirs[1], p, entries)
                                  /\ Known(p, store[1], queue', out')
    <3>1. PICK p \in Planning : /\ SameBut(theirs[1], p, entries)
                                /\ Known(p, store[1], queue, out)
      BY <2>3 DEF SavedOK
    <3>2. Over(Head(queue).values, p) = p
      BY <2>1, <3>1 DEF Known
    <3>3. IsAhead(store[1].map, queue, p) => IsAhead(store[1].map, queue', p)
      BY <1>1, <2>1, <3>2, TailAhead
    <3>4. Known(p, store[1], queue', out')
      BY <2>1, <3>1, <3>3 DEF Known
    <3>5. QED BY <3>1, <3>4
  <2>4. \A l \in loads : screen = 1 => LoadSaved(l, queue', entries, since[1])
    BY <1>2, <2>1 DEF LoadSaved
  <2>5. QED BY <1>1, <2>1, <2>2, <2>3, <2>4 DEF SavedOK
<1>5. ASSUME WriteRefused \/ WriteLost
      PROVE  SavedOK'
  <2>1. /\ queue # <<>> /\ queue' = <<>> /\ out' = "none"
        /\ UNCHANGED <<entries, screen, theirs, since>>
        /\ loads' = Reload(loads, Told, FALSE)
    <3>1. out # "none" /\ entries' = entries
      BY <1>5 DEF WriteRefused, WriteLost, server
    <3>2. WriteFails
      BY <1>5 DEF WriteRefused, WriteLost
    <3>3. queue # <<>>
      BY <3>1 DEF QueueOK, QueueIdle
    <3>4. queue' = <<>> /\ out' = "none"
      BY <3>2 DEF WriteFails, DropAll
    <3>5. /\ UNCHANGED <<screen, theirs, since>>
          /\ loads' = Reload(loads, Told, FALSE)
      BY <3>2 DEF WriteFails, history
    <3>6. QED BY <3>1, <3>3, <3>4, <3>5
  <2>2. late' = {}
    <3>1. ~(Cardinality(late) < MaxLate)
      BY <1>1, FS_EmptySet
    <3>2. QED BY <1>1, <1>5, <3>1 DEF WriteRefused, WriteLost, MayLand, server
  <2>3. HasTops(queue')
    BY <2>1, NothingAhead
  <2>4. ASSUME screen' = 1
        PROVE  /\ Closed(store'[1])
               /\ \A l \in loads' : LoadSaved(l, queue', entries', since'[1])
    <3>1. screen = 1 /\ 1 \in Screens
      BY <2>1, <2>4, OnlyFirst
    <3>2. 1 \in Told
      <4>1. 1 \in DOMAIN queue /\ queue[1].screen = 1
        BY <2>1, <3>1, QueueOnly, OnlyFirst
      <4>2. QED BY <4>1 DEF Told
    <3>3. store'[1].stale
      <4>1. WriteFails
        BY <1>5 DEF WriteRefused, WriteLost
      <4>2. QED BY <3>1, <3>2, <4>1, DroppedIsStore DEF WriteFails
    <3>4. \A l \in loads : LoadSaved(l, queue', entries', since'[1])
      BY <1>2, <2>1, <3>1 DEF LoadSaved
    <3>5. Told \in SUBSET Screens /\ FALSE \in BOOLEAN
      BY ToldAreScreens
    <3>6. \A l \in loads' : LoadSaved(l, queue', entries', since'[1])
      BY <2>1, <3>4, <3>5, ReloadSaved
    <3>7. QED BY <3>3, <3>6 DEF Closed
  <2>5. ASSUME screen' = 1
        PROVE  \E p \in Planning : /\ SameBut(theirs'[1], p, entries')
                                  /\ Known(p, store'[1], queue', out')
    <3>1. PICK p \in Planning : SameBut(theirs[1], p, entries)
      BY <2>1, <2>5 DEF SavedOK
    <3>2. Known(p, store'[1], queue', out')
      BY <2>1, <2>4, <2>5 DEF Known
    <3>3. QED BY <2>1, <3>1, <3>2
  <2>6. QED BY <2>2, <2>3, <2>4, <2>5 DEF SavedOK
<1>6. QED BY <1>3, <1>4, <1>5

(* SavedOK when others change the planning or its locks: what they write   *)
(* is theirs.                                                              *)
LEMMA ElsewhereSaved ==
    ASSUME TypeOK, SavedOK, Elsewhere
    PROVE  SavedOK'
<1> USE TypeParts DEF Parts
<1>1. UNCHANGED <<queue, out, late, store, loads, screen>>
  BY DEF Elsewhere, writeVars, page
<1>2. CASE UNCHANGED <<entries, theirs, since>>
  BY <1>1, <1>2, SavedKept DEF SavedOK
<1>3. ASSUME NEW c \in Change, WriteElsewhere(c)
      PROVE  SavedOK'
  <2>1. 1 \in Screens
    BY WriteQueueAssumption DEF Screens
  <2>2. /\ theirs'[1] = theirs[1] \cup DOMAIN c
        /\ since'[1] = since[1] \cup DOMAIN c
        /\ \A h \in Halves \ DOMAIN c : entries'[h] = entries[h]
    BY <1>3, <2>1 DEF WriteElsewhere, Over
  <2>3. /\ \A p : SameBut(theirs[1], p, entries) => SameBut(theirs'[1], p, entries')
        /\ \A p : SameBut(since[1], p, entries) => SameBut(since'[1], p, entries')
    BY <2>2 DEF SameBut
  <2>4. \A l \in loads : LoadSaved(l, queue, entries, since[1])
                        => LoadSaved(l, queue, entries', since'[1])
    BY <2>3 DEF LoadSaved
  <2>5. QED BY <1>1, <2>3, <2>4 DEF SavedOK
<1>4. QED BY <1>2, <1>3 DEF Elsewhere

(* SavedOK at the start: nothing is shown.                                 *)
LEMMA SavedInit == Init => SavedOK
<1> SUFFICES ASSUME Init PROVE SavedOK
  OBVIOUS
<1>1. queue = <<>> /\ out = "none" /\ late = {}
  BY DEF Init, WriteQueueInit
<1>2. Closed(store[1])
  <2>1. 1 \in Screens
    BY WriteQueueAssumption DEF Screens
  <2>2. QED BY <2>1 DEF Init, NewStore, Closed
<1>3. \A l \in loads : ~l.sent /\ l.rows = None
  BY DEF Init, NewLoad
<1>4. entries \in Planning /\ SameBut(theirs[1], entries, entries)
  BY DEF Init, SameBut
<1>5. QED BY <1>1, <1>2, <1>3, <1>4, NothingAhead DEF SavedOK, LoadSaved, Known

(* Every step keeps SavedOK.                                               *)
LEMMA SavedStep ==
    ASSUME MaxLate = 0
    PROVE  TypeOK /\ IInv /\ SavedOK /\ [Next]_vars => SavedOK'
<1> SUFFICES ASSUME TypeOK, IInv, SavedOK, [Next]_vars
             PROVE  SavedOK'
  OBVIOUS
<1>1. CASE Continue
  BY <1>1, LoadSteps, LocksSaved DEF Continue
<1>2. CASE User
  BY <1>2, CommitSaved, UndoSaved, DialogsSaved, ConfirmClearSaved DEF User
<1>3. CASE Network
  BY <1>3, WritesSaved, LocksSaved, LoadSteps DEF Network
<1>4. CASE Elsewhere
  BY <1>4, ElsewhereSaved
<1>5. CASE \E w \in late : Land(w)
  BY <1>5 DEF SavedOK
<1>6. CASE UNCHANGED vars
  BY <1>6, SavedKept DEF vars, writeVars, server, page, history, SavedOK
<1>7. QED BY <1>1, <1>2, <1>3, <1>4, <1>5, <1>6 DEF Next

(* SavedOK holds in every state when no request outlives its client.       *)
LEMMA Saved ==
    ASSUME MaxLate = 0
    PROVE  Spec => []SavedOK
BY SavedInit, SavedStep, TypeInvariant, Inductive, PTL DEF Spec

(* Until the planning is opened again, a screen that may be edited shows   *)
(* the entries the server has, with the queued writes on top, wherever     *)
(* nobody else has written since they were read, if no request is          *)
(* completed after its client has given up. Run planning_late shows that   *)
(* the last condition is needed. So is the first: « Tout effacer » may be  *)
(* confirmed under a screen opened since the question.                     *)
THEOREM ShownIsSaved ==
    ASSUME MaxLate = 0
    PROVE  Spec => [](screen = 1 => ShowsWhatIsSaved)
<1>1. ASSUME TypeOK, IInv, SavedOK, screen = 1
      PROVE  ShowsWhatIsSaved
  <2> USE TypeParts DEF Parts
  <2>1. 1 \in Screens /\ store[1].map \in Planning
    BY <1>1, OnlyFirst DEF Store
  <2>2. ASSUME ~Locked(1), NEW h \in Halves \ theirs[1]
        PROVE  store[1].map[h] = Ahead(entries)[h]
    <3>1. PICK p \in Planning : /\ SameBut(theirs[1], p, entries)
                                /\ Known(p, store[1], queue, out)
      BY <1>1 DEF SavedOK
    <3>2. IsAhead(store[1].map, queue, p) /\ HasTops(queue)
      BY <1>1, <2>2, <3>1 DEF SavedOK, Known, Locked, Closed
    <3>3. store[1].map = Ahead(p)
      BY <1>1, <2>1, <3>2, AheadIs
    <3>4. Ahead(p)[h] = Ahead(entries)[h]
      BY <3>1 DEF Ahead, SameBut
    <3>5. QED BY <3>3, <3>4
  <2>3. QED BY <1>1, <2>2 DEF ShowsWhatIsSaved
<1>2. QED BY <1>1, TypeInvariant, Inductive, Saved, PTL

(* Until the planning is opened again, no write is queued or out while a   *)
(* validation or a reopening is. Run planning_twice shows that the         *)
(* condition is needed.                                                    *)
THEOREM LockAlone == Spec => [](screen = 1 => NoWriteDuringLock)
<1>1. ASSUME TypeOK, IInv, screen = 1
      PROVE  NoWriteDuringLock
  <2> USE TypeParts DEF Parts
  <2> SUFFICES ASSUME NEW s \in Screens, store[s].phase = "sent", queue # <<>>
               PROVE  FALSE
    BY DEF NoWriteDuringLock, QueueIdle
  <2>1. s = 1
    <3>1. s = 1 \/ 1 < s
      BY WriteQueueAssumption DEF Screens
    <3>2. QED BY <1>1, <3>1 DEF IInv, Opened
  <2>2. 1 \in 1..Len(queue) /\ queue[1].screen = 1
    BY <1>1, QueueOnly, OnlyFirst
  <2>3. QED BY <1>1, <2>1, <2>2 DEF IInv, LockOK, LockFits
<1>2. QED BY <1>1, TypeInvariant, Inductive, PTL

(* A planning opened once is validated with the entries its author had on  *)
(* screen when asking for it, wherever nobody else has written since they  *)
(* were read, if no request is completed after its client has given up.    *)
THEOREM LockedAsShown ==
    ASSUME LastScreen = 1, MaxLate = 0
    PROVE  Spec => ValidatedAsShown
<1> DEFINE Step == \A s \in Screens : store[s].phase = "sent" /\ store'[s].phase = "done"
                       => \A h \in Halves \ theirs[s] : entries[h] = agreed[s][h]
<1>1. ASSUME TypeOK, IInv, SavedOK
      PROVE  Step
  <2> USE TypeParts DEF Parts
  <2> SUFFICES ASSUME NEW s \in Screens, store[s].phase = "sent",
                      NEW h \in Halves \ theirs[s]
               PROVE  entries[h] = agreed[s][h]
    OBVIOUS
  <2>1. s = 1 /\ screen = 1
    BY <1>1 DEF Screens, PageOK
  <2>2. store[1].map = agreed[1] /\ ~Closed(store[1]) /\ store[1].map \in Planning
    BY <1>1, <2>1 DEF IInv, LockOK, LockFits, AsAgreed, Store
  <2>3. queue = <<>>
    <3>1. SUFFICES ASSUME queue # <<>> PROVE FALSE
      OBVIOUS
    <3>2. 1 \in 1..Len(queue) /\ queue[1].screen = 1
      BY <1>1, <2>1, <3>1, QueueOnly, OnlyFirst
    <3>3. QED BY <1>1, <2>1, <3>2 DEF IInv, LockOK, LockFits
  <2>4. PICK p \in Planning : /\ SameBut(theirs[1], p, entries)
                              /\ Known(p, store[1], queue, out)
    BY <1>1, <2>1 DEF SavedOK
  <2>5. store[1].map = p
    <3>1. IsAhead(store[1].map, queue, p)
      BY <2>2, <2>4 DEF Known
    <3>2. QED BY <2>2, <2>3, <3>1, NothingAhead
  <2>6. QED BY <2>1, <2>2, <2>4, <2>5 DEF SameBut
<1>2. QED BY <1>1, TypeInvariant, Inductive, Saved, PTL DEF ValidatedAsShown

===============================================================================
