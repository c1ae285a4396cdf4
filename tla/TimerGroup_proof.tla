-------------------------- MODULE TimerGroup_proof --------------------------
(* Proofs about the widget timers of timer_group.c: their types, that every *)
(* active widget has a group with a running timer and no group is without   *)
(* widgets, and that no call takes more than its own widget away.           *)
EXTENDS TimerGroup, TLAPS

USE TimerGroupAssumption

\* The queue's own lemmas, for the queue below the groups.
TP == INSTANCE Timer_proof WITH Keys <- Pointers, MaxSets <- 0, INT_MAX <- 1000,
                                FLOAT_EXACT <- 1000, SelfRemove <- FALSE

-----------------------------------------------------------------------------
(* The invariant *)

\* timer_process_group runs exactly while the walk is in a callback, that of a
\* timer in the queue; the widget it has called is active and of its group.
WalkInGroup ==
  /\ gphase # "idle" <=> phase = "callback"
  /\ phase = "callback" => T!Active(cur)
  /\ gphase \in {"widget", "readded"} => ActiveWidget(widget) /\ InGroup(widget)

\* All timers in the queue were added for groups, to be triggered repeatedly.
OfGroups ==
  \A s \in T!Slots : T!Active(s) =>
    ~Timers[s].one_shot /\ \E g \in Groups : Timers[s].key = Value(g)

\* An active group has its timer in the queue, ...
GroupsHaveTimers ==
  ~failed => \A g \in Groups : ActiveGroup(g) =>
    \E s \in T!Slots :
      T!Matches(s, Value(g)) /\ Timers[s].interval = TimerGroups[g].interval

\* ... an active widget its group, ...
WidgetsHaveGroups ==
  ~failed => \A w \in GWidgets :
    ActiveWidget(w) => timer_group_exists(TimerGroupWidgets[w].interval)

\* ... an active group a widget, ...
GroupsHaveWidgets ==
  ~failed => \A g \in Groups : ActiveGroup(g) =>
    \E w \in GWidgets : ActiveWidget(w) /\ TimerGroupWidgets[w].interval = TimerGroups[g].interval

\* ... and an interval one group.
OneGroupEach ==
  \A g, h \in Groups :
    ActiveGroup(g) /\ ActiveGroup(h) /\ TimerGroups[g].interval = TimerGroups[h].interval
      => g = h

GInv ==
  /\ T!TypeOK /\ TypeOK
  /\ WalkInGroup /\ OfGroups
  /\ GroupsHaveTimers /\ WidgetsHaveGroups /\ GroupsHaveWidgets /\ OneGroupEach

-----------------------------------------------------------------------------
(* What the groups see of the queue *)

\* The instance of Timer that the groups use and the one the queue's lemmas are
\* about are the same.
LEMMA SameQueue ==
  /\ TP!TimerAssumption
  /\ TP!Slots = T!Slots /\ TP!Slot = T!Slot
  /\ T!TypeOK <=> TP!TypeOK
  /\ \A s : T!Active(s) <=> TP!Active(s)
<1>1. 0 \in Groups
  BY DEF Groups
<1>2. Pointers # {}
  BY <1>1 DEF Pointers
<1>3. TP!Slots = T!Slots /\ TP!Slot = T!Slot
  BY DEF TP!Slots, T!Slots, TP!Slot, T!Slot
<1>4. T!TypeOK <=> TP!TypeOK
  BY <1>3 DEF TP!TypeOK, T!TypeOK, TP!Phases, T!Phases
<1>5. \A s : T!Active(s) <=> TP!Active(s)
  BY DEF TP!Active, T!Active, TP!Allocated, T!Allocated
<1> QED
  BY <1>2, <1>3, <1>4, <1>5

\* The pointers two fields hold, and their addresses, are different.
LEMMA PointersDiffer ==
  /\ \A g, h \in Groups : Value(g) = Value(h) => g = h
  /\ \A g, h \in Groups : Value(g) # Address(h)
  /\ \A g \in Groups : Value(g) \in Pointers /\ Value(g)[2] = g
  BY DEF Value, Address, Pointers

\* A timer_add for group slot g adds a timer with that pointer, in a slot that
\* was not active; if it fails, nothing changes.
LEMMA QueueAdds ==
  ASSUME T!TypeOK, NEW g \in Groups, NEW i \in Intervals, NEW v,
         T!timer_add(Value(g), i, FALSE, v)
  PROVE  /\ T!TypeOK'
         /\ \A s \in T!Slots : T!Active(s) => T!Active(s)' /\ Timers'[s] = Timers[s]
         /\ \A s \in T!Slots : T!Active(s)' /\ ~T!Active(s) =>
              Timers'[s].key = Value(g) /\ Timers'[s].interval = i /\ ~Timers'[s].one_shot
         /\ v = 0 => \E s \in T!Slots : T!Active(s)' /\ ~T!Active(s)
<1>1. Value(g) \in Pointers
  BY PointersDiffer
<1>2. /\ phase \in {"events", "callback"} /\ calls' = calls + 1
      /\ UNCHANGED <<now, sets, phase, start, cur, delay>>
  BY DEF T!timer_add, T!Call
<1>3. CASE v = 0 /\ T!AddSlot(Value(g), i, FALSE)
  <2>1. TP!AddSlot(Value(g), i, FALSE)
    <3>1. /\ \A s : T!FirstFree(s) <=> TP!FirstFree(s)
          /\ \A w : T!NewTimer(Value(g), w, i, FALSE) = TP!NewTimer(Value(g), w, i, FALSE)
      BY DEF T!FirstFree, TP!FirstFree, T!NewTimer, TP!NewTimer, T!Active, TP!Active,
         T!Allocated, TP!Allocated
    <3> QED
      BY <1>3, <3>1, SameQueue DEF T!AddSlot, TP!AddSlot
  <2>2. /\ Timers' \in [TP!Slots -> TP!Slot]
        /\ nTimers' \in 0 .. MaxSlots /\ nTimers <= nTimers'
        /\ exact' \in BOOLEAN /\ (exact' => exact)
        /\ \E s \in TP!Slots :
             /\ ~TP!Active(s)
             /\ TP!Active(s)' /\ ~Timers'[s].fired /\ Timers'[s].inPass = (phase = "callback")
             /\ Timers'[s].key = Value(g) /\ Timers'[s].interval = i /\ Timers'[s].one_shot = FALSE
             /\ \A r \in TP!Slots \ {s} :
                  Timers'[r] = Timers[r] /\ (TP!Active(r)' <=> TP!Active(r))
    <3>1. FALSE \in BOOLEAN /\ TP!TypeOK /\ TP!TimerAssumption
      BY SameQueue
    <3> HIDE DEF TP!AddSlot, TP!TypeOK, TP!TimerAssumption, TP!Slots, TP!Slot, TP!Active
    <3> QED
      BY <1>1, <2>1, <3>1, TP!AddSlotType
  <2>3. \A s : T!Active(s)' <=> TP!Active(s)'
    BY DEF TP!Active, T!Active, TP!Allocated, T!Allocated
  <2>4. PICK s \in T!Slots :
           /\ ~T!Active(s) /\ T!Active(s)'
           /\ Timers'[s].key = Value(g) /\ Timers'[s].interval = i
           /\ Timers'[s].one_shot = FALSE
           /\ \A r \in T!Slots \ {s} :
                Timers'[r] = Timers[r] /\ (T!Active(r)' <=> T!Active(r))
    BY <2>2, <2>3, SameQueue
  <2>5. T!TypeOK'
    BY <1>2, <2>2, SameQueue DEF T!TypeOK, T!Phases
  <2> QED
    BY <1>3, <2>4, <2>5
<1>4. CASE v = -1 /\ UNCHANGED <<Timers, nTimers, exact>>
  BY <1>2, <1>4 DEF T!TypeOK, T!Phases, T!Active, T!Allocated
<1> QED
  BY <1>3, <1>4 DEF T!timer_add

\* The steps of the walk and of the main loop around it keep the queue's types.
LEMMA QueueType ==
  ASSUME T!TypeOK,
         \/ T!BeginProcess \/ T!SkipSlot \/ T!FireSlot \/ T!CallbackDone \/ T!WalkDone
         \/ T!SelectNext \/ T!PollTimeout \/ T!PollEvent \/ T!GotSignal \/ T!timer_exit
         \/ T!Tick
  PROVE  T!TypeOK'
<1>1. TP!Next
  <2>1. T!BeginProcess => TP!BeginProcess
    BY DEF T!BeginProcess, TP!BeginProcess
  <2>2. \A s : T!Due(s) <=> TP!Due(s)
    BY DEF T!Due, TP!Due, T!Active, TP!Active, T!Allocated, TP!Allocated
  <2>3. T!SkipSlot => TP!SkipSlot
    BY <2>2 DEF T!SkipSlot, TP!SkipSlot
  <2>4. T!FireSlot => TP!FireSlot
    BY <2>2 DEF T!FireSlot, TP!FireSlot
  <2>5. T!CallbackDone => TP!CallbackDone
    <3>1. T!Expire => TP!Expire
      BY DEF T!Expire, TP!Expire, T!Active, TP!Active, T!Allocated, TP!Allocated,
             T!NoTimer, TP!NoTimer
    <3>2. \A w, i, t : T!timer_inc(w, i, t) = TP!timer_inc(w, i, t)
      BY DEF T!timer_inc, TP!timer_inc, T!Wrap, TP!Wrap, T!Quotients, TP!Quotients,
             T!Cast, TP!Cast, T!Trunc, TP!Trunc
    <3>3. T!Respawn => TP!Respawn
      BY <3>2 DEF T!Respawn, TP!Respawn, T!Active, TP!Active, T!Allocated, TP!Allocated,
             T!InRange, TP!InRange
    <3> QED
      BY <3>1, <3>3 DEF T!CallbackDone, TP!CallbackDone
  <2>6. T!WalkDone => TP!WalkDone
    BY DEF T!WalkDone, TP!WalkDone
  <2>7. T!SelectNext => TP!SelectNext
    BY DEF T!SelectNext, TP!SelectNext, T!NextTimer, TP!NextTimer, T!SetDelay, TP!SetDelay,
           T!Shift, TP!Shift, T!Slots, TP!Slots, T!Active, TP!Active, T!Allocated, TP!Allocated
  <2>8. T!PollTimeout => TP!PollTimeout
    BY DEF T!PollTimeout, TP!PollTimeout
  <2>9. T!PollEvent => TP!PollEvent
    BY DEF T!PollEvent, TP!PollEvent
  <2>10. T!GotSignal => TP!GotSignal
    BY DEF T!GotSignal, TP!GotSignal
  <2>11. T!timer_exit => TP!timer_exit
    BY DEF T!timer_exit, TP!timer_exit
  <2>12. T!Tick => TP!Tick
    BY DEF T!Tick, TP!Tick
  <2> QED
    BY <2>1, <2>3, <2>4, <2>5, <2>6, <2>7, <2>8, <2>9, <2>10, <2>11, <2>12 DEF TP!Next
<1>2. TP!TypeOK'
  BY <1>1, SameQueue, TP!TypeStep
<1>3. T!TypeOK' <=> TP!TypeOK'
  BY SameQueue DEF TP!TypeOK, T!TypeOK, TP!Phases, T!Phases
<1> QED
  BY <1>2, <1>3

\* A step after which the same timers are in the queue, for the same groups.
SameTimers ==
  \A s \in T!Slots :
    /\ T!Active(s)' <=> T!Active(s)
    /\ T!Active(s) => /\ Timers'[s].key = Timers[s].key
                      /\ Timers'[s].interval = Timers[s].interval
                      /\ Timers'[s].one_shot = Timers[s].one_shot

\* Two slots for the same timer, at another time.
SameFields(t, u) ==
  t.key = u.key /\ t.interval = u.interval /\ t.one_shot = u.one_shot /\ t.active = u.active

\* The fields of a slot whose trigger time is moved.
LEMMA MovedSlot ==
  ASSUME T!TypeOK, NEW s \in T!Slots, NEW w,
         NEW t,
         \/ t = [Timers[s] EXCEPT !.when = w]
         \/ t = [Timers[s] EXCEPT !.when = w, !.inPass = FALSE]
         \/ t = [Timers[s] EXCEPT !.fired = TRUE]
  PROVE  SameFields(t, Timers[s])
<1>1. Timers[s] \in T!Slot
  BY DEF T!TypeOK
<1> QED
  BY <1>1 DEF T!Slot, SameFields

\* The walk and the main loop keep the timers: none of them is one-shot, and
\* that of the callback that returns is still in the queue.
LEMMA QueueKeeps ==
  ASSUME T!TypeOK, OfGroups, phase = "callback" => T!Active(cur),
         \/ T!BeginProcess \/ T!SkipSlot \/ T!FireSlot \/ T!CallbackDone \/ T!WalkDone
         \/ T!SelectNext \/ T!PollTimeout \/ T!PollEvent \/ T!GotSignal \/ T!Tick
  PROVE  SameTimers
<1> USE DEF SameTimers, T!Active, T!Allocated
<1>1. CASE UNCHANGED <<Timers, nTimers>>
  BY <1>1
<1>2. CASE T!FireSlot
  <2>1. cur \in T!Slots
    BY <1>2 DEF T!FireSlot, T!TypeOK, T!Slots
  <2>2. Timers' = [Timers EXCEPT ![cur] = [Timers[cur] EXCEPT !.fired = TRUE]]
    BY <1>2 DEF T!FireSlot
  <2>3. DOMAIN Timers = T!Slots /\ UNCHANGED nTimers
    BY <1>2 DEF T!FireSlot, T!TypeOK
  <2>4. \A s \in T!Slots \ {cur} : Timers'[s] = Timers[s]
    BY <2>1, <2>2, <2>3
  <2>5. Timers'[cur] = [Timers[cur] EXCEPT !.fired = TRUE]
    BY <2>1, <2>2, <2>3
  <2>6. SameFields(Timers'[cur], Timers[cur])
    BY <2>1, <2>5, MovedSlot
  <2> QED
    BY <2>3, <2>4, <2>6 DEF SameFields
<1>3. CASE T!CallbackDone
  <2>1. cur \in T!Slots /\ T!Active(cur)
    BY <1>3 DEF T!CallbackDone, T!TypeOK, T!Slots
  <2>2. ~Timers[cur].one_shot
    BY <2>1 DEF OfGroups
  <2>3. T!Respawn /\ UNCHANGED nTimers
    BY <1>3, <2>1, <2>2 DEF T!CallbackDone, T!Expire
  <2>4. PICK w : Timers' = [Timers EXCEPT ![cur] = [Timers[cur] EXCEPT !.when = w]]
    BY <2>3 DEF T!Respawn
  <2>5. DOMAIN Timers = T!Slots
    BY DEF T!TypeOK
  <2>6. \A s \in T!Slots \ {cur} : Timers'[s] = Timers[s]
    BY <2>1, <2>4, <2>5
  <2>7. Timers'[cur] = [Timers[cur] EXCEPT !.when = w]
    BY <2>1, <2>4, <2>5
  <2>8. SameFields(Timers'[cur], Timers[cur])
    BY <2>1, <2>7, MovedSlot
  <2> QED
    BY <2>3, <2>6, <2>8 DEF SameFields
<1>4. CASE T!SelectNext /\ \E b : T!Shift(b)
  <2>1. PICK b : T!Shift(b)
    BY <1>4
  <2>2. \A s \in T!Slots :
          Timers'[s] = IF T!Active(s) THEN [Timers[s] EXCEPT !.when = Timers[s].when - b, !.inPass = FALSE]
                                      ELSE Timers[s]
    BY <2>1 DEF T!Shift
  <2>3. UNCHANGED nTimers
    BY <1>4 DEF T!SelectNext
  <2>4. ASSUME NEW s \in T!Slots
        PROVE  SameFields(Timers'[s], Timers[s])
    <3>1. CASE T!Active(s)
      <4>1. Timers'[s] = [Timers[s] EXCEPT !.when = Timers[s].when - b, !.inPass = FALSE]
        BY <2>2, <3>1
      <4>2. \A w : SameFields([Timers[s] EXCEPT !.when = w, !.inPass = FALSE], Timers[s])
        BY MovedSlot
      <4> QED
        BY <4>1, <4>2
    <3>2. CASE ~T!Active(s)
      BY <2>2, <3>2 DEF SameFields
    <3> QED
      BY <3>1, <3>2
  <2> QED
    BY <2>3, <2>4 DEF SameFields
<1>5. T!SelectNext => UNCHANGED <<Timers, nTimers>> \/ (T!SelectNext /\ \E b : T!Shift(b))
  BY DEF T!SelectNext, T!SetDelay
<1> QED
  BY <1>1, <1>2, <1>3, <1>4, <1>5 DEF T!BeginProcess, T!SkipSlot, T!WalkDone,
     T!PollTimeout, T!PollEvent, T!GotSignal, T!Tick

-----------------------------------------------------------------------------
(* What the calls do to groups and widgets *)

\* A call that does not touch the queue.
LEMMA CallKeeps ==
  ASSUME T!TypeOK, NoQueueCall
  PROVE  /\ T!TypeOK' /\ SameTimers
         /\ phase' = phase /\ cur' = cur
  BY DEF NoQueueCall, T!Call, T!TypeOK, T!Phases, SameTimers, T!Active, T!Allocated

\* The timer of a group is never found by the address of the group's field.
LEMMA RemovesNoTimer ==
  ASSUME OfGroups, NEW g \in Groups, NEW v, T!timer_remove(Address(g), v)
  PROVE  NoQueueCall
<1>1. \A s \in T!Slots : ~T!Matches(s, Address(g))
  BY PointersDiffer DEF OfGroups, T!Matches
<1>2. UNCHANGED <<Timers, nTimers, exact>> /\ T!Call
  BY <1>1 DEF T!timer_remove, T!FirstMatch
<1> QED
  BY <1>2 DEF NoQueueCall

\* A step that leaves groups and timers alone keeps what relates them.
LEMMA TimersKeep ==
  ASSUME SameTimers, OfGroups, UNCHANGED <<TimerGroups, nTimerGroups, failed>>
  PROVE  OfGroups' /\ (GroupsHaveTimers => GroupsHaveTimers')
<1>1. OfGroups'
  <2>1. ASSUME NEW s \in T!Slots, T!Active(s)'
        PROVE  ~Timers'[s].one_shot /\ \E g \in Groups : Timers'[s].key = Value(g)
    BY <2>1 DEF SameTimers, OfGroups
  <2> QED
    BY <2>1 DEF OfGroups, T!Slots
<1>2. GroupsHaveTimers => GroupsHaveTimers'
  <2> SUFFICES ASSUME GroupsHaveTimers, ~failed, NEW g \in Groups, ActiveGroup(g)
               PROVE  \E s \in T!Slots : T!Matches(s, Value(g))' /\ Timers'[s].interval = TimerGroups[g].interval
    BY DEF GroupsHaveTimers, ActiveGroup, T!Slots, Value
  <2>1. PICK s \in T!Slots : T!Matches(s, Value(g)) /\ Timers[s].interval = TimerGroups[g].interval
    BY DEF GroupsHaveTimers
  <2>2. T!Matches(s, Value(g))' /\ Timers'[s].interval = TimerGroups[g].interval
    BY <2>1 DEF SameTimers, T!Matches, Value
  <2> QED
    BY <2>2
<1> QED
  BY <1>1, <1>2

\* timer_add_group puts the interval into a slot that was not active.  If it
\* succeeds the group has its timer, and so have the others still.
LEMMA GroupAdded ==
  ASSUME GInv, NEW i \in Intervals, NEW v, ~timer_group_exists(i), timer_add_group(i, v)
  PROVE  /\ T!TypeOK' /\ OfGroups' /\ OneGroupEach'
         /\ TimerGroups' \in [Groups -> [interval : Intervals \union {0}, active : BOOLEAN]]
         /\ nTimerGroups' \in 0 .. MaxGroups
         /\ phase' = phase /\ cur' = cur
         /\ \A s \in T!Slots : T!Active(s) => T!Active(s)'
         /\ \A g \in Groups : ActiveGroup(g) => ActiveGroup(g)' /\ TimerGroups'[g] = TimerGroups[g]
         /\ \A g \in Groups : ActiveGroup(g)' /\ ~ActiveGroup(g) => TimerGroups'[g].interval = i
         /\ v = 0 => \E g \in Groups : ActiveGroup(g)' /\ TimerGroups'[g].interval = i
         /\ v = 0 /\ ~failed => \A g \in Groups : ActiveGroup(g)' =>
              \E s \in T!Slots :
                T!Matches(s, Value(g))' /\ Timers'[s].interval = TimerGroups'[g].interval
<1> USE DEF GInv
<1>1. CASE v = -1 /\ NoQueueCall /\ UNCHANGED <<TimerGroups, nTimerGroups>>
  <2>2. \A s \in T!Slots : T!Active(s)' <=> T!Active(s)
    BY <1>1, CallKeeps DEF SameTimers
  <2>3. OfGroups'
    BY <1>1 DEF NoQueueCall, OfGroups, T!Active, T!Allocated, T!Slots
  <2>4. OneGroupEach'
    BY <1>1 DEF OneGroupEach, ActiveGroup
  <2> QED
    BY <1>1, <2>2, <2>3, <2>4, CallKeeps DEF TypeOK, ActiveGroup
<1>2. CASE \E g \in Groups :
             /\ ~ActiveGroup(g) /\ \A h \in 0 .. g - 1 : ActiveGroup(h)
             /\ TimerGroups' = [TimerGroups EXCEPT ![g] = [interval |-> i, active |-> TRUE]]
             /\ nTimerGroups' = IF g = nTimerGroups THEN nTimerGroups + 1 ELSE nTimerGroups
             /\ T!timer_add(Value(g), i, FALSE, v)
  <2>1. PICK g \in Groups :
             /\ ~ActiveGroup(g) /\ \A h \in 0 .. g - 1 : ActiveGroup(h)
             /\ TimerGroups' = [TimerGroups EXCEPT ![g] = [interval |-> i, active |-> TRUE]]
             /\ nTimerGroups' = IF g = nTimerGroups THEN nTimerGroups + 1 ELSE nTimerGroups
             /\ T!timer_add(Value(g), i, FALSE, v)
    BY <1>2
  <2>2. g <= nTimerGroups
    <3> SUFFICES ASSUME g > nTimerGroups PROVE FALSE
      BY DEF TypeOK, Groups
    <3>1. nTimerGroups \in 0 .. g - 1
      BY DEF TypeOK, Groups
    <3> QED
      BY <2>1, <3>1 DEF ActiveGroup, TypeOK
  <2>3. /\ TimerGroups' \in [Groups -> [interval : Intervals \union {0}, active : BOOLEAN]]
        /\ nTimerGroups' \in 0 .. MaxGroups
    BY <2>1, <2>2 DEF TypeOK, Groups
  <2>4. /\ TimerGroups'[g].interval = i /\ ActiveGroup(g)'
        /\ \A h \in Groups \ {g} : TimerGroups'[h] = TimerGroups[h] /\ (ActiveGroup(h)' <=> ActiveGroup(h))
    BY <2>1, <2>2 DEF ActiveGroup, TypeOK, Groups
  <2>5. phase' = phase /\ cur' = cur /\ v \in {0, -1}
    BY <2>1 DEF T!timer_add, T!Call
  <2>6. /\ T!TypeOK'
        /\ \A s \in T!Slots : T!Active(s) => T!Active(s)' /\ Timers'[s] = Timers[s]
        /\ \A s \in T!Slots : T!Active(s)' /\ ~T!Active(s) =>
             Timers'[s].key = Value(g) /\ Timers'[s].interval = i /\ ~Timers'[s].one_shot
        /\ v = 0 => \E s \in T!Slots : T!Active(s)' /\ ~T!Active(s)
    BY <2>1, QueueAdds
  <2>7. OneGroupEach'
    <3>1. \A h \in Groups : ActiveGroup(h) => TimerGroups[h].interval # i
      BY DEF timer_group_exists
    <3>2. ASSUME NEW h \in Groups, NEW j \in Groups, ActiveGroup(h)', ActiveGroup(j)',
                 TimerGroups'[h].interval = TimerGroups'[j].interval
          PROVE  h = j
      BY <2>1, <2>4, <3>1, <3>2 DEF OneGroupEach
    <3> QED
      BY <3>2 DEF OneGroupEach
  <2>8. OfGroups'
    <3>1. ASSUME NEW s \in T!Slots, T!Active(s)'
          PROVE  ~Timers'[s].one_shot /\ \E h \in Groups : Timers'[s].key = Value(h)
      BY <2>6, <3>1 DEF OfGroups
    <3> QED
      BY <3>1 DEF OfGroups, T!Slots
  <2>9. ASSUME v = 0, ~failed, NEW h \in Groups, ActiveGroup(h)'
        PROVE  \E s \in T!Slots :
                 T!Matches(s, Value(h))' /\ Timers'[s].interval = TimerGroups'[h].interval
    <3>1. CASE h = g
      BY <2>4, <2>6, <2>9, <3>1 DEF T!Matches, Value
    <3>2. CASE h # g
      <4>1. PICK s \in T!Slots :
              T!Matches(s, Value(h)) /\ Timers[s].interval = TimerGroups[h].interval
        BY <2>4, <2>9, <3>2 DEF GroupsHaveTimers
      <4>2. T!Matches(s, Value(h))' /\ Timers'[s].interval = TimerGroups'[h].interval
        BY <2>4, <2>6, <3>2, <4>1 DEF T!Matches, Value
      <4> QED
        BY <4>2
    <3> QED
      BY <3>1, <3>2
  <2>10. /\ \A h \in Groups : ActiveGroup(h) => ActiveGroup(h)' /\ TimerGroups'[h] = TimerGroups[h]
         /\ \A h \in Groups : ActiveGroup(h)' /\ ~ActiveGroup(h) => TimerGroups'[h].interval = i
    BY <2>1, <2>4
  <2>11. \E h \in Groups : ActiveGroup(h)' /\ TimerGroups'[h].interval = i
    BY <2>4
  <2> HIDE DEF GInv
  <2> QED
    BY <2>3, <2>5, <2>6, <2>7, <2>8, <2>9, <2>10, <2>11
<1> QED
  BY <1>1, <1>2 DEF timer_add_group

\* A new widget takes a slot that was not active, or there is no room for it.
LEMMA WidgetAdded ==
  ASSUME TypeOK, NEW k \in Widgets, NEW i \in Intervals, NEW one \in BOOLEAN,
         AddWidgetSlot(k, i, one)
  PROVE  /\ TimerGroupWidgets' \in [GWidgets -> [key : Widgets, interval : Intervals \union {0},
                                                one_shot : BOOLEAN, active : BOOLEAN]]
         /\ nTimerGroupWidgets' \in 0 .. MaxGWidgets
         /\ \A w \in GWidgets :
              ActiveWidget(w) => ActiveWidget(w)' /\ TimerGroupWidgets'[w] = TimerGroupWidgets[w]
         /\ \A w \in GWidgets :
              ActiveWidget(w)' /\ ~ActiveWidget(w) => TimerGroupWidgets'[w].interval = i
         /\ \/ failed' = failed
               /\ \E w \in GWidgets : ActiveWidget(w)' /\ TimerGroupWidgets'[w].interval = i
            \/ failed' = TRUE
         /\ failed' \in BOOLEAN /\ (failed => failed')
<1>0. failed \in BOOLEAN
  BY DEF TypeOK
<1>1. failed' \in BOOLEAN /\ (failed => failed')
  <2>1. CASE failed' = TRUE
    BY <2>1
  <2>2. CASE UNCHANGED failed
    BY <1>0, <2>2
  <2> QED
    BY <2>1, <2>2 DEF AddWidgetSlot
<1>2. CASE /\ \A w \in GWidgets : ActiveWidget(w)
           /\ failed' = TRUE
           /\ UNCHANGED <<TimerGroupWidgets, nTimerGroupWidgets>>
  BY <1>2 DEF TypeOK, ActiveWidget, AddWidgetSlot
<1>3. ASSUME NEW w \in GWidgets,
             ~ActiveWidget(w), \A x \in 0 .. w - 1 : ActiveWidget(x),
             TimerGroupWidgets' = [TimerGroupWidgets EXCEPT ![w] =
               [key |-> k, interval |-> i, one_shot |-> one, active |-> TRUE]],
             nTimerGroupWidgets' =
               IF w = nTimerGroupWidgets THEN nTimerGroupWidgets + 1 ELSE nTimerGroupWidgets,
             UNCHANGED failed
      PROVE  /\ TimerGroupWidgets' \in [GWidgets -> [key : Widgets, interval : Intervals \union {0},
                                                one_shot : BOOLEAN, active : BOOLEAN]]
             /\ nTimerGroupWidgets' \in 0 .. MaxGWidgets
             /\ ActiveWidget(w)' /\ TimerGroupWidgets'[w].interval = i
             /\ \A x \in GWidgets \ {w} : (ActiveWidget(x)' <=> ActiveWidget(x))
                                          /\ TimerGroupWidgets'[x] = TimerGroupWidgets[x]
  <2>1. w <= nTimerGroupWidgets
    <3> SUFFICES ASSUME w > nTimerGroupWidgets PROVE FALSE
      BY DEF TypeOK, GWidgets
    <3>1. nTimerGroupWidgets \in 0 .. w - 1
      BY DEF TypeOK, GWidgets
    <3> QED
      BY <1>3, <3>1 DEF ActiveWidget, TypeOK
  <2>2. /\ TimerGroupWidgets'[w] = [key |-> k, interval |-> i, one_shot |-> one, active |-> TRUE]
        /\ \A x \in GWidgets \ {w} : TimerGroupWidgets'[x] = TimerGroupWidgets[x]
    BY <1>3 DEF TypeOK
  <2>3. ActiveWidget(w)' /\ TimerGroupWidgets'[w].interval = i
    BY <1>3, <2>1, <2>2 DEF ActiveWidget, TypeOK, GWidgets
  <2>4. ASSUME NEW x \in GWidgets \ {w}
        PROVE  ActiveWidget(x)' <=> ActiveWidget(x)
    <3>1. x \in 0 .. nTimerGroupWidgets' - 1 <=> x \in 0 .. nTimerGroupWidgets - 1
      BY <1>3, <2>1 DEF TypeOK, GWidgets
    <3>2. TimerGroupWidgets'[x] = TimerGroupWidgets[x]
      BY <2>2
    <3> QED
      BY <3>1, <3>2 DEF ActiveWidget
  <2>5. nTimerGroupWidgets' \in 0 .. MaxGWidgets
    BY <1>3, <2>1 DEF TypeOK, GWidgets
  <2> QED
    BY <1>3, <2>2, <2>3, <2>4, <2>5 DEF TypeOK
<1> QED
  BY <1>1, <1>2, <1>3 DEF AddWidgetSlot, TypeOK

\* timer_add_widget as a whole: no widget leaves, and each one active has its
\* group and timer, unless memory ran out on the way.
LEMMA AddKeeps ==
  ASSUME GInv, NEW k \in Widgets, NEW i \in Intervals, NEW one \in BOOLEAN,
         timer_add_widget(k, i, one), interval' \in Intervals \union {0},
         widget' \in 0 .. MaxGWidgets, gphase' \in {"idle", "loop", "widget", "readded"}
  PROVE  /\ T!TypeOK' /\ TypeOK' /\ OfGroups'
         /\ GroupsHaveTimers' /\ WidgetsHaveGroups' /\ GroupsHaveWidgets' /\ OneGroupEach'
         /\ phase' = phase /\ cur' = cur /\ (T!Active(cur) => T!Active(cur)')
         /\ \A w \in GWidgets :
              ActiveWidget(w) => ActiveWidget(w)' /\ TimerGroupWidgets'[w] = TimerGroupWidgets[w]
<1>0. /\ T!TypeOK /\ TypeOK /\ OfGroups
      /\ GroupsHaveTimers /\ WidgetsHaveGroups /\ GroupsHaveWidgets /\ OneGroupEach
      /\ failed \in BOOLEAN
  BY DEF GInv, TypeOK
<1>1. CASE /\ timer_group_exists(i) /\ AddWidgetSlot(k, i, one)
           /\ NoQueueCall /\ UNCHANGED <<TimerGroups, nTimerGroups>>
  <2>1. /\ T!TypeOK' /\ SameTimers /\ phase' = phase /\ cur' = cur
    BY <1>0, <1>1, CallKeeps
  <2>2. TypeOK' /\ (failed => failed')
    <3>1. /\ TimerGroupWidgets' \in [GWidgets -> [key : Widgets, interval : Intervals \union {0},
                                                  one_shot : BOOLEAN, active : BOOLEAN]]
          /\ nTimerGroupWidgets' \in 0 .. MaxGWidgets
      BY <1>0, <1>1, WidgetAdded
    <3>2. failed' \in BOOLEAN /\ (failed => failed')
      BY <1>0, <1>1, WidgetAdded
    <3>3. /\ TimerGroups' \in [Groups -> [interval : Intervals \union {0}, active : BOOLEAN]]
          /\ nTimerGroups' \in 0 .. MaxGroups
      BY <1>0, <1>1 DEF TypeOK
    <3>4. TypeOK'
      BY <3>1, <3>2, <3>3, Zenon DEF TypeOK
    <3> QED
      BY <3>2, <3>4
  <2>3. OfGroups' /\ OneGroupEach'
    BY <1>0, <1>1 DEF NoQueueCall, OfGroups, OneGroupEach, ActiveGroup, T!Active, T!Allocated, T!Slots
  <2>4. GroupsHaveTimers'
    BY <1>0, <1>1, <2>2 DEF NoQueueCall, GroupsHaveTimers, ActiveGroup, T!Matches, T!Active,
       T!Allocated, T!Slots, Value
  <2>5. \A w \in GWidgets :
          /\ ActiveWidget(w) => ActiveWidget(w)' /\ TimerGroupWidgets'[w] = TimerGroupWidgets[w]
          /\ ActiveWidget(w)' /\ ~ActiveWidget(w) => TimerGroupWidgets'[w].interval = i
    BY <1>0, <1>1, WidgetAdded
  <2>6. WidgetsHaveGroups'
    BY <1>0, <1>1, <2>2, <2>5 DEF WidgetsHaveGroups, timer_group_exists, ActiveGroup
  <2>7. GroupsHaveWidgets'
    BY <1>0, <1>1, <2>2, <2>5 DEF GroupsHaveWidgets, ActiveGroup
  <2>8. T!Active(cur) => T!Active(cur)'
    BY <1>0, <1>1, <2>1 DEF NoQueueCall, T!Active, T!Allocated
  <2> QED
    BY <2>1, <2>2, <2>3, <2>4, <2>5, <2>6, <2>7, <2>8
<1>2. ASSUME NEW v \in {0, -1}, ~timer_group_exists(i), timer_add_group(i, v),
             \/ v = 0 /\ AddWidgetSlot(k, i, one)
             \/ v = -1 /\ failed' = TRUE /\ UNCHANGED <<TimerGroupWidgets, nTimerGroupWidgets>>
      PROVE  /\ T!TypeOK' /\ TypeOK' /\ OfGroups'
             /\ GroupsHaveTimers' /\ WidgetsHaveGroups' /\ GroupsHaveWidgets' /\ OneGroupEach'
             /\ phase' = phase /\ cur' = cur /\ (T!Active(cur) => T!Active(cur)')
             /\ \A w \in GWidgets : ActiveWidget(w) =>
                  ActiveWidget(w)' /\ TimerGroupWidgets'[w] = TimerGroupWidgets[w]
  <2>1. /\ T!TypeOK' /\ OfGroups' /\ OneGroupEach'
        /\ TimerGroups' \in [Groups -> [interval : Intervals \union {0}, active : BOOLEAN]]
        /\ nTimerGroups' \in 0 .. MaxGroups
        /\ phase' = phase /\ cur' = cur
        /\ \A s \in T!Slots : T!Active(s) => T!Active(s)'
    BY <1>2, GroupAdded
  <2>2. TypeOK' /\ (failed => failed') /\ (v = -1 => failed')
    <3>1. CASE v = 0 /\ AddWidgetSlot(k, i, one)
      <4>1. /\ TimerGroupWidgets' \in [GWidgets -> [key : Widgets, interval : Intervals \union {0},
                                                    one_shot : BOOLEAN, active : BOOLEAN]]
            /\ nTimerGroupWidgets' \in 0 .. MaxGWidgets
        BY <1>0, <3>1, WidgetAdded
      <4>2. failed' \in BOOLEAN /\ (failed => failed')
        BY <1>0, <3>1, WidgetAdded
      <4>3. TypeOK'
        BY <2>1, <4>1, <4>2, Zenon DEF TypeOK
      <4> QED
        BY <3>1, <4>2, <4>3
    <3>2. CASE v = -1 /\ failed' = TRUE /\ UNCHANGED <<TimerGroupWidgets, nTimerGroupWidgets>>
      <4>1. failed' \in BOOLEAN /\ (failed => failed')
        BY <3>2
      <4>2. /\ TimerGroupWidgets' \in [GWidgets -> [key : Widgets, interval : Intervals \union {0},
                                                    one_shot : BOOLEAN, active : BOOLEAN]]
            /\ nTimerGroupWidgets' \in 0 .. MaxGWidgets
        BY <1>0, <3>2 DEF TypeOK
      <4>3. TypeOK'
        BY <2>1, <4>1, <4>2, Zenon DEF TypeOK
      <4> QED
        BY <3>2, <4>1, <4>3
    <3> QED
      BY <1>2, <3>1, <3>2
  <2>3. \A w \in GWidgets :
          /\ ActiveWidget(w) => ActiveWidget(w)' /\ TimerGroupWidgets'[w] = TimerGroupWidgets[w]
          /\ ActiveWidget(w)' /\ ~ActiveWidget(w) => TimerGroupWidgets'[w].interval = i
    <3>1. CASE v = 0
      <4>1. AddWidgetSlot(k, i, one)
        BY <1>2, <3>1
      <4> QED
        BY <1>0, <4>1, WidgetAdded
    <3>2. CASE v = -1
      BY <1>0, <1>2, <3>2 DEF ActiveWidget
    <3> QED
      BY <3>1, <3>2
  <2>4. ~failed' => \E w \in GWidgets : ActiveWidget(w)' /\ TimerGroupWidgets'[w].interval = i
    BY <1>0, <1>2, WidgetAdded
  <2>5. GroupsHaveTimers'
    <3>1. v = 0 /\ ~failed => \A g \in Groups : ActiveGroup(g)' =>
              \E s \in T!Slots :
                T!Matches(s, Value(g))' /\ Timers'[s].interval = TimerGroups'[g].interval
      BY <1>2, GroupAdded
    <3> QED
      BY <1>0, <2>2, <3>1 DEF GroupsHaveTimers, T!Slots
  <2>6. WidgetsHaveGroups'
    <3>1. /\ \A g \in Groups : ActiveGroup(g) => ActiveGroup(g)' /\ TimerGroups'[g] = TimerGroups[g]
          /\ v = 0 => \E g \in Groups : ActiveGroup(g)' /\ TimerGroups'[g].interval = i
      BY <1>2, GroupAdded
    <3> QED
      BY <1>0, <2>2, <2>3, <3>1 DEF WidgetsHaveGroups, timer_group_exists
  <2>7. GroupsHaveWidgets'
    <3>1. /\ \A g \in Groups : ActiveGroup(g) => TimerGroups'[g] = TimerGroups[g]
          /\ \A g \in Groups : ActiveGroup(g)' /\ ~ActiveGroup(g) => TimerGroups'[g].interval = i
      BY <1>2, GroupAdded
    <3> QED
      BY <1>0, <2>2, <2>3, <2>4, <3>1 DEF GroupsHaveWidgets
  <2>8. T!Active(cur) => T!Active(cur)'
    <3>1. T!Active(cur) => cur \in T!Slots
      BY <1>0 DEF T!Active, T!Allocated, T!TypeOK, T!Slots
    <3>2. T!Active(cur) => cur \in 0 .. nTimers' - 1 /\ Timers'[cur].active
      BY <1>0, <2>1, <3>1 DEF T!Active, T!Allocated
    <3> QED
      BY <1>0, <2>1, <3>2 DEF T!Active, T!Allocated
  <2> QED
    BY <2>1, <2>2, <2>3, <2>5, <2>6, <2>7, <2>8
<1>3. 0 \in {0, -1} /\ -1 \in {0, -1}
  OBVIOUS
<1> QED
  BY <1>0, <1>1, <1>2, <1>3 DEF timer_add_widget

\* Removing a widget and then its group, if that has no other, takes no other
\* widget away, and the group only when none needs it.
LEMMA RemoveKeeps ==
  ASSUME GInv, NEW w \in GWidgets, ActiveWidget(w), NEW i, TimerGroupWidgets[w].interval = i,
         timer_remove_empty_group(i, [TimerGroupWidgets EXCEPT ![w] = NoWidget]),
         UNCHANGED <<nTimerGroups, nTimerGroupWidgets, failed>>,
         interval' \in Intervals \union {0},
         widget' \in 0 .. MaxGWidgets, gphase' \in {"idle", "loop", "widget", "readded"}
  PROVE  /\ T!TypeOK' /\ TypeOK' /\ OfGroups'
         /\ GroupsHaveTimers' /\ WidgetsHaveGroups' /\ GroupsHaveWidgets' /\ OneGroupEach'
         /\ phase' = phase /\ cur' = cur /\ (T!Active(cur) => T!Active(cur)')
         /\ \A x \in GWidgets \ {w} :
              ActiveWidget(x) => ActiveWidget(x)' /\ TimerGroupWidgets'[x] = TimerGroupWidgets[x]
<1> DEFINE W == [TimerGroupWidgets EXCEPT ![w] = NoWidget]
<1>1. /\ NoWidget.active = FALSE
      /\ NoWidget \in [key : Widgets, interval : Intervals \union {0}, one_shot : BOOLEAN,
                       active : BOOLEAN]
  BY DEF NoWidget
<1>2. /\ W \in [GWidgets -> [key : Widgets, interval : Intervals \union {0},
                             one_shot : BOOLEAN, active : BOOLEAN]]
      /\ ~W[w].active
      /\ \A x \in GWidgets \ {w} : W[x] = TimerGroupWidgets[x]
  BY <1>1 DEF GInv, TypeOK
<1> HIDE DEF W
<1>3. NoQueueCall
  BY RemovesNoTimer DEF GInv, timer_remove_empty_group, timer_remove_group
<1>4. T!TypeOK' /\ SameTimers /\ phase' = phase /\ cur' = cur
  BY <1>3, CallKeeps DEF GInv
<1>5. OfGroups' /\ (T!Active(cur) => T!Active(cur)')
  <2>1. UNCHANGED <<Timers, nTimers, cur>> /\ OfGroups
    BY <1>3, <1>4 DEF NoQueueCall, GInv
  <2>2. OfGroups'
    BY <2>1 DEF OfGroups, T!Active, T!Allocated, T!Slots
  <2> QED
    BY <2>1, <2>2 DEF T!Active, T!Allocated
<1>6. CASE /\ \E x \in GWidgets : x < nTimerGroupWidgets /\ W[x].active /\ W[x].interval = i
           /\ TimerGroupWidgets' = W
           /\ UNCHANGED TimerGroups
  <2>1. TypeOK'
    BY <1>2, <1>6 DEF GInv, TypeOK
  <2>2. /\ \A x \in GWidgets \ {w} : (ActiveWidget(x)' <=> ActiveWidget(x))
                                     /\ TimerGroupWidgets'[x] = TimerGroupWidgets[x]
        /\ ~ActiveWidget(w)'
    BY <1>2, <1>6 DEF ActiveWidget
  <2>3. \E x \in GWidgets : ActiveWidget(x)' /\ TimerGroupWidgets'[x].interval = i
    BY <1>6 DEF ActiveWidget, GInv, TypeOK, GWidgets
  <2>4. OneGroupEach'
    BY <1>6 DEF GInv, OneGroupEach, ActiveGroup
  <2>5. GroupsHaveTimers'
    BY <1>4, <1>6, TimersKeep DEF GInv
  <2>6. WidgetsHaveGroups'
    BY <1>6, <2>2 DEF GInv, WidgetsHaveGroups, timer_group_exists, ActiveGroup
  <2>7. GroupsHaveWidgets'
    <3> SUFFICES ASSUME ~failed, NEW g \in Groups, ActiveGroup(g)
                 PROVE  \E x \in GWidgets :
                          ActiveWidget(x)' /\ TimerGroupWidgets'[x].interval = TimerGroups[g].interval
      BY <1>6 DEF GroupsHaveWidgets, ActiveGroup
    <3>1. PICK x \in GWidgets : ActiveWidget(x) /\ TimerGroupWidgets[x].interval = TimerGroups[g].interval
      BY DEF GInv, GroupsHaveWidgets
    <3> QED
      BY <2>2, <2>3, <3>1
  <2> QED
    BY <1>4, <1>5, <2>1, <2>2, <2>4, <2>5, <2>6, <2>7
<1>7. CASE /\ \A x \in GWidgets : x < nTimerGroupWidgets => ~(W[x].active /\ W[x].interval = i)
           /\ timer_remove_group(i, W)
  <2>1. TimerGroupWidgets' = [x \in GWidgets |->
          IF W[x].active /\ W[x].interval = i THEN NoWidget ELSE W[x]]
    BY <1>7 DEF timer_remove_group
  <2>2. TimerGroupWidgets' \in [GWidgets -> [key : Widgets, interval : Intervals \union {0},
                                             one_shot : BOOLEAN, active : BOOLEAN]]
    BY <1>1, <1>2, <2>1
  <2>3. \A x \in GWidgets : x < nTimerGroupWidgets => TimerGroupWidgets'[x] = W[x]
    BY <1>7, <2>1
  <2>4. /\ \A x \in GWidgets \ {w} :
             /\ ActiveWidget(x)' <=> ActiveWidget(x)
             /\ ActiveWidget(x) => TimerGroupWidgets'[x] = TimerGroupWidgets[x]
        /\ \A x \in GWidgets : ActiveWidget(x)' => TimerGroupWidgets'[x].interval # i
        /\ ~ActiveWidget(w)'
    BY <1>2, <1>7, <2>3 DEF ActiveWidget, GInv, TypeOK, GWidgets
  <2>5. /\ TimerGroups' \in [Groups -> [interval : Intervals \union {0}, active : BOOLEAN]]
        /\ \A g \in Groups : /\ ActiveGroup(g)' => ActiveGroup(g) /\ TimerGroups[g].interval # i
                             /\ ActiveGroup(g) /\ TimerGroups[g].interval # i => ActiveGroup(g)'
                             /\ TimerGroups'[g].interval = TimerGroups[g].interval
    <3>1. CASE \E g \in Groups : /\ ActiveGroup(g) /\ TimerGroups[g].interval = i
                                 /\ TimerGroups' = [TimerGroups EXCEPT ![g].active = FALSE]
      <4>1. PICK g \in Groups : /\ ActiveGroup(g) /\ TimerGroups[g].interval = i
                                /\ TimerGroups' = [TimerGroups EXCEPT ![g].active = FALSE]
        BY <3>1
      <4>2. TimerGroups[g] \in [interval : Intervals \union {0}, active : BOOLEAN]
        BY DEF GInv, TypeOK
      <4>3. /\ \A h \in Groups \ {g} : TimerGroups'[h] = TimerGroups[h]
            /\ TimerGroups'[g] = [TimerGroups[g] EXCEPT !.active = FALSE]
            /\ TimerGroups' \in [Groups -> [interval : Intervals \union {0}, active : BOOLEAN]]
        BY <4>1, <4>2 DEF GInv, TypeOK
      <4>4. TimerGroups'[g].interval = i /\ ~TimerGroups'[g].active
        BY <4>1, <4>2, <4>3
      <4>5. \A h \in Groups \ {g} : ActiveGroup(h) => TimerGroups[h].interval # i
        BY <4>1 DEF GInv, OneGroupEach
      <4> QED
        BY <4>1, <4>3, <4>4, <4>5 DEF ActiveGroup
    <3>2. CASE ~timer_group_exists(i) /\ UNCHANGED TimerGroups
      BY <3>2 DEF timer_group_exists, ActiveGroup, GInv, TypeOK
    <3> QED
      BY <1>7, <3>1, <3>2 DEF timer_remove_group
  <2>6. TypeOK'
    BY <2>2, <2>5 DEF GInv, TypeOK
  <2>7. OneGroupEach'
    BY <2>5 DEF GInv, OneGroupEach
  <2>8. GroupsHaveTimers'
    <3> SUFFICES ASSUME ~failed, NEW g \in Groups, ActiveGroup(g)'
                 PROVE  \E s \in T!Slots : T!Matches(s, Value(g))' /\ Timers'[s].interval = TimerGroups'[g].interval
      BY DEF GroupsHaveTimers, T!Slots
    <3>1. PICK s \in T!Slots : T!Matches(s, Value(g)) /\ Timers[s].interval = TimerGroups[g].interval
      BY <2>5 DEF GInv, GroupsHaveTimers
    <3>2. T!Matches(s, Value(g))' /\ Timers'[s].interval = TimerGroups'[g].interval
      BY <1>3, <2>5, <3>1 DEF NoQueueCall, T!Matches, T!Active, T!Allocated, Value
    <3> QED
      BY <3>2
  <2>9. WidgetsHaveGroups'
    BY <2>4, <2>5 DEF GInv, WidgetsHaveGroups, timer_group_exists
  <2>10. GroupsHaveWidgets'
    <3> SUFFICES ASSUME ~failed, NEW g \in Groups, ActiveGroup(g)'
                 PROVE  \E x \in GWidgets :
                          ActiveWidget(x)' /\ TimerGroupWidgets'[x].interval = TimerGroups'[g].interval
      BY DEF GroupsHaveWidgets
    <3>1. PICK x \in GWidgets : ActiveWidget(x) /\ TimerGroupWidgets[x].interval = TimerGroups[g].interval
      BY <2>5 DEF GInv, GroupsHaveWidgets
    <3> QED
      BY <2>4, <2>5, <3>1
  <2> QED
    BY <1>4, <1>5, <2>4, <2>6, <2>7, <2>8, <2>9, <2>10
<1> QED
  BY <1>6, <1>7 DEF timer_remove_empty_group, W

-----------------------------------------------------------------------------
(* The invariant holds *)

\* What a step of the walk or of the main loop leaves alone.
LEMMA StayKeeps ==
  ASSUME GInv, T!TypeOK', SameTimers, UNCHANGED <<groupVars, failed>>
  PROVE  /\ OfGroups' /\ GroupsHaveTimers' /\ WidgetsHaveGroups'
         /\ GroupsHaveWidgets' /\ OneGroupEach'
         /\ \A w \in GWidgets : ActiveWidget(w)' <=> ActiveWidget(w)
<1>1. UNCHANGED <<TimerGroups, nTimerGroups, TimerGroupWidgets, nTimerGroupWidgets, failed>>
  BY DEF groupVars
<1>2. OfGroups' /\ GroupsHaveTimers'
  BY <1>1, TimersKeep DEF GInv
<1>3. WidgetsHaveGroups' /\ GroupsHaveWidgets' /\ OneGroupEach'
  BY <1>1 DEF GInv, WidgetsHaveGroups, GroupsHaveWidgets, OneGroupEach, timer_group_exists,
     ActiveGroup, ActiveWidget
<1> QED
  BY <1>1, <1>2, <1>3 DEF ActiveWidget

\* At the start there is no timer, no group and no widget.
LEMMA GInvInit == Init => GInv
<1> SUFFICES ASSUME Init PROVE GInv
  OBVIOUS
<1>1. T!TypeOK
  <2>1. TP!TypeOK
    <3>1. TP!NoTimer \in TP!Slot
      BY SameQueue, TP!NoTimerType
    <3>2. T!NoTimer = TP!NoTimer
      BY DEF T!NoTimer, TP!NoTimer
    <3> QED
      BY <3>1, <3>2, SameQueue DEF Init, T!Init, TP!TypeOK, TP!Phases
  <2> QED
    BY <2>1, SameQueue
<1>2. TypeOK
  <2>1. NoWidget \in [key : Widgets, interval : Intervals \union {0}, one_shot : BOOLEAN,
                      active : BOOLEAN]
    BY DEF NoWidget
  <2>2. TimerGroupWidgets \in [GWidgets -> [key : Widgets, interval : Intervals \union {0},
                                            one_shot : BOOLEAN, active : BOOLEAN]]
    BY <2>1 DEF Init
  <2>3. TimerGroups \in [Groups -> [interval : Intervals \union {0}, active : BOOLEAN]]
    BY DEF Init
  <2>4. /\ nTimerGroups \in 0 .. MaxGroups /\ nTimerGroupWidgets \in 0 .. MaxGWidgets
        /\ interval \in Intervals \union {0} /\ widget \in 0 .. MaxGWidgets
    BY DEF Init
  <2>5. gphase \in {"idle", "loop", "widget", "readded"} /\ failed \in BOOLEAN
    BY DEF Init
  <2> QED
    BY <2>2, <2>3, <2>4, <2>5, Zenon DEF TypeOK
<1>3. \A s : ~T!Active(s)
  BY DEF Init, T!Init, T!Active, T!Allocated
<1>4. /\ \A g \in Groups : ~ActiveGroup(g)
      /\ \A w \in GWidgets : ~ActiveWidget(w)
  BY DEF Init, ActiveGroup, ActiveWidget
<1>5. WalkInGroup
  BY DEF Init, T!Init, WalkInGroup
<1> QED
  BY <1>1, <1>2, <1>3, <1>4, <1>5 DEF GInv, OfGroups, GroupsHaveTimers, WidgetsHaveGroups,
     GroupsHaveWidgets, OneGroupEach

\* Every step keeps the invariant.
LEMMA GInvStep == GInv /\ [Next]_vars => GInv'
<1> SUFFICES ASSUME GInv, [Next]_vars PROVE GInv'
  OBVIOUS
<1>0. /\ T!TypeOK /\ TypeOK /\ WalkInGroup /\ OfGroups
      /\ phase = "callback" => T!Active(cur)
      /\ interval \in Intervals \union {0} /\ widget \in 0 .. MaxGWidgets
      /\ gphase \in {"idle", "loop", "widget", "readded"}
  BY DEF GInv, TypeOK, WalkInGroup
<1>1. CASE UNCHANGED vars
  <2>1. T!TypeOK' /\ TypeOK' /\ SameTimers /\ UNCHANGED <<groupVars, failed>>
    BY <1>0, <1>1 DEF vars, timerVars, groupVars, walkVars, T!TypeOK, TypeOK, SameTimers,
       T!Active, T!Allocated
  <2>2. WalkInGroup'
    BY <1>0, <1>1 DEF vars, timerVars, groupVars, walkVars, WalkInGroup, InGroup,
       ActiveWidget, T!Active, T!Allocated
  <2> QED
    BY <2>1, <2>2, StayKeeps DEF GInv
<1>2. ASSUME NEW k \in Widgets, NEW i \in Intervals, NEW one \in BOOLEAN, AddWidget(k, i, one)
      PROVE  GInv'
  <2>1. /\ phase = "events" /\ timer_add_widget(k, i, one)
        /\ UNCHANGED <<interval, widget, gphase>>
    BY <1>2 DEF AddWidget, walkVars
  <2>2. gphase = "idle"
    BY <1>0, <2>1 DEF WalkInGroup
  <2>3. /\ T!TypeOK' /\ TypeOK' /\ OfGroups'
        /\ GroupsHaveTimers' /\ WidgetsHaveGroups' /\ GroupsHaveWidgets' /\ OneGroupEach'
        /\ phase' = phase
    BY <1>0, <2>1, AddKeeps
  <2>4. WalkInGroup'
    BY <2>1, <2>2, <2>3 DEF WalkInGroup
  <2> QED
    BY <2>3, <2>4 DEF GInv
<1>3. ASSUME NEW k \in Widgets, timer_remove_widget(k)
      PROVE  GInv'
  <2>1. /\ phase = "events"
        /\ UNCHANGED <<nTimerGroups, nTimerGroupWidgets, failed, interval, widget, gphase>>
    BY <1>3 DEF timer_remove_widget, walkVars
  <2>2. gphase = "idle"
    BY <1>0, <2>1 DEF WalkInGroup
  <2>3. CASE \E w \in GWidgets :
               /\ ActiveWidget(w)
               /\ timer_remove_empty_group(TimerGroupWidgets[w].interval,
                                           [TimerGroupWidgets EXCEPT ![w] = NoWidget])
    <3>1. /\ T!TypeOK' /\ TypeOK' /\ OfGroups'
          /\ GroupsHaveTimers' /\ WidgetsHaveGroups' /\ GroupsHaveWidgets' /\ OneGroupEach'
          /\ phase' = phase
      BY <1>0, <2>1, <2>3, RemoveKeeps
    <3>2. WalkInGroup'
      BY <2>1, <2>2, <3>1 DEF WalkInGroup
    <3> QED
      BY <3>1, <3>2 DEF GInv
  <2>4. CASE NoQueueCall /\ UNCHANGED <<TimerGroups, TimerGroupWidgets>>
    <3>1. T!TypeOK' /\ SameTimers /\ phase' = phase
      BY <1>0, <2>4, CallKeeps
    <3>2. UNCHANGED <<groupVars, failed>>
      BY <2>1, <2>4 DEF groupVars
    <3>3. TypeOK' /\ WalkInGroup'
      BY <1>0, <2>1, <2>2, <2>4, <3>1 DEF TypeOK, WalkInGroup
    <3> QED
      BY <3>1, <3>2, <3>3, StayKeeps DEF GInv
  <2> QED
    BY <1>3, <2>3, <2>4 DEF timer_remove_widget
<1>4. CASE BeginGroup
  <2>1. /\ T!FireSlot /\ gphase' = "loop" /\ widget' = 0
        /\ interval' = TimerGroups[Timers[cur].key[2]].interval
        /\ UNCHANGED <<groupVars, failed>>
    BY <1>4 DEF BeginGroup
  <2>2. phase = "walk" /\ phase' = "callback" /\ cur' = cur /\ T!Active(cur) /\ cur \in T!Slots
    BY <1>0, <2>1 DEF T!FireSlot, T!Due, T!Active, T!Allocated, T!TypeOK, T!Slots
  <2>3. interval' \in Intervals \union {0}
    <3>1. PICK g \in Groups : Timers[cur].key = Value(g)
      BY <1>0, <2>2 DEF OfGroups
    <3>2. interval' = TimerGroups[g].interval
      BY <2>1, <3>1, PointersDiffer
    <3> QED
      BY <1>0, <3>2 DEF TypeOK
  <2>4. T!TypeOK' /\ SameTimers
    BY <1>0, <2>1, QueueType, QueueKeeps
  <2>5. TypeOK'
    BY <1>0, <2>1, <2>3 DEF TypeOK, groupVars
  <2>6. WalkInGroup'
    <3>1. T!Active(cur)'
      BY <2>2, <2>4 DEF SameTimers, T!Active
    <3> QED
      BY <2>1, <2>2, <3>1 DEF WalkInGroup
  <2> QED
    BY <2>1, <2>4, <2>5, <2>6, StayKeeps DEF GInv
<1>5. ASSUME UNCHANGED <<timerVars, groupVars, failed, interval>>, gphase \in {"loop", "widget", "readded"},
             TypeOK',
             gphase' = "loop" \/ (gphase' = "widget" /\ ActiveWidget(widget') /\ InGroup(widget'))
      PROVE  GInv'
  <2>1. T!TypeOK' /\ SameTimers
    BY <1>0, <1>5 DEF timerVars, T!TypeOK, SameTimers, T!Active, T!Allocated
  <2>2. WalkInGroup'
    BY <1>0, <1>5 DEF timerVars, groupVars, WalkInGroup, InGroup, ActiveWidget, T!Active, T!Allocated
  <2> QED
    BY <1>5, <2>1, <2>2, StayKeeps DEF GInv
<1>6. CASE SkipWidget
  <2>1. TypeOK'
    BY <1>0, <1>6 DEF SkipWidget, TypeOK, groupVars
  <2> QED
    BY <1>5, <1>6, <2>1 DEF SkipWidget
<1>7. CASE CallWidget
  <2>1. TypeOK'
    BY <1>0, <1>7 DEF CallWidget, TypeOK, groupVars
  <2>2. ActiveWidget(widget') /\ InGroup(widget')
    BY <1>7 DEF CallWidget, InGroup
  <2> QED
    BY <1>5, <1>7, <2>1, <2>2 DEF CallWidget
<1>8. ASSUME NEW i \in Intervals, ReAddWidget(i)
      PROVE  GInv'
  <2>1. /\ gphase = "widget" /\ gphase' = "readded" /\ UNCHANGED <<interval, widget>>
        /\ timer_add_widget(TimerGroupWidgets[widget].key, i, TRUE)
    BY <1>8 DEF ReAddWidget
  <2>2. /\ ActiveWidget(widget) /\ InGroup(widget) /\ phase = "callback" /\ T!Active(cur)
        /\ widget \in GWidgets
    BY <1>0, <2>1 DEF WalkInGroup, ActiveWidget, TypeOK, GWidgets
  <2>3. TimerGroupWidgets[widget].key \in Widgets /\ TRUE \in BOOLEAN
    BY <1>0, <2>2 DEF TypeOK
  <2>4. /\ T!TypeOK' /\ TypeOK' /\ OfGroups'
        /\ GroupsHaveTimers' /\ WidgetsHaveGroups' /\ GroupsHaveWidgets' /\ OneGroupEach'
        /\ phase' = phase /\ (T!Active(cur) => T!Active(cur)')
        /\ \A w \in GWidgets :
             ActiveWidget(w) => ActiveWidget(w)' /\ TimerGroupWidgets'[w] = TimerGroupWidgets[w]
    BY <1>0, <2>1, <2>3, AddKeeps
  <2>5. ActiveWidget(widget)' /\ InGroup(widget)'
    BY <2>1, <2>2, <2>4 DEF ActiveWidget, InGroup
  <2>6. WalkInGroup'
    BY <2>1, <2>2, <2>4, <2>5 DEF WalkInGroup
  <2> QED
    BY <2>4, <2>6 DEF GInv
<1>9. CASE WidgetDone
  <2>1. /\ gphase \in {"widget", "readded"} /\ gphase' = "loop" /\ widget' = widget + 1
        /\ UNCHANGED <<nTimerGroups, nTimerGroupWidgets, interval, failed>>
    BY <1>9 DEF WidgetDone
  <2>2. /\ ActiveWidget(widget) /\ TimerGroupWidgets[widget].interval = interval
        /\ phase = "callback" /\ T!Active(cur)
        /\ widget \in GWidgets /\ widget + 1 \in 0 .. MaxGWidgets
    BY <1>0, <2>1 DEF WalkInGroup, InGroup, ActiveWidget, TypeOK, GWidgets
  <2>3. CASE timer_remove_empty_group(interval, [TimerGroupWidgets EXCEPT ![widget] = NoWidget])
    <3>1. /\ T!TypeOK' /\ TypeOK' /\ OfGroups'
          /\ GroupsHaveTimers' /\ WidgetsHaveGroups' /\ GroupsHaveWidgets' /\ OneGroupEach'
          /\ phase' = phase /\ (T!Active(cur) => T!Active(cur)')
      BY <1>0, <2>1, <2>2, <2>3, RemoveKeeps
    <3>2. WalkInGroup'
      BY <2>1, <2>2, <3>1 DEF WalkInGroup
    <3> QED
      BY <3>1, <3>2 DEF GInv
  <2>4. CASE UNCHANGED <<timerVars, TimerGroups, TimerGroupWidgets>>
    <3>1. UNCHANGED <<timerVars, groupVars, failed, interval>>
      BY <2>1, <2>4 DEF groupVars
    <3>2. TypeOK'
      BY <1>0, <2>1, <2>2, <2>4 DEF TypeOK
    <3> QED
      BY <1>5, <2>1, <3>1, <3>2
  <2> QED
    BY <1>9, <2>3, <2>4 DEF WidgetDone
<1>10. CASE GroupDone
  <2>1. /\ T!CallbackDone /\ gphase' = "idle" /\ interval' = 0 /\ widget' = 0
        /\ UNCHANGED <<groupVars, failed>>
    BY <1>10 DEF GroupDone
  <2>2. T!TypeOK' /\ SameTimers
    BY <1>0, <2>1, QueueType, QueueKeeps
  <2>3. TypeOK' /\ WalkInGroup'
    BY <1>0, <2>1 DEF TypeOK, groupVars, WalkInGroup, T!CallbackDone
  <2> QED
    BY <2>1, <2>2, <2>3, StayKeeps DEF GInv
<1>11. CASE MainLoop
  <2>1. UNCHANGED <<groupVars, failed>> /\ UNCHANGED <<interval, widget, gphase>>
    BY <1>11 DEF MainLoop, walkVars
  <2>2. T!TypeOK' /\ SameTimers
    <3>1. \/ T!BeginProcess \/ T!SkipSlot \/ T!WalkDone \/ T!SelectNext
          \/ T!PollTimeout \/ T!PollEvent \/ T!GotSignal \/ T!Tick
      BY <1>11 DEF MainLoop
    <3> QED
      BY <1>0, <3>1, QueueType, QueueKeeps
  <2>3. TypeOK'
    BY <1>0, <2>1 DEF TypeOK, groupVars
  <2>4. /\ phase' = "callback" <=> phase = "callback"
        /\ phase = "callback" => cur' = cur
    BY <1>11 DEF MainLoop, T!BeginProcess, T!SkipSlot, T!WalkDone, T!SelectNext,
       T!PollTimeout, T!PollEvent, T!GotSignal, T!Tick
  <2>5. WalkInGroup'
    <3>1. phase' = "callback" => T!Active(cur)'
      <4>1. phase = "callback" => cur \in T!Slots
        BY <1>0 DEF T!Active, T!Allocated, T!TypeOK, T!Slots
      <4>2. phase = "callback" => cur \in 0 .. nTimers' - 1 /\ Timers'[cur].active
        BY <1>0, <2>2, <4>1 DEF SameTimers, T!Active, T!Allocated
      <4> QED
        BY <2>4, <4>2 DEF T!Active, T!Allocated
    <3>2. gphase' # "idle" <=> phase' = "callback"
      <4>1. gphase # "idle" <=> phase = "callback"
        BY <1>0 DEF WalkInGroup
      <4> QED
        BY <2>1, <2>4, <4>1
    <3>3. gphase' \in {"widget", "readded"} => ActiveWidget(widget)' /\ InGroup(widget)'
      BY <1>0, <2>1 DEF WalkInGroup, groupVars, InGroup, ActiveWidget
    <3> QED
      BY <3>1, <3>2, <3>3 DEF WalkInGroup
  <2> QED
    BY <2>1, <2>2, <2>3, <2>5, StayKeeps DEF GInv
<1>12. CASE timer_exit_group
  <2>1. /\ T!timer_exit /\ nTimerGroups' = 0 /\ nTimerGroupWidgets' = 0
        /\ UNCHANGED <<TimerGroups, TimerGroupWidgets, interval, widget, gphase, failed>>
    BY <1>12 DEF timer_exit_group, walkVars
  <2>2. /\ nTimers' = 0 /\ phase = "stopped" /\ phase' = "exited"
    BY <2>1 DEF T!timer_exit
  <2>3. T!TypeOK'
    BY <1>0, <2>1, QueueType
  <2>4. TypeOK' /\ WalkInGroup'
    BY <1>0, <2>1, <2>2 DEF TypeOK, WalkInGroup
  <2>5. /\ \A s : ~T!Active(s)'
        /\ \A g \in Groups : ~ActiveGroup(g)'
        /\ \A w \in GWidgets : ~ActiveWidget(w)'
    BY <2>1, <2>2 DEF T!Active, T!Allocated, ActiveGroup, ActiveWidget
  <2> QED
    BY <2>3, <2>4, <2>5 DEF GInv, OfGroups, GroupsHaveTimers, WidgetsHaveGroups,
       GroupsHaveWidgets, OneGroupEach
<1> QED
  BY <1>1, <1>2, <1>3, <1>4, <1>6, <1>7, <1>8, <1>9, <1>10, <1>11, <1>12 DEF Next

\* The invariant holds in every state.
LEMMA GInvHolds == Spec => []GInv
  BY GInvInit, GInvStep, PTL DEF Spec

\* The variables of the groups keep their types, whatever the order in which widgets
\* come and go; so does the int that timer_process_group reads its interval from.
THEOREM TypeCorrect == Spec => []TypeOK
<1>1. GInv => TypeOK
  BY DEF GInv
<1> QED
  BY <1>1, GInvHolds, PTL

\* Each active widget has a group with a generic timer of its interval in the queue,
\* no two groups share an interval, and none is kept without a widget.
THEOREM GroupsAndWidgetsAgree == Spec => []GroupsServeWidgets
<1>1. GInv => NoOrphan
  <2> SUFFICES ASSUME GInv, ~failed, NEW w \in GWidgets, ActiveWidget(w)
               PROVE  \E g \in Groups, s \in T!Slots :
                        /\ ActiveGroup(g) /\ TimerGroups[g].interval = TimerGroupWidgets[w].interval
                        /\ T!Matches(s, Value(g)) /\ Timers[s].interval = TimerGroupWidgets[w].interval
    BY DEF NoOrphan
  <2>1. PICK g \in Groups : ActiveGroup(g) /\ TimerGroups[g].interval = TimerGroupWidgets[w].interval
    BY DEF GInv, WidgetsHaveGroups, timer_group_exists
  <2>2. PICK s \in T!Slots : T!Matches(s, Value(g)) /\ Timers[s].interval = TimerGroups[g].interval
    BY <2>1 DEF GInv, GroupsHaveTimers
  <2> QED
    BY <2>1, <2>2
<1>2. GInv => GroupsMatchWidgets
  BY DEF GInv, GroupsMatchWidgets, OneGroupEach, GroupsHaveWidgets
<1> QED
  BY <1>1, <1>2, GInvHolds, PTL DEF GroupsServeWidgets

-----------------------------------------------------------------------------
(* A step takes one widget *)

\* The widgets a step deactivates.
Gone == {w \in GWidgets : ActiveWidget(w) /\ ~ActiveWidget(w)'}

\* Whatever is called, at most the widget it is about is gone; during a group's
\* callback that is the one-shot widget which has just run.
LEMMA OneIsGone ==
  ASSUME GInv, [Next]_vars, phase' # "exited", NEW w \in Gone
  PROVE  Gone = {w} /\ (phase = "callback" => w = widget)
<1>0. /\ T!TypeOK /\ TypeOK /\ WalkInGroup /\ w \in GWidgets /\ ActiveWidget(w) /\ ~ActiveWidget(w)'
      /\ interval \in Intervals \union {0} /\ widget \in 0 .. MaxGWidgets
      /\ gphase \in {"idle", "loop", "widget", "readded"}
  BY DEF GInv, TypeOK, Gone
<1>1. ~UNCHANGED <<TimerGroupWidgets, nTimerGroupWidgets>>
  BY <1>0 DEF ActiveWidget
<1>2. ASSUME NEW k \in Widgets, NEW i \in Intervals, NEW one \in BOOLEAN,
             timer_add_widget(k, i, one), interval' = interval, widget' = widget,
             gphase' \in {"idle", "loop", "widget", "readded"}
      PROVE  FALSE
  <2>1. \A x \in GWidgets : ActiveWidget(x) => ActiveWidget(x)'
    BY <1>0, <1>2, AddKeeps
  <2> QED
    BY <1>0, <2>1
<1>3. ASSUME NEW k \in Widgets, timer_remove_widget(k)
      PROVE  Gone = {w} /\ phase # "callback"
  <2>1. /\ phase = "events"
        /\ UNCHANGED <<nTimerGroups, nTimerGroupWidgets, failed, interval, widget, gphase>>
    BY <1>3 DEF timer_remove_widget, walkVars
  <2>2. PICK x \in GWidgets :
           /\ ActiveWidget(x)
           /\ timer_remove_empty_group(TimerGroupWidgets[x].interval,
                                       [TimerGroupWidgets EXCEPT ![x] = NoWidget])
    BY <1>1, <1>3 DEF timer_remove_widget
  <2>3. \A y \in GWidgets \ {x} : ActiveWidget(y) => ActiveWidget(y)'
    BY <1>0, <2>1, <2>2, RemoveKeeps
  <2> QED
    BY <1>0, <2>1, <2>3 DEF Gone
<1>4. CASE WidgetDone
  <2>1. /\ gphase \in {"widget", "readded"} /\ gphase' = "loop" /\ widget' = widget + 1
        /\ UNCHANGED <<nTimerGroups, nTimerGroupWidgets, interval, failed>>
    BY <1>4 DEF WidgetDone
  <2>2. /\ ActiveWidget(widget) /\ TimerGroupWidgets[widget].interval = interval
        /\ widget \in GWidgets /\ widget + 1 \in 0 .. MaxGWidgets
    BY <1>0, <2>1 DEF WalkInGroup, InGroup, ActiveWidget, TypeOK, GWidgets
  <2>3. timer_remove_empty_group(interval, [TimerGroupWidgets EXCEPT ![widget] = NoWidget])
    BY <1>1, <1>4 DEF WidgetDone
  <2>4. \A y \in GWidgets \ {widget} : ActiveWidget(y) => ActiveWidget(y)'
    BY <1>0, <2>1, <2>2, <2>3, RemoveKeeps
  <2> QED
    BY <1>0, <2>4 DEF Gone
<1>5. ASSUME NEW i \in Intervals, ReAddWidget(i)
      PROVE  FALSE
  <2>1. widget \in GWidgets
    BY <1>0, <1>5 DEF ReAddWidget, WalkInGroup, ActiveWidget, TypeOK, GWidgets
  <2>2. TimerGroupWidgets[widget].key \in Widgets /\ TRUE \in BOOLEAN
    BY <1>0, <2>1 DEF TypeOK
  <2> QED
    BY <1>2, <1>5, <2>2 DEF ReAddWidget
<1>6. ASSUME NEW k \in Widgets, NEW i \in Intervals, NEW one \in BOOLEAN, AddWidget(k, i, one)
      PROVE  FALSE
  BY <1>0, <1>2, <1>6 DEF AddWidget, walkVars
<1>7. ~(BeginGroup \/ SkipWidget \/ CallWidget \/ GroupDone \/ MainLoop \/ UNCHANGED vars)
  BY <1>1 DEF BeginGroup, SkipWidget, CallWidget, GroupDone, MainLoop, groupVars, vars
<1>8. ~timer_exit_group
  BY DEF timer_exit_group, T!timer_exit
<1> QED
  BY <1>3, <1>4, <1>5, <1>6, <1>7, <1>8 DEF Next

\* Removing an empty group takes no widget with it that is not its own: a step
\* deactivates at most one widget, during a callback the one that has just run.
THEOREM OneWidgetAtATime == Spec => RemovesOneWidget
<1> DEFINE P == phase' # "exited" =>
                  LET gone == {w \in GWidgets : ActiveWidget(w) /\ ~ActiveWidget(w)'}
                  IN \A w \in gone : gone = {w} /\ (phase = "callback" => w = widget)
<1>1. GInv /\ [Next]_vars => [P]_vars
  BY OneIsGone DEF Gone
<1> QED
  BY <1>1, GInvHolds, PTL DEF Spec, RemovesOneWidget

=============================================================================
