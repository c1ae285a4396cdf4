---------------------------- MODULE Timer_proof ----------------------------
(* Proofs about the timer queue of timer.c: its types, that a one-shot      *)
(* timer triggers once, that the walk leaves no due timer behind, that no   *)
(* timer is lost as long as no callback removes its own timer, and that     *)
(* poll is never told to sleep past a trigger time.                         *)
EXTENDS Timer, TLAPS

USE TimerAssumption

-----------------------------------------------------------------------------
(* Arithmetic of timer_inc *)

\* A number that fits an int is not changed by the wrap-around.
LEMMA WrapFits ==
  ASSUME NEW n \in 0 .. INT_MAX
  PROVE  Wrap(n) = n
  BY DEF Wrap

\* Wrapping gives an integer.
LEMMA WrapInt ==
  ASSUME NEW n \in Int
  PROVE  Wrap(n) \in Int
  BY DEF Wrap

\* timer_inc yields integers.
LEMMA IncInt ==
  ASSUME NEW w \in Int, NEW i \in Intervals, NEW t \in Int
  PROVE  timer_inc(w, i, t) \subseteq Int
<1>1. i \in Nat
  OBVIOUS
<1>2. i > 0 => Trunc(t - w, i) \in Int
  BY <1>1 DEF Trunc
<1>3. Quotients(t - w, i) \subseteq Int
  BY <1>1, <1>2 DEF Quotients, Cast
<1>4. \A q \in Quotients(t - w, i) : i * Wrap(q + 1) \in Int
  BY <1>1, <1>3, WrapInt
<1> QED
  BY <1>4, WrapInt DEF timer_inc

\* One interval more than fit into the lateness ends after the lateness, and
\* not more than an interval after it.
LEMMA NextMultiple ==
  ASSUME NEW d \in Nat, NEW i \in Nat \ {0}
  PROVE  /\ d < i * ((d \div i) + 1)
         /\ i * ((d \div i) + 1) <= d + i
         /\ d \div i \in Nat
  OBVIOUS

\* Within the exact range timer_inc puts a due timer after the clock it is given.
LEMMA IncLater ==
  ASSUME NEW w \in Int, NEW i \in Intervals, NEW t \in Int,
         w <= t, InRange(t - w, i),
         NEW u \in timer_inc(w, i, t)
  PROVE  u > t
<1> DEFINE d == t - w
           q == d \div i
<1>1. i \in Nat \ {0} /\ d \in Nat
  BY DEF InRange
<1>2. /\ d < i * (q + 1) /\ i * (q + 1) <= d + i /\ q \in Nat
  BY <1>1, NextMultiple
<1>3. i * (q + 1) \in 0 .. INT_MAX
  BY <1>1, <1>2 DEF InRange
<1>4. q + 1 <= i * (q + 1)
  BY <1>1, <1>2, SMTT(30)
<1>5. q + 1 \in 0 .. INT_MAX
  BY <1>2, <1>3, <1>4
<1>6. Quotients(d, i) = {q}
  BY <1>1, <1>2, <1>5 DEF Quotients, Cast, Trunc, InRange
<1>7. u = w + Wrap(i * Wrap(q + 1))
  BY <1>6 DEF timer_inc
<1>8. u = w + i * (q + 1)
  BY <1>3, <1>5, <1>7, WrapFits
<1> QED
  BY <1>1, <1>2, <1>8

-----------------------------------------------------------------------------
(* Type correctness *)

\* The empty slot is a slot.
LEMMA NoTimerType == NoTimer \in Slot
  BY DEF NoTimer, Slot

\* timer_add keeps the types and puts the timer into a slot that was not active.
LEMMA AddSlotType ==
  ASSUME TypeOK, NEW k \in Keys, NEW i \in Intervals, NEW one \in BOOLEAN,
         AddSlot(k, i, one)
  PROVE  /\ Timers' \in [Slots -> Slot]
         /\ nTimers' \in 0 .. MaxSlots /\ nTimers <= nTimers'
         /\ exact' \in BOOLEAN /\ (exact' => exact)
         /\ \E s \in Slots :
              /\ ~Active(s)
              /\ Active(s)' /\ ~Timers'[s].fired /\ Timers'[s].inPass = (phase = "callback")
              /\ Timers'[s].key = k /\ Timers'[s].interval = i /\ Timers'[s].one_shot = one
              /\ \A r \in Slots \ {s} : Timers'[r] = Timers[r] /\ (Active(r)' <=> Active(r))
<1>1. PICK s \in Slots, w \in (IF one THEN timer_inc(now, i, now) ELSE {now}) :
        /\ FirstFree(s)
        /\ Timers' = [Timers EXCEPT ![s] = NewTimer(k, w, i, one)]
        /\ nTimers' = IF s = nTimers THEN nTimers + 1 ELSE nTimers
  BY DEF AddSlot
<1>2. w \in Int
  BY IncInt DEF TypeOK
<1>3. NewTimer(k, w, i, one) \in Slot
  BY <1>2 DEF NewTimer, Slot
<1>4. s <= nTimers
  <2> SUFFICES ASSUME s > nTimers PROVE FALSE
    BY DEF TypeOK, Slots
  <2>1. nTimers \in 0 .. s - 1
    BY DEF TypeOK, Slots
  <2>2. Active(nTimers)
    BY <1>1, <2>1 DEF FirstFree
  <2> QED
    BY <2>2 DEF Active, Allocated, TypeOK
<1>5. Timers' \in [Slots -> Slot] /\ nTimers' \in 0 .. MaxSlots /\ nTimers <= nTimers'
  BY <1>1, <1>3, <1>4 DEF TypeOK, Slots
<1>6. ~Active(s)
  BY <1>1 DEF FirstFree
<1>7. Timers'[s] = NewTimer(k, w, i, one)
  BY <1>1 DEF TypeOK
<1>8. Active(s)'
  BY <1>1, <1>4, <1>7 DEF Active, Allocated, NewTimer, TypeOK, Slots
<1>9. /\ ~Timers'[s].fired /\ Timers'[s].inPass = (phase = "callback")
      /\ Timers'[s].key = k /\ Timers'[s].interval = i /\ Timers'[s].one_shot = one
  BY <1>7 DEF NewTimer
<1>10. ASSUME NEW r \in Slots \ {s}
       PROVE  Timers'[r] = Timers[r] /\ (Active(r)' <=> Active(r))
  BY <1>1, <1>4 DEF Active, Allocated, TypeOK, Slots
<1>11. exact' \in BOOLEAN /\ (exact' => exact)
  BY DEF AddSlot, TypeOK, InRange
<1> QED
  BY <1>5, <1>6, <1>8, <1>9, <1>10, <1>11

\* So does the unmasking of timer_add_late.
LEMMA UnmaskType ==
  ASSUME TypeOK, NEW s \in Slots, NEW one \in BOOLEAN, Unmask(s, one)
  PROVE  Timers' \in [Slots -> Slot]
<1> DEFINE f == phase = "callback" /\ cur = s
<1>1. f \in BOOLEAN
  OBVIOUS
<1> HIDE DEF f
<1>2. Timers[s] \in Slot
  BY DEF TypeOK
<1>3. [Timers[s] EXCEPT !.one_shot = one, !.fired = f] \in Slot
  BY <1>1, <1>2 DEF Slot
<1>4. Timers' = [Timers EXCEPT ![s] = [Timers[s] EXCEPT !.one_shot = one, !.fired = f]]
  BY DEF Unmask, f
<1> QED
  BY <1>3, <1>4 DEF TypeOK

\* The numbers in a slot.
LEMMA SlotFields ==
  ASSUME TypeOK, NEW s \in Slots
  PROVE  /\ Timers[s].when \in Int
         /\ Timers[s].interval \in Intervals /\ Timers[s].interval \in Int
<1>1. Timers[s] \in Slot
  BY DEF TypeOK
<1>2. Timers[s].when \in Int /\ Timers[s].interval \in Intervals
  BY <1>1 DEF Slot
<1>3. \A i \in Intervals : i \in Int
  OBVIOUS
<1> QED
  BY <1>2, <1>3

\* Firing keeps the type of a slot.
LEMMA FireType ==
  ASSUME TypeOK, NEW s \in Slots
  PROVE  [Timers EXCEPT ![s].fired = TRUE] \in [Slots -> Slot]
<1>1. Timers[s] \in Slot
  BY DEF TypeOK
<1>2. [Timers[s] EXCEPT !.fired = TRUE] \in Slot
  BY <1>1 DEF Slot
<1> QED
  BY <1>2 DEF TypeOK

\* Moving a slot's trigger time keeps its type.
LEMMA MoveType ==
  ASSUME TypeOK, NEW s \in Slots, NEW w \in Int
  PROVE  /\ [Timers[s] EXCEPT !.when = w] \in Slot
         /\ [Timers[s] EXCEPT !.when = w, !.inPass = FALSE] \in Slot
  BY DEF TypeOK, Slot

\* Every step keeps the types.
LEMMA TypeStep == TypeOK /\ [Next]_vars => TypeOK'
<1> SUFFICES ASSUME TypeOK, [Next]_vars PROVE TypeOK'
  OBVIOUS
<1> USE DEF TypeOK
<1>0. CASE UNCHANGED vars
  BY <1>0 DEF vars
<1>1. ASSUME NEW k \in Keys, NEW i \in Intervals, NEW one \in BOOLEAN, NEW v,
             timer_add(k, i, one, v)
      PROVE  TypeOK'
  BY <1>1, AddSlotType DEF timer_add, Call, Phases
<1>2. ASSUME NEW k \in Keys, NEW i \in Intervals, NEW one \in BOOLEAN, NEW v,
             timer_add_late(k, i, one, v)
      PROVE  TypeOK'
  <2>1. CASE AddSlot(k, i, TRUE) /\ Call
    <3>1. TRUE \in BOOLEAN
      OBVIOUS
    <3>2. /\ Timers' \in [Slots -> Slot] /\ nTimers' \in 0 .. MaxSlots
          /\ exact' \in BOOLEAN /\ nTimers <= nTimers'
      BY <2>1, <3>1, AddSlotType
    <3> QED
      BY <2>1, <3>2 DEF Call, Phases
  <2>2. ASSUME NEW s \in Slots, Unmask(s, one)
        PROVE  Timers' \in [Slots -> Slot]
    BY <2>2, UnmaskType
  <2>3. CASE /\ UNCHANGED <<nTimers, exact>>
             /\ \E s \in Slots : Unmask(s, one) /\ Call
    BY <2>2, <2>3 DEF Call, Phases
  <2>4. CASE UNCHANGED <<nTimers, exact, Timers>> /\ Call
    BY <2>4 DEF Call, Phases
  <2> QED
    BY <1>2, <2>1, <2>3, <2>4 DEF timer_add_late
<1>3. ASSUME NEW k \in Keys, NEW v, timer_remove(k, v) PROVE TypeOK'
  BY <1>3, NoTimerType DEF timer_remove, Call, Phases
<1>4. CASE BeginProcess
  BY <1>4 DEF BeginProcess, Phases
<1>5. CASE SkipSlot
  BY <1>5 DEF SkipSlot
<1>6. CASE FireSlot
  <2>1. cur \in Slots
    BY <1>6 DEF FireSlot, Slots
  <2> QED
    BY <1>6, <2>1, FireType DEF FireSlot, Phases
<1>7. CASE CallbackDone
  <2>1. CASE Expire
    BY <1>7, <2>1, NoTimerType DEF CallbackDone, Expire, Phases, Slots
  <2>2. CASE Respawn
    <3>1. cur \in Slots
      BY <2>2 DEF Respawn, Active, Allocated, Slots
    <3>2. Timers[cur].when \in Int /\ Timers[cur].interval \in Intervals
      BY <3>1, SlotFields
    <3>3. timer_inc(Timers[cur].when, Timers[cur].interval, start) \subseteq Int
      <4>1. start \in Int
        OBVIOUS
      <4> QED
        BY <3>2, <4>1, IncInt
    <3>4. PICK w \in Int : Timers' = [Timers EXCEPT ![cur] = [Timers[cur] EXCEPT !.when = w]]
      BY <2>2, <3>3 DEF Respawn
    <3>6. [Timers[cur] EXCEPT !.when = w] \in Slot
      BY <3>1, MoveType
    <3>5. exact' \in BOOLEAN
      BY <2>2 DEF Respawn, InRange
    <3>7. Timers' \in [Slots -> Slot]
      BY <3>1, <3>4, <3>6
    <3> QED
      BY <1>7, <3>1, <3>5, <3>7 DEF CallbackDone, Phases, Slots
  <2> QED
    BY <1>7, <2>1, <2>2 DEF CallbackDone
<1>8. CASE WalkDone
  BY <1>8 DEF WalkDone, Phases
<1>9. CASE SelectNext
  <2>1. ASSUME NEW b \in Int, Shift(b) PROVE Timers' \in [Slots -> Slot]
    <3>1. ASSUME NEW s \in Slots
          PROVE  [Timers[s] EXCEPT !.when = Timers[s].when - b, !.inPass = FALSE] \in Slot
      <4>1. Timers[s].when - b \in Int
        BY DEF Slot
      <4> QED
        BY <4>1, MoveType
    <3> QED
      BY <2>1, <3>1 DEF Shift
  <2>2. ASSUME NEW s \in Slots, SetDelay(s)
        PROVE  Timers' \in [Slots -> Slot] /\ delay' \in Nat
    <3> DEFINE diff == Timers[s].when - now
    <3>1. Timers[s].when \in Int /\ Timers[s].interval \in Int
      BY SlotFields
    <3>2. diff \in Int /\ diff - Timers[s].interval \in Int
      BY <3>1
    <3> QED
      BY <2>1, <2>2, <3>1, <3>2 DEF SetDelay
  <2> QED
    BY <1>9, <2>2 DEF SelectNext, Phases
<1>10. CASE PollTimeout
  BY <1>10 DEF PollTimeout, Phases
<1>11. CASE PollEvent
  BY <1>11 DEF PollEvent, Phases
<1>12. CASE GotSignal
  BY <1>12 DEF GotSignal, Phases
<1>13. CASE timer_exit
  BY <1>13 DEF timer_exit, Phases
<1>14. CASE Tick
  BY <1>14 DEF Tick
<1>15. ASSUME NEW t \in 0 .. MaxNow, SetClock(t) PROVE TypeOK'
  BY <1>15 DEF SetClock
<1> QED
  BY <1>0, <1>1, <1>2, <1>3, <1>4, <1>5, <1>6, <1>7, <1>8, <1>9, <1>10,
     <1>11, <1>12, <1>13, <1>14, <1>15 DEF Next, Calls

\* The variables of the timer queue keep their types, whatever callbacks add
\* and remove and however the clock moves.
THEOREM TypeCorrect == Spec => []TypeOK
<1>1. Init => TypeOK
  BY NoTimerType DEF Init, TypeOK, Phases
<1>2. TypeOK /\ [Next]_vars => TypeOK'
  BY TypeStep
<1> QED
  BY <1>1, <1>2, PTL DEF Spec

-----------------------------------------------------------------------------
(* A one-shot timer triggers once *)

\* A step that adds a timer as AddSlot does, in a phase it does not leave,
\* keeps the three facts below: the new timer has not fired, and a timer that
\* a callback adds is marked as added in this walk.
CallbackSlotDue ==
  phase = "callback" /\ Active(cur) => Timers[cur].when <= start \/ Timers[cur].inPass

\* Invariant strengthened: NoStacking of the slot whose callback runs follows
\* from that slot having been due when its callback was called.
IInv == TypeOK /\ OneShotOnce /\ NoStacking /\ CallbackSlotDue

\* The slots of a timer added in a step.
LEMMA AddKeeps ==
  ASSUME IInv, NEW k \in Keys, NEW i \in Intervals, NEW one \in BOOLEAN,
         AddSlot(k, i, one), phase' = phase, cur' = cur, start' = start,
         phase \in {"events", "callback"}
  PROVE  OneShotOnce' /\ NoStacking' /\ CallbackSlotDue'
<1> USE DEF IInv
<1>1. PICK s \in Slots :
        /\ ~Active(s)
        /\ Active(s)' /\ ~Timers'[s].fired /\ Timers'[s].inPass = (phase = "callback")
        /\ \A r \in Slots \ {s} : Timers'[r] = Timers[r] /\ (Active(r)' <=> Active(r))
  BY AddSlotType
<1>2. exact' => exact
  BY AddSlotType
<1>3. OneShotOnce'
  BY <1>1 DEF OneShotOnce
<1>4. NoStacking'
  BY <1>1, <1>2 DEF NoStacking
<1>5. phase = "callback" => cur \in Slots
  BY DEF TypeOK, Slots
<1>6. CallbackSlotDue'
  BY <1>1, <1>5 DEF CallbackSlotDue
<1> QED
  BY <1>3, <1>4, <1>6

\* A step that changes no slot's timer except that it may deactivate some, and
\* neither the place in the walk, keeps them too.
LEMMA DropKeeps ==
  ASSUME IInv, phase' = phase, cur' = cur, start' = start, exact' = exact,
         \A r \in Slots : Active(r)' => Active(r) /\ Timers'[r] = Timers[r]
  PROVE  OneShotOnce' /\ NoStacking' /\ CallbackSlotDue'
<1> USE DEF IInv
<1>1. OneShotOnce'
  BY DEF OneShotOnce
<1>2. NoStacking'
  BY DEF NoStacking
<1>3. phase = "callback" => cur \in Slots
  BY DEF TypeOK, Slots
<1>4. CallbackSlotDue'
  BY <1>3 DEF CallbackSlotDue
<1> QED
  BY <1>1, <1>2, <1>4

\* The end of a callback: the slot is expired or moved beyond the walk's clock.
LEMMA DoneKeeps ==
  ASSUME IInv, CallbackDone
  PROVE  OneShotOnce' /\ NoStacking' /\ CallbackSlotDue'
<1> USE DEF IInv
<1>1. cur \in Slots /\ phase = "callback" /\ phase' = "walk" /\ cur' = cur + 1
      /\ nTimers' = nTimers /\ start' = start
  BY DEF CallbackDone, TypeOK, Slots
<1>2. CallbackSlotDue'
  BY <1>1 DEF CallbackSlotDue
<1>3. \A s \in Slots : s < cur' => s < cur \/ s = cur
  BY <1>1 DEF TypeOK, Slots
<1>4. CASE Expire
  <2>1. \A s \in Slots : s = cur => ~Active(s)'
    BY <1>1, <1>4 DEF Expire, Active, NoTimer, TypeOK
  <2>2. \A r \in Slots \ {cur} : Timers'[r] = Timers[r] /\ (Active(r)' <=> Active(r))
    BY <1>1, <1>4 DEF Expire, Active, Allocated, TypeOK
  <2>3. OneShotOnce'
    BY <1>1, <2>1, <2>2 DEF OneShotOnce
  <2>4. NoStacking'
    BY <1>1, <1>3, <1>4, <2>1, <2>2 DEF NoStacking, Expire
  <2> QED
    BY <1>2, <2>3, <2>4
<1>5. CASE Respawn
  <2>1. PICK w \in timer_inc(Timers[cur].when, Timers[cur].interval, start) :
          Timers' = [Timers EXCEPT ![cur] = [Timers[cur] EXCEPT !.when = w]]
    BY <1>5 DEF Respawn
  <2>2. Timers'[cur] = [Timers[cur] EXCEPT !.when = w]
    BY <1>1, <2>1 DEF TypeOK
  <2>3. Timers[cur] \in Slot
    BY <1>1 DEF TypeOK
  <2>4. /\ Timers'[cur].when = w
        /\ Timers'[cur].inPass = Timers[cur].inPass
        /\ Timers'[cur].one_shot = Timers[cur].one_shot
    BY <2>2, <2>3 DEF Slot
  <2>5. \A r \in Slots \ {cur} : Timers'[r] = Timers[r] /\ (Active(r)' <=> Active(r))
    BY <1>1, <2>1 DEF Active, Allocated, TypeOK
  <2>6. OneShotOnce'
    BY <1>1, <1>5, <2>4, <2>5 DEF OneShotOnce, Respawn
  <2>7. exact' => exact /\ InRange(start - Timers[cur].when, Timers[cur].interval)
    BY <1>5 DEF Respawn
  <2>8. ASSUME exact', ~Timers[cur].inPass PROVE w > start
    <3>1. Timers[cur].when <= start
      BY <1>1, <1>5, <2>8 DEF CallbackSlotDue, Respawn
    <3>2. Timers[cur].when \in Int /\ Timers[cur].interval \in Intervals /\ start \in Int
      BY <1>1, SlotFields DEF TypeOK
    <3> QED
      BY <2>1, <2>7, <2>8, <3>1, <3>2, IncLater
  <2>9. NoStacking'
    BY <1>1, <1>3, <2>4, <2>5, <2>7, <2>8 DEF NoStacking
  <2> QED
    BY <1>2, <2>6, <2>9
<1> QED
  BY <1>4, <1>5 DEF CallbackDone

\* Every step keeps the inductive invariant.
LEMMA InvStep == IInv /\ [Next]_vars => IInv'
<1> SUFFICES ASSUME IInv, [Next]_vars PROVE IInv'
  OBVIOUS
<1> USE DEF IInv
<1>t. TypeOK'
  BY TypeStep
<1>0. CASE UNCHANGED vars
  BY <1>0, <1>t DEF vars, OneShotOnce, NoStacking, CallbackSlotDue, Active, Allocated
<1>1. ASSUME NEW k \in Keys, NEW i \in Intervals, NEW one \in BOOLEAN, NEW v,
             timer_add(k, i, one, v)
      PROVE  IInv'
  <2>1. CASE AddSlot(k, i, one) /\ Call
    BY <1>t, <2>1, AddKeeps DEF Call
  <2>2. CASE UNCHANGED <<Timers, nTimers, exact>> /\ Call
    BY <1>t, <2>2, DropKeeps DEF Call, Active, Allocated
  <2> QED
    BY <1>1, <2>1, <2>2 DEF timer_add
<1>2. ASSUME NEW k \in Keys, NEW i \in Intervals, NEW one \in BOOLEAN, NEW v,
             timer_add_late(k, i, one, v)
      PROVE  IInv'
  <2>1. CASE AddSlot(k, i, TRUE) /\ Call
    <3>1. TRUE \in BOOLEAN
      OBVIOUS
    <3> QED
      BY <1>t, <2>1, <3>1, AddKeeps DEF Call
  <2>2. CASE /\ UNCHANGED <<nTimers, exact>>
             /\ \E s \in Slots : Unmask(s, one) /\ Call
    <3>1. PICK s \in Slots : Unmask(s, one)
      BY <2>2
    <3>2. UNCHANGED <<phase, cur, start, nTimers, exact>>
      BY <2>2 DEF Call
    <3>3. Timers[s] \in Slot
      BY DEF TypeOK
    <3>4. /\ Timers'[s].active = Timers[s].active
          /\ Timers'[s].when = Timers[s].when
          /\ Timers'[s].inPass = Timers[s].inPass
          /\ Timers'[s].fired <=> phase = "callback" /\ cur = s
      BY <3>1, <3>3 DEF Unmask, TypeOK, Slot
    <3>5. \A r \in Slots \ {s} : Timers'[r] = Timers[r]
      BY <3>1 DEF Unmask, TypeOK
    <3>6. \A r \in Slots : Active(r)' <=> Active(r)
      BY <3>2, <3>4, <3>5 DEF Active, Allocated
    <3>7. OneShotOnce'
      BY <3>2, <3>4, <3>5, <3>6 DEF OneShotOnce
    <3>8. NoStacking'
      BY <3>2, <3>4, <3>5, <3>6 DEF NoStacking
    <3>9. phase = "callback" => cur \in Slots
      BY DEF TypeOK, Slots
    <3>10. CallbackSlotDue'
      BY <3>2, <3>4, <3>5, <3>6, <3>9 DEF CallbackSlotDue
    <3> QED
      BY <1>t, <3>7, <3>8, <3>10
  <2>3. CASE UNCHANGED <<nTimers, exact, Timers>> /\ Call
    BY <1>t, <2>3, DropKeeps DEF Call, Active, Allocated
  <2> QED
    BY <1>2, <2>1, <2>2, <2>3 DEF timer_add_late
<1>3. ASSUME NEW k \in Keys, NEW v, timer_remove(k, v) PROVE IInv'
  <2>1. UNCHANGED <<phase, cur, start, nTimers, exact>>
    BY <1>3 DEF timer_remove, Call
  <2>2. \A r \in Slots : Active(r)' => Active(r) /\ Timers'[r] = Timers[r]
    BY <1>3, <2>1 DEF timer_remove, Active, Allocated, NoTimer, TypeOK
  <2> QED
    BY <1>t, <2>1, <2>2, DropKeeps
<1>4. CASE BeginProcess
  <2>1. OneShotOnce'
    BY <1>4 DEF BeginProcess, OneShotOnce, Active, Allocated
  <2>2. NoStacking'
    BY <1>4 DEF BeginProcess, NoStacking, Slots
  <2>3. CallbackSlotDue'
    BY <1>4 DEF BeginProcess, CallbackSlotDue
  <2> QED
    BY <1>t, <2>1, <2>2, <2>3
<1>5. CASE SkipSlot
  <2>1. \A s \in Slots : s < cur' => s < cur \/ s = cur
    BY <1>5 DEF SkipSlot, TypeOK, Slots
  <2>2. start \in Int /\ \A s \in Slots : Timers[s].when \in Int
    BY SlotFields DEF TypeOK
  <2>3. NoStacking'
    BY <1>5, <2>1, <2>2 DEF SkipSlot, NoStacking, Due, Active, Allocated
  <2> QED
    BY <1>5, <1>t, <2>3 DEF SkipSlot, OneShotOnce, CallbackSlotDue, Active, Allocated
<1>6. CASE FireSlot
  <2>1. cur \in Slots /\ Timers[cur] \in Slot
    BY <1>6 DEF FireSlot, TypeOK, Slots
  <2>2. /\ Timers'[cur].when = Timers[cur].when
        /\ Timers'[cur].active = Timers[cur].active
        /\ Timers'[cur].inPass = Timers[cur].inPass
    BY <1>6, <2>1 DEF FireSlot, Slot, TypeOK
  <2>3. \A r \in Slots \ {cur} : Timers'[r] = Timers[r]
    BY <1>6 DEF FireSlot, TypeOK
  <2>4. \A r \in Slots : Active(r)' <=> Active(r)
    BY <1>6, <2>2, <2>3 DEF FireSlot, Active, Allocated
  <2>5. OneShotOnce'
    BY <1>6, <2>3, <2>4 DEF FireSlot, OneShotOnce
  <2>6. NoStacking'
    BY <1>6, <2>2, <2>3, <2>4 DEF FireSlot, NoStacking
  <2>7. CallbackSlotDue'
    BY <1>6, <2>1, <2>2 DEF FireSlot, CallbackSlotDue, Due
  <2> QED
    BY <1>t, <2>5, <2>6, <2>7
<1>7. CASE CallbackDone
  BY <1>7, <1>t, DoneKeeps
<1>8. CASE WalkDone
  BY <1>8, <1>t DEF WalkDone, OneShotOnce, NoStacking, CallbackSlotDue, Active, Allocated
<1>9. CASE SelectNext
  <2>1. ASSUME NEW b, Shift(b)
        PROVE  \A s \in Slots : Active(s)' =>
                 Active(s) /\ Timers'[s].one_shot = Timers[s].one_shot
                           /\ Timers'[s].fired = Timers[s].fired
    <3> SUFFICES ASSUME NEW s \in Slots, Active(s)'
                 PROVE  Active(s) /\ Timers'[s].one_shot = Timers[s].one_shot
                                  /\ Timers'[s].fired = Timers[s].fired
      OBVIOUS
    <3>1. nTimers' = nTimers /\ Timers[s] \in Slot
      BY <1>9 DEF SelectNext, TypeOK
    <3>2. Active(s)
      BY <2>1, <3>1 DEF Shift, Active, Allocated
    <3> QED
      BY <2>1, <3>1, <3>2 DEF Shift, Slot
  <2>2. phase = "select" /\ phase' \in {"sleep", "stopped"}
    BY <1>9 DEF SelectNext
  <2>3. \A s \in Slots : Active(s)' =>
          Active(s) /\ Timers'[s].one_shot = Timers[s].one_shot
                    /\ Timers'[s].fired = Timers[s].fired
    BY <1>9, <2>1 DEF SelectNext, SetDelay, Active, Allocated
  <2>4. OneShotOnce'
    BY <2>2, <2>3 DEF OneShotOnce
  <2> QED
    BY <1>t, <2>2, <2>4 DEF NoStacking, CallbackSlotDue
<1>10. CASE PollTimeout
  BY <1>10, <1>t DEF PollTimeout, OneShotOnce, NoStacking, CallbackSlotDue, Active, Allocated
<1>11. CASE PollEvent
  BY <1>11, <1>t DEF PollEvent, OneShotOnce, NoStacking, CallbackSlotDue, Active, Allocated
<1>12. CASE GotSignal
  BY <1>12, <1>t DEF GotSignal, OneShotOnce, NoStacking, CallbackSlotDue, Active, Allocated
<1>13. CASE timer_exit
  BY <1>13, <1>t DEF timer_exit, OneShotOnce, NoStacking, CallbackSlotDue, Active, Allocated
<1>14. CASE Tick
  BY <1>14, <1>t DEF Tick, OneShotOnce, NoStacking, CallbackSlotDue, Active, Allocated
<1>15. ASSUME NEW t \in 0 .. MaxNow, SetClock(t) PROVE IInv'
  BY <1>15, <1>t DEF SetClock, OneShotOnce, NoStacking, CallbackSlotDue, Active, Allocated
<1> QED
  BY <1>0, <1>1, <1>2, <1>3, <1>4, <1>5, <1>6, <1>7, <1>8, <1>9, <1>10,
     <1>11, <1>12, <1>13, <1>14, <1>15 DEF Next, Calls

\* The inductive invariant holds initially.
LEMMA InvInit == Init => IInv
<1> SUFFICES ASSUME Init PROVE IInv
  OBVIOUS
<1>1. TypeOK
  BY NoTimerType DEF Init, TypeOK, Phases
<1>2. \A s \in Slots : ~Active(s)
  BY DEF Init, Active, Allocated, Slots
<1> QED
  BY <1>1, <1>2 DEF IInv, OneShotOnce, NoStacking, CallbackSlotDue, Init

\* A timer that timer_add was told to run once is inactive as soon as its
\* callback has returned, however callbacks use the queue.
THEOREM OneShotTriggersOnce == Spec => []OneShotOnce
<1>1. IInv => OneShotOnce
  BY DEF IInv
<1> QED
  BY <1>1, InvInit, InvStep, PTL DEF Spec

\* timer_process catches up with any lateness in one walk as long as the
\* lateness fits the arithmetic of timer_inc.
THEOREM WalkCatchesUp == Spec => []NoStacking
<1>1. IInv => NoStacking
  BY DEF IInv
<1> QED
  BY <1>1, InvInit, InvStep, PTL DEF Spec

-----------------------------------------------------------------------------
(* No timer is lost *)

\* The slot whose callback runs stays in use until the callback returns.
CallbackSlotKept == phase = "callback" => Active(cur) /\ Timers[cur].fired

\* With callbacks that leave their own timer alone, every step keeps it in use.
LEMMA KeptStep ==
  ASSUME ~SelfRemove, TypeOK, CallbackSlotKept, [Next]_vars
  PROVE  CallbackSlotKept'
<1>c. phase = "callback" => cur \in Slots /\ Timers[cur] \in Slot
  BY DEF TypeOK, Slots
<1>0. CASE UNCHANGED vars
  BY <1>0 DEF vars, CallbackSlotKept, Active, Allocated
<1>a. ASSUME NEW k \in Keys, NEW i \in Intervals, NEW one \in BOOLEAN, AddSlot(k, i, one),
             UNCHANGED <<phase, cur>>
      PROVE  CallbackSlotKept'
  BY <1>a, <1>c, AddSlotType DEF CallbackSlotKept
<1>1. ASSUME NEW k \in Keys, NEW i \in Intervals, NEW one \in BOOLEAN, NEW v,
             timer_add(k, i, one, v)
      PROVE  CallbackSlotKept'
  BY <1>1, <1>a DEF timer_add, Call, CallbackSlotKept, Active, Allocated
<1>2. ASSUME NEW k \in Keys, NEW i \in Intervals, NEW one \in BOOLEAN, NEW v,
             timer_add_late(k, i, one, v)
      PROVE  CallbackSlotKept'
  <2>1. CASE AddSlot(k, i, TRUE) /\ Call
    <3>1. TRUE \in BOOLEAN
      OBVIOUS
    <3> QED
      BY <2>1, <3>1, <1>a DEF Call
  <2>2. ASSUME NEW s \in Slots, Unmask(s, one), UNCHANGED nTimers,
               Call
        PROVE  CallbackSlotKept'
    <3>1. Timers[s] \in Slot /\ UNCHANGED <<phase, cur>>
      BY <2>2 DEF TypeOK, Call
    <3>2. /\ Timers'[s].active = Timers[s].active
          /\ Timers'[s].fired <=> phase = "callback" /\ cur = s
      BY <2>2, <3>1 DEF Unmask, TypeOK, Slot
    <3>3. \A r \in Slots \ {s} : Timers'[r] = Timers[r]
      BY <2>2 DEF Unmask, TypeOK
    <3> QED
      BY <2>2, <3>1, <3>2, <3>3, <1>c DEF CallbackSlotKept, Active, Allocated
  <2>3. CASE UNCHANGED <<nTimers, Timers>> /\ Call
    BY <2>3 DEF Call, CallbackSlotKept, Active, Allocated
  <2> QED
    BY <1>2, <2>1, <2>2, <2>3 DEF timer_add_late
<1>3. ASSUME NEW k \in Keys, NEW v, timer_remove(k, v) PROVE CallbackSlotKept'
  <2>1. UNCHANGED <<phase, cur, nTimers>>
    BY <1>3 DEF timer_remove, Call
  <2>2. phase = "callback" => Timers'[cur] = Timers[cur]
    BY <1>3, <1>c DEF timer_remove, TypeOK
  <2> QED
    BY <2>1, <2>2 DEF CallbackSlotKept, Active, Allocated
<1>6. CASE FireSlot
  <2>1. cur \in Slots /\ Timers[cur] \in Slot
    BY <1>6 DEF FireSlot, TypeOK, Slots
  <2>2. Timers'[cur].active = Timers[cur].active /\ Timers'[cur].fired
    BY <1>6, <2>1 DEF FireSlot, Slot, TypeOK
  <2> QED
    BY <1>6, <2>2 DEF FireSlot, CallbackSlotKept, Due, Active, Allocated
<1>4. CASE \/ BeginProcess \/ SkipSlot \/ CallbackDone \/ WalkDone \/ SelectNext
           \/ PollTimeout \/ PollEvent \/ GotSignal \/ timer_exit
  <2>1. phase' # "callback"
    BY <1>4 DEF BeginProcess, SkipSlot, CallbackDone, WalkDone, SelectNext,
                PollTimeout, PollEvent, GotSignal, timer_exit
  <2> QED
    BY <2>1 DEF CallbackSlotKept
<1>14. CASE Tick \/ \E t \in 0 .. MaxNow : SetClock(t)
  BY <1>14 DEF Tick, SetClock, CallbackSlotKept, Active, Allocated
<1> QED
  BY <1>0, <1>1, <1>2, <1>3, <1>4, <1>6, <1>14 DEF Next, Calls

\* When callbacks leave their own timer alone, the walk deactivates only timers
\* that have fired: an added timer is never lost.
THEOREM NoTimerIsLost ==
  ASSUME ~SelfRemove
  PROVE  Spec => NoLostTimer
<1> DEFINE P == phase = "callback" /\ phase' = "walk" =>
                  \A s \in Slots : Active(s) /\ ~Active(s)' => Timers[s].fired
<1>1. Init => TypeOK /\ CallbackSlotKept
  BY InvInit DEF Init, IInv, CallbackSlotKept
<1>2. TypeOK /\ CallbackSlotKept /\ [Next]_vars => TypeOK' /\ CallbackSlotKept'
  BY TypeStep, KeptStep
<1>3. TypeOK /\ CallbackSlotKept /\ [Next]_vars => [P]_vars
  <2> SUFFICES ASSUME TypeOK, CallbackSlotKept, [Next]_vars,
                      phase = "callback", phase' = "walk",
                      NEW s \in Slots, Active(s), ~Active(s)'
               PROVE  Timers[s].fired
    OBVIOUS
  <2>1. CallbackDone
    BY DEF Next, Calls, vars, timer_add, timer_add_late, timer_remove, Call, BeginProcess, SkipSlot,
           FireSlot, WalkDone, SelectNext, PollTimeout, PollEvent, GotSignal, timer_exit,
           Tick, SetClock
  <2>2. cur \in Slots /\ Timers[cur] \in Slot /\ nTimers' = nTimers
    BY <2>1 DEF TypeOK, Slots, CallbackDone
  <2>3. \A r \in Slots \ {cur} : Timers'[r] = Timers[r]
    BY <2>1 DEF CallbackDone, Expire, Respawn, TypeOK
  <2>4. s = cur
    BY <2>2, <2>3 DEF Active, Allocated
  <2> QED
    BY <2>4 DEF CallbackSlotKept
<1> QED
  BY <1>1, <1>2, <1>3, PTL DEF Spec, NoLostTimer

-----------------------------------------------------------------------------
(* The program does not oversleep *)

\* However the clock was set before, the delay SelectNext hands to poll ends before the
\* first timer is due, and is bounded by the interval of one of them.
THEOREM NeverOversleeps == Spec => NoOversleep
<1> DEFINE P == phase = "select" /\ phase' = "sleep" =>
                  /\ \A s \in Slots : Active(s)' => Timers'[s].when >= now + delay' \/ delay' = 0
                  /\ \E s \in Slots : Active(s)' /\ delay' <= Timers'[s].interval + CLOCK_SKEW
<1>1. TypeOK /\ [Next]_vars => [P]_vars
  <2> SUFFICES ASSUME TypeOK, [Next]_vars, phase = "select", phase' = "sleep" PROVE P
    OBVIOUS
  <2>1. SelectNext
    BY DEF Next, Calls, vars, timer_add, timer_add_late, timer_remove, Call, BeginProcess, SkipSlot,
           FireSlot, CallbackDone, WalkDone, PollTimeout, PollEvent, GotSignal, timer_exit,
           Tick, SetClock
  <2>2. PICK s \in Slots : NextTimer(s) /\ SetDelay(s)
    BY <2>1 DEF SelectNext
  <2>3. UNCHANGED <<nTimers, now>> /\ now \in Int /\ Active(s)
    BY <2>1, <2>2 DEF SelectNext, NextTimer, TypeOK
  <2>4. \A r \in Slots : Timers[r].when \in Int /\ Timers[r].interval \in Nat
    <3> SUFFICES ASSUME NEW r \in Slots PROVE Timers[r].when \in Int /\ Timers[r].interval \in Nat
      OBVIOUS
    <3>1. Timers[r].interval \in Intervals /\ Timers[r].when \in Int
      BY SlotFields
    <3>2. \A n \in Intervals : n \in Nat
      OBVIOUS
    <3> QED
      BY <3>1, <3>2
  <2>5. ASSUME NEW b \in Int, Shift(b), NEW r \in Slots
        PROVE  /\ Active(r)' <=> Active(r)
               /\ Active(r) => Timers'[r].when = Timers[r].when - b
                               /\ Timers'[r].interval = Timers[r].interval
    <3>1. Timers[r] \in Slot
      BY DEF TypeOK
    <3>2. Active(r) => Timers'[r] = [Timers[r] EXCEPT !.when = @ - b, !.inPass = FALSE]
      BY <2>5 DEF Shift
    <3>3. ~Active(r) => Timers'[r] = Timers[r]
      BY <2>5 DEF Shift
    <3> QED
      BY <2>3, <3>1, <3>2, <3>3 DEF Slot, Active, Allocated
  <2> DEFINE diff == Timers[s].when - now
             skew == diff - Timers[s].interval
  <2>6. diff \in Int /\ skew \in Int
    BY <2>3, <2>4
  <2>7. CASE diff >= 0 /\ skew > CLOCK_SKEW
    <3>1. Shift(skew) /\ delay' = 0
      BY <2>2, <2>7 DEF SetDelay
    <3>2. Active(s)' /\ Timers'[s].interval \in Nat
      BY <2>3, <2>4, <2>5, <2>6, <3>1
    <3> QED
      BY <3>1, <3>2
  <2>8. CASE ~(diff >= 0 /\ skew > CLOCK_SKEW)
    <3>1. Shift(0) /\ delay' = IF diff < 0 THEN 0 ELSE diff
      BY <2>2, <2>8 DEF SetDelay
    <3>2. \A r \in Slots : Active(r) => Timers[s].when <= Timers[r].when
      BY <2>2, <2>4 DEF NextTimer
    <3>3. \A r \in Slots : Active(r)' => Timers'[r].when >= now + delay' \/ delay' = 0
      BY <2>3, <2>4, <2>5, <3>1, <3>2
    <3>4. Active(s)' /\ delay' <= Timers'[s].interval + CLOCK_SKEW
      BY <2>3, <2>4, <2>5, <2>6, <2>8, <3>1
    <3> QED
      BY <3>3, <3>4
  <2> QED
    BY <2>7, <2>8
<1> QED
  BY <1>1, TypeCorrect, PTL DEF Spec, NoOversleep

=============================================================================
