------------------------------- MODULE Timer -------------------------------
(***************************************************************************)
(* The generic timer queue of timer.c: an array of slots that timer_add    *)
(* fills, timer_remove marks inactive, and timer_process walks once per    *)
(* turn of the main loop (lcd4linux.c, the while loop of main), calling    *)
(* the callback of every slot that is due.  Callbacks run inside the walk  *)
(* and may add and remove timers themselves.                               *)
(*                                                                         *)
(* Time is in abstract ticks.  `now' is the wall clock that gettimeofday   *)
(* returns: it advances at any time, also while a callback runs, and it    *)
(* can be set forwards or backwards.  `delay' is the time poll still has   *)
(* to wait; the kernel measures it and setting the clock does not touch it.*)
(***************************************************************************)
EXTENDS Integers, FiniteSets

CONSTANTS
  Keys,         \* the (callback, data) pairs that identify a timer
  Intervals,    \* the intervals timers are added with
  MaxSlots,     \* bound: slots realloc can provide before it returns NULL
  MaxNow,       \* bound: last value of the clock
  MaxSets,      \* bound: how often the clock is set
  MaxCalls,     \* bound: timer calls in one callback or one turn of events
  CLOCK_SKEW,   \* CLOCK_SKEW_DETECT_TIME_IN_MS
  INT_MAX,      \* largest value of a C int
  FLOAT_EXACT,  \* largest lateness that the float of timer_inc holds exactly
  SelfRemove    \* may a callback remove the very timer that called it?

ASSUME TimerAssumption ==
  /\ Keys # {} /\ Intervals # {}
  /\ Intervals \subseteq Nat
  /\ MaxSlots \in Nat \ {0}
  /\ MaxNow \in Nat
  /\ MaxSets \in Nat
  /\ MaxCalls \in Nat
  /\ CLOCK_SKEW \in Nat
  /\ INT_MAX \in Nat
  /\ FLOAT_EXACT \in Nat
  /\ SelfRemove \in BOOLEAN

Slots == 0 .. MaxSlots - 1

\* `fired' and `inPass' are history: the callback ran since the timer got its
\* one_shot; the timer was added by a callback of the walk in progress.
Slot == [key : Keys, when : Int, interval : Intervals, one_shot : BOOLEAN,
         active : BOOLEAN, fired : BOOLEAN, inPass : BOOLEAN]

\* A slot that is not in use.  What an inactive slot held before is not kept:
\* the code overwrites it before it is used again.
NoTimer ==
  [key |-> CHOOSE k \in Keys : TRUE, when |-> 0, interval |-> CHOOSE i \in Intervals : TRUE,
   one_shot |-> FALSE, active |-> FALSE, fired |-> FALSE, inPass |-> FALSE]

Phases == {"events", "walk", "callback", "select", "sleep", "stopped", "exited"}

VARIABLES
  Timers,   \* the slots; slots at nTimers and above are not allocated
  nTimers,  \* number of allocated slots
  now,      \* gettimeofday
  sets,     \* how often the clock was set
  phase,    \* where the main loop is
  start,    \* `now' of timer_process: the clock when the walk began
  cur,      \* the loop index `timer' of the walk
  calls,    \* timer calls made by the running callback or event handlers
  delay,    \* what is left of the poll timeout
  exact     \* history: timer_inc never left the range it is exact in

vars == <<Timers, nTimers, now, sets, phase, start, cur, calls, delay, exact>>

Allocated == 0 .. nTimers - 1

Active(s) == s \in Allocated /\ Timers[s].active

Matches(s, k) == Active(s) /\ Timers[s].key = k

-----------------------------------------------------------------------------
(* timer_inc *)

\* C integers wrap around at INT_MAX on the builds the Makefile produces.
Wrap(n) == ((n + INT_MAX + 1) % (2 * (INT_MAX + 1))) - (INT_MAX + 1)

\* The cast of a float quotient to int truncates toward zero.
Trunc(d, i) == IF d >= 0 THEN d \div i ELSE -((-d) \div i)

\* A float no int can hold is cast to INT_MIN.
Cast(q) == IF q > INT_MAX THEN -INT_MAX - 1 ELSE q

\* (int)(time_difference / interval): a float has 24 bits of mantissa, so a
\* longer lateness is rounded and the quotient can be off by one.  Divided by
\* zero it is infinite or no number, which no int can hold either.
Quotients(d, i) ==
  IF i = 0 THEN {-INT_MAX - 1}
           ELSE {Cast(Trunc(d, i) + e) : e \in IF d <= FLOAT_EXACT THEN {0} ELSE {-1, 0, 1}}

InRange(d, i) == i > 0 /\ d <= FLOAT_EXACT /\ d + i <= INT_MAX

\* Mutant of timer_inc: missed intervals are not skipped.
Bug_OneInterval(w, i, t) == {w + i}

\* The trigger times timer_inc can give a timer that was due at w.
timer_inc(w, i, t) == {w + Wrap(i * Wrap(q + 1)) : q \in Quotients(t - w, i)}

-----------------------------------------------------------------------------
(* timer_add, timer_remove, timer_add_late: called from event handlers     *)
(* and from callbacks                                                      *)

\* The slot timer_add takes: the first inactive one, else a new one.
FirstFree(s) == ~Active(s) /\ \A r \in 0 .. s - 1 : Active(r)

NewTimer(k, w, i, one) ==
  [key |-> k, when |-> w, interval |-> i, one_shot |-> one, active |-> TRUE,
   fired |-> FALSE, inPass |-> phase = "callback"]

\* What a successful timer_add does to the slots.
AddSlot(k, i, one) ==
  /\ \E s \in Slots, w \in (IF one THEN timer_inc(now, i, now) ELSE {now}) :
       /\ FirstFree(s)
       /\ Timers' = [Timers EXCEPT ![s] = NewTimer(k, w, i, one)]
       /\ nTimers' = IF s = nTimers THEN nTimers + 1 ELSE nTimers
  /\ exact' = (exact /\ (one => InRange(0, i)))

OutOfMemory == \A s \in Slots : Active(s)

\* The handlers and callbacks that may call.  v stands for the value returned.
Call ==
  /\ phase \in {"events", "callback"}
  /\ calls' = calls + 1
  /\ UNCHANGED <<now, sets, phase, start, cur, delay>>

timer_add(k, i, one, v) ==
  /\ Call
  /\ \/ v = 0 /\ AddSlot(k, i, one)
     \/ v = -1 /\ OutOfMemory /\ UNCHANGED <<Timers, nTimers, exact>>

FirstMatch(s, k) == Matches(s, k) /\ \A r \in 0 .. s - 1 : ~Matches(r, k)

timer_remove(k, v) ==
  /\ Call
  /\ \/ /\ v = 0
        /\ \E s \in Slots :
             /\ FirstMatch(s, k)
             /\ ~SelfRemove /\ phase = "callback" => s # cur
             /\ Timers' = [Timers EXCEPT ![s] = NoTimer]
     \/ v = -1 /\ (\A s \in Slots : ~Matches(s, k)) /\ UNCHANGED Timers
  /\ UNCHANGED <<nTimers, exact>>

\* Where timer_add_late looks for its new timer, and what it does to it.
Same(s, k, i) == Matches(s, k) /\ Timers[s].interval = i

FirstSame(s, k, i) == Same(s, k, i) /\ \A r \in 0 .. s - 1 : ~Same(r, k, i)

Unmask(s, one) ==
  Timers' = [Timers EXCEPT
    ![s] = [@ EXCEPT !.one_shot = one, !.fired = (phase = "callback" /\ cur = s)]]

\* timer_add_late returns -1 as soon as timer_add succeeds, so the mask
\* one_shot = 1 stays; only after a failed timer_add it goes on to unmask.
timer_add_late(k, i, one, v) ==
  /\ Call
  /\ \/ v = -1 /\ AddSlot(k, i, TRUE)
     \/ /\ OutOfMemory
        /\ \/ v = 0 /\ \E s \in Slots : FirstSame(s, k, i) /\ Unmask(s, one)
           \/ v = -1 /\ (\A s \in Slots : ~Same(s, k, i)) /\ UNCHANGED Timers
        /\ UNCHANGED <<nTimers, exact>>

-----------------------------------------------------------------------------
(* timer_process *)

\* Mutant of BeginProcess: the walk starts behind the first slot.
Bug_WalkFromOne ==
  /\ phase = "events"
  /\ start' = now
  /\ cur' = 1
  /\ phase' = IF nTimers <= 0 THEN "stopped" ELSE "walk"
  /\ calls' = 0
  /\ UNCHANGED <<Timers, nTimers, now, sets, delay, exact>>

\* timer_process reads the clock; without a single slot it fails, and main
\* leaves its loop.
BeginProcess ==
  /\ phase = "events"
  /\ start' = now
  /\ cur' = 0
  /\ phase' = IF nTimers <= 0 THEN "stopped" ELSE "walk"
  /\ calls' = 0
  /\ UNCHANGED <<Timers, nTimers, now, sets, delay, exact>>

Due(s) == Active(s) /\ Timers[s].when <= start

\* Mutant of SkipSlot: the loop runs one slot too far.
Bug_SkipPastEnd ==
  /\ phase = "walk" /\ cur <= nTimers /\ ~Due(cur)
  /\ cur' = cur + 1
  /\ UNCHANGED <<Timers, nTimers, now, sets, phase, start, calls, delay, exact>>

\* An inactive slot, or one that is not due yet.
SkipSlot ==
  /\ phase = "walk" /\ cur < nTimers /\ ~Due(cur)
  /\ cur' = cur + 1
  /\ UNCHANGED <<Timers, nTimers, now, sets, phase, start, calls, delay, exact>>

\* Mutant of FireSlot: a one-shot timer gives up its slot before its callback
\* runs, which a timer added by the callback can then take.
Bug_FreeBeforeCallback ==
  /\ phase = "walk" /\ cur < nTimers /\ Due(cur)
  /\ phase' = "callback"
  /\ Timers' = IF Timers[cur].one_shot
                 THEN [Timers EXCEPT ![cur].active = FALSE]
                 ELSE [Timers EXCEPT ![cur].fired = TRUE]
  /\ UNCHANGED <<nTimers, now, sets, start, cur, calls, delay, exact>>

FireSlot ==
  /\ phase = "walk" /\ cur < nTimers /\ Due(cur)
  /\ phase' = "callback"
  /\ Timers' = [Timers EXCEPT ![cur].fired = TRUE]
  /\ UNCHANGED <<nTimers, now, sets, start, cur, calls, delay, exact>>

\* Mutant of Expire: the slot of a one-shot timer stays active.
Bug_StaysActive ==
  /\ ~Active(cur) \/ Timers[cur].one_shot
  /\ UNCHANGED <<Timers, exact>>

Expire ==
  /\ ~Active(cur) \/ Timers[cur].one_shot
  /\ Timers' = [Timers EXCEPT ![cur] = NoTimer]
  /\ UNCHANGED exact

Respawn ==
  /\ Active(cur) /\ ~Timers[cur].one_shot
  /\ \E w \in timer_inc(Timers[cur].when, Timers[cur].interval, start) :
       Timers' = [Timers EXCEPT ![cur] = [@ EXCEPT !.when = w]]
  /\ exact' = (exact /\ InRange(start - Timers[cur].when, Timers[cur].interval))

\* The callback returned.  The slot is read again: a one-shot timer becomes
\* inactive, any other is moved to its next trigger time.
CallbackDone ==
  /\ phase = "callback"
  /\ phase' = "walk"
  /\ cur' = cur + 1
  /\ calls' = 0
  /\ Expire \/ Respawn
  /\ UNCHANGED <<nTimers, now, sets, start, delay>>

WalkDone ==
  /\ phase = "walk" /\ cur = nTimers
  /\ phase' = "select"
  /\ UNCHANGED <<Timers, nTimers, now, sets, start, cur, calls, delay, exact>>

\* The first of the active timers with the smallest trigger time.
NextTimer(s) ==
  /\ Active(s)
  /\ \A r \in Slots : Active(r) =>
       \/ Timers[s].when < Timers[r].when
       \/ Timers[s].when = Timers[r].when /\ s <= r

\* Every active timer is moved back by b; the walk is over.
Shift(b) ==
  Timers' = [s \in Slots |->
               IF Active(s) THEN [Timers[s] EXCEPT !.when = @ - b, !.inPass = FALSE]
                            ELSE Timers[s]]

\* Mutant of SetDelay: no skew detection.
Bug_NoSkew(s) ==
  LET diff == Timers[s].when - now
  IN Shift(0) /\ delay' = IF diff < 0 THEN 0 ELSE diff

\* poll may sleep until the next timer's trigger time.  A delay longer than the
\* interval of that timer by more than CLOCK_SKEW means that the clock was set
\* back: all timers are moved by the difference.
SetDelay(s) ==
  LET diff == Timers[s].when - now
      skew == diff - Timers[s].interval
  IN IF diff >= 0 /\ skew > CLOCK_SKEW
       THEN Shift(skew) /\ delay' = 0
       ELSE Shift(0) /\ delay' = IF diff < 0 THEN 0 ELSE diff

\* The rest of timer_process: find the next timer, read the clock again and
\* work out the delay; without an active timer main leaves its loop.
SelectNext ==
  /\ phase = "select"
  /\ start' = 0 /\ cur' = 0
  /\ \/ \E s \in Slots : NextTimer(s) /\ SetDelay(s) /\ phase' = "sleep"
     \/ (\A s \in Slots : ~Active(s)) /\ phase' = "stopped" /\ UNCHANGED <<Timers, delay>>
  /\ UNCHANGED <<nTimers, now, sets, calls, exact>>

-----------------------------------------------------------------------------
(* The main loop around it *)

\* poll returns because its timeout is over ...
PollTimeout ==
  /\ phase = "sleep" /\ delay = 0
  /\ phase' = "events"
  /\ UNCHANGED <<Timers, nTimers, now, sets, start, cur, calls, delay, exact>>

\* ... or earlier, because a descriptor is ready or a signal came.
PollEvent ==
  /\ phase = "sleep" /\ delay > 0
  /\ phase' = "events"
  /\ delay' = 0
  /\ UNCHANGED <<Timers, nTimers, now, sets, start, cur, calls, exact>>

\* got_signal: the loop ends before the next timer_process.
GotSignal ==
  /\ phase = "events"
  /\ phase' = "stopped"
  /\ UNCHANGED <<Timers, nTimers, now, sets, start, cur, calls, delay, exact>>

timer_exit ==
  /\ phase = "stopped"
  /\ phase' = "exited"
  /\ nTimers' = 0
  /\ UNCHANGED <<Timers, now, sets, start, cur, calls, delay, exact>>

\* At its bound the clock stands still; a poll timeout still runs out.
Tick ==
  /\ now < MaxNow \/ delay > 0
  /\ phase \notin {"stopped", "exited"}
  /\ now' = IF now < MaxNow THEN now + 1 ELSE now
  /\ delay' = IF delay > 0 THEN delay - 1 ELSE 0
  /\ UNCHANGED <<Timers, nTimers, sets, phase, start, cur, calls, exact>>

SetClock(t) ==
  /\ sets < MaxSets
  /\ phase \notin {"stopped", "exited"}
  /\ t # now
  /\ sets' = sets + 1
  /\ now' = t
  /\ UNCHANGED <<Timers, nTimers, phase, start, cur, calls, delay, exact>>

-----------------------------------------------------------------------------
Init ==
  /\ Timers = [s \in Slots |-> NoTimer]
  /\ nTimers = 0
  /\ now = 0
  /\ sets = 0
  /\ phase = "events"
  /\ start = 0
  /\ cur = 0
  /\ calls = 0
  /\ delay = 0
  /\ exact = TRUE

\* What event handlers and callbacks may do to the queue.
Calls ==
  \E k \in Keys, v \in {0, -1} :
    /\ calls < MaxCalls
    /\ \/ timer_remove(k, v)
       \/ \E i \in Intervals, one \in BOOLEAN :
            timer_add(k, i, one, v) \/ timer_add_late(k, i, one, v)

Next ==
  \/ Calls
  \/ BeginProcess \/ SkipSlot \/ FireSlot \/ CallbackDone \/ WalkDone \/ SelectNext
  \/ PollTimeout \/ PollEvent \/ GotSignal \/ timer_exit
  \/ Tick
  \/ \E t \in 0 .. MaxNow : SetClock(t)

\* The program's own steps are taken as long as there is one to take; nothing
\* is assumed of callbacks that add timers, of events, signals or SetClock.
\* Time passes.
Fairness ==
  /\ WF_vars(BeginProcess) /\ WF_vars(SkipSlot) /\ WF_vars(FireSlot)
  /\ WF_vars(CallbackDone) /\ WF_vars(WalkDone) /\ WF_vars(SelectNext)
  /\ WF_vars(PollTimeout)
  /\ WF_vars(Tick)

Spec == Init /\ [][Next]_vars

FairSpec == Spec /\ Fairness

-----------------------------------------------------------------------------
(* Properties *)

\* The variables have their types, and the slot whose callback runs exists.
TypeOK ==
  /\ Timers \in [Slots -> Slot]
  /\ nTimers \in 0 .. MaxSlots
  /\ now \in 0 .. MaxNow
  /\ sets \in 0 .. MaxSets
  /\ phase \in Phases
  /\ start \in 0 .. MaxNow
  /\ cur \in 0 .. MaxSlots /\ (phase = "callback" => cur < nTimers)
  /\ calls \in Nat
  /\ delay \in Nat
  /\ exact \in BOOLEAN

\* A one-shot timer triggers only once: as soon as its callback has run, its
\* slot is inactive, whatever the callback added or removed meanwhile.
OneShotOnce ==
  \A s \in Slots :
    Active(s) /\ Timers[s].one_shot /\ Timers[s].fired => phase = "callback" /\ s = cur

\* The walk catches up: behind its index no timer is left that is due at the
\* time the walk began, unless it was added during this walk.  A timer that
\* missed several intervals does not fire again for each of them.
NoStacking ==
  exact /\ phase \in {"walk", "callback", "select"} =>
    \A s \in Slots :
      Active(s) /\ (s < cur) => Timers[s].when > start \/ Timers[s].inPass

\* No timer is lost: when the walk deactivates a timer it has fired.  (Only
\* timer_remove, the caller's own request, may deactivate one before that.)
NoLostTimer ==
  [][phase = "callback" /\ phase' = "walk" =>
       \A s \in Slots : Active(s) /\ ~Active(s)' => Timers[s].fired]_vars

\* poll is never told to sleep past the trigger time of any active timer, nor, when
\* the clock was set back, longer than an interval plus the skew that is still taken
\* for jitter.
NoOversleep ==
  [][phase = "select" /\ phase' = "sleep" =>
       /\ \A s \in Slots : Active(s)' => Timers'[s].when >= now + delay' \/ delay' = 0
       /\ \E s \in Slots : Active(s)' /\ delay' <= Timers'[s].interval + CLOCK_SKEW]_vars

\* A timer that is due gets its turn: it fires and is rescheduled, or it is
\* removed, or the clock is set back before its trigger time, or the program
\* ends.
DueIsServed ==
  \A s \in Slots :
    (Active(s) /\ Timers[s].when <= now) ~>
      (~Active(s) \/ Timers[s].when > now \/ phase \in {"stopped", "exited"}
        \/ (phase = "callback" /\ cur = s))

=============================================================================
