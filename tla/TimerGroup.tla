----------------------------- MODULE TimerGroup -----------------------------
(***************************************************************************)
(* The widget timers of timer_group.c on top of the queue of timer.c.      *)
(* Widgets that update at the same interval form a group; a group has one  *)
(* generic timer, whose callback timer_process_group calls the widgets.    *)
(*                                                                         *)
(* The data pointer of that timer is TimerGroups[g].interval, a malloc'ed  *)
(* int: the pointer names the group slot, the int holds the interval.      *)
(***************************************************************************)
EXTENDS Integers

CONSTANTS
  Widgets,      \* (callback, data) pairs: one per widget of the layout
  Intervals,    \* update intervals; 0 stands for never (widget_text)
  MaxGroups,    \* bound: slots realloc can provide for TimerGroups
  MaxGWidgets,  \* bound: slots realloc can provide for TimerGroupWidgets
  MaxSlots, MaxNow, MaxCalls, CLOCK_SKEW  \* of Timer

ASSUME TimerGroupAssumption ==
  /\ Widgets # {}
  /\ Intervals # {} /\ Intervals \subseteq Nat
  /\ MaxGroups \in Nat \ {0}
  /\ MaxGWidgets \in Nat
  /\ MaxSlots \in Nat \ {0}
  /\ MaxNow \in Nat /\ MaxCalls \in Nat /\ CLOCK_SKEW \in Nat

Groups == 0 .. MaxGroups - 1

GWidgets == 0 .. MaxGWidgets - 1

\* The two pointers the code passes for group slot g: the value of the field
\* TimerGroups[g].interval, and the address of that field.
Value(g) == <<"TimerGroups[g].interval", g>>

Address(g) == <<"&TimerGroups[g].interval", g>>

Pointers == {Value(g) : g \in Groups} \union {Address(g) : g \in Groups}

VARIABLES
  Timers, nTimers, now, sets, phase, start, cur, calls, delay, exact,  \* of Timer
  TimerGroups,         \* slots [interval : the malloc'ed int, active]
  nTimerGroups,
  TimerGroupWidgets,   \* slots [key, interval, one_shot, active]
  nTimerGroupWidgets,
  interval, widget,    \* locals of timer_process_group
  gphase,              \* where timer_process_group is
  failed               \* history: an allocation failed

timerVars == <<Timers, nTimers, now, sets, phase, start, cur, calls, delay, exact>>
groupVars == <<TimerGroups, nTimerGroups, TimerGroupWidgets, nTimerGroupWidgets>>
walkVars == <<interval, widget, gphase>>
vars == <<timerVars, groupVars, walkVars, failed>>

\* The clock is not set here and ints do not overflow: both belong to Timer.
T == INSTANCE Timer WITH Keys <- Pointers, MaxSets <- 0, INT_MAX <- 1000,
                         FLOAT_EXACT <- 1000, SelfRemove <- FALSE

ActiveGroup(g) == g \in 0 .. nTimerGroups - 1 /\ TimerGroups[g].active

ActiveWidget(w) == w \in 0 .. nTimerGroupWidgets - 1 /\ TimerGroupWidgets[w].active

\* A widget slot not in use; what an inactive one held is not read again.
NoWidget == [key |-> CHOOSE k \in Widgets : TRUE, interval |-> 0, one_shot |-> FALSE,
             active |-> FALSE]

\* A call that turns out not to touch the timer queue.
NoQueueCall == T!Call /\ UNCHANGED <<Timers, nTimers, exact>>

-----------------------------------------------------------------------------
(* Groups *)

\* Mutant of timer_group_exists: the loop gives up after the first slot.
Bug_FirstSlotOnly(i) == ActiveGroup(0) /\ TimerGroups[0].interval = i

timer_group_exists(i) == \E g \in Groups : ActiveGroup(g) /\ TimerGroups[g].interval = i

\* timer_add_group(i) for a group that does not exist yet; v is what it returns.
\* A slot is marked active before its generic timer is requested and stays so
\* when that fails.
timer_add_group(i, v) ==
  \/ \E g \in Groups :
       /\ ~ActiveGroup(g) /\ \A h \in 0 .. g - 1 : ActiveGroup(h)
       /\ TimerGroups' = [TimerGroups EXCEPT ![g] = [interval |-> i, active |-> TRUE]]
       /\ nTimerGroups' = IF g = nTimerGroups THEN nTimerGroups + 1 ELSE nTimerGroups
       /\ T!timer_add(Value(g), i, FALSE, v)
  \/ /\ \A g \in Groups : ActiveGroup(g)
     /\ v = -1
     /\ NoQueueCall /\ UNCHANGED <<TimerGroups, nTimerGroups>>

\* timer_remove_group(i), W being the widget slots when it is called.  The timer
\* is looked up by the address of the field, which no timer was added with.
timer_remove_group(i, W) ==
  /\ TimerGroupWidgets' =
       [w \in GWidgets |-> IF W[w].active /\ W[w].interval = i THEN NoWidget ELSE W[w]]
  /\ \/ \E g \in Groups :
          /\ ActiveGroup(g) /\ TimerGroups[g].interval = i
          /\ \A h \in 0 .. g - 1 : ~(ActiveGroup(h) /\ TimerGroups[h].interval = i)
          /\ TimerGroups' = [TimerGroups EXCEPT ![g].active = FALSE]
          /\ \E v \in {0, -1} : T!timer_remove(Address(g), v)
     \/ ~timer_group_exists(i) /\ NoQueueCall /\ UNCHANGED TimerGroups

\* Mutant of timer_remove_empty_group: the group goes although it has widgets.
Bug_RemoveAnyGroup(i, W) == timer_remove_group(i, W)

timer_remove_empty_group(i, W) ==
  \/ /\ \E w \in GWidgets : w < nTimerGroupWidgets /\ W[w].active /\ W[w].interval = i
     /\ TimerGroupWidgets' = W
     /\ NoQueueCall /\ UNCHANGED TimerGroups
  \/ /\ \A w \in GWidgets : w < nTimerGroupWidgets => ~(W[w].active /\ W[w].interval = i)
     /\ timer_remove_group(i, W)

-----------------------------------------------------------------------------
(* Widgets *)

AddWidgetSlot(k, i, one) ==
  \/ \E w \in GWidgets :
       /\ ~ActiveWidget(w) /\ \A x \in 0 .. w - 1 : ActiveWidget(x)
       /\ TimerGroupWidgets' = [TimerGroupWidgets EXCEPT ![w] =
            [key |-> k, interval |-> i, one_shot |-> one, active |-> TRUE]]
       /\ nTimerGroupWidgets' =
            IF w = nTimerGroupWidgets THEN nTimerGroupWidgets + 1 ELSE nTimerGroupWidgets
       /\ UNCHANGED failed
  \/ /\ \A w \in GWidgets : ActiveWidget(w)
     /\ failed' = TRUE
     /\ UNCHANGED <<TimerGroupWidgets, nTimerGroupWidgets>>

timer_add_widget(k, i, one) ==
  \/ /\ timer_group_exists(i)
     /\ NoQueueCall /\ UNCHANGED <<TimerGroups, nTimerGroups>>
     /\ AddWidgetSlot(k, i, one)
  \/ /\ ~timer_group_exists(i)
     /\ timer_add_group(i, 0)
     /\ AddWidgetSlot(k, i, one)
  \/ /\ ~timer_group_exists(i)
     /\ timer_add_group(i, -1)
     /\ failed' = TRUE
     /\ UNCHANGED <<TimerGroupWidgets, nTimerGroupWidgets>>

\* The layout adds its widgets, each of them once.
AddWidget(k, i, one) ==
  /\ phase = "events" /\ calls < MaxCalls
  /\ \A w \in GWidgets : ActiveWidget(w) => TimerGroupWidgets[w].key # k
  /\ timer_add_widget(k, i, one)
  /\ UNCHANGED walkVars

timer_remove_widget(k) ==
  /\ phase = "events" /\ calls < MaxCalls
  /\ \/ \E w \in GWidgets :
          /\ ActiveWidget(w) /\ TimerGroupWidgets[w].key = k
          /\ \A x \in 0 .. w - 1 : ~(ActiveWidget(x) /\ TimerGroupWidgets[x].key = k)
          /\ timer_remove_empty_group(TimerGroupWidgets[w].interval,
                                      [TimerGroupWidgets EXCEPT ![w] = NoWidget])
     \/ /\ \A w \in GWidgets : ~(ActiveWidget(w) /\ TimerGroupWidgets[w].key = k)
        /\ NoQueueCall /\ UNCHANGED <<TimerGroups, TimerGroupWidgets>>
  /\ UNCHANGED <<nTimerGroups, nTimerGroupWidgets, walkVars, failed>>

-----------------------------------------------------------------------------
(* timer_process_group, the callback of every generic timer here *)

\* The int is read when the callback starts, from a slot that may by now be
\* inactive or serve another interval.
BeginGroup ==
  /\ T!FireSlot
  /\ interval' = TimerGroups[Timers[cur].key[2]].interval
  /\ widget' = 0
  /\ gphase' = "loop"
  /\ UNCHANGED <<groupVars, failed>>

InGroup(w) == ActiveWidget(w) /\ TimerGroupWidgets[w].interval = interval

\* Mutant of SkipWidget: the loop runs one slot too far.
Bug_SkipPastEnd ==
  /\ gphase = "loop" /\ widget <= nTimerGroupWidgets /\ ~InGroup(widget)
  /\ widget' = widget + 1
  /\ UNCHANGED <<timerVars, groupVars, interval, gphase, failed>>

SkipWidget ==
  /\ gphase = "loop" /\ widget < nTimerGroupWidgets /\ ~InGroup(widget)
  /\ widget' = widget + 1
  /\ UNCHANGED <<timerVars, groupVars, interval, gphase, failed>>

\* The widget's update function runs ...
CallWidget ==
  /\ gphase = "loop" /\ widget < nTimerGroupWidgets /\ InGroup(widget)
  /\ gphase' = "widget"
  /\ UNCHANGED <<timerVars, groupVars, interval, widget, failed>>

\* ... and that of a one-shot widget (icon, gpo, image, ttf) may add itself again
\* as one-shot, with the interval its configuration now evaluates to.
ReAddWidget(i) ==
  /\ gphase = "widget" /\ TimerGroupWidgets[widget].one_shot
  /\ timer_add_widget(TimerGroupWidgets[widget].key, i, TRUE)
  /\ gphase' = "readded"
  /\ UNCHANGED <<interval, widget>>

WidgetDone ==
  /\ gphase \in {"widget", "readded"}
  /\ gphase' = "loop"
  /\ widget' = widget + 1
  /\ IF TimerGroupWidgets[widget].one_shot
       THEN timer_remove_empty_group(interval, [TimerGroupWidgets EXCEPT ![widget] = NoWidget])
       ELSE UNCHANGED <<timerVars, TimerGroups, TimerGroupWidgets>>
  /\ UNCHANGED <<nTimerGroups, nTimerGroupWidgets, interval, failed>>

GroupDone ==
  /\ gphase = "loop" /\ widget = nTimerGroupWidgets
  /\ T!CallbackDone
  /\ gphase' = "idle" /\ interval' = 0 /\ widget' = 0
  /\ UNCHANGED <<groupVars, failed>>

\* The rest of the main loop does not touch groups.
MainLoop ==
  /\ \/ T!BeginProcess \/ T!SkipSlot \/ T!WalkDone \/ T!SelectNext
     \/ T!PollTimeout \/ T!PollEvent \/ T!GotSignal \/ T!Tick
  /\ UNCHANGED <<groupVars, walkVars, failed>>

\* At the end of main: timer_exit_group removes the timers of all groups, the
\* right ones here, and frees its arrays; timer_exit frees the queue.
timer_exit_group ==
  /\ T!timer_exit
  /\ nTimerGroups' = 0 /\ nTimerGroupWidgets' = 0
  /\ UNCHANGED <<TimerGroups, TimerGroupWidgets, walkVars, failed>>

-----------------------------------------------------------------------------
Init ==
  /\ T!Init
  /\ TimerGroups = [g \in Groups |-> [interval |-> 0, active |-> FALSE]]
  /\ nTimerGroups = 0
  /\ TimerGroupWidgets = [w \in GWidgets |-> NoWidget]
  /\ nTimerGroupWidgets = 0
  /\ interval = 0 /\ widget = 0 /\ gphase = "idle"
  /\ failed = FALSE

Next ==
  \/ \E k \in Widgets, i \in Intervals, one \in BOOLEAN : AddWidget(k, i, one)
  \/ \E k \in Widgets : timer_remove_widget(k)
  \/ BeginGroup \/ SkipWidget \/ CallWidget \/ WidgetDone \/ GroupDone
  \/ \E i \in Intervals : ReAddWidget(i)
  \/ MainLoop \/ timer_exit_group

Spec == Init /\ [][Next]_vars

-----------------------------------------------------------------------------
(* Properties *)

\* The variables of this layer have their types.
TypeOK ==
  /\ TimerGroups \in [Groups -> [interval : Intervals \union {0}, active : BOOLEAN]]
  /\ nTimerGroups \in 0 .. MaxGroups
  /\ TimerGroupWidgets \in [GWidgets ->
       [key : Widgets, interval : Intervals \union {0}, one_shot : BOOLEAN,
        active : BOOLEAN]]
  /\ nTimerGroupWidgets \in 0 .. MaxGWidgets
  /\ interval \in Intervals \union {0}
  /\ widget \in 0 .. MaxGWidgets
  /\ gphase \in {"idle", "loop", "widget", "readded"}
  /\ failed \in BOOLEAN

\* No widget stops updating: every active widget has a group, whose generic timer
\* is in the queue with the interval of the widget.  (An allocation that fails
\* can leave a group without timer.)
NoOrphan ==
  ~failed => \A w \in GWidgets : ActiveWidget(w) =>
    \E g \in Groups, s \in T!Slots :
      /\ ActiveGroup(g) /\ TimerGroups[g].interval = TimerGroupWidgets[w].interval
      /\ T!Matches(s, Value(g)) /\ Timers[s].interval = TimerGroupWidgets[w].interval

\* Two active groups never share an interval, whatever slots are reused, and a group
\* whose last widget is gone is not kept: timer_process_group deletes it when its
\* one-shot widgets have run, timer_remove_widget when it empties.
GroupsMatchWidgets ==
  /\ \A g, h \in Groups :
       ActiveGroup(g) /\ ActiveGroup(h) /\ TimerGroups[g].interval = TimerGroups[h].interval => g = h
  /\ ~failed => \A g \in Groups : ActiveGroup(g) =>
       \E w \in GWidgets : ActiveWidget(w) /\ TimerGroupWidgets[w].interval = TimerGroups[g].interval

\* Each active widget has its group, and there is no other: neither the order in which
\* widgets join, leave and re-add themselves nor a reused slot breaks the tie.
GroupsServeWidgets == NoOrphan /\ GroupsMatchWidgets

\* Removing an empty group never takes a widget of another group, or one that was
\* added meanwhile, with it: a step deactivates at most one widget, and while a
\* group is processed only the one whose one-shot callback has just run.
RemovesOneWidget ==
  [][phase' # "exited" =>
       LET gone == {w \in GWidgets : ActiveWidget(w) /\ ~ActiveWidget(w)'}
       IN \A w \in gone : gone = {w} /\ (phase = "callback" => w = widget)]_vars

\* Removing a group also unlinks it from the timer queue (timer_group.c:226): a
\* generic timer in the queue belongs to an active group with its interval.
NoLeakedTimer ==
  \A s \in T!Slots : T!Active(s) =>
    \E g \in Groups :
      ActiveGroup(g) /\ Timers[s].key = Value(g) /\ Timers[s].interval = TimerGroups[g].interval

=============================================================================
