-------------------------------- MODULE Event --------------------------------
(***************************************************************************)
(* event.c: the file descriptors the main loop sleeps on, and the named    *)
(* events that carry a change to the widgets that show it.                 *)
(*                                                                         *)
(* event_process polls every active event and then walks the table, which  *)
(* the callbacks change under it: watch_handle of plugin_dbus.c enters     *)
(* libdbus, which adds, removes and toggles watches, and dispatches        *)
(* signals that trigger named events; an updating widget may trigger       *)
(* another one with event::trigger.  Indices here are one-based and a      *)
(* fds_id of 0 stands for the code's -1.                                   *)
(***************************************************************************)
EXTENDS Integers, Sequences, FiniteSets

CONSTANTS
  Watches,     \* owners of a descriptor: D-Bus watches, the TeakLCM driver
  Fds,         \* file descriptors
  Fd,          \* the descriptor of each watch
  Names,       \* names of events
  Widgets,     \* (widget_text_update, Self) pairs that wait for a named event
  Awaits,      \* the event each of them waits for: the key 'event' of its section
  Nested,      \* what its expression triggers: a name or Nothing
  Nothing,
  Flags,       \* what owners ask for
  Conditions,  \* what poll tells of a descriptor
  MaxReady,    \* bound on how often a descriptor becomes ready
  MaxCalls     \* bound on calls into event.c from outside a walk's own steps

ASSUME EventAssumption ==
  /\ Fd \in [Watches -> Fds]
  /\ Awaits \in [Widgets -> Names]
  /\ Nested \in [Widgets -> Names \union {Nothing}]
  /\ Nothing \notin Names /\ Nothing \notin Watches
  /\ Flags \subseteq [read : BOOLEAN, write : BOOLEAN, active : BOOLEAN]
  /\ Conditions \subseteq {"in", "out", "hup"}
  /\ MaxReady \in Nat /\ MaxCalls \in Nat

\* No widget triggers, over others or not, the event it waits for: the code does
\* not stop such a recursion.
ASSUME NestedAssumption ==
  \E rank \in [Names -> 1 .. Cardinality(Names)] :
    \A x \in Widgets : Nested[x] # Nothing => rank[Awaits[x]] < rank[Nested[x]]

VARIABLES
  events,      \* the table: [w (callback and data), fd, read, write, active, fds_id]
  fds,         \* what ppoll answered: [fd, revents]
  i, j,        \* locals of event_process
  phase,       \* "idle": out of it, "walk": in its loop, "callback": in a callback
  ev_names,    \* the named events: [name, c], c the callbacks
  stack,       \* running named_event_trigger calls: [name, j, called (history)]
  live,        \* the watches their owners have registered, with what they asked
  modified,    \* history: event_modify has dropped an event
  mistaken,    \* history: event_del has removed the event of another watch
  subscribed,  \* history: the <<name, widget>> pairs added and not deleted
  handling,    \* history: the watch whose callback runs
  ready,       \* environment: <<descriptor, condition>> pairs that hold now
  readied, calls

tableVars == <<events, live, modified, mistaken>>
walkVars == <<fds, i, j, phase, handling>>
namedVars == <<ev_names, subscribed>>
envVars == <<ready, readied>>
vars == <<tableVars, walkVars, namedVars, stack, envVars, calls>>

Event(w, f, id) == [w |-> w, fd |-> Fd[w], read |-> f.read, write |-> f.write,
                    active |-> f.active, fds_id |-> id]

\* POLLHUP and POLLERR are reported whether they are asked for or not.
Asked(e) == {c \in Conditions : (c = "in" => e.read) /\ (c = "out" => e.write)}

Revents(e) == {c \in Asked(e) : <<e.fd, c>> \in ready}

\* The program runs a callback or the main loop, and no trigger.
Outside == phase \in {"idle", "callback"} /\ stack = <<>>

Call == Outside /\ calls < MaxCalls /\ calls' = calls + 1

-----------------------------------------------------------------------------
(* The table of descriptors *)

event_add(w, f) ==
  /\ Call /\ w \notin DOMAIN live
  /\ events' = Append(events, Event(w, f, 0))
  /\ live' = [x \in DOMAIN live \union {w} |-> IF x = w THEN f ELSE live[x]]
  /\ UNCHANGED <<modified, mistaken, walkVars, namedVars, stack, envVars>>

DropLast(s) == SubSeq(s, 1, Len(s) - 1)

\* The first event of descriptor d, as a set.
FirstOf(d) ==
  {k \in DOMAIN events : events[k].fd = d /\ \A l \in 1 .. k - 1 : events[l].fd # d}

\* Mutant of event_del: the last event is dropped, not moved into the gap.
Bug_DropsLast(w) ==
  /\ Call /\ w \in DOMAIN live /\ events # <<>>
  /\ events' = DropLast(events)
  /\ live' = [x \in DOMAIN live \ {w} |-> live[x]]
  /\ UNCHANGED <<modified, mistaken, walkVars, namedVars, stack, envVars>>

\* The last event takes the place of the one removed: the first with the descriptor of w,
\* which is that of another watch when two share it, like the two that libdbus has for
\* a socket.  The count is decremented even when no event has the descriptor; a table that
\* event_modify has emptied, whose count would become -1, is left out here and in event_modify.
event_del(w) ==
  /\ Call /\ w \in DOMAIN live /\ events # <<>>
  /\ events' = DropLast([k \in DOMAIN events |->
                           IF k \in FirstOf(Fd[w]) THEN events[Len(events)] ELSE events[k]])
  /\ live' = [x \in DOMAIN live \ {w} |-> live[x]]
  /\ mistaken' = (mistaken \/ \E k \in FirstOf(Fd[w]) : events[k].w # w)
  /\ UNCHANGED <<modified, walkVars, namedVars, stack, envVars>>

\* toggle_watch of plugin_dbus.c.  The count is decremented here too, as in
\* event_del: the last event is gone.
event_modify(w, f) ==
  /\ Call /\ w \in DOMAIN live /\ events # <<>>
  /\ events' = DropLast([k \in DOMAIN events |->
                           IF k \in FirstOf(Fd[w])
                           THEN [events[k] EXCEPT !.read = f.read, !.write = f.write,
                                                  !.active = f.active]
                           ELSE events[k]])
  /\ modified' = TRUE
  /\ live' = [live EXCEPT ![w] = f]
  /\ UNCHANGED <<mistaken, walkVars, namedVars, stack, envVars>>

-----------------------------------------------------------------------------
(* event_process *)

\* How many of the first k events are active: the counter of the first loop.
Counted(k) == Cardinality({l \in 1 .. k : events[l].active})

\* Mutant of PollIndex: inactive events take a place in the poll set as well.
Bug_CountsInactive(k) == IF events[k].active THEN k ELSE 0

\* The position of events[k] among the active events, 0 for an inactive one.
PollIndex(k) == IF events[k].active THEN Counted(k) ELSE 0

\* The event in place p of the poll set.
Polled(p) == events[CHOOSE k \in DOMAIN events : events[k].active /\ Counted(k) = p]

\* The first loop and ppoll: it returns with what is ready, or times out.
Poll ==
  /\ phase = "idle" /\ stack = <<>>
  /\ events' = [k \in DOMAIN events |-> [events[k] EXCEPT !.fds_id = PollIndex(k)]]
  /\ LET answer == [p \in 1 .. Counted(Len(events)) |->
                      [fd |-> Polled(p).fd, revents |-> Revents(Polled(p))]]
     IN IF \E p \in DOMAIN answer : answer[p].revents # {}
        THEN fds' = answer /\ i' = 1 /\ j' = 1 /\ phase' = "walk"
        ELSE UNCHANGED <<fds, i, j, phase>>
  /\ UNCHANGED <<handling, live, modified, mistaken, namedVars, stack, envVars, calls>>

Walking == phase = "walk" /\ i \in DOMAIN events

\* Mutant of Matches: any event that was polled takes the next answer.
Bug_AnyPolled == events[i].fds_id # 0 /\ j \in DOMAIN fds

Matches == events[i].fds_id = j

WalkSkip ==
  /\ Walking /\ ~Matches
  /\ i' = i + 1
  /\ UNCHANGED <<tableVars, fds, j, phase, handling, namedVars, stack, envVars, calls>>

WalkQuiet ==
  /\ Walking /\ Matches /\ fds[j].revents = {}
  /\ i' = i + 1 /\ j' = j + 1
  /\ UNCHANGED <<tableVars, fds, phase, handling, namedVars, stack, envVars, calls>>

WalkCall ==
  /\ Walking /\ Matches /\ fds[j].revents # {}
  /\ phase' = "callback" /\ handling' = events[i].w
  /\ UNCHANGED <<tableVars, fds, i, j, namedVars, stack, envVars, calls>>

\* The owner handled what the descriptor had, or left some of it for later.
CallbackReturn ==
  /\ phase = "callback" /\ stack = <<>>
  /\ phase' = "walk" /\ handling' = Nothing /\ i' = i + 1 /\ j' = j + 1
  /\ ready' \in {ready, {p \in ready : p[1] # Fd[handling]}}
  /\ UNCHANGED <<tableVars, fds, namedVars, stack, readied, calls>>

WalkEnd ==
  /\ phase = "walk" /\ i \notin DOMAIN events
  /\ phase' = "idle" /\ fds' = <<>> /\ i' = 0 /\ j' = 0
  /\ UNCHANGED <<tableVars, handling, namedVars, stack, envVars, calls>>

-----------------------------------------------------------------------------
(* Named events *)

\* The first entry of a name, as a set.
EntryOf(n) ==
  {k \in DOMAIN ev_names : ev_names[k].name = n /\ \A l \in 1 .. k - 1 : ev_names[l].name # n}

\* Mutant of named_event_add: a name that exists gets a second entry.
Bug_AlwaysNew(n, x) ==
  /\ Call /\ phase = "idle" /\ <<n, x>> \notin subscribed
  /\ ev_names' = Append(ev_names, [name |-> n, c |-> <<x>>])
  /\ subscribed' = subscribed \union {<<n, x>>}
  /\ UNCHANGED <<tableVars, walkVars, stack, envVars>>

\* Called by widget_text_init, once for a widget, with a name that is not empty.
named_event_add(n, x) ==
  /\ Call /\ phase = "idle" /\ <<n, x>> \notin subscribed
  /\ ev_names' = IF EntryOf(n) = {} THEN Append(ev_names, [name |-> n, c |-> <<x>>])
                 ELSE [k \in DOMAIN ev_names |->
                         IF k \in EntryOf(n) THEN [ev_names[k] EXCEPT !.c = Append(@, x)]
                         ELSE ev_names[k]]
  /\ subscribed' = subscribed \union {<<n, x>>}
  /\ UNCHANGED <<tableVars, walkVars, stack, envVars>>

\* s without its element k, whose place the last one takes.
SwapOut(s, k) == DropLast([s EXCEPT ![k] = s[Len(s)]])

\* Exported and not called by the program: taken as named_event_add is.
named_event_del(n, x) ==
  /\ Call /\ phase = "idle"
  /\ \E k \in EntryOf(n) : \E l \in 1 .. Len(ev_names[k].c) :
       /\ ev_names[k].c[l] = x /\ \A m \in 1 .. l - 1 : ev_names[k].c[m] # x
       /\ LET c == SwapOut(ev_names[k].c, l)
          IN ev_names' = IF c = <<>> THEN SwapOut(ev_names, k)
                         ELSE [ev_names EXCEPT ![k].c = c]
  /\ subscribed' = subscribed \ {<<n, x>>}
  /\ UNCHANGED <<tableVars, walkVars, stack, envVars>>

Frame(n) == [name |-> n, j |-> 1, called |-> <<>>]

\* What the trigger of n adds to the stack: nothing when nobody waits for n.
Entered(n) == IF EntryOf(n) = {} THEN <<>> ELSE <<Frame(n)>>

\* A D-Bus signal (in a callback) or a widget that its timer updates (idle).
named_event_trigger(n) ==
  /\ Call
  /\ stack' = Entered(n)
  /\ UNCHANGED <<tableVars, walkVars, namedVars, envVars>>

Top == stack[Len(stack)]

Callbacks(n) == ev_names[CHOOSE k \in EntryOf(n) : TRUE].c

\* widget_text_update of the next subscriber; its expression may trigger again.
CallSubscriber ==
  /\ stack # <<>> /\ Top.j <= Len(Callbacks(Top.name))
  /\ LET x == Callbacks(Top.name)[Top.j]
         advanced == [stack EXCEPT ![Len(stack)] =
                        [name |-> Top.name, j |-> Top.j + 1, called |-> Append(Top.called, x)]]
     IN stack' = advanced \o (IF Nested[x] = Nothing THEN <<>> ELSE Entered(Nested[x]))
  /\ UNCHANGED <<tableVars, walkVars, namedVars, envVars, calls>>

TriggerReturn ==
  /\ stack # <<>> /\ Top.j > Len(Callbacks(Top.name))
  /\ stack' = DropLast(stack)
  /\ UNCHANGED <<tableVars, walkVars, namedVars, envVars, calls>>

-----------------------------------------------------------------------------
(* Environment *)

\* A descriptor becomes readable, writable or is hung up, at any time.
BecomesReady(d, c) ==
  /\ readied < MaxReady /\ <<d, c>> \notin ready
  /\ ready' = ready \union {<<d, c>>} /\ readied' = readied + 1
  /\ UNCHANGED <<tableVars, walkVars, namedVars, stack, calls>>

Init ==
  /\ events = <<>> /\ live = <<>> /\ modified = FALSE /\ mistaken = FALSE
  /\ fds = <<>> /\ i = 0 /\ j = 0 /\ phase = "idle" /\ handling = Nothing
  /\ ev_names = <<>> /\ subscribed = {} /\ stack = <<>>
  /\ ready = {} /\ readied = 0 /\ calls = 0

EventProcess == Poll \/ WalkSkip \/ WalkQuiet \/ WalkCall \/ WalkEnd

Next ==
  \/ \E w \in Watches, f \in Flags : event_add(w, f) \/ event_modify(w, f)
  \/ \E w \in Watches : event_del(w)
  \/ \E x \in Widgets : named_event_add(Awaits[x], x) \/ named_event_del(Awaits[x], x)
  \/ \E n \in Names : named_event_trigger(n)
  \/ EventProcess \/ CallbackReturn \/ CallSubscriber \/ TriggerReturn
  \/ \E d \in Fds, c \in Conditions : BecomesReady(d, c)

Spec == Init /\ [][Next]_vars

\* The main loop calls event_process again and again, and callbacks return.
Fairness == WF_vars(EventProcess) /\ WF_vars(CallbackReturn)
            /\ WF_vars(CallSubscriber \/ TriggerReturn)

FairSpec == Spec /\ Fairness

-----------------------------------------------------------------------------
(* Properties *)

\* The variables have their types; during a walk every fds_id that the walk compares
\* with is a place in the answer of ppoll, and the walk stays within that answer.
TypeOK ==
  /\ live \in UNION {[S -> Flags] : S \in SUBSET Watches}
  /\ \A k \in DOMAIN events :
       /\ events[k].fds_id \in Nat
       /\ phase # "idle" => events[k].fds_id <= Len(fds)
       /\ \E w \in Watches, f \in [read : BOOLEAN, write : BOOLEAN, active : BOOLEAN] :
            events[k] = Event(w, f, events[k].fds_id)
  /\ phase \in {"idle", "walk", "callback"}
  /\ phase # "idle" => i >= 1 /\ j \in 1 .. Len(fds) + 1
  /\ phase = "callback" <=> handling # Nothing
  /\ \A k \in DOMAIN stack : stack[k].name \in Names
  /\ \A k \in DOMAIN ev_names :
       ev_names[k].name \in Names /\ ev_names[k].c \in Seq(Widgets)

\* The table holds exactly one event for each registered watch, with what its
\* owner asked for, until event_modify drops one or event_del takes one watch for another.
Registered ==
  ~modified /\ ~mistaken =>
    {[w |-> e.w, f |-> [read |-> e.read, write |-> e.write, active |-> e.active]] :
        e \in {events[k] : k \in DOMAIN events}}
      = {[w |-> w, f |-> live[w]] : w \in DOMAIN live}

EventsOf(d) == {k \in DOMAIN events : events[k].fd = d}
LiveOf(d) == {w \in DOMAIN live : Fd[w] = d}

\* Each descriptor has as many events as watches, also those that event_del has confused.
EachDescriptor ==
  ~modified => \A d \in Fds : Cardinality(EventsOf(d)) = Cardinality(LiveOf(d))

\* A callback is only ever started for the descriptor of the answer the walk is at, however
\* callbacks before it moved the table's events, also those of two watches of one socket.
\* And its watch is still registered, so that none gets the data pointer of a watch its
\* owner has removed, until event_del takes the one of two watches for the other.
CallsLive ==
  [][phase' = "callback" /\ phase = "walk" =>
       /\ mistaken \/ handling' \in DOMAIN live
       /\ j \in DOMAIN fds /\ fds[j].fd = Fd[handling'] /\ fds[j].revents # {}]_vars

\* A walk that callbacks disturb may pass over an event; the next poll reports it
\* again, so a watch whose descriptor stays ready is served, unless event_modify or
\* event_del has taken its event away.
Waiting(w) == w \in DOMAIN live /\ live[w].active /\ Revents(Event(w, live[w], 0)) # {}

ReadyIsServed == \A w \in Watches : Waiting(w) ~> (handling = w \/ ~Waiting(w) \/ modified \/ mistaken)

\* The table of names says what was added and not deleted: each name has one
\* entry, no entry is empty, and its callbacks are the widgets subscribed.
NamesAgree ==
  /\ \A k, l \in DOMAIN ev_names : ev_names[k].name = ev_names[l].name => k = l
  /\ \A k \in DOMAIN ev_names : ev_names[k].c # <<>>
  /\ subscribed = UNION {{<<ev_names[k].name, ev_names[k].c[l]>> :
                            l \in DOMAIN ev_names[k].c} : k \in DOMAIN ev_names}

\* Both tables say what their callers have added and not removed, in whatever order they
\* did, also from callbacks; of two watches that share a descriptor, as libdbus registers them
\* for a socket, the wrong one may go (event.c:167), but never one of another descriptor.
TablesAgree == Registered /\ EachDescriptor /\ NamesAgree

\* A trigger that returns has updated every widget subscribed to the name, each
\* once, also when widgets triggered other names in between.
EverySubscriberOnce ==
  [][Len(stack') < Len(stack) =>
       /\ \A x \in Widgets : <<Top.name, x>> \in subscribed =>
                               \E k \in DOMAIN Top.called : Top.called[k] = x
       /\ \A k, l \in DOMAIN Top.called : Top.called[k] = Top.called[l] => k = l]_vars

\* What is called is what asked for it: neither the walk over the table nor the loop over
\* the subscribers of a name is led astray by what the callbacks change under them.
CallsAreRight == CallsLive /\ EverySubscriberOnce
=============================================================================
