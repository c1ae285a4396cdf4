---------------------------- MODULE Event_proof ----------------------------
(* Proofs about event.c: the types, that the table of descriptors and the   *)
(* table of names say what their callers registered, that a walk over the   *)
(* table only ever calls a watch for an answer about its descriptor,        *)
(* and that a trigger updates every subscriber once.                        *)
EXTENDS Event, SequenceTheorems, FiniteSetTheorems, WellFoundedInduction, TLAPS

USE EventAssumption

-----------------------------------------------------------------------------
(* The invariants *)

FlagSet == [read : BOOLEAN, write : BOOLEAN, active : BOOLEAN]

EventSet == [w : Watches, fd : Fds, read : BOOLEAN, write : BOOLEAN, active : BOOLEAN,
             fds_id : Nat]

\* The variables of the table and of the walk over it.
TableTypes ==
  /\ DOMAIN live \subseteq Watches /\ live \in [DOMAIN live -> Flags]
  /\ IsFiniteSet(DOMAIN live)
  /\ events \in Seq(EventSet)
  /\ \A k \in DOMAIN events : events[k].fd = Fd[events[k].w]
  /\ Len(fds) \in Nat /\ DOMAIN fds = 1 .. Len(fds)
  /\ i \in Nat /\ j \in Nat /\ modified \in BOOLEAN /\ mistaken \in BOOLEAN
  /\ phase \in {"idle", "walk", "callback"}

\* A walk stays within the answer of ppoll, and what an event was given as its
\* place there is the place of its own descriptor.
WalkFits ==
  /\ phase # "idle" => i >= 1 /\ j \in 1 .. Len(fds) + 1
  /\ phase = "callback" => j \in DOMAIN fds
  /\ phase = "callback" <=> handling # Nothing
  /\ phase # "idle" => \A k \in DOMAIN events : events[k].fds_id # 0 =>
       events[k].fds_id \in DOMAIN fds /\ fds[events[k].fds_id].fd = events[k].fd

\* The events in the table are those of registered watches, one of each, until event_del
\* takes the event of another watch of the same descriptor.
OfLive ==
  ~mistaken =>
    /\ \A k \in DOMAIN events : events[k].w \in DOMAIN live
    /\ \A k, l \in DOMAIN events : events[k].w = events[l].w => k = l

\* Until event_modify drops one too, the table is complete.
Complete ==
  ~modified /\ ~mistaken =>
    /\ \A k \in DOMAIN events : /\ events[k].read = live[events[k].w].read
                                /\ events[k].write = live[events[k].w].write
                                /\ events[k].active = live[events[k].w].active
    /\ \A w \in DOMAIN live : \E k \in DOMAIN events : events[k].w = w

TInv == TableTypes /\ WalkFits /\ OfLive /\ Complete /\ EachDescriptor

\* The variables of the named events.
NameTypes ==
  /\ ev_names \in Seq([name : Names, c : Seq(Widgets)])
  /\ stack \in Seq([name : Names, j : Nat, called : Seq(Widgets)])

\* No widget is entered twice for a name.
NoDoubles ==
  \A k \in DOMAIN ev_names : \A l, m \in DOMAIN ev_names[k].c :
    ev_names[k].c[l] = ev_names[k].c[m] => l = m

\* A running trigger has an entry, and has called what comes before its index there.
CalledSoFar ==
  \A f \in DOMAIN stack :
    /\ EntryOf(stack[f].name) # {}
    /\ stack[f].j \in 1 .. Len(Callbacks(stack[f].name)) + 1
    /\ Len(stack[f].called) = stack[f].j - 1
    /\ \A m \in 1 .. stack[f].j - 1 : stack[f].called[m] = Callbacks(stack[f].name)[m]

NInv == NameTypes /\ NamesAgree /\ NoDoubles /\ CalledSoFar

-----------------------------------------------------------------------------
(* Numbers *)

\* Strict inclusion of finite sets is well-founded; so a set of numbers has a least one.
LEMMA SmallestNat ==
  ASSUME NEW T, T \subseteq Nat, T # {}
  PROVE  \E n \in T : \A m \in T : n <= m
<1> DEFINE O == StrictSubsetOrdering(Nat)
           F == FiniteSubsetsOf(Nat)
           I == {0 .. n - 1 : n \in T}
<1>1. IsWellFoundedOn(O, F)
  BY FS_StrictSubsetOrderingWellFounded
<1>2. I \subseteq F
  <2> SUFFICES ASSUME NEW n \in T PROVE 0 .. n - 1 \in F
    OBVIOUS
  <2>1. IsFiniteSet(0 .. n - 1)
    BY FS_Interval
  <2> QED
    BY <2>1 DEF FiniteSubsetsOf
<1>3. I # {}
  <2>1. PICK n \in T : TRUE
    OBVIOUS
  <2>2. 0 .. n - 1 \in I
    BY <2>1
  <2> QED
    BY <2>2
<1>4. PICK X \in I : \A Y \in I : ~ (<<Y, X>> \in O)
  <2> HIDE DEF O, F, I
  <2> QED
    BY <1>1, <1>2, <1>3, WFMin
<1>5. PICK n \in T : X = 0 .. n - 1
  OBVIOUS
<1>6. \A m \in T : ~ (m < n)
  <2> SUFFICES ASSUME NEW m \in T, m < n PROVE FALSE
    OBVIOUS
  <2>1. 0 .. m - 1 \in I /\ 0 .. n - 1 \in I
    BY <1>5
  <2>2. 0 .. m - 1 \subseteq 0 .. n - 1 /\ m \in 0 .. n - 1 /\ m \notin 0 .. m - 1
    OBVIOUS
  <2>3. <<0 .. m - 1, 0 .. n - 1>> \in O
    BY <2>2 DEF StrictSubsetOrdering
  <2> QED
    BY <2>1, <2>3, <1>4, <1>5
<1> QED
  BY <1>6

-----------------------------------------------------------------------------
(* Sequences *)

\* The beginning of a sequence.
LEMMA Prefix ==
  ASSUME NEW S, NEW s \in Seq(S), NEW n \in Nat, n <= Len(s)
  PROVE  /\ SubSeq(s, 1, n) \in Seq(S) /\ Len(SubSeq(s, 1, n)) = n
         /\ \A m \in 1 .. n : SubSeq(s, 1, n)[m] = s[m]
<1>1. \A m \in 1 .. n : s[m] \in S
  BY ElementOfSeq
<1> QED
  BY <1>1, SubSeqProperties

\* A sequence without its last element, which is how the code shortens its arrays.
LEMMA DropLastIs ==
  ASSUME NEW S, NEW s \in Seq(S), s # <<>>
  PROVE  /\ DropLast(s) \in Seq(S) /\ Len(DropLast(s)) = Len(s) - 1
         /\ \A m \in 1 .. Len(s) - 1 : DropLast(s)[m] = s[m]
         /\ Len(s) \in Nat \ {0} /\ DOMAIN s = 1 .. Len(s)
         /\ DOMAIN DropLast(s) = 1 .. Len(s) - 1
<1> DEFINE n == Len(s) - 1
<1>1. n \in Nat /\ n <= Len(s) /\ DOMAIN s = 1 .. Len(s)
  BY EmptySeq, LenProperties
<1> HIDE DEF n
<1>2. /\ SubSeq(s, 1, n) \in Seq(S) /\ Len(SubSeq(s, 1, n)) = n
      /\ \A m \in 1 .. n : SubSeq(s, 1, n)[m] = s[m]
  BY <1>1, Prefix
<1>3. DOMAIN SubSeq(s, 1, n) = 1 .. n
  BY <1>2, LenProperties
<1> QED
  BY <1>1, <1>2, <1>3 DEF DropLast, n

\* An array without element k, whose place the last one takes.
LEMMA SwapOutIs ==
  ASSUME NEW S, NEW s \in Seq(S), NEW k \in 1 .. Len(s)
  PROVE  /\ SwapOut(s, k) \in Seq(S) /\ Len(SwapOut(s, k)) = Len(s) - 1
         /\ Len(s) \in Nat \ {0} /\ DOMAIN SwapOut(s, k) = 1 .. Len(s) - 1
         /\ \A m \in 1 .. Len(s) - 1 : SwapOut(s, k)[m] = IF m = k THEN s[Len(s)] ELSE s[m]
<1> DEFINE e == s[Len(s)]
           t == [s EXCEPT ![k] = e]
<1>1. Len(s) \in Nat /\ e \in S /\ Len(s) \in 1 .. Len(s)
  BY LenProperties, ElementOfSeq
<1> HIDE DEF e
<1>2. /\ t \in Seq(S) /\ Len(t) = Len(s)
      /\ \A m \in 1 .. Len(s) : t[m] = IF m = k THEN e ELSE s[m]
  BY <1>1, ExceptSeq
<1> HIDE DEF t
<1>3. t # <<>>
  BY <1>1, <1>2, EmptySeq
<1>4. /\ DropLast(t) \in Seq(S) /\ Len(DropLast(t)) = Len(t) - 1
      /\ \A m \in 1 .. Len(t) - 1 : DropLast(t)[m] = t[m]
      /\ DOMAIN DropLast(t) = 1 .. Len(t) - 1
  BY <1>2, <1>3, DropLastIs
<1>5. SwapOut(s, k) = DropLast(t)
  BY DEF SwapOut, t, e
<1> QED
  BY <1>1, <1>2, <1>4, <1>5 DEF e

\* When its elements are different, so are those left, and they are all but the one.
LEMMA SwapOutDistinct ==
  ASSUME NEW S, NEW s \in Seq(S), NEW k \in 1 .. Len(s),
         \A l, m \in 1 .. Len(s) : s[l] = s[m] => l = m
  PROVE  /\ \A l, m \in DOMAIN SwapOut(s, k) : SwapOut(s, k)[l] = SwapOut(s, k)[m] => l = m
         /\ \A l \in DOMAIN SwapOut(s, k) : \E m \in 1 .. Len(s) : m # k /\ SwapOut(s, k)[l] = s[m]
         /\ \A m \in 1 .. Len(s) : m # k => \E l \in DOMAIN SwapOut(s, k) : SwapOut(s, k)[l] = s[m]
<1> DEFINE c == SwapOut(s, k)
           n == Len(s)
           o(l) == IF l = k THEN n ELSE l
<1>1. /\ n \in Nat \ {0} /\ DOMAIN c = 1 .. n - 1
      /\ \A m \in 1 .. n - 1 : c[m] = IF m = k THEN s[n] ELSE s[m]
  <2>1. s \in Seq(S) /\ k \in 1 .. Len(s)
    OBVIOUS
  <2> HIDE DEF c
  <2> QED
    BY <2>1, SwapOutIs, Zenon DEF c
<1> HIDE DEF c, n
<1>2. k \in 1 .. n /\ \A l, m \in 1 .. n : s[l] = s[m] => l = m
  BY DEF n
<1>3. \A l \in 1 .. n - 1 : o(l) \in 1 .. n /\ o(l) # k /\ l # n
  BY <1>1, <1>2
<1>4. \A l \in DOMAIN c : c[l] = s[o(l)]
  BY <1>1
<1>5. \A l, m \in 1 .. n - 1 : o(l) = o(m) => l = m
  BY <1>3
<1>6. \A m \in 1 .. n : m # k => \E l \in 1 .. n - 1 : o(l) = m
  <2>1. ASSUME NEW m \in 1 .. n, m # k PROVE \E l \in 1 .. n - 1 : o(l) = m
    <3>1. CASE m = n
      <4>1. k \in 1 .. n - 1 /\ o(k) = m
        BY <1>1, <1>2, <2>1, <3>1
      <4> QED
        BY <4>1
    <3>2. CASE m # n
      <4>1. m \in 1 .. n - 1 /\ o(m) = m
        BY <1>1, <2>1, <3>2
      <4> QED
        BY <4>1
    <3> QED
      BY <3>1, <3>2
  <2> QED
    BY <2>1
<1> HIDE DEF o
<1>7. ASSUME NEW l \in DOMAIN c, NEW m \in DOMAIN c, c[l] = c[m] PROVE l = m
  <2>1. s[o(l)] = s[o(m)]
    BY <1>4, <1>7
  <2>2. l \in 1 .. n - 1 /\ m \in 1 .. n - 1 /\ o(l) \in 1 .. n /\ o(m) \in 1 .. n
    BY <1>1, <1>3, <1>7
  <2> QED
    BY <1>2, <1>5, <2>1, <2>2
<1>8. \A l \in DOMAIN c : \E m \in 1 .. n : m # k /\ c[l] = s[m]
  BY <1>1, <1>3, <1>4
<1>9. \A m \in 1 .. n : m # k => \E l \in DOMAIN c : c[l] = s[m]
  BY <1>1, <1>4, <1>6
<1> QED
  BY <1>7, <1>8, <1>9 DEF c, n

\* A table rewritten entry by entry is a table of the same length.
LEMMA Rewritten ==
  ASSUME NEW S, NEW n \in Nat, NEW t \in [1 .. n -> S]
  PROVE  t \in Seq(S) /\ Len(t) = n
  OBVIOUS

-----------------------------------------------------------------------------
(* The types of the table, and the walk over it *)

\* The events.
LEMMA EventsAre ==
  ASSUME TableTypes
  PROVE  /\ Len(events) \in Nat /\ DOMAIN events = 1 .. Len(events)
         /\ \A k \in DOMAIN events : events[k] \in EventSet
  BY LenProperties, ElementOfSeq DEF TableTypes

\* The answer of ppoll has a place for every active event, different ones for
\* different events.
LEMMA CountedGrows ==
  ASSUME TableTypes, NEW l \in DOMAIN events
  PROVE  /\ Counted(l) \in Nat /\ Counted(Len(events)) \in Nat
         /\ Counted(l) <= Counted(Len(events))
         /\ events[l].active => Counted(l) >= 1
         /\ \A k \in DOMAIN events : k < l /\ events[l].active => Counted(k) < Counted(l)
<1> DEFINE A(k) == {m \in 1 .. k : events[m].active}
<1>1. Len(events) \in Nat /\ DOMAIN events = 1 .. Len(events)
  BY EventsAre
<1>2. \A k \in Nat : IsFiniteSet(A(k)) /\ Cardinality(A(k)) \in Nat
  <2>1. ASSUME NEW k \in Nat PROVE IsFiniteSet(A(k)) /\ Cardinality(A(k)) \in Nat
    <3>1. IsFiniteSet(1 .. k)
      BY FS_Interval
    <3>2. A(k) \in SUBSET (1 .. k)
      OBVIOUS
    <3> HIDE DEF A
    <3>3. IsFiniteSet(A(k))
      BY <3>1, <3>2, FS_Subset
    <3> QED
      BY <3>3, FS_CardinalityType
  <2> QED
    BY <2>1
<1>3. ASSUME NEW k \in Nat, NEW m \in Nat, k <= m
      PROVE  Cardinality(A(k)) <= Cardinality(A(m))
  <2>1. A(k) \in SUBSET A(m)
    BY <1>3
  <2> QED
    BY <1>2, <2>1, FS_Subset
<1>4. ASSUME NEW k \in Nat, NEW m \in Nat, k < m, events[m].active
      PROVE  Cardinality(A(k)) < Cardinality(A(m))
  <2>1. A(k) \in SUBSET A(m) /\ m \in A(m) /\ m \notin A(k)
    BY <1>4
  <2>2. Cardinality(A(k)) # Cardinality(A(m))
    BY <1>2, <2>1, FS_Subset
  <2>3. Cardinality(A(k)) <= Cardinality(A(m))
    BY <1>3, <1>4
  <2>4. Cardinality(A(k)) \in Nat /\ Cardinality(A(m)) \in Nat
    BY <1>2
  <2> HIDE DEF A
  <2> QED
    BY <2>2, <2>3, <2>4
<1>5. \A k : Counted(k) = Cardinality(A(k))
  BY DEF Counted
<1> HIDE DEF A
<1>6. 0 \in Nat /\ Cardinality(A(0)) \in Nat
  BY <1>2
<1> QED
  BY <1>1, <1>2, <1>3, <1>4, <1>5, <1>6

\* The place of an active event is that of its own descriptor.
LEMMA PolledIs ==
  ASSUME TableTypes, NEW k \in DOMAIN events, events[k].active
  PROVE  Counted(k) \in 1 .. Counted(Len(events)) /\ Polled(Counted(k)) = events[k]
<1>1. Len(events) \in Nat /\ DOMAIN events = 1 .. Len(events)
  BY EventsAre
<1>2. Counted(k) \in 1 .. Counted(Len(events))
  BY CountedGrows
<1>3. ASSUME NEW l \in DOMAIN events, events[l].active, Counted(l) = Counted(k)
      PROVE  l = k
  <2>1. ~(l < k)
    BY <1>3, CountedGrows
  <2>2. ~(k < l)
    BY <1>3, CountedGrows
  <2> QED
    BY <1>1, <2>1, <2>2
<1>4. (CHOOSE l \in DOMAIN events : events[l].active /\ Counted(l) = Counted(k)) = k
  BY <1>3
<1> QED
  BY <1>2, <1>4 DEF Polled

\* What event_del and event_modify make of the table: at every place but the last an
\* event that was there, with its descriptor and its place in the answer.
LEMMA Shortened ==
  ASSUME TableTypes, events # <<>>, NEW t \in [DOMAIN events -> EventSet], events' = DropLast(t)
  PROVE  /\ events' \in Seq(EventSet)
         /\ Len(events) \in Nat \ {0} /\ DOMAIN events = 1 .. Len(events)
         /\ Len(events') = Len(events) - 1 /\ DOMAIN events' = 1 .. Len(events) - 1
         /\ \A k \in DOMAIN events' : k \in DOMAIN events /\ events'[k] = t[k]
<1>1. Len(events) \in Nat \ {0} /\ DOMAIN events = 1 .. Len(events)
  BY EventsAre, EmptySeq DEF TableTypes
<1>2. t \in Seq(EventSet) /\ Len(t) = Len(events)
  BY <1>1, Rewritten
<1>3. t # <<>>
  BY <1>1, <1>2, EmptySeq
<1>4. /\ DropLast(t) \in Seq(EventSet) /\ Len(DropLast(t)) = Len(t) - 1
      /\ \A m \in 1 .. Len(t) - 1 : DropLast(t)[m] = t[m]
      /\ DOMAIN DropLast(t) = 1 .. Len(t) - 1
  BY <1>2, <1>3, DropLastIs
<1> QED
  BY <1>1, <1>2, <1>4

\* event_add appends an event that has no place in an answer yet.
LEMMA AddedEvent ==
  ASSUME TableTypes, NEW w \in Watches, NEW f \in Flags, event_add(w, f)
  PROVE  /\ TableTypes' /\ w \notin DOMAIN live /\ DOMAIN live' = DOMAIN live \union {w}
         /\ live'[w] = f /\ \A x \in DOMAIN live : live'[x] = live[x]
         /\ UNCHANGED <<modified, mistaken>>
         /\ Len(events') = Len(events) + 1 /\ DOMAIN events' = DOMAIN events \union {Len(events) + 1}
         /\ \A k \in DOMAIN events : events'[k] = events[k] /\ k # Len(events) + 1
         /\ events'[Len(events) + 1] = Event(w, f, 0)
<1>1. f \in FlagSet
  BY DEF FlagSet
<1>2. Event(w, f, 0) \in EventSet
  BY <1>1 DEF Event, EventSet, FlagSet
<1>3. /\ events' = Append(events, Event(w, f, 0)) /\ w \notin DOMAIN live
      /\ live' = [x \in DOMAIN live \union {w} |-> IF x = w THEN f ELSE live[x]]
      /\ UNCHANGED <<modified, mistaken, fds, i, j, phase>>
  BY DEF event_add, walkVars
<1>4. /\ events' \in Seq(EventSet) /\ Len(events') = Len(events) + 1
      /\ \A k \in 1 .. Len(events) : events'[k] = events[k]
      /\ events'[Len(events) + 1] = Event(w, f, 0)
      /\ Len(events) \in Nat /\ DOMAIN events = 1 .. Len(events)
      /\ DOMAIN events' = 1 .. Len(events')
  <2>1. events \in Seq(EventSet)
    BY DEF TableTypes
  <2>2. events' \in Seq(EventSet)
    BY <1>2, <1>3, <2>1, AppendProperties
  <2> QED
    BY <1>2, <1>3, <2>1, <2>2, AppendProperties, LenProperties
<1>5. /\ DOMAIN live' = DOMAIN live \union {w} /\ live'[w] = f
      /\ \A x \in DOMAIN live : live'[x] = live[x]
  BY <1>3
<1>6. /\ DOMAIN live' \subseteq Watches /\ IsFiniteSet(DOMAIN live')
      /\ live' \in [DOMAIN live' -> Flags]
  BY <1>3, <1>5, FS_AddElement DEF TableTypes
<1>7. \A k \in DOMAIN events' : events'[k].fd = Fd[events'[k].w]
  <2>1. Event(w, f, 0).fd = Fd[Event(w, f, 0).w]
    BY DEF Event
  <2>2. \A k \in DOMAIN events : events[k].fd = Fd[events[k].w]
    BY DEF TableTypes
  <2>3. \A k \in DOMAIN events' : k \in DOMAIN events \/ k = Len(events) + 1
    BY <1>4
  <2> QED
    BY <1>4, <2>1, <2>2, <2>3
<1>8. /\ Len(fds') \in Nat /\ DOMAIN fds' = 1 .. Len(fds')
      /\ i' \in Nat /\ j' \in Nat /\ modified' \in BOOLEAN /\ mistaken' \in BOOLEAN
      /\ phase' \in {"idle", "walk", "callback"}
  BY <1>3 DEF TableTypes
<1>9. TableTypes'
  BY <1>4, <1>6, <1>7, <1>8 DEF TableTypes
<1>10. DOMAIN events' = DOMAIN events \union {Len(events) + 1}
  BY <1>4
<1>11. \A k \in DOMAIN events : events'[k] = events[k] /\ k # Len(events) + 1
  BY <1>4
<1> QED
  BY <1>3, <1>4, <1>5, <1>9, <1>10, <1>11

\* event_del and event_modify keep the types, and leave no event in the table that was
\* not there.
LEMMA DeletedEvent ==
  ASSUME TableTypes, NEW w \in Watches, event_del(w)
  PROVE  /\ TableTypes' /\ w \in DOMAIN live
         /\ live' = [x \in DOMAIN live \ {w} |-> live[x]] /\ UNCHANGED modified
         /\ mistaken' = (mistaken \/ \E k \in FirstOf(Fd[w]) : events[k].w # w)
         /\ Len(events) \in Nat \ {0} /\ DOMAIN events = 1 .. Len(events)
         /\ Len(events') = Len(events) - 1 /\ DOMAIN events' = 1 .. Len(events) - 1
         /\ \A k \in DOMAIN events' :
              events'[k] = IF k \in FirstOf(Fd[w]) THEN events[Len(events)] ELSE events[k]
<1> DEFINE e == events[Len(events)]
           t == [k \in DOMAIN events |-> IF k \in FirstOf(Fd[w]) THEN e ELSE events[k]]
<1>1. /\ w \in DOMAIN live /\ events # <<>> /\ events' = DropLast(t)
      /\ live' = [x \in DOMAIN live \ {w} |-> live[x]]
      /\ mistaken' = (mistaken \/ \E k \in FirstOf(Fd[w]) : events[k].w # w)
      /\ UNCHANGED <<modified, fds, i, j, phase>>
  BY DEF event_del, walkVars
<1>2. Len(events) \in Nat \ {0} /\ DOMAIN events = 1 .. Len(events) /\ e \in EventSet
  BY <1>1, EventsAre, EmptySeq DEF TableTypes
<1>3. t \in [DOMAIN events -> EventSet]
  BY <1>2, EventsAre
<1>4. \A k \in DOMAIN events : t[k] = IF k \in FirstOf(Fd[w]) THEN e ELSE events[k]
  OBVIOUS
<1> HIDE DEF t
<1>5. /\ events' \in Seq(EventSet)
      /\ Len(events') = Len(events) - 1 /\ DOMAIN events' = 1 .. Len(events) - 1
      /\ \A k \in DOMAIN events' : k \in DOMAIN events /\ events'[k] = t[k]
  BY <1>1, <1>3, Shortened
<1>6. /\ DOMAIN live' = DOMAIN live \ {w} /\ DOMAIN live' \subseteq Watches
      /\ IsFiniteSet(DOMAIN live') /\ live' \in [DOMAIN live' -> Flags]
  BY <1>1, FS_RemoveElement DEF TableTypes
<1>7. \A k \in DOMAIN events' : events'[k].fd = Fd[events'[k].w]
  <2>1. \A k \in DOMAIN events : events[k].fd = Fd[events[k].w]
    BY DEF TableTypes
  <2>2. e.fd = Fd[e.w]
    BY <1>2, <2>1
  <2> HIDE DEF e
  <2> QED
    BY <1>4, <1>5, <2>1, <2>2
<1>8. /\ Len(fds') \in Nat /\ DOMAIN fds' = 1 .. Len(fds')
      /\ i' \in Nat /\ j' \in Nat /\ modified' \in BOOLEAN /\ mistaken' \in BOOLEAN
      /\ phase' \in {"idle", "walk", "callback"}
  BY <1>1 DEF TableTypes
<1>9. TableTypes'
  BY <1>5, <1>6, <1>7, <1>8 DEF TableTypes
<1> HIDE DEF e
<1>10. \A k \in DOMAIN events' : events'[k] = IF k \in FirstOf(Fd[w]) THEN e ELSE events[k]
  BY <1>4, <1>5
<1> QED
  BY <1>1, <1>2, <1>5, <1>9, <1>10 DEF e

LEMMA ModifiedEvent ==
  ASSUME TableTypes, NEW w \in Watches, NEW f \in Flags, event_modify(w, f)
  PROVE  /\ TableTypes' /\ modified' /\ UNCHANGED mistaken /\ DOMAIN live' = DOMAIN live
         /\ DOMAIN events' \subseteq DOMAIN events
         /\ \A k \in DOMAIN events' :
              /\ events'[k].w = events[k].w /\ events'[k].fd = events[k].fd
              /\ events'[k].fds_id = events[k].fds_id
<1> DEFINE m(k) == [events[k] EXCEPT !.read = f.read, !.write = f.write, !.active = f.active]
           t == [k \in DOMAIN events |-> IF k \in FirstOf(Fd[w]) THEN m(k) ELSE events[k]]
<1>1. /\ w \in DOMAIN live /\ events # <<>> /\ events' = DropLast(t)
      /\ live' = [live EXCEPT ![w] = f] /\ modified' = TRUE
      /\ UNCHANGED <<mistaken, fds, i, j, phase>>
  BY DEF event_modify, walkVars
<1>2. ASSUME NEW k \in DOMAIN events
      PROVE  /\ m(k) \in EventSet /\ m(k).w = events[k].w /\ m(k).fd = events[k].fd
             /\ m(k).fds_id = events[k].fds_id
  <2>1. events[k] \in EventSet /\ f \in FlagSet
    BY EventsAre DEF FlagSet
  <2> QED
    BY <2>1 DEF EventSet, FlagSet
<1> HIDE DEF m
<1>3. \A k \in DOMAIN events :
        /\ t[k] \in EventSet /\ t[k].w = events[k].w /\ t[k].fd = events[k].fd
        /\ t[k].fds_id = events[k].fds_id
  <2>1. \A k \in DOMAIN events : t[k] = IF k \in FirstOf(Fd[w]) THEN m(k) ELSE events[k]
    OBVIOUS
  <2> HIDE DEF t
  <2> QED
    BY <1>2, <2>1, EventsAre
<1>4. t \in [DOMAIN events -> EventSet]
  BY <1>3
<1> HIDE DEF t
<1>5. /\ events' \in Seq(EventSet)
      /\ Len(events) \in Nat \ {0} /\ DOMAIN events = 1 .. Len(events)
      /\ Len(events') = Len(events) - 1 /\ DOMAIN events' = 1 .. Len(events) - 1
      /\ \A k \in DOMAIN events' : k \in DOMAIN events /\ events'[k] = t[k]
  BY <1>1, <1>3, <1>4, Shortened
<1>6. /\ DOMAIN live' = DOMAIN live /\ DOMAIN live' \subseteq Watches
      /\ IsFiniteSet(DOMAIN live') /\ live' \in [DOMAIN live' -> Flags]
  BY <1>1 DEF TableTypes
<1>7. \A k \in DOMAIN events' : events'[k].fd = Fd[events'[k].w]
  BY <1>3, <1>5 DEF TableTypes
<1>8. /\ Len(fds') \in Nat /\ DOMAIN fds' = 1 .. Len(fds')
      /\ i' \in Nat /\ j' \in Nat /\ modified' \in BOOLEAN /\ mistaken' \in BOOLEAN
      /\ phase' \in {"idle", "walk", "callback"}
  BY <1>1 DEF TableTypes
<1>9. TableTypes'
  BY <1>5, <1>6, <1>7, <1>8 DEF TableTypes
<1> QED
  BY <1>1, <1>3, <1>5, <1>6, <1>9

\* Polling gives every event its place, and changes nothing else of the table.
LEMMA PolledEvents ==
  ASSUME TableTypes, Poll
  PROVE  /\ TableTypes' /\ UNCHANGED <<live, modified, mistaken, handling>> /\ phase = "idle"
         /\ Len(events') = Len(events) /\ DOMAIN events' = DOMAIN events
         /\ \A k \in DOMAIN events :
              /\ events'[k].w = events[k].w /\ events'[k].fd = events[k].fd
              /\ events'[k].read = events[k].read /\ events'[k].write = events[k].write
              /\ events'[k].active = events[k].active /\ events'[k].fds_id = PollIndex(k)
         /\ phase' = "idle" \/
              /\ phase' = "walk" /\ i' = 1 /\ j' = 1
              /\ Len(fds') = Counted(Len(events))
              /\ \A p \in 1 .. Counted(Len(events)) : fds'[p].fd = Polled(p).fd
<1> DEFINE m(k) == [events[k] EXCEPT !.fds_id = PollIndex(k)]
           N == Counted(Len(events))
           answer == [p \in 1 .. N |-> [fd |-> Polled(p).fd, revents |-> Revents(Polled(p))]]
<1>1. /\ phase = "idle" /\ events' = [k \in DOMAIN events |-> m(k)]
      /\ UNCHANGED <<live, modified, mistaken, handling>>
      /\ \/ fds' = answer /\ i' = 1 /\ j' = 1 /\ phase' = "walk"
         \/ UNCHANGED <<fds, i, j, phase>>
  BY DEF Poll
<1>2. Len(events) \in Nat /\ DOMAIN events = 1 .. Len(events)
  BY EventsAre
<1>3. ASSUME NEW k \in DOMAIN events
      PROVE  /\ m(k) \in EventSet
             /\ m(k).w = events[k].w /\ m(k).fd = events[k].fd
             /\ m(k).read = events[k].read /\ m(k).write = events[k].write
             /\ m(k).active = events[k].active /\ m(k).fds_id = PollIndex(k)
  <2>1. events[k] \in EventSet /\ PollIndex(k) \in Nat
    BY EventsAre, CountedGrows DEF PollIndex
  <2> QED
    BY <2>1 DEF EventSet
<1> HIDE DEF m
<1>4. /\ events' \in Seq(EventSet) /\ Len(events') = Len(events)
      /\ DOMAIN events' = DOMAIN events /\ \A k \in DOMAIN events : events'[k] = m(k)
  <2>1. events' \in [1 .. Len(events) -> EventSet]
    BY <1>1, <1>2, <1>3
  <2>2. events' \in Seq(EventSet) /\ Len(events') = Len(events)
    BY <1>2, <2>1, Rewritten
  <2> QED
    BY <1>1, <2>2
<1>5. phase' = "walk" /\ fds' = answer =>
        /\ Len(fds') = N /\ DOMAIN fds' = 1 .. N /\ N \in Nat
        /\ \A p \in 1 .. N : fds'[p].fd = Polled(p).fd
  <2>1. N \in Nat
    <3>1. CASE events = <<>>
      <4>1. {l \in 1 .. 0 : events[l].active} = {}
        OBVIOUS
      <4>2. Len(events) = 0
        BY <3>1
      <4> QED
        BY <4>1, <4>2, FS_EmptySet DEF Counted
    <3>2. CASE events # <<>>
      <4>1. 1 \in DOMAIN events
        BY <1>2, <3>2, EmptySeq DEF TableTypes
      <4> QED
        BY <4>1, CountedGrows
    <3> QED
      BY <3>1, <3>2
  <2> HIDE DEF N
  <2> DEFINE R == {answer[p] : p \in 1 .. N}
  <2>2. answer \in [1 .. N -> R]
    OBVIOUS
  <2>3. \A p \in 1 .. N : answer[p].fd = Polled(p).fd
    OBVIOUS
  <2> HIDE DEF answer, R
  <2>4. answer \in Seq(R) /\ Len(answer) = N
    BY <2>1, <2>2, Rewritten
  <2> QED
    BY <2>1, <2>2, <2>3, <2>4
<1> HIDE DEF answer
<1>6. \A k \in DOMAIN events' : events'[k].fd = Fd[events'[k].w]
  BY <1>3, <1>4 DEF TableTypes
<1>7. /\ Len(fds') \in Nat /\ DOMAIN fds' = 1 .. Len(fds')
      /\ i' \in Nat /\ j' \in Nat /\ phase' \in {"idle", "walk", "callback"}
  <2>1. CASE UNCHANGED <<fds, i, j, phase>>
    BY <2>1 DEF TableTypes
  <2>2. CASE fds' = answer /\ i' = 1 /\ j' = 1 /\ phase' = "walk"
    BY <1>5, <2>2
  <2> QED
    BY <1>1, <2>1, <2>2
<1>8. TableTypes'
  BY <1>1, <1>4, <1>6, <1>7 DEF TableTypes
<1>9. \A k \in DOMAIN events :
        /\ events'[k].w = events[k].w /\ events'[k].fd = events[k].fd
        /\ events'[k].read = events[k].read /\ events'[k].write = events[k].write
        /\ events'[k].active = events[k].active /\ events'[k].fds_id = PollIndex(k)
  BY <1>3, <1>4
<1>10. phase' = "idle" \/
         /\ phase' = "walk" /\ i' = 1 /\ j' = 1 /\ Len(fds') = N
         /\ \A p \in 1 .. N : fds'[p].fd = Polled(p).fd
  BY <1>1, <1>5
<1> QED
  BY <1>1, <1>4, <1>8, <1>9, <1>10

\* The steps that touch neither the table nor the walk.
Elsewhere ==
  \/ \E x \in Widgets : named_event_add(Awaits[x], x) \/ named_event_del(Awaits[x], x)
  \/ \E n \in Names : named_event_trigger(n)
  \/ CallSubscriber \/ TriggerReturn
  \/ \E d \in Fds, c \in Conditions : BecomesReady(d, c)

LEMMA ElsewhereKeeps ==
  ASSUME Elsewhere \/ UNCHANGED vars
  PROVE  UNCHANGED <<events, live, modified, mistaken, fds, i, j, phase, handling>>
  BY DEF Elsewhere, named_event_add, named_event_del, named_event_trigger, CallSubscriber,
     TriggerReturn, BecomesReady, vars, tableVars, walkVars

\* The walk fits a table whose events have no place or that of an event before.
LEMMA FitsStill ==
  ASSUME WalkFits, UNCHANGED <<fds, i, j, phase, handling>>,
         \A k \in DOMAIN events' :
           \/ events'[k].fds_id = 0
           \/ \E l \in DOMAIN events :
                events'[k].fds_id = events[l].fds_id /\ events'[k].fd = events[l].fd
  PROVE  WalkFits'
<1>1. ASSUME phase # "idle", NEW k \in DOMAIN events', events'[k].fds_id # 0
      PROVE  events'[k].fds_id \in DOMAIN fds /\ fds[events'[k].fds_id].fd = events'[k].fd
  <2>1. PICK l \in DOMAIN events :
          events'[k].fds_id = events[l].fds_id /\ events'[k].fd = events[l].fd
    BY <1>1
  <2> QED
    BY <1>1, <2>1 DEF WalkFits
<1> QED
  BY <1>1 DEF WalkFits

\* Every step keeps the types of the table and the walk within ppoll's answer.
LEMMA TableStep == TableTypes /\ WalkFits /\ [Next]_vars => TableTypes' /\ WalkFits'
<1> SUFFICES ASSUME TableTypes, WalkFits, [Next]_vars PROVE TableTypes' /\ WalkFits'
  OBVIOUS
<1>1. CASE Elsewhere \/ UNCHANGED vars
  BY <1>1, ElsewhereKeeps DEF TableTypes, WalkFits
<1>2. ASSUME NEW w \in Watches, NEW f \in Flags, event_add(w, f)
      PROVE  TableTypes' /\ WalkFits'
  <2>1. Event(w, f, 0).fds_id = 0
    BY DEF Event
  <2>2. ASSUME NEW k \in DOMAIN events'
        PROVE  \/ events'[k].fds_id = 0
               \/ \E l \in DOMAIN events :
                    events'[k].fds_id = events[l].fds_id /\ events'[k].fd = events[l].fd
    <3>1. k \in DOMAIN events \/ k = Len(events) + 1
      BY <1>2, <2>2, AddedEvent
    <3>2. CASE k \in DOMAIN events
      <4>1. events'[k] = events[k]
        BY <1>2, <3>2, AddedEvent
      <4> QED
        BY <3>2, <4>1
    <3>3. CASE k = Len(events) + 1
      <4>1. events'[k] = Event(w, f, 0)
        BY <1>2, <3>3, AddedEvent
      <4> QED
        BY <2>1, <4>1
    <3> QED
      BY <3>1, <3>2, <3>3
  <2>3. UNCHANGED <<fds, i, j, phase, handling>>
    BY <1>2 DEF event_add, walkVars
  <2>4. TableTypes'
    BY <1>2, AddedEvent
  <2> QED
    BY <2>2, <2>3, <2>4, FitsStill
<1>3. ASSUME NEW w \in Watches, event_del(w)
      PROVE  TableTypes' /\ WalkFits'
  <2>1. ASSUME NEW k \in DOMAIN events'
        PROVE  \E l \in DOMAIN events :
                 events'[k].fds_id = events[l].fds_id /\ events'[k].fd = events[l].fd
    <3>1. k \in DOMAIN events /\ Len(events) \in DOMAIN events
      <4>1. /\ Len(events) \in Nat \ {0} /\ DOMAIN events = 1 .. Len(events)
            /\ DOMAIN events' = 1 .. Len(events) - 1
        BY <1>3, DeletedEvent
      <4> QED
        BY <2>1, <4>1
    <3>2. events'[k] = events[Len(events)] \/ events'[k] = events[k]
      BY <1>3, DeletedEvent
    <3> QED
      BY <3>1, <3>2
  <2>2. UNCHANGED <<fds, i, j, phase, handling>>
    BY <1>3 DEF event_del, walkVars
  <2>3. TableTypes'
    BY <1>3, DeletedEvent
  <2> QED
    BY <2>1, <2>2, <2>3, FitsStill
<1>4. ASSUME NEW w \in Watches, NEW f \in Flags, event_modify(w, f)
      PROVE  TableTypes' /\ WalkFits'
  <2>1. TableTypes' /\ \A k \in DOMAIN events' : \/ events'[k].fds_id = 0
          \/ \E l \in DOMAIN events :
               events'[k].fds_id = events[l].fds_id /\ events'[k].fd = events[l].fd
    BY <1>4, ModifiedEvent
  <2>2. UNCHANGED <<fds, i, j, phase, handling>>
    BY <1>4 DEF event_modify, walkVars
  <2> QED
    BY <2>1, <2>2, FitsStill
<1>5. CASE Poll
  <2>1. TableTypes' /\ UNCHANGED handling /\ phase = "idle"
    BY <1>5, PolledEvents
  <2>2. CASE phase' = "idle"
    BY <2>1, <2>2 DEF WalkFits
  <2>3. CASE phase' = "walk"
    <3>1. /\ i' = 1 /\ j' = 1 /\ Len(fds') = Counted(Len(events))
          /\ \A p \in 1 .. Counted(Len(events)) : fds'[p].fd = Polled(p).fd
          /\ DOMAIN fds' = 1 .. Len(fds') /\ Len(fds') \in Nat
      BY <1>5, <2>1, <2>3, PolledEvents DEF TableTypes
    <3>2. ASSUME NEW k \in DOMAIN events', events'[k].fds_id # 0
          PROVE  events'[k].fds_id \in DOMAIN fds' /\ fds'[events'[k].fds_id].fd = events'[k].fd
      <4>1. k \in DOMAIN events /\ events'[k].fds_id = PollIndex(k) /\ events'[k].fd = events[k].fd
        BY <1>5, PolledEvents
      <4>2. events[k].active /\ events'[k].fds_id = Counted(k)
        BY <3>2, <4>1 DEF PollIndex
      <4> QED
        BY <3>1, <4>1, <4>2, PolledIs
    <3> QED
      BY <2>1, <2>3, <3>1, <3>2 DEF WalkFits
  <2> QED
    BY <2>2, <2>3, <1>5, PolledEvents
<1>6. CASE WalkSkip \/ WalkQuiet
  <2>1. /\ UNCHANGED <<events, live, modified, mistaken, fds, phase, handling>> /\ i' = i + 1 /\ phase = "walk"
        /\ j' = j \/ (j' = j + 1 /\ events[i].fds_id = j /\ i \in DOMAIN events)
    BY <1>6 DEF WalkSkip, WalkQuiet, Walking, Matches, tableVars
  <2>2. TableTypes'
    BY <2>1 DEF TableTypes
  <2>3. j \in 1 .. Len(fds) + 1 /\ Len(fds) \in Nat /\ i \in Nat /\ j \in Nat /\ DOMAIN fds = 1 .. Len(fds)
    BY <2>1 DEF WalkFits, TableTypes
  <2>4. j' \in 1 .. Len(fds) + 1
    <3>1. j' = j + 1 => j \in DOMAIN fds
      BY <2>1, <2>3 DEF WalkFits
    <3> QED
      BY <2>1, <2>3, <3>1
  <2> QED
    BY <2>1, <2>2, <2>3, <2>4 DEF WalkFits
<1>7. CASE WalkCall
  <2>1. /\ UNCHANGED <<events, live, modified, mistaken, fds, i, j>> /\ phase = "walk" /\ phase' = "callback"
        /\ i \in DOMAIN events /\ events[i].fds_id = j /\ handling' = events[i].w
    BY <1>7 DEF WalkCall, Walking, Matches, tableVars
  <2>2. TableTypes'
    BY <2>1 DEF TableTypes
  <2>3. events[i].w \in Watches
    BY <2>1, EventsAre DEF EventSet
  <2>4. handling' # Nothing
    BY <2>1, <2>3
  <2>5. j # 0
    BY <2>1 DEF WalkFits, TableTypes
  <2> QED
    BY <2>1, <2>2, <2>4, <2>5 DEF WalkFits
<1>8. CASE CallbackReturn
  <2>1. /\ UNCHANGED <<events, live, modified, mistaken, fds>> /\ phase = "callback" /\ phase' = "walk"
        /\ handling' = Nothing /\ i' = i + 1 /\ j' = j + 1
    BY <1>8 DEF CallbackReturn, tableVars
  <2>2. TableTypes'
    BY <2>1 DEF TableTypes
  <2>3. j \in DOMAIN fds /\ DOMAIN fds = 1 .. Len(fds) /\ Len(fds) \in Nat /\ i \in Nat /\ i >= 1
    BY <2>1 DEF WalkFits, TableTypes
  <2> QED
    BY <2>1, <2>2, <2>3 DEF WalkFits
<1>9. CASE WalkEnd
  <2>1. /\ UNCHANGED <<events, live, modified, mistaken, handling>> /\ phase = "walk" /\ phase' = "idle"
        /\ fds' = <<>> /\ i' = 0 /\ j' = 0
    BY <1>9 DEF WalkEnd, tableVars
  <2>2. Len(fds') \in Nat /\ DOMAIN fds' = 1 .. Len(fds')
    BY <2>1
  <2>3. TableTypes'
    BY <2>1, <2>2 DEF TableTypes
  <2> QED
    BY <2>1, <2>3 DEF WalkFits
<1> QED
  BY <1>1, <1>2, <1>3, <1>4, <1>5, <1>6, <1>7, <1>8, <1>9 DEF Next, EventProcess, Elsewhere

\* The types of the counted sets, and the first event of a descriptor that has one.
LEMMA EventsOfAre ==
  ASSUME TableTypes, NEW d
  PROVE  /\ IsFiniteSet(EventsOf(d)) /\ EventsOf(d) \subseteq DOMAIN events
         /\ \A k \in FirstOf(d) : k \in EventsOf(d)
         /\ EventsOf(d) # {} => \E p : FirstOf(d) = {p}
<1>1. Len(events) \in Nat /\ DOMAIN events = 1 .. Len(events)
  BY EventsAre
<1>2. EventsOf(d) \subseteq DOMAIN events
  BY DEF EventsOf
<1>3. IsFiniteSet(EventsOf(d))
  <2>1. IsFiniteSet(1 .. Len(events))
    BY <1>1, FS_Interval
  <2> QED
    BY <1>1, <1>2, <2>1, FS_Subset
<1>4. ASSUME EventsOf(d) # {} PROVE \E p : FirstOf(d) = {p}
  <2>1. EventsOf(d) \subseteq Nat
    BY <1>1, <1>2
  <2>2. PICK p \in EventsOf(d) : \A m \in EventsOf(d) : p <= m
    BY <1>4, <2>1, SmallestNat
  <2>3. p \in DOMAIN events /\ events[p].fd = d
    BY <2>2 DEF EventsOf
  <2>4. ASSUME NEW l \in 1 .. p - 1 PROVE events[l].fd # d
    <3>1. l \in DOMAIN events /\ ~ (p <= l)
      BY <1>1, <2>3
    <3> QED
      BY <2>2, <3>1 DEF EventsOf
  <2>5. p \in FirstOf(d)
    BY <2>3, <2>4 DEF FirstOf
  <2>6. ASSUME NEW k \in FirstOf(d) PROVE k = p
    <3>1. k \in EventsOf(d) /\ k \in 1 .. Len(events) /\ p \in 1 .. Len(events)
      BY <1>1, <2>3 DEF FirstOf, EventsOf
    <3>2. p <= k
      BY <2>2, <3>1
    <3>3. ~ (p \in 1 .. k - 1)
      BY <2>3 DEF FirstOf
    <3> QED
      BY <3>1, <3>2, <3>3
  <2>7. FirstOf(d) = {p}
    BY <2>5, <2>6
  <2> QED
    BY <2>7
<1> QED
  BY <1>2, <1>3, <1>4 DEF FirstOf, EventsOf

\* The watches of a descriptor.
LEMMA LiveOfIs ==
  ASSUME TableTypes, NEW d
  PROVE  IsFiniteSet(LiveOf(d))
<1>1. LiveOf(d) \subseteq DOMAIN live
  BY DEF LiveOf
<1> QED
  BY <1>1, FS_Subset DEF TableTypes

-----------------------------------------------------------------------------
(* Each descriptor has as many events as watches *)

LEMMA AddCounts ==
  ASSUME TableTypes, EachDescriptor, NEW w \in Watches, NEW f \in Flags, event_add(w, f)
  PROVE  EachDescriptor'
<1> DEFINE n == Len(events) + 1
<1>1. /\ w \notin DOMAIN live /\ DOMAIN live' = DOMAIN live \union {w}
      /\ UNCHANGED modified /\ DOMAIN events' = DOMAIN events \union {n}
      /\ \A k \in DOMAIN events : events'[k] = events[k] /\ k # n
      /\ events'[n] = Event(w, f, 0)
  BY AddedEvent
<1>2. Event(w, f, 0).fd = Fd[w]
  BY DEF Event
<1> HIDE DEF n
<1> SUFFICES ASSUME ~modified', NEW d \in Fds
             PROVE  Cardinality(EventsOf(d)') = Cardinality(LiveOf(d)')
  BY DEF EachDescriptor
<1>3. IsFiniteSet(EventsOf(d)) /\ IsFiniteSet(LiveOf(d)) /\ n \notin EventsOf(d) /\ w \notin LiveOf(d)
  BY <1>1, EventsOfAre, LiveOfIs DEF LiveOf
<1>4. Cardinality(EventsOf(d)) = Cardinality(LiveOf(d))
  BY <1>1 DEF EachDescriptor
<1>5. CASE d = Fd[w]
  <2>1. EventsOf(d)' = EventsOf(d) \union {n} /\ LiveOf(d)' = LiveOf(d) \union {w}
    BY <1>1, <1>2, <1>5 DEF EventsOf, LiveOf
  <2>2. Cardinality(EventsOf(d) \union {n}) = Cardinality(EventsOf(d)) + 1
    BY <1>3, FS_AddElement
  <2>3. Cardinality(LiveOf(d) \union {w}) = Cardinality(LiveOf(d)) + 1
    BY <1>3, FS_AddElement
  <2> QED
    BY <1>4, <2>1, <2>2, <2>3
<1>6. CASE d # Fd[w]
  <2>1. EventsOf(d)' = EventsOf(d) /\ LiveOf(d)' = LiveOf(d)
    BY <1>1, <1>2, <1>6 DEF EventsOf, LiveOf
  <2> QED
    BY <1>4, <2>1
<1> QED
  BY <1>5, <1>6

\* While the counts agree, event_del finds an event of its descriptor; the last one takes
\* its place, also when that is of another descriptor.
LEMMA DeleteCounts ==
  ASSUME TableTypes, EachDescriptor, NEW w \in Watches, event_del(w)
  PROVE  EachDescriptor'
<1> DEFINE n == Len(events)
<1>1. /\ w \in DOMAIN live /\ DOMAIN live' = DOMAIN live \ {w}
      /\ UNCHANGED modified /\ n \in Nat \ {0} /\ DOMAIN events = 1 .. n
      /\ DOMAIN events' = 1 .. n - 1
      /\ \A k \in DOMAIN events' :
           events'[k] = IF k \in FirstOf(Fd[w]) THEN events[n] ELSE events[k]
  BY DeletedEvent
<1> HIDE DEF n
<1> SUFFICES ASSUME ~modified', NEW d \in Fds
             PROVE  Cardinality(EventsOf(d)') = Cardinality(LiveOf(d)')
  BY DEF EachDescriptor
<1>2. /\ Cardinality(EventsOf(d)) = Cardinality(LiveOf(d))
      /\ Cardinality(EventsOf(Fd[w])) = Cardinality(LiveOf(Fd[w]))
  BY <1>1 DEF EachDescriptor
<1>3. PICK p : FirstOf(Fd[w]) = {p}
  <2>1. w \in LiveOf(Fd[w]) /\ IsFiniteSet(LiveOf(Fd[w]))
    BY <1>1, LiveOfIs DEF LiveOf
  <2>2. Cardinality(LiveOf(Fd[w])) # 0
    BY <2>1, FS_EmptySet
  <2>3. EventsOf(Fd[w]) # {}
    BY <1>2, <2>2, FS_EmptySet
  <2> QED
    BY <2>3, EventsOfAre
<1>4. /\ p \in DOMAIN events /\ events[p].fd = Fd[w] /\ n \in DOMAIN events
      /\ n \notin DOMAIN events' /\ DOMAIN events = DOMAIN events' \union {n}
  BY <1>1, <1>3 DEF FirstOf
<1>5. \A k \in DOMAIN events' : events'[k] = IF k = p THEN events[n] ELSE events[k]
  BY <1>1, <1>3
<1>6. IsFiniteSet(EventsOf(d)) /\ IsFiniteSet(LiveOf(d)) /\ Cardinality(EventsOf(d)) \in Nat
  BY EventsOfAre, LiveOfIs, FS_CardinalityType
<1>7. CASE d = Fd[w]
  <2>1. LiveOf(d)' = LiveOf(d) \ {w} /\ w \in LiveOf(d)
    BY <1>1, <1>7 DEF LiveOf
  <2>2. PICK q \in EventsOf(d) : EventsOf(d)' = EventsOf(d) \ {q}
    <3>1. CASE events[n].fd = d
      <4>1. n \in EventsOf(d) /\ EventsOf(d)' = EventsOf(d) \ {n}
        BY <1>4, <1>5, <1>7, <3>1 DEF EventsOf
      <4> QED
        BY <4>1
    <3>2. CASE events[n].fd # d
      <4>1. p \in EventsOf(d) /\ EventsOf(d)' = EventsOf(d) \ {p}
        BY <1>4, <1>5, <1>7, <3>2 DEF EventsOf
      <4> QED
        BY <4>1
    <3> QED
      BY <3>1, <3>2
  <2>3. Cardinality(EventsOf(d) \ {q}) = Cardinality(EventsOf(d)) - 1
    BY <1>6, <2>2, FS_RemoveElement
  <2>4. Cardinality(LiveOf(d) \ {w}) = Cardinality(LiveOf(d)) - 1
    BY <1>6, <2>1, FS_RemoveElement
  <2> QED
    BY <1>2, <2>1, <2>2, <2>3, <2>4
<1>8. CASE d # Fd[w]
  <2>1. LiveOf(d)' = LiveOf(d)
    BY <1>1, <1>8 DEF LiveOf
  <2>2. CASE p # n /\ events[n].fd = d
    <3>1. /\ n \in EventsOf(d) /\ p \notin EventsOf(d)
          /\ EventsOf(d)' = (EventsOf(d) \ {n}) \union {p}
      BY <1>4, <1>5, <1>8, <2>2 DEF EventsOf
    <3>2. /\ IsFiniteSet(EventsOf(d) \ {n})
          /\ Cardinality(EventsOf(d) \ {n}) = Cardinality(EventsOf(d)) - 1
      BY <1>6, <3>1, FS_RemoveElement
    <3>3. Cardinality((EventsOf(d) \ {n}) \union {p}) = Cardinality(EventsOf(d) \ {n}) + 1
      BY <3>1, <3>2, FS_AddElement
    <3> QED
      BY <1>2, <1>6, <2>1, <3>1, <3>2, <3>3
  <2>3. CASE p = n \/ events[n].fd # d
    <3>1. EventsOf(d)' = EventsOf(d)
      BY <1>4, <1>5, <1>8, <2>3 DEF EventsOf
    <3> QED
      BY <1>2, <2>1, <3>1
  <2> QED
    BY <2>2, <2>3
<1> QED
  BY <1>7, <1>8

LEMMA CountStep == TableTypes /\ EachDescriptor /\ [Next]_vars => EachDescriptor'
<1> SUFFICES ASSUME TableTypes, EachDescriptor, [Next]_vars PROVE EachDescriptor'
  OBVIOUS
<1>1. CASE WalkSkip \/ WalkQuiet \/ WalkCall \/ WalkEnd \/ CallbackReturn
  <2>1. UNCHANGED <<events, live, modified>>
    BY <1>1 DEF WalkSkip, WalkQuiet, WalkCall, WalkEnd, CallbackReturn, tableVars
  <2> QED
    BY <2>1 DEF EachDescriptor, EventsOf, LiveOf
<1>2. CASE Elsewhere \/ UNCHANGED vars
  BY <1>2, ElsewhereKeeps DEF EachDescriptor, EventsOf, LiveOf
<1>3. CASE \E w \in Watches, f \in Flags : event_modify(w, f)
  BY <1>3, ModifiedEvent DEF EachDescriptor
<1>4. CASE Poll
  <2>1. /\ UNCHANGED <<live, modified>> /\ DOMAIN events' = DOMAIN events
        /\ \A k \in DOMAIN events : events'[k].fd = events[k].fd
    BY <1>4, PolledEvents
  <2>2. \A d : EventsOf(d)' = EventsOf(d) /\ LiveOf(d)' = LiveOf(d)
    BY <2>1 DEF EventsOf, LiveOf
  <2> QED
    BY <2>1, <2>2 DEF EachDescriptor
<1> QED
  BY <1>1, <1>2, <1>3, <1>4, AddCounts, DeleteCounts DEF Next, EventProcess, Elsewhere

-----------------------------------------------------------------------------
(* The table says what was registered *)

\* While event_del takes no watch for another, the first event of a watch's descriptor is
\* the watch's own, and it finds none only when the watch has none.
LEMMA FirstIs ==
  ASSUME TableTypes, OfLive, NEW w \in Watches, ~mistaken,
         \A k \in FirstOf(Fd[w]) : events[k].w = w
  PROVE  \A k \in DOMAIN events : k \in FirstOf(Fd[w]) <=> events[k].w = w
<1> SUFFICES ASSUME NEW k \in DOMAIN events, events[k].w = w PROVE k \in FirstOf(Fd[w])
  OBVIOUS
<1>1. k \in EventsOf(Fd[w])
  BY DEF EventsOf, TableTypes
<1>2. PICK p : FirstOf(Fd[w]) = {p}
  BY <1>1, EventsOfAre
<1>3. p \in DOMAIN events /\ events[p].w = w
  BY <1>2 DEF FirstOf
<1> QED
  BY <1>2, <1>3 DEF OfLive

\* A table whose events are those of registered watches and where those watches have one
\* each, is complete as long as no event was dropped.
LEMMA AddKeeps ==
  ASSUME TableTypes, OfLive, Complete, NEW w \in Watches, NEW f \in Flags, event_add(w, f)
  PROVE  OfLive' /\ Complete'
<1> DEFINE n == Len(events) + 1
<1>1. /\ w \notin DOMAIN live /\ DOMAIN live' = DOMAIN live \union {w}
      /\ live'[w] = f /\ \A x \in DOMAIN live : live'[x] = live[x]
      /\ UNCHANGED <<modified, mistaken>>
      /\ DOMAIN events' = DOMAIN events \union {n}
      /\ \A k \in DOMAIN events : events'[k] = events[k] /\ k # n
      /\ events'[n] = Event(w, f, 0)
  BY AddedEvent
<1>2. /\ Event(w, f, 0).w = w /\ Event(w, f, 0).read = f.read
      /\ Event(w, f, 0).write = f.write /\ Event(w, f, 0).active = f.active
  BY DEF Event
<1> HIDE DEF n
<1>3. ASSUME ~mistaken' PROVE OfLive'
  <2>1. \A k \in DOMAIN events : events'[k].w \in DOMAIN live
    BY <1>1, <1>3 DEF OfLive
  <2>2. events'[n].w = w
    BY <1>1, <1>2
  <2>3. \A k \in DOMAIN events' : events'[k].w \in DOMAIN live'
    BY <1>1, <2>1, <2>2
  <2>4. \A k, l \in DOMAIN events : events'[k].w = events'[l].w => k = l
    BY <1>1, <1>3 DEF OfLive
  <2>5. \A k, l \in DOMAIN events' : events'[k].w = events'[l].w => k = l
    BY <1>1, <2>1, <2>2, <2>4
  <2> QED
    BY <2>3, <2>5 DEF OfLive
<1>4. ASSUME ~modified', ~mistaken' PROVE Complete'
  <2>1. /\ \A k \in DOMAIN events : /\ events[k].read = live[events[k].w].read
                                    /\ events[k].write = live[events[k].w].write
                                    /\ events[k].active = live[events[k].w].active
        /\ \A v \in DOMAIN live : \E k \in DOMAIN events : events[k].w = v
    BY <1>1, <1>4 DEF Complete
  <2>2. ASSUME NEW k \in DOMAIN events'
        PROVE  /\ events'[k].read = live'[events'[k].w].read
               /\ events'[k].write = live'[events'[k].w].write
               /\ events'[k].active = live'[events'[k].w].active
    <3>1. CASE k = n
      BY <1>1, <1>2, <3>1
    <3>2. CASE k \in DOMAIN events
      <4>1. events'[k] = events[k] /\ live'[events[k].w] = live[events[k].w]
        BY <1>1, <1>4, <3>2 DEF OfLive
      <4> QED
        BY <2>1, <3>2, <4>1
    <3> QED
      BY <1>1, <3>1, <3>2
  <2>3. ASSUME NEW v \in DOMAIN live' PROVE \E k \in DOMAIN events' : events'[k].w = v
    <3>1. CASE v = w
      <4>1. n \in DOMAIN events' /\ events'[n].w = v
        BY <1>1, <1>2, <3>1
      <4> QED
        BY <4>1
    <3>2. CASE v \in DOMAIN live
      <4>1. PICK k \in DOMAIN events : events[k].w = v
        BY <2>1, <3>2
      <4>2. k \in DOMAIN events' /\ events'[k].w = v
        BY <1>1, <4>1
      <4> QED
        BY <4>2
    <3> QED
      BY <1>1, <3>1, <3>2
  <2> QED
    BY <2>2, <2>3 DEF Complete
<1> QED
  BY <1>3, <1>4 DEF OfLive, Complete

LEMMA DeleteKeeps ==
  ASSUME TableTypes, OfLive, Complete, NEW w \in Watches, event_del(w)
  PROVE  OfLive' /\ Complete'
<1> SUFFICES ASSUME ~mistaken' PROVE OfLive' /\ Complete'
  BY DEF OfLive, Complete
<1> DEFINE n == Len(events)
           o(k) == IF events[k].w = w THEN n ELSE k
<1>1. /\ w \in DOMAIN live /\ live' = [x \in DOMAIN live \ {w} |-> live[x]]
      /\ ~mistaken /\ \A k \in FirstOf(Fd[w]) : events[k].w = w
      /\ UNCHANGED modified /\ n \in Nat \ {0} /\ DOMAIN events = 1 .. n
      /\ Len(events') = n - 1 /\ DOMAIN events' = 1 .. n - 1
      /\ \A k \in DOMAIN events' :
           events'[k] = IF k \in FirstOf(Fd[w]) THEN events[n] ELSE events[k]
  BY DeletedEvent
<1> HIDE DEF n
<1>2. /\ DOMAIN live' = DOMAIN live \ {w}
      /\ \A x \in DOMAIN live : x # w => live'[x] = live[x]
  BY <1>1
<1>3. \A k, l \in DOMAIN events : events[k].w = events[l].w => k = l
  BY <1>1 DEF OfLive
<1>4. ASSUME NEW k \in DOMAIN events'
      PROVE  /\ k \in DOMAIN events /\ o(k) \in DOMAIN events /\ events'[k] = events[o(k)]
             /\ events[o(k)].w # w
  <2>1. k \in DOMAIN events /\ n \in DOMAIN events /\ k # n
    BY <1>1, <1>4
  <2>2. k \in FirstOf(Fd[w]) <=> events[k].w = w
    BY <1>1, <2>1, FirstIs
  <2>3. CASE events[k].w = w
    <3>1. o(k) = n /\ events'[k] = events[n]
      BY <1>1, <1>4, <2>2, <2>3
    <3>2. events[n].w # w
      BY <1>3, <2>1, <2>3
    <3> QED
      BY <2>1, <3>1, <3>2
  <2>4. CASE events[k].w # w
    <3>1. o(k) = k /\ events'[k] = events[k]
      BY <1>1, <1>4, <2>2, <2>4
    <3> QED
      BY <2>1, <2>4, <3>1
  <2> QED
    BY <2>3, <2>4
<1>5. ASSUME NEW k \in DOMAIN events', NEW l \in DOMAIN events', o(k) = o(l)
      PROVE  k = l
  <2>1. k # n /\ l # n /\ k \in DOMAIN events /\ l \in DOMAIN events
    BY <1>1, <1>5
  <2> QED
    BY <1>3, <1>5, <2>1
<1>6. OfLive'
  <2>1. \A k \in DOMAIN events' : events'[k].w \in DOMAIN live'
    <3>1. \A k \in DOMAIN events : events[k].w \in DOMAIN live
      BY <1>1 DEF OfLive
    <3> HIDE DEF o
    <3> QED
      BY <1>2, <1>4, <3>1
  <2>2. \A k, l \in DOMAIN events' : events'[k].w = events'[l].w => k = l
    <3> HIDE DEF o
    <3> QED
      BY <1>3, <1>4, <1>5
  <2> QED
    BY <2>1, <2>2 DEF OfLive
<1>7. ASSUME ~modified' PROVE Complete'
  <2>1. /\ \A k \in DOMAIN events : /\ events[k].read = live[events[k].w].read
                                    /\ events[k].write = live[events[k].w].write
                                    /\ events[k].active = live[events[k].w].active
        /\ \A v \in DOMAIN live : \E k \in DOMAIN events : events[k].w = v
    BY <1>1, <1>7 DEF Complete
  <2>2. ASSUME NEW k \in DOMAIN events'
        PROVE  /\ events'[k].read = live'[events'[k].w].read
               /\ events'[k].write = live'[events'[k].w].write
               /\ events'[k].active = live'[events'[k].w].active
    <3>1. events[o(k)].w \in DOMAIN live
      BY <1>1, <1>4, <2>2 DEF OfLive
    <3>2. o(k) \in DOMAIN events /\ events'[k] = events[o(k)] /\ events[o(k)].w # w
      BY <1>4, <2>2
    <3> HIDE DEF o
    <3>3. live'[events[o(k)].w] = live[events[o(k)].w]
      BY <1>2, <3>1, <3>2
    <3> QED
      BY <2>1, <3>2, <3>3
  <2>3. ASSUME NEW v \in DOMAIN live' PROVE \E k \in DOMAIN events' : events'[k].w = v
    <3>1. PICK l \in DOMAIN events : events[l].w = v
      BY <1>2, <2>1, <2>3
    <3>2. PICK k \in DOMAIN events : events[k].w = w
      BY <1>1, <2>1
    <3>3. v # w /\ l # k
      BY <1>2, <2>3, <3>1, <3>2
    <3>4. CASE l = n
      <4>1. k \in DOMAIN events' /\ o(k) = n
        BY <1>1, <3>2, <3>3, <3>4
      <4>2. events'[k] = events[n]
        BY <1>4, <4>1
      <4> QED
        BY <3>1, <3>4, <4>1, <4>2
    <3>5. CASE l # n
      <4>1. l \in DOMAIN events' /\ o(l) = l
        BY <1>1, <3>1, <3>3, <3>5
      <4>2. events'[l] = events[l]
        BY <1>4, <4>1
      <4> QED
        BY <3>1, <4>1, <4>2
    <3> QED
      BY <3>4, <3>5
  <2> QED
    BY <2>2, <2>3 DEF Complete
<1> QED
  BY <1>6, <1>7 DEF Complete

LEMMA ModifyKeeps ==
  ASSUME TableTypes, OfLive, NEW w \in Watches, NEW f \in Flags, event_modify(w, f)
  PROVE  OfLive' /\ Complete'
<1>1. /\ modified' /\ UNCHANGED mistaken /\ DOMAIN live' = DOMAIN live /\ DOMAIN events' \subseteq DOMAIN events
      /\ \A k \in DOMAIN events' : events'[k].w = events[k].w
  BY ModifiedEvent
<1>2. OfLive'
  BY <1>1 DEF OfLive
<1> QED
  BY <1>1, <1>2 DEF Complete

LEMMA PollKeeps ==
  ASSUME TableTypes, OfLive, Complete, Poll
  PROVE  OfLive' /\ Complete'
<1>1. /\ UNCHANGED <<live, modified, mistaken>> /\ Len(events') = Len(events)
      /\ DOMAIN events' = DOMAIN events
      /\ \A k \in DOMAIN events :
           /\ events'[k].w = events[k].w /\ events'[k].read = events[k].read
           /\ events'[k].write = events[k].write /\ events'[k].active = events[k].active
  BY PolledEvents
<1>2. OfLive'
  BY <1>1 DEF OfLive
<1>3. Complete'
  BY <1>1 DEF Complete
<1> QED
  BY <1>2, <1>3

\* The steps of a walk but Poll, and those elsewhere, leave the table as it is.
LEMMA LiveStep ==
  TableTypes /\ OfLive /\ Complete /\ [Next]_vars => OfLive' /\ Complete'
<1> SUFFICES ASSUME TableTypes, OfLive, Complete, [Next]_vars
             PROVE  OfLive' /\ Complete'
  OBVIOUS
<1>1. CASE WalkSkip \/ WalkQuiet \/ WalkCall \/ WalkEnd \/ CallbackReturn
  <2>1. UNCHANGED <<events, live, modified, mistaken>>
    BY <1>1 DEF WalkSkip, WalkQuiet, WalkCall, WalkEnd, CallbackReturn, tableVars
  <2> QED
    BY <2>1 DEF OfLive, Complete
<1>2. CASE Elsewhere \/ UNCHANGED vars
  BY <1>2, ElsewhereKeeps DEF OfLive, Complete
<1> QED
  BY <1>1, <1>2, AddKeeps, DeleteKeeps, ModifyKeeps, PollKeeps
  DEF Next, EventProcess, Elsewhere

-----------------------------------------------------------------------------
(* The named events *)

EntrySet == [name : Names, c : Seq(Widgets)]

FrameSet == [name : Names, j : Nat, called : Seq(Widgets)]

\* The pairs that an entry stands for.
Pairs(e) == {<<e.name, e.c[l]>> : l \in DOMAIN e.c}

LEMMA NamesAre ==
  ASSUME NameTypes
  PROVE  /\ Len(ev_names) \in Nat /\ DOMAIN ev_names = 1 .. Len(ev_names)
         /\ \A k \in DOMAIN ev_names :
              /\ ev_names[k] \in EntrySet
              /\ ev_names[k].name \in Names /\ ev_names[k].c \in Seq(Widgets)
              /\ Len(ev_names[k].c) \in Nat
              /\ DOMAIN ev_names[k].c = 1 .. Len(ev_names[k].c)
              /\ ev_names[k] = [name |-> ev_names[k].name, c |-> ev_names[k].c]
<1>1. \A k \in DOMAIN ev_names : ev_names[k] \in EntrySet
  <2>1. ev_names \in Seq(EntrySet)
    BY DEF NameTypes, EntrySet
  <2> QED
    BY <2>1, ElementOfSeq, LenProperties
<1>2. \A k \in DOMAIN ev_names :
        /\ ev_names[k].name \in Names /\ ev_names[k].c \in Seq(Widgets)
        /\ ev_names[k] = [name |-> ev_names[k].name, c |-> ev_names[k].c]
  BY <1>1 DEF EntrySet
<1> QED
  BY <1>1, <1>2, LenProperties DEF NameTypes

LEMMA StackIs ==
  ASSUME NameTypes
  PROVE  /\ Len(stack) \in Nat /\ DOMAIN stack = 1 .. Len(stack)
         /\ \A f \in DOMAIN stack :
              /\ stack[f] \in FrameSet /\ stack[f].name \in Names /\ stack[f].j \in Nat
              /\ stack[f].called \in Seq(Widgets)
<1>1. \A f \in DOMAIN stack : stack[f] \in FrameSet
  <2>1. stack \in Seq(FrameSet)
    BY DEF NameTypes, FrameSet
  <2> QED
    BY <2>1, ElementOfSeq, LenProperties
<1>2. \A f \in DOMAIN stack :
        stack[f].name \in Names /\ stack[f].j \in Nat /\ stack[f].called \in Seq(Widgets)
  BY <1>1 DEF FrameSet
<1>3. Len(stack) \in Nat /\ DOMAIN stack = 1 .. Len(stack)
  BY LenProperties DEF NameTypes
<1> QED
  BY <1>1, <1>2, <1>3

\* As names are entered once, the first entry of a name is the only one.
LEMMA EntryIs ==
  ASSUME NameTypes, NamesAgree, NEW n
  PROVE  /\ \A k \in DOMAIN ev_names : ev_names[k].name = n =>
              EntryOf(n) = {k} /\ Callbacks(n) = ev_names[k].c
         /\ \A k \in EntryOf(n) : k \in DOMAIN ev_names /\ ev_names[k].name = n
<1>1. \A k, l \in DOMAIN ev_names : ev_names[k].name = ev_names[l].name => k = l
  BY DEF NamesAgree
<1>2. Len(ev_names) \in Nat /\ DOMAIN ev_names = 1 .. Len(ev_names)
  BY NamesAre
<1>3. ASSUME NEW k \in DOMAIN ev_names, ev_names[k].name = n
      PROVE  EntryOf(n) = {k} /\ Callbacks(n) = ev_names[k].c
  <2>1. \A l \in 1 .. k - 1 : l \in DOMAIN ev_names /\ l # k
    BY <1>2, <1>3
  <2>2. \A l \in 1 .. k - 1 : ev_names[l].name # n
    BY <1>1, <1>3, <2>1
  <2>3. EntryOf(n) = {k}
    BY <1>1, <1>3, <2>2 DEF EntryOf
  <2>4. (CHOOSE l \in EntryOf(n) : TRUE) = k
    BY <2>3
  <2> QED
    BY <2>3, <2>4 DEF Callbacks
<1> QED
  BY <1>3 DEF EntryOf

\* A widget that is subscribed is among the callbacks of the name.
LEMMA SubscribedIs ==
  ASSUME NameTypes, NamesAgree, NEW n, NEW x, <<n, x>> \in subscribed
  PROVE  \E l \in DOMAIN Callbacks(n) : Callbacks(n)[l] = x
<1>1. PICK k \in DOMAIN ev_names : <<n, x>> \in Pairs(ev_names[k])
  BY DEF NamesAgree, Pairs
<1>2. PICK l \in DOMAIN ev_names[k].c : <<n, x>> = <<ev_names[k].name, ev_names[k].c[l]>>
  BY <1>1 DEF Pairs
<1>3. ev_names[k].name = n /\ ev_names[k].c[l] = x
  BY <1>2
<1>4. Callbacks(n) = ev_names[k].c
  BY <1>3, EntryIs
<1> QED
  BY <1>3, <1>4

\* named_event_add of a name without an entry.
LEMMA NewName ==
  ASSUME NameTypes, NamesAgree, NoDoubles, NEW n \in Names, NEW x \in Widgets,
         EntryOf(n) = {}, ev_names' = Append(ev_names, [name |-> n, c |-> <<x>>]),
         subscribed' = subscribed \union {<<n, x>>}
  PROVE  ev_names' \in Seq(EntrySet) /\ NamesAgree' /\ NoDoubles'
<1> DEFINE e == [name |-> n, c |-> <<x>>]
           N == Len(ev_names) + 1
<1>1. e \in EntrySet
  <2>1. <<x>> \in Seq(Widgets)
    OBVIOUS
  <2> QED
    BY <2>1 DEF EntrySet
<1>2. /\ e.name = n /\ DOMAIN e.c = {1} /\ e.c[1] = x /\ e.c # <<>>
  OBVIOUS
<1>3. /\ ev_names' \in Seq(EntrySet) /\ DOMAIN ev_names' = DOMAIN ev_names \union {N}
      /\ \A k \in DOMAIN ev_names : ev_names'[k] = ev_names[k] /\ k # N
      /\ ev_names'[N] = e
  <2>1. ev_names \in Seq(EntrySet) /\ ev_names' = Append(ev_names, e)
    BY DEF NameTypes, EntrySet
  <2> HIDE DEF e
  <2>2. /\ ev_names' \in Seq(EntrySet) /\ Len(ev_names') = Len(ev_names) + 1
        /\ \A k \in 1 .. Len(ev_names) : ev_names'[k] = ev_names[k]
        /\ ev_names'[N] = e
    BY <1>1, <2>1, AppendProperties
  <2>3. DOMAIN ev_names' = 1 .. Len(ev_names')
    BY <2>2, LenProperties
  <2>4. Len(ev_names) \in Nat /\ DOMAIN ev_names = 1 .. Len(ev_names)
    BY NamesAre
  <2> QED
    BY <2>2, <2>3, <2>4
<1> HIDE DEF e, N
<1>4. \A k \in DOMAIN ev_names : ev_names[k].name # n
  <2>1. ASSUME NEW k \in DOMAIN ev_names, ev_names[k].name = n PROVE FALSE
    <3>1. EntryOf(n) = {k}
      BY <2>1, EntryIs
    <3> QED
      BY <3>1
  <2> QED
    BY <2>1
<1>5. \A k, l \in DOMAIN ev_names' : ev_names'[k].name = ev_names'[l].name => k = l
  BY <1>2, <1>3, <1>4 DEF NamesAgree
<1>6. \A k \in DOMAIN ev_names' : ev_names'[k].c # <<>>
  BY <1>2, <1>3 DEF NamesAgree
<1>7. \A k \in DOMAIN ev_names' : \A l, m \in DOMAIN ev_names'[k].c :
        ev_names'[k].c[l] = ev_names'[k].c[m] => l = m
  <2>1. \A l, m \in DOMAIN e.c : l = m
    BY <1>2
  <2> QED
    BY <1>3, <2>1 DEF NoDoubles
<1>8. subscribed' = UNION {Pairs(ev_names'[k]) : k \in DOMAIN ev_names'}
  <2>1. Pairs(e) = {<<n, x>>}
    BY <1>2 DEF Pairs
  <2>2. subscribed = UNION {Pairs(ev_names[k]) : k \in DOMAIN ev_names}
    BY DEF NamesAgree, Pairs
  <2> QED
    BY <1>3, <2>1, <2>2
<1> QED
  BY <1>3, <1>5, <1>6, <1>7, <1>8 DEF NamesAgree, NoDoubles, Pairs

\* An entry of the table replaced by another one of the same name.
LEMMA EntryReplaced ==
  ASSUME NameTypes, NamesAgree, NoDoubles, NEW k \in DOMAIN ev_names, NEW e \in EntrySet,
         e.name = ev_names[k].name, e.c # <<>>,
         \A l, m \in DOMAIN e.c : e.c[l] = e.c[m] => l = m,
         DOMAIN ev_names' = DOMAIN ev_names,
         \A l \in DOMAIN ev_names : ev_names'[l] = IF l = k THEN e ELSE ev_names[l],
         subscribed' = UNION {IF l = k THEN Pairs(e) ELSE Pairs(ev_names[l]) :
                                l \in DOMAIN ev_names}
  PROVE  NamesAgree' /\ NoDoubles'
<1>1. /\ \A l, m \in DOMAIN ev_names : ev_names[l].name = ev_names[m].name => l = m
      /\ \A l \in DOMAIN ev_names : ev_names[l].c # <<>>
  BY DEF NamesAgree
<1>2. \A l \in DOMAIN ev_names : ev_names'[l].name = ev_names[l].name
  OBVIOUS
<1>3. \A l, m \in DOMAIN ev_names' : ev_names'[l].name = ev_names'[m].name => l = m
  BY <1>1, <1>2
<1>4. \A l \in DOMAIN ev_names' : ev_names'[l].c # <<>>
  BY <1>1
<1>5. NoDoubles'
  BY DEF NoDoubles
<1>6. subscribed' = UNION {Pairs(ev_names'[l]) : l \in DOMAIN ev_names'}
  OBVIOUS
<1> QED
  BY <1>3, <1>4, <1>5, <1>6 DEF NamesAgree, Pairs

LEMMA EntryWith ==
  ASSUME NEW u, NEW n, NEW c, NEW d, u = [name |-> n, c |-> c]
  PROVE  [u EXCEPT !.c = d] = [name |-> n, c |-> d]
  OBVIOUS

LEMMA AddName ==
  ASSUME NameTypes, NamesAgree, NoDoubles, NEW n \in Names, NEW x \in Widgets,
         named_event_add(n, x)
  PROVE  ev_names' \in Seq(EntrySet) /\ NamesAgree' /\ NoDoubles'
<1> DEFINE m(k) == [ev_names[k] EXCEPT !.c = Append(@, x)]
<1>1. /\ subscribed' = subscribed \union {<<n, x>>} /\ <<n, x>> \notin subscribed
      /\ ev_names' = IF EntryOf(n) = {} THEN Append(ev_names, [name |-> n, c |-> <<x>>])
                     ELSE [k \in DOMAIN ev_names |->
                             IF k \in EntryOf(n) THEN m(k) ELSE ev_names[k]]
  BY DEF named_event_add
<1>2. CASE EntryOf(n) = {}
  BY <1>1, <1>2, NewName
<1>3. ASSUME NEW k \in EntryOf(n)
      PROVE  ev_names' \in Seq(EntrySet) /\ NamesAgree' /\ NoDoubles'
  <2> DEFINE c == ev_names[k].c
             e == [name |-> n, c |-> Append(c, x)]
  <2>1. k \in DOMAIN ev_names /\ ev_names[k].name = n /\ EntryOf(n) = {k} /\ Callbacks(n) = c
    BY <1>3, EntryIs
  <2>2. /\ c \in Seq(Widgets) /\ Len(c) \in Nat /\ DOMAIN c = 1 .. Len(c)
        /\ ev_names[k] = [name |-> n, c |-> c]
    BY <2>1, NamesAre
  <2>3. m(k) = e
    <3> DEFINE d == Append(c, x)
    <3>1. m(k) = [ev_names[k] EXCEPT !.c = d]
      OBVIOUS
    <3> HIDE DEF m, d
    <3>2. [ev_names[k] EXCEPT !.c = d] = [name |-> n, c |-> d]
      BY <2>2, EntryWith
    <3> QED
      BY <3>1, <3>2 DEF d
  <2> HIDE DEF m, c
  <2>4. /\ Append(c, x) \in Seq(Widgets) /\ Len(Append(c, x)) = Len(c) + 1
        /\ \A l \in 1 .. Len(c) : Append(c, x)[l] = c[l]
        /\ Append(c, x)[Len(c) + 1] = x
    BY <2>2, AppendProperties
  <2>5. DOMAIN Append(c, x) = 1 .. Len(c) + 1
    BY <2>4, LenProperties
  <2>6. \A l \in DOMAIN c : c[l] # x
    <3>1. ASSUME NEW l \in DOMAIN c, c[l] = x PROVE FALSE
      <4>1. <<n, x>> \in Pairs(ev_names[k])
        BY <2>1, <3>1 DEF Pairs, c
      <4>2. <<n, x>> \in subscribed
        BY <2>1, <4>1 DEF NamesAgree, Pairs
      <4> QED
        BY <1>1, <4>2
    <3> QED
      BY <3>1
  <2>7. \A l, o \in DOMAIN e.c : e.c[l] = e.c[o] => l = o
    <3>1. \A l, o \in 1 .. Len(c) : c[l] = c[o] => l = o
      BY <2>1, <2>2 DEF NoDoubles, c
    <3> QED
      BY <2>2, <2>4, <2>5, <2>6, <3>1
  <2>8. e \in EntrySet /\ e.name = n /\ e.c = Append(c, x)
    <3>1. e \in EntrySet
      BY <2>4 DEF EntrySet
    <3>2. e.name = n /\ e.c = Append(c, x)
      OBVIOUS
    <3> QED
      BY <3>1, <3>2
  <2>9. e.c # <<>>
    <3>1. Len(Append(c, x)) # 0
      BY <2>2, <2>4
    <3>2. Append(c, x) # <<>>
      BY <2>4, <3>1, EmptySeq
    <3> QED
      BY <2>8, <3>2
  <2>10. Pairs(e) = Pairs(ev_names[k]) \union {<<n, x>>}
    <3>1. Pairs(ev_names[k]) = {<<n, c[l]>> : l \in 1 .. Len(c)}
      BY <2>1, <2>2 DEF Pairs, c
    <3>2. Pairs(e) = {<<n, Append(c, x)[l]>> : l \in 1 .. Len(c) + 1}
      BY <2>5, <2>8 DEF Pairs
    <3>3. \A l : l \in 1 .. Len(c) + 1 <=> (l \in 1 .. Len(c) \/ l = Len(c) + 1)
      BY <2>2
    <3> QED
      BY <2>4, <3>1, <3>2, <3>3
  <2> HIDE DEF e
  <2>11. ev_names' = [l \in DOMAIN ev_names |-> IF l = k THEN e ELSE ev_names[l]]
    BY <1>1, <2>1, <2>3
  <2>12. subscribed' = UNION {IF l = k THEN Pairs(e) ELSE Pairs(ev_names[l]) :
                                l \in DOMAIN ev_names}
    <3>1. subscribed = UNION {Pairs(ev_names[l]) : l \in DOMAIN ev_names}
      BY DEF NamesAgree, Pairs
    <3> QED
      BY <1>1, <2>1, <2>10, <3>1
  <2>13. NamesAgree' /\ NoDoubles'
    BY <2>1, <2>7, <2>8, <2>9, <2>11, <2>12, EntryReplaced
  <2>14. ev_names' \in Seq(EntrySet)
    <3>1. \A l \in DOMAIN ev_names : ev_names[l] \in EntrySet
      BY NamesAre
    <3>2. ev_names' \in [DOMAIN ev_names -> EntrySet]
      BY <2>8, <2>11, <3>1
    <3>3. Len(ev_names) \in Nat /\ DOMAIN ev_names = 1 .. Len(ev_names)
      BY NamesAre
    <3> QED
      BY <3>2, <3>3, Rewritten
  <2> QED
    BY <2>13, <2>14
<1> QED
  BY <1>2, <1>3

\* The table without the entry of a name that has only x among its callbacks.
LEMMA NameGone ==
  ASSUME NameTypes, NamesAgree, NoDoubles, NEW k \in DOMAIN ev_names, NEW p,
         Pairs(ev_names[k]) = {p}, ev_names' = SwapOut(ev_names, k),
         subscribed' = subscribed \ {p}
  PROVE  ev_names' \in Seq(EntrySet) /\ NamesAgree' /\ NoDoubles'
<1> DEFINE n == Len(ev_names)
           o(l) == IF l = k THEN n ELSE l
<1>1. n \in Nat /\ DOMAIN ev_names = 1 .. n /\ k \in 1 .. n
  BY NamesAre
<1>2. /\ ev_names' \in Seq(EntrySet) /\ DOMAIN ev_names' = 1 .. n - 1
      /\ \A l \in 1 .. n - 1 : ev_names'[l] = IF l = k THEN ev_names[n] ELSE ev_names[l]
  <2>1. ev_names \in Seq(EntrySet)
    BY DEF NameTypes, EntrySet
  <2> QED
    BY <1>1, <2>1, SwapOutIs
<1> HIDE DEF n
<1>3. ASSUME NEW l \in DOMAIN ev_names'
      PROVE  l \in DOMAIN ev_names /\ l # n /\ o(l) \in DOMAIN ev_names \ {k} /\ ev_names'[l] = ev_names[o(l)]
  BY <1>1, <1>2, <1>3
<1>4. ASSUME NEW m \in DOMAIN ev_names, m # k
      PROVE  \E l \in DOMAIN ev_names' : o(l) = m
  <2>1. CASE m = n
    <3>1. k \in DOMAIN ev_names' /\ o(k) = m
      BY <1>1, <1>2, <1>4, <2>1
    <3> QED
      BY <3>1
  <2>2. CASE m # n
    <3>1. m \in DOMAIN ev_names' /\ o(m) = m
      BY <1>1, <1>2, <1>4, <2>2
    <3> QED
      BY <3>1
  <2> QED
    BY <2>1, <2>2
<1>5. \A l, m \in DOMAIN ev_names' : o(l) = o(m) => l = m
  BY <1>3
<1> HIDE DEF o
<1>6. \A l, m \in DOMAIN ev_names' : ev_names'[l].name = ev_names'[m].name => l = m
  BY <1>3, <1>5 DEF NamesAgree
<1>7. \A l \in DOMAIN ev_names' : ev_names'[l].c # <<>>
  BY <1>3 DEF NamesAgree
<1>8. NoDoubles'
  BY <1>3 DEF NoDoubles
<1>9. subscribed' = UNION {Pairs(ev_names'[l]) : l \in DOMAIN ev_names'}
  <2>1. subscribed = UNION {Pairs(ev_names[l]) : l \in DOMAIN ev_names}
    BY DEF NamesAgree, Pairs
  <2>2. ASSUME NEW l \in DOMAIN ev_names, l # k PROVE p \notin Pairs(ev_names[l])
    <3>1. ev_names[l].name # ev_names[k].name
      BY <2>2 DEF NamesAgree
    <3>2. PICK c : p = <<ev_names[k].name, c>>
      BY DEF Pairs
    <3> QED
      BY <3>1, <3>2 DEF Pairs
  <2>3. ASSUME NEW q \in subscribed' PROVE \E l \in DOMAIN ev_names' : q \in Pairs(ev_names'[l])
    <3>1. PICK m \in DOMAIN ev_names : q \in Pairs(ev_names[m])
      BY <2>1, <2>3
    <3>2. m # k
      BY <2>3, <3>1
    <3>3. PICK l \in DOMAIN ev_names' : o(l) = m
      BY <1>4, <3>2
    <3> QED
      BY <1>3, <3>1, <3>3
  <2>4. ASSUME NEW l \in DOMAIN ev_names' PROVE Pairs(ev_names'[l]) \subseteq subscribed'
    BY <1>3, <2>1, <2>2
  <2> QED
    BY <2>3, <2>4
<1> QED
  BY <1>2, <1>6, <1>7, <1>8, <1>9 DEF NamesAgree, Pairs

LEMMA DeleteName ==
  ASSUME NameTypes, NamesAgree, NoDoubles, NEW n \in Names, NEW x \in Widgets,
         named_event_del(n, x)
  PROVE  ev_names' \in Seq(EntrySet) /\ NamesAgree' /\ NoDoubles'
<1>1. PICK k \in EntryOf(n) : \E l \in 1 .. Len(ev_names[k].c) :
        /\ ev_names[k].c[l] = x
        /\ LET c == SwapOut(ev_names[k].c, l)
           IN ev_names' = IF c = <<>> THEN SwapOut(ev_names, k)
                          ELSE [ev_names EXCEPT ![k].c = c]
  BY DEF named_event_del
<1>2. subscribed' = subscribed \ {<<n, x>>}
  BY DEF named_event_del
<1> DEFINE b == ev_names[k].c
<1>3. PICK l \in 1 .. Len(b) :
        /\ b[l] = x
        /\ LET c == SwapOut(b, l)
           IN ev_names' = IF c = <<>> THEN SwapOut(ev_names, k)
                          ELSE [ev_names EXCEPT ![k].c = c]
  BY <1>1
<1>4. k \in DOMAIN ev_names /\ ev_names[k].name = n
  BY <1>1, EntryIs
<1>5. b \in Seq(Widgets) /\ Len(b) \in Nat /\ DOMAIN b = 1 .. Len(b) /\ ev_names[k] = [name |-> n, c |-> b]
  BY <1>4, NamesAre
<1>6. \A m, o \in 1 .. Len(b) : b[m] = b[o] => m = o
  BY <1>4, <1>5 DEF NoDoubles
<1>7. Pairs(ev_names[k]) = {<<n, b[m]>> : m \in 1 .. Len(b)}
  BY <1>4, <1>5 DEF Pairs
<1> DEFINE c == SwapOut(b, l)
           e == [name |-> n, c |-> c]
<1>8. ev_names' = IF c = <<>> THEN SwapOut(ev_names, k) ELSE [ev_names EXCEPT ![k].c = c]
  BY <1>3
<1> HIDE DEF b, c
<1>9. /\ c \in Seq(Widgets) /\ Len(c) = Len(b) - 1 /\ DOMAIN c = 1 .. Len(b) - 1
      /\ \A m \in 1 .. Len(b) - 1 : c[m] = IF m = l THEN b[Len(b)] ELSE b[m]
  <2>1. b \in Seq(Widgets) /\ l \in 1 .. Len(b)
    BY <1>3, <1>5
  <2> QED
    BY <2>1, SwapOutIs DEF c
<1>10. /\ \A m, o \in DOMAIN c : c[m] = c[o] => m = o
       /\ \A m \in DOMAIN c : \E o \in 1 .. Len(b) : o # l /\ c[m] = b[o]
       /\ \A o \in 1 .. Len(b) : o # l => \E m \in DOMAIN c : c[m] = b[o]
  <2>1. b \in Seq(Widgets) /\ l \in 1 .. Len(b)
    BY <1>3, <1>5
  <2> QED
    BY <1>6, <2>1, SwapOutDistinct DEF c
<1>11. CASE c = <<>>
  <2>1. Len(b) = 1 /\ l = 1
    <3>1. Len(c) = 0
      BY <1>11
    <3> QED
      BY <1>3, <1>5, <1>9, <3>1
  <2>2. Pairs(ev_names[k]) = {<<n, x>>}
    <3>1. \A m : m \in 1 .. Len(b) <=> m = l
      BY <2>1
    <3> QED
      BY <1>3, <1>7, <3>1
  <2>3. ev_names' = SwapOut(ev_names, k)
    BY <1>8, <1>11
  <2> QED
    BY <1>2, <1>4, <2>2, <2>3, NameGone
<1>12. CASE c # <<>>
  <2>1. e \in EntrySet
    BY <1>9 DEF EntrySet
  <2>2. e.name = n /\ e.c = c
    OBVIOUS
  <2>3. Pairs(e) = Pairs(ev_names[k]) \ {<<n, x>>}
    <3>1. Pairs(e) = {<<n, c[m]>> : m \in DOMAIN c}
      BY <2>2 DEF Pairs
    <3>2. \A o \in 1 .. Len(b) : b[o] = x <=> o = l
      BY <1>3, <1>6
    <3>3. ASSUME NEW q \in Pairs(e) PROVE q \in Pairs(ev_names[k]) /\ q # <<n, x>>
      <4>1. PICK m \in DOMAIN c : q = <<n, c[m]>>
        BY <3>1, <3>3
      <4>2. PICK o \in 1 .. Len(b) : o # l /\ c[m] = b[o]
        BY <1>10
      <4>3. b[o] # x
        BY <3>2, <4>2
      <4> QED
        BY <1>7, <4>1, <4>2, <4>3
    <3>4. ASSUME NEW q \in Pairs(ev_names[k]), q # <<n, x>> PROVE q \in Pairs(e)
      <4>1. PICK o \in 1 .. Len(b) : q = <<n, b[o]>>
        BY <1>7, <3>4
      <4>2. o # l
        BY <1>3, <3>4, <4>1
      <4>3. PICK m \in DOMAIN c : c[m] = b[o]
        BY <1>10, <4>2
      <4> QED
        BY <3>1, <4>1, <4>3
    <3> QED
      BY <3>3, <3>4
  <2> HIDE DEF e
  <2>4. /\ DOMAIN ev_names' = DOMAIN ev_names
        /\ \A m \in DOMAIN ev_names : ev_names'[m] = IF m = k THEN e ELSE ev_names[m]
    <3>1. ev_names' = [ev_names EXCEPT ![k].c = c]
      BY <1>8, <1>12
    <3>2. [ev_names[k] EXCEPT !.c = c] = e
      BY <1>5, EntryWith DEF e
    <3> QED
      BY <1>4, <3>1, <3>2
  <2>5. subscribed' = UNION {IF m = k THEN Pairs(e) ELSE Pairs(ev_names[m]) :
                               m \in DOMAIN ev_names}
    <3>1. subscribed = UNION {Pairs(ev_names[m]) : m \in DOMAIN ev_names}
      BY DEF NamesAgree, Pairs
    <3>2. ASSUME NEW m \in DOMAIN ev_names, m # k PROVE <<n, x>> \notin Pairs(ev_names[m])
      <4>1. ev_names[m].name # n
        BY <1>4, <3>2 DEF NamesAgree
      <4> QED
        BY <4>1 DEF Pairs
    <3> QED
      BY <1>2, <1>4, <2>3, <3>1, <3>2
  <2>6. NamesAgree' /\ NoDoubles'
    BY <1>4, <1>12, <1>10, <2>1, <2>2, <2>4, <2>5, EntryReplaced
  <2>7. ev_names' \in Seq(EntrySet)
    <3>1. ev_names' = [m \in DOMAIN ev_names |-> IF m = k THEN e ELSE ev_names[m]]
      <4>1. ev_names' = [ev_names EXCEPT ![k].c = c]
        BY <1>8, <1>12
      <4>2. [ev_names[k] EXCEPT !.c = c] = e
        BY <1>5, EntryWith DEF e
      <4> QED
        BY <1>4, <4>1, <4>2
    <3>2. \A m \in DOMAIN ev_names : ev_names[m] \in EntrySet
      BY NamesAre
    <3>3. ev_names' \in [DOMAIN ev_names -> EntrySet]
      BY <2>1, <3>1, <3>2
    <3>4. Len(ev_names) \in Nat /\ DOMAIN ev_names = 1 .. Len(ev_names)
      BY NamesAre
    <3> QED
      BY <3>3, <3>4, Rewritten
  <2> QED
    BY <2>6, <2>7
<1> QED
  BY <1>11, <1>12

\* What a trigger adds to the stack has called nobody yet.
LEMMA EnteredIs ==
  ASSUME NameTypes, NamesAgree, NEW n \in Names
  PROVE  /\ Entered(n) \in Seq(FrameSet)
         /\ \A f \in DOMAIN Entered(n) :
              /\ Entered(n)[f] = Frame(n) /\ EntryOf(n) # {}
         /\ Frame(n).name = n /\ Frame(n).j = 1 /\ Frame(n).called = <<>>
         /\ Frame(n) \in FrameSet
<1>1. Frame(n).name = n /\ Frame(n).j = 1 /\ Frame(n).called = <<>> /\ Frame(n) \in FrameSet
  BY DEF Frame, FrameSet
<1> HIDE DEF Frame
<1>2. CASE EntryOf(n) = {}
  BY <1>1, <1>2 DEF Entered
<1>3. CASE EntryOf(n) # {}
  BY <1>1, <1>3 DEF Entered
<1> QED
  BY <1>1, <1>2, <1>3

\* The callbacks of a name that has an entry.
LEMMA CallbacksAre ==
  ASSUME NameTypes, NamesAgree, NEW n, EntryOf(n) # {}
  PROVE  /\ Callbacks(n) \in Seq(Widgets) /\ Len(Callbacks(n)) \in Nat
         /\ DOMAIN Callbacks(n) = 1 .. Len(Callbacks(n))
         /\ \E k \in DOMAIN ev_names : ev_names[k].name = n /\ Callbacks(n) = ev_names[k].c
<1>1. PICK k \in EntryOf(n) : TRUE
  OBVIOUS
<1>2. k \in DOMAIN ev_names /\ ev_names[k].name = n
  BY <1>1, EntryIs
<1>3. Callbacks(n) = ev_names[k].c
  BY <1>2, EntryIs
<1> QED
  BY <1>2, <1>3, NamesAre

\* The trigger that runs.
LEMMA TopIs ==
  ASSUME NameTypes, NamesAgree, CalledSoFar, stack # <<>>
  PROVE  /\ Len(stack) \in Nat \ {0} /\ DOMAIN stack = 1 .. Len(stack)
         /\ Top \in FrameSet /\ EntryOf(Top.name) # {}
         /\ Top.j \in 1 .. Len(Callbacks(Top.name)) + 1
         /\ Len(Top.called) = Top.j - 1
         /\ \A m \in 1 .. Top.j - 1 : Top.called[m] = Callbacks(Top.name)[m]
<1>1. Len(stack) \in Nat \ {0} /\ DOMAIN stack = 1 .. Len(stack)
  BY StackIs, EmptySeq DEF NameTypes
<1>2. Len(stack) \in DOMAIN stack
  BY <1>1
<1>3. Top \in FrameSet
  BY <1>2, StackIs DEF Top
<1> QED
  BY <1>1, <1>2, <1>3 DEF Top, CalledSoFar

\* A running trigger has called what comes before its index.
FrameFits(e) ==
  /\ EntryOf(e.name) # {}
  /\ e.j \in 1 .. Len(Callbacks(e.name)) + 1
  /\ Len(e.called) = e.j - 1
  /\ \A m \in 1 .. e.j - 1 : e.called[m] = Callbacks(e.name)[m]

LEMMA FramesFit ==
  ASSUME UNCHANGED ev_names, \A f \in DOMAIN stack' : FrameFits(stack'[f])
  PROVE  CalledSoFar'
<1>1. \A n : EntryOf(n)' = EntryOf(n) /\ Callbacks(n)' = Callbacks(n)
  BY DEF EntryOf, Callbacks
<1> QED
  BY <1>1 DEF CalledSoFar, FrameFits

\* What a trigger adds to the stack fits.
LEMMA EnteredFits ==
  ASSUME NameTypes, NamesAgree, NEW n \in Names
  PROVE  /\ Entered(n) \in Seq(FrameSet)
         /\ \A f \in DOMAIN Entered(n) : FrameFits(Entered(n)[f])
<1>1. ASSUME EntryOf(n) # {} PROVE FrameFits(Frame(n))
  <2>1. Frame(n).name = n /\ Frame(n).j = 1 /\ Frame(n).called = <<>>
    BY EnteredIs
  <2>2. Len(Callbacks(n)) \in Nat
    BY <1>1, CallbacksAre
  <2>3. Len(Frame(n).called) = 0
    BY <2>1
  <2> QED
    BY <1>1, <2>1, <2>2, <2>3 DEF FrameFits
<1> QED
  BY <1>1, EnteredIs

\* A subscriber is called: the trigger moves on, and what the callback triggers is
\* entered above it.
LEMMA CallKeeps ==
  ASSUME NameTypes, NamesAgree, CalledSoFar, CallSubscriber
  PROVE  stack' \in Seq(FrameSet) /\ CalledSoFar' /\ Len(stack') >= Len(stack)
<1> DEFINE n == Len(stack)
           c == Callbacks(Top.name)
           x == c[Top.j]
           e == [name |-> Top.name, j |-> Top.j + 1, called |-> Append(Top.called, x)]
           advanced == [stack EXCEPT ![n] = e]
           above == IF Nested[x] = Nothing THEN <<>> ELSE Entered(Nested[x])
<1>1. /\ stack # <<>> /\ Top.j <= Len(c) /\ stack' = advanced \o above
      /\ UNCHANGED ev_names
  BY DEF CallSubscriber, namedVars
<1>2. /\ n \in Nat \ {0} /\ DOMAIN stack = 1 .. n /\ Top \in FrameSet /\ EntryOf(Top.name) # {}
      /\ Top.j \in 1 .. Len(c) + 1 /\ Len(Top.called) = Top.j - 1
      /\ \A m \in 1 .. Top.j - 1 : Top.called[m] = c[m]
  BY <1>1, TopIs
<1>3. c \in Seq(Widgets) /\ Len(c) \in Nat /\ DOMAIN c = 1 .. Len(c)
  BY <1>2, CallbacksAre
<1>4. Top.j \in 1 .. Len(c)
  <2>1. Top.j <= Len(c) /\ Top.j \in 1 .. Len(c) + 1 /\ Len(c) \in Nat
    BY <1>1, <1>2, <1>3
  <2> HIDE DEF c
  <2> QED
    BY <2>1
<1>5. x \in Widgets
  BY <1>3, <1>4, ElementOfSeq
<1>6. above \in Seq(FrameSet) /\ \A f \in DOMAIN above : FrameFits(above[f])
  <2>1. CASE Nested[x] = Nothing
    BY <2>1
  <2>2. CASE Nested[x] # Nothing
    <3>1. Nested[x] \in Names
      BY <1>5, <2>2
    <3> QED
      BY <2>2, <3>1, EnteredFits
  <2> QED
    BY <2>1, <2>2
<1>7. /\ Top.name \in Names /\ Top.j \in Nat /\ Top.called \in Seq(Widgets)
  BY <1>2 DEF FrameSet
<1> HIDE DEF above, x, c, advanced
<1>8. /\ Append(Top.called, x) \in Seq(Widgets) /\ Len(Append(Top.called, x)) = Top.j
      /\ \A m \in 1 .. Top.j - 1 : Append(Top.called, x)[m] = c[m]
      /\ Append(Top.called, x)[Top.j] = x
  <2>1. /\ Append(Top.called, x) \in Seq(Widgets)
        /\ Len(Append(Top.called, x)) = Len(Top.called) + 1
        /\ \A m \in 1 .. Len(Top.called) : Append(Top.called, x)[m] = Top.called[m]
        /\ Append(Top.called, x)[Len(Top.called) + 1] = x
    BY <1>5, <1>7, AppendProperties
  <2>2. Top.j - 1 + 1 = Top.j
    BY <1>7
  <2> QED
    BY <1>2, <2>1, <2>2
<1>9. e \in FrameSet
  BY <1>7, <1>8 DEF FrameSet
<1>10. FrameFits(e)
  <2>1. e.name = Top.name /\ e.j = Top.j + 1 /\ e.called = Append(Top.called, x)
    OBVIOUS
  <2> HIDE DEF e
  <2>2. Top.j + 1 - 1 = Top.j /\ Top.j + 1 \in 1 .. Len(c) + 1
    BY <1>3, <1>4
  <2>3. \A m \in 1 .. Top.j : Append(Top.called, x)[m] = c[m]
    <3>1. \A m \in 1 .. Top.j : m \in 1 .. Top.j - 1 \/ m = Top.j
      BY <1>7
    <3> QED
      BY <1>8, <3>1 DEF x
  <2> QED
    BY <1>2, <1>8, <2>1, <2>2, <2>3 DEF FrameFits, c
<1> HIDE DEF e
<1>11. /\ advanced \in Seq(FrameSet) /\ Len(advanced) = n
       /\ \A f \in 1 .. n : advanced[f] = IF f = n THEN e ELSE stack[f]
  <2>1. stack \in Seq(FrameSet) /\ n \in 1 .. Len(stack)
    BY <1>2 DEF NameTypes, FrameSet
  <2> QED
    BY <1>9, <2>1, ExceptSeq DEF advanced
<1> HIDE DEF n
<1>12. \A f \in 1 .. n : FrameFits(advanced[f])
  <2>1. \A f \in 1 .. n : FrameFits(stack[f])
    BY <1>2 DEF CalledSoFar, FrameFits
  <2> QED
    BY <1>10, <1>11, <2>1
<1>13. /\ stack' \in Seq(FrameSet) /\ Len(stack') = n + Len(above) /\ Len(above) \in Nat
       /\ \A f \in 1 .. n : stack'[f] = advanced[f]
       /\ \A f \in 1 .. Len(above) : stack'[n + f] = above[f]
       /\ DOMAIN stack' = 1 .. n + Len(above) /\ DOMAIN above = 1 .. Len(above)
  <2>1. /\ advanced \o above \in Seq(FrameSet)
        /\ Len(advanced \o above) = Len(advanced) + Len(above)
        /\ \A f \in 1 .. Len(advanced) + Len(above) :
             (advanced \o above)[f] = IF f <= Len(advanced) THEN advanced[f]
                                      ELSE above[f - Len(advanced)]
    BY <1>6, <1>11, ConcatProperties
  <2>2. Len(above) \in Nat /\ DOMAIN above = 1 .. Len(above)
    BY <1>6, LenProperties
  <2>3. DOMAIN stack' = 1 .. n + Len(above)
    BY <1>1, <1>11, <2>1, LenProperties
  <2>4. \A f \in 1 .. n : f \in 1 .. n + Len(above) /\ f <= n
    BY <1>2, <2>2
  <2>5. \A f \in 1 .. Len(above) : n + f \in 1 .. n + Len(above) /\ ~(n + f <= n) /\ n + f - n = f
    BY <1>2, <2>2
  <2> QED
    BY <1>1, <1>11, <2>1, <2>2, <2>3, <2>4, <2>5
<1>14. \A f \in DOMAIN stack' : FrameFits(stack'[f])
  <2>1. \A f \in DOMAIN stack' : f \in 1 .. n \/ \E g \in 1 .. Len(above) : f = n + g
    <3>1. ASSUME NEW f \in 1 .. n + Len(above), f \notin 1 .. n
          PROVE  f - n \in 1 .. Len(above) /\ f = n + (f - n)
      BY <1>2, <1>13, <3>1
    <3> QED
      BY <1>13, <3>1
  <2> QED
    BY <1>6, <1>12, <1>13, <2>1
<1>15. CalledSoFar'
  BY <1>1, <1>14, FramesFit
<1>16. Len(stack') >= n
  BY <1>2, <1>13
<1> QED
  BY <1>13, <1>15, <1>16 DEF n

\* Every step keeps the table of names and the triggers that run over it.
LEMMA NameStep == NInv /\ [Next]_vars => NInv'
<1> SUFFICES ASSUME NameTypes, NamesAgree, NoDoubles, CalledSoFar, [Next]_vars PROVE NInv'
  BY DEF NInv
<1>1. ASSUME ev_names' \in Seq(EntrySet), stack = <<>>, stack' = <<>>, NamesAgree', NoDoubles'
      PROVE  NInv'
  BY <1>1 DEF NInv, NameTypes, EntrySet, CalledSoFar
<1>2. ASSUME UNCHANGED <<ev_names, subscribed>>, stack' \in Seq(FrameSet), CalledSoFar'
      PROVE  NInv'
  BY <1>2 DEF NInv, NameTypes, FrameSet, NamesAgree, NoDoubles
<1>3. ASSUME NEW x \in Widgets, named_event_add(Awaits[x], x) PROVE NInv'
  <2>1. Awaits[x] \in Names
    OBVIOUS
  <2>2. stack = <<>> /\ stack' = <<>>
    BY <1>3 DEF named_event_add, Call, Outside
  <2> QED
    BY <1>1, <1>3, <2>1, <2>2, AddName
<1>4. ASSUME NEW x \in Widgets, named_event_del(Awaits[x], x) PROVE NInv'
  <2>1. Awaits[x] \in Names
    OBVIOUS
  <2>2. stack = <<>> /\ stack' = <<>>
    BY <1>4 DEF named_event_del, Call, Outside
  <2> QED
    BY <1>1, <1>4, <2>1, <2>2, DeleteName
<1>5. ASSUME NEW n \in Names, named_event_trigger(n) PROVE NInv'
  <2>1. stack' = Entered(n) /\ UNCHANGED <<ev_names, subscribed>>
    BY <1>5 DEF named_event_trigger, namedVars
  <2>2. stack' \in Seq(FrameSet) /\ \A f \in DOMAIN stack' : FrameFits(stack'[f])
    BY <2>1, EnteredFits
  <2> QED
    BY <1>2, <2>1, <2>2, FramesFit
<1>6. CASE CallSubscriber
  <2>1. UNCHANGED <<ev_names, subscribed>>
    BY <1>6 DEF CallSubscriber, namedVars
  <2> QED
    BY <1>2, <1>6, <2>1, CallKeeps
<1>7. CASE TriggerReturn
  <2>1. stack # <<>> /\ stack' = DropLast(stack) /\ UNCHANGED <<ev_names, subscribed>>
    BY <1>7 DEF TriggerReturn, namedVars
  <2>2. stack \in Seq(FrameSet)
    BY DEF NameTypes, FrameSet
  <2>3. /\ stack' \in Seq(FrameSet)
        /\ \A f \in DOMAIN stack' : f \in DOMAIN stack /\ stack'[f] = stack[f]
    BY <2>1, <2>2, DropLastIs
  <2>4. \A f \in DOMAIN stack' : FrameFits(stack'[f])
    BY <2>3 DEF CalledSoFar, FrameFits
  <2> QED
    BY <1>2, <2>1, <2>3, <2>4, FramesFit
<1>8. CASE UNCHANGED <<ev_names, subscribed, stack>>
  <2>1. \A f \in DOMAIN stack' : FrameFits(stack'[f])
    BY <1>8 DEF CalledSoFar, FrameFits
  <2>2. stack' \in Seq(FrameSet)
    BY <1>8 DEF NameTypes, FrameSet
  <2> QED
    BY <1>2, <1>8, <2>1, <2>2, FramesFit
<1>9. ASSUME \/ \E w \in Watches, f \in Flags : event_add(w, f) \/ event_modify(w, f)
             \/ \E w \in Watches : event_del(w)
             \/ EventProcess \/ CallbackReturn
             \/ \E d \in Fds, c \in Conditions : BecomesReady(d, c)
             \/ UNCHANGED vars
      PROVE  UNCHANGED <<ev_names, subscribed, stack>>
  BY <1>9 DEF event_add, event_modify, event_del, EventProcess, Poll, WalkSkip, WalkQuiet,
     WalkCall, WalkEnd, CallbackReturn, BecomesReady, vars, namedVars
<1> QED
  BY <1>3, <1>4, <1>5, <1>6, <1>7, <1>8, <1>9 DEF Next

-----------------------------------------------------------------------------
(* The theorems *)

LEMMA Initially == Init => TInv /\ NInv
<1> SUFFICES ASSUME Init PROVE TInv /\ NInv
  OBVIOUS
<1>1. /\ events = <<>> /\ live = <<>> /\ modified = FALSE /\ mistaken = FALSE
      /\ fds = <<>> /\ i = 0 /\ j = 0 /\ phase = "idle" /\ handling = Nothing
      /\ ev_names = <<>> /\ subscribed = {} /\ stack = <<>>
  BY DEF Init
<1>2. /\ DOMAIN live = {} /\ DOMAIN events = {} /\ DOMAIN ev_names = {} /\ DOMAIN stack = {}
      /\ Len(fds) = 0 /\ DOMAIN fds = 1 .. 0 /\ Len(events) = 0
  BY <1>1
<1>3. IsFiniteSet(DOMAIN live) /\ Cardinality(DOMAIN live) = 0
  BY <1>2, FS_EmptySet
<1>4. live \in [DOMAIN live -> Flags] /\ events \in Seq(EventSet)
  BY <1>1
<1>5. TableTypes
  BY <1>1, <1>2, <1>3, <1>4 DEF TableTypes
<1>6. WalkFits /\ OfLive /\ Complete
  BY <1>1, <1>2, <1>3 DEF WalkFits, OfLive, Complete
<1>9. EachDescriptor
  <2>1. \A d : EventsOf(d) = {} /\ LiveOf(d) = {}
    BY <1>2 DEF EventsOf, LiveOf
  <2> QED
    BY <2>1 DEF EachDescriptor
<1>7. NameTypes
  BY <1>1 DEF NameTypes
<1>8. NamesAgree /\ NoDoubles /\ CalledSoFar
  BY <1>1, <1>2 DEF NamesAgree, NoDoubles, CalledSoFar
<1> QED
  BY <1>5, <1>6, <1>7, <1>8, <1>9 DEF NInv, TInv

LEMMA TableHolds == Spec => [](TableTypes /\ WalkFits)
<1>1. Init => TableTypes /\ WalkFits
  BY Initially DEF TInv
<1> QED
  BY <1>1, TableStep, PTL DEF Spec

LEMMA NamesHold == Spec => []NInv
<1>1. Init => NInv
  BY Initially
<1> QED
  BY <1>1, NameStep, PTL DEF Spec

LEMMA LiveHolds == Spec => []TInv
<1>1. Init => TInv
  BY Initially
<1>2. TInv /\ [Next]_vars => TInv'
  BY TableStep, LiveStep, CountStep DEF TInv
<1> QED
  BY <1>1, <1>2, PTL DEF Spec

\* The variables of event.c have their types, and a walk of event_process stays within
\* what ppoll answered, whatever its callbacks do to the table and with descriptors that
\* watches share.
THEOREM TypeCorrect == Spec => []TypeOK
<1>1. ASSUME TableTypes, WalkFits, NInv PROVE TypeOK
  <2>1. live \in UNION {[S -> Flags] : S \in SUBSET Watches}
    <3>1. DOMAIN live \in SUBSET Watches /\ live \in [DOMAIN live -> Flags]
      BY <1>1 DEF TableTypes
    <3> QED
      BY <3>1
  <2>2. ASSUME NEW k \in DOMAIN events
        PROVE  /\ events[k].fds_id \in Nat
               /\ phase # "idle" => events[k].fds_id <= Len(fds)
               /\ \E w \in Watches, f \in FlagSet : events[k] = Event(w, f, events[k].fds_id)
    <3> DEFINE e == events[k]
               f == [read |-> e.read, write |-> e.write, active |-> e.active]
    <3>1. e \in EventSet /\ e.fd = Fd[e.w]
      BY <1>1, <2>2, EventsAre DEF TableTypes
    <3> HIDE DEF e
    <3>2. e.fds_id \in Nat /\ e.w \in Watches /\ f \in FlagSet /\ e = Event(e.w, f, e.fds_id)
      BY <3>1 DEF EventSet, FlagSet, Event
    <3>3. phase # "idle" => e.fds_id = 0 \/ e.fds_id \in DOMAIN fds
      BY <1>1, <2>2 DEF WalkFits, e
    <3>4. Len(fds) \in Nat /\ DOMAIN fds = 1 .. Len(fds)
      BY <1>1 DEF TableTypes
    <3>5. phase # "idle" => e.fds_id <= Len(fds)
      BY <3>3, <3>4
    <3> QED
      BY <3>2, <3>5 DEF e
  <2>3. /\ phase \in {"idle", "walk", "callback"}
        /\ phase # "idle" => i >= 1 /\ j \in 1 .. Len(fds) + 1
        /\ phase = "callback" <=> handling # Nothing
    BY <1>1 DEF TableTypes, WalkFits
  <2>4. \A k \in DOMAIN stack : stack[k].name \in Names
    BY <1>1, StackIs DEF NInv
  <2>5. \A k \in DOMAIN ev_names :
          ev_names[k].name \in Names /\ ev_names[k].c \in Seq(Widgets)
    BY <1>1, NamesAre DEF NInv
  <2> QED
    BY <2>1, <2>2, <2>3, <2>4, <2>5, Zenon DEF TypeOK, FlagSet
<1> QED
  BY <1>1, TableHolds, NamesHold, PTL

\* Both tables of event.c say what their callers have added and not removed, in whatever
\* order they did, also from callbacks.  Of the table of descriptors that is so until
\* event_modify drops an event from it; from then on that event_del has taken one of two watches
\* of a descriptor for the other, each descriptor still has as many events as watches.
THEOREM BothTablesAgree == Spec => []TablesAgree
<1>1. ASSUME TInv, NInv PROVE TablesAgree
  <2> DEFINE told(e) == [w |-> e.w, f |-> [read |-> e.read, write |-> e.write, active |-> e.active]]
             asked(w) == [w |-> w, f |-> live[w]]
  <2>1. ASSUME ~modified, ~mistaken PROVE {told(e) : e \in {events[k] : k \in DOMAIN events}}
                               = {asked(w) : w \in DOMAIN live}
    <3>1. ASSUME NEW k \in DOMAIN events
          PROVE  told(events[k]) = asked(events[k].w) /\ events[k].w \in DOMAIN live
      <4>1. events[k].w \in DOMAIN live
        BY <1>1, <2>1 DEF TInv, OfLive
      <4>2. live[events[k].w] \in FlagSet
        BY <1>1, <4>1 DEF TInv, TableTypes, FlagSet
      <4>3. /\ events[k].read = live[events[k].w].read
            /\ events[k].write = live[events[k].w].write
            /\ events[k].active = live[events[k].w].active
        BY <1>1, <2>1 DEF TInv, Complete
      <4>4. \A g \in FlagSet : g = [read |-> g.read, write |-> g.write, active |-> g.active]
        BY DEF FlagSet
      <4> QED
        BY <4>1, <4>2, <4>3, <4>4
    <3>2. \A w \in DOMAIN live : \E k \in DOMAIN events : events[k].w = w
      BY <1>1, <2>1 DEF TInv, Complete
    <3> HIDE DEF told, asked
    <3> QED
      BY <3>1, <3>2
  <2>2. EachDescriptor
    BY <1>1 DEF TInv
  <2>3. NamesAgree
    BY <1>1 DEF NInv
  <2> QED
    BY <2>1, <2>2, <2>3 DEF TablesAgree, Registered
<1> QED
  BY <1>1, LiveHolds, NamesHold, PTL

\* event_process only calls a watch for an answer of ppoll about its own descriptor that
\* reports something, also after callbacks have moved the table's events and whichever
\* watches share a descriptor; and, until event_del has taken one of two such watches for the
\* other, only one that is still registered.
THEOREM OnlyTheLiveAreCalled == Spec => CallsLive
<1> DEFINE P == phase' = "callback" /\ phase = "walk" =>
                  /\ mistaken \/ handling' \in DOMAIN live
                  /\ j \in DOMAIN fds /\ fds[j].fd = Fd[handling'] /\ fds[j].revents # {}
<1>1. TInv /\ [Next]_vars => [P]_vars
  <2> SUFFICES ASSUME TInv, [Next]_vars, phase' = "callback", phase = "walk" PROVE P
    OBVIOUS
  <2>1. WalkCall
    BY Zenon DEF Next, EventProcess, event_add, event_modify, event_del, named_event_add,
       named_event_del, named_event_trigger, CallSubscriber, TriggerReturn, BecomesReady, Poll,
       WalkSkip, WalkQuiet, WalkEnd, CallbackReturn, vars, walkVars
  <2>2. /\ i \in DOMAIN events /\ events[i].fds_id = j /\ fds[j].revents # {}
        /\ handling' = events[i].w
    BY <2>1 DEF WalkCall, Walking, Matches
  <2>3. (mistaken \/ events[i].w \in DOMAIN live) /\ events[i].fd = Fd[events[i].w]
    BY <2>2 DEF TInv, OfLive, TableTypes
  <2>4. j # 0
    BY DEF TInv, WalkFits, TableTypes
  <2>5. j \in DOMAIN fds /\ fds[j].fd = events[i].fd
    BY <2>2, <2>4 DEF TInv, WalkFits
  <2> QED
    BY <2>2, <2>3, <2>5
<1> QED
  BY <1>1, LiveHolds, PTL DEF Spec, CallsLive

\* named_event_trigger calls each subscriber of the name once before it returns, also
\* when the callbacks trigger other names.
THEOREM EverySubscriberIsCalledOnce == Spec => EverySubscriberOnce
<1> DEFINE P == Len(stack') < Len(stack) =>
       /\ \A x \in Widgets : <<Top.name, x>> \in subscribed =>
                               \E k \in DOMAIN Top.called : Top.called[k] = x
       /\ \A k, l \in DOMAIN Top.called : Top.called[k] = Top.called[l] => k = l
<1>1. NInv /\ [Next]_vars => [P]_vars
  <2> SUFFICES ASSUME NameTypes, NamesAgree, NoDoubles, CalledSoFar, [Next]_vars,
                      Len(stack') < Len(stack)
               PROVE  P
    BY DEF NInv
  <2>1. TriggerReturn
    <3>1. CASE CallSubscriber
      BY <3>1, CallKeeps, StackIs, LenProperties
    <3>2. CASE \E n \in Names : named_event_trigger(n)
      <4>1. stack = <<>>
        BY <3>2 DEF named_event_trigger, Call, Outside
      <4>2. PICK n \in Names : stack' = Entered(n)
        BY <3>2 DEF named_event_trigger
      <4>3. Len(stack') \in Nat
        BY <4>2, EnteredIs, LenProperties
      <4> QED
        BY <4>1, <4>3
    <3>3. CASE UNCHANGED stack
      BY <3>3, StackIs
    <3> QED
      BY <3>1, <3>2, <3>3 DEF Next, EventProcess, event_add, event_modify, event_del,
         named_event_add, named_event_del, BecomesReady, Poll, WalkSkip, WalkQuiet, WalkCall,
         WalkEnd, CallbackReturn, vars
  <2> DEFINE c == Callbacks(Top.name)
             t == Top.called
  <2>2. stack # <<>> /\ Top.j > Len(c)
    BY <2>1 DEF TriggerReturn
  <2>3. /\ EntryOf(Top.name) # {} /\ Top.j \in 1 .. Len(c) + 1 /\ Len(t) = Top.j - 1
        /\ \A m \in 1 .. Top.j - 1 : t[m] = c[m]
        /\ Top \in FrameSet
    BY <2>2, TopIs
  <2>4. t \in Seq(Widgets) /\ DOMAIN t = 1 .. Len(t)
    BY <2>3, LenProperties DEF FrameSet
  <2>5. PICK k \in DOMAIN ev_names : ev_names[k].name = Top.name /\ c = ev_names[k].c
    BY <2>3, CallbacksAre
  <2>6. Len(c) \in Nat /\ DOMAIN c = 1 .. Len(c)
    BY <2>3, CallbacksAre
  <2>7. \A l, m \in DOMAIN c : c[l] = c[m] => l = m
    BY <2>5 DEF NoDoubles
  <2>8. \A x : <<Top.name, x>> \in subscribed => \E l \in DOMAIN c : c[l] = x
    BY SubscribedIs
  <2> HIDE DEF c, t
  <2>9. DOMAIN t = DOMAIN c /\ \A m \in DOMAIN c : t[m] = c[m]
    <3>1. Top.j - 1 = Len(c)
      BY <2>2, <2>3, <2>6
    <3> QED
      BY <2>3, <2>4, <2>6, <3>1
  <2>10. /\ \A x \in Widgets : <<Top.name, x>> \in subscribed => \E m \in DOMAIN t : t[m] = x
         /\ \A l, m \in DOMAIN t : t[l] = t[m] => l = m
    BY <2>7, <2>8, <2>9
  <2> QED
    BY <2>10 DEF t
<1> QED
  BY <1>1, NamesHold, PTL DEF Spec, EverySubscriberOnce

\* The two tables of event.c together: a watch is called for an answer about its own descriptor and
\* while it is registered, and a trigger calls each subscriber once, whatever callbacks do.
THEOREM WhatIsCalledIsRight == Spec => CallsAreRight
  BY OnlyTheLiveAreCalled, EverySubscriberIsCalledOnce DEF CallsAreRight
=============================================================================
