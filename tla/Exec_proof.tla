----------------------------- MODULE Exec_proof -----------------------------
(* Proofs about the exec plugin: its types, that a semaphore keeps a text   *)
(* whole where there is one and no wait is interrupted, that what a widget  *)
(* shows of a command gets no older, and that a command has one thread      *)
(* while the clock is not set back.                                         *)
EXTENDS Exec, TLAPS

USE ExecAssumption

-----------------------------------------------------------------------------
(* Texts, pairs and slots *)

\* Texts and their numbers.
LEMMA TextFacts ==
  /\ Empty \in Texts /\ Number(Empty) = 0
  /\ \A t \in Texts : Number(t) \in 0 .. MaxRuns
  /\ \A c \in Cmds, n \in 1 .. MaxRuns : Output(c, n) \in Texts /\ Number(Output(c, n)) = n
<1>1. Empty \in Texts /\ Number(Empty) = 0
  BY DEF Empty, Texts, Number
<1>2. \A c \in Cmds, n \in 1 .. MaxRuns : Output(c, n) \in Texts /\ Number(Output(c, n)) = n
  BY DEF Texts, Number, Output
<1>3. ASSUME NEW t \in Texts PROVE Number(t) \in 0 .. MaxRuns
  <2>1. t = Empty \/ \E c \in Cmds, n \in 1 .. MaxRuns : t = Output(c, n)
    BY DEF Texts
  <2> QED
    BY <1>1, <1>2, <2>1
<1> QED
  BY <1>1, <1>2, <1>3

\* A pair of texts is not Missing, and has two halves that are replaced one by one.
LEMMA PairFacts ==
  ASSUME NEW r \in Texts \X Texts, NEW t \in Texts
  PROVE  /\ r[1] \in Texts /\ r[2] \in Texts /\ r # Missing
         /\ <<r[1], t>> \in Texts \X Texts /\ <<t, r[2]>> \in Texts \X Texts
         /\ [r EXCEPT ![1] = t] = <<t, r[2]>>
         /\ [r EXCEPT ![2] = t] = <<r[1], t>>
<1>1. PICK a \in Texts, b \in Texts : r = <<a, b>>
  OBVIOUS
<1>2. r[1] = a /\ r[2] = b
  BY <1>1
<1>3. r # Missing
  <2>1. DOMAIN r = {1, 2} /\ DOMAIN Missing = {}
    BY <1>1 DEF Missing
  <2> QED
    BY <2>1
<1>4. [r EXCEPT ![1] = t] = <<t, b>> /\ [r EXCEPT ![2] = t] = <<a, t>>
  BY <1>1
<1> QED
  BY <1>2, <1>3, <1>4

Places == {"run", "lock", "write", "write2", "dead"}

SemType == Nat \union {NoMutex}

SlotType ==
  [key : Cmds, sem : SemType, ret : Texts \X Texts, buffer : Texts, runs : 0 .. MaxRuns, pc : Places]

\* The types, with no bound on a semaphore.
TypeInv ==
  /\ EXEC \in [Cmds -> {Missing} \union (Texts \X Texts)]
  /\ Thread \in Seq(SlotType) /\ Len(Thread) <= NUM_THREADS
  /\ main \in {"idle", "lock", "copy", "copy2", "exited", "undefined"}
  /\ half \in Texts
  /\ main \in {"lock", "copy", "copy2"} => slot \in Slots
  /\ killed \in BOOLEAN
  /\ sets \in Nat /\ failures \in Nat /\ signals \in Nat

\* A slot is replaced and the others stay.
LEMMA SlotReplaced ==
  ASSUME Thread \in Seq(SlotType), NEW s \in Slots, NEW new \in SlotType,
         Thread' = [Thread EXCEPT ![s] = new]
  PROVE  /\ Thread' \in Seq(SlotType) /\ Len(Thread') = Len(Thread) /\ Slots' = Slots
         /\ Thread'[s] = new
         /\ \A r \in Slots \ {s} : Thread'[r] = Thread[r]
  BY DEF Slots

\* The slots are numbered from 1 and have their type.
LEMMA SlotFacts ==
  ASSUME Thread \in Seq(SlotType)
  PROVE  /\ Slots = 1 .. Len(Thread) /\ Len(Thread) \in Nat
         /\ \A s \in Slots : Thread[s] \in SlotType
  BY DEF Slots

\* A new slot has its type.
LEMMA NewSlot ==
  ASSUME NEW c \in Cmds, NEW sem \in {1, NoMutex}
  PROVE  Slot(c, sem) \in SlotType
  BY TextFacts DEF Slot, SlotType, SemType, Places

\* It comes behind the others.
LEMMA SlotAppended ==
  ASSUME Thread \in Seq(SlotType), NEW new \in SlotType, Thread' = Append(Thread, new)
  PROVE  /\ Thread' \in Seq(SlotType) /\ Len(Thread') = Len(Thread) + 1
         /\ Slots' = Slots \union {Len(Thread) + 1}
         /\ Thread'[Len(Thread) + 1] = new
         /\ \A r \in Slots : Thread'[r] = Thread[r]
  BY DEF Slots

\* The processes of all slots are killed.
LEMMA SlotsKilled ==
  ASSUME Thread \in Seq(SlotType), Thread' = [s \in Slots |-> [Thread[s] EXCEPT !.pc = "dead"]]
  PROVE  /\ Thread' \in Seq(SlotType) /\ Len(Thread') = Len(Thread) /\ Slots' = Slots
         /\ \A s \in Slots : Thread'[s] = [Thread[s] EXCEPT !.pc = "dead"]
<1>1. \A s \in Slots : [Thread[s] EXCEPT !.pc = "dead"] \in SlotType
  BY SlotFacts DEF SlotType, Places
<1>2. DOMAIN Thread' = 1 .. Len(Thread) /\ Len(Thread) \in Nat
  BY SlotFacts
<1>3. Thread' \in [1 .. Len(Thread) -> SlotType]
  BY <1>1, <1>2, SlotFacts
<1>4. Thread' \in Seq(SlotType) /\ Len(Thread') = Len(Thread)
  BY <1>2, <1>3
<1> QED
  BY <1>4, SlotFacts DEF Slots

\* Fields of a slot are replaced by values of their types.
LEMMA FieldsReplaced ==
  ASSUME NEW r \in SlotType, NEW p \in Places, NEW n \in SemType, NEW t \in Texts \X Texts,
         NEW b \in Texts, NEW k \in 0 .. MaxRuns
  PROVE  /\ [r EXCEPT !.pc = p, !.runs = k, !.buffer = b] \in SlotType
         /\ [r EXCEPT !.pc = p, !.ret = t] \in SlotType
         /\ [r EXCEPT !.pc = p, !.ret = t, !.sem = n] \in SlotType
         /\ [r EXCEPT !.pc = p, !.sem = n] \in SlotType
         /\ [r EXCEPT !.sem = n] \in SlotType
  BY DEF SlotType

-----------------------------------------------------------------------------
(* What the steps do *)

\* A wait for the semaphore takes one from it, or a signal ends it, if there is a semaphore.
LEMMA LockFacts ==
  ASSUME TypeInv, NEW s \in Slots, mutex_lock(s)
  PROVE  /\ signals' \in Nat /\ Taken(s) \in SemType /\ signals <= signals'
         /\ Taken(s) # NoMutex =>
              Thread[s].sem # NoMutex /\ Taken(s) + 1 - signals' = Thread[s].sem - signals
         /\ Thread[s].sem = NoMutex => Taken(s) = NoMutex
<1>1. Thread[s].sem \in SemType /\ signals \in Nat
  BY SlotFacts DEF TypeInv, SlotType
<1> QED
  BY <1>1 DEF mutex_lock, Taken, SemType, NoMutex

\* One is given back, if there is a semaphore.
LEMMA ReturnFacts ==
  ASSUME TypeInv, NEW s \in Slots
  PROVE  /\ Returned(s) \in SemType
         /\ Returned(s) # NoMutex => Thread[s].sem # NoMutex /\ Returned(s) = Thread[s].sem + 1
         /\ Thread[s].sem = NoMutex => Returned(s) = NoMutex
<1>1. Thread[s].sem \in SemType
  BY SlotFacts DEF TypeInv, SlotType
<1> QED
  BY <1>1 DEF Returned, SemType, NoMutex

\* A run of a command fills the buffer, with its number or with nothing.
LEMMA RunStep ==
  ASSUME TypeInv, NEW s \in Slots, RunCommand(s)
  PROVE  \E out \in Texts :
           /\ [Thread[s] EXCEPT !.pc = "lock", !.runs = @ + 1, !.buffer = out] \in SlotType
           /\ Thread' = [Thread EXCEPT ![s] = [Thread[s] EXCEPT !.pc = "lock", !.runs = @ + 1, !.buffer = out]]
           /\ Number(out) \in {0, Thread[s].runs + 1}
<1>1. Thread[s] \in SlotType
  BY SlotFacts DEF TypeInv
<1>2. Thread[s].runs + 1 \in 1 .. MaxRuns /\ Thread[s].key \in Cmds
  BY <1>1 DEF RunCommand, SlotType
<1>3. PICK out \in {Output(Thread[s].key, Thread[s].runs + 1), Empty} :
        Thread' = [Thread EXCEPT ![s].pc = "lock", ![s].runs = @ + 1, ![s].buffer = out]
  BY DEF RunCommand
<1>4. out \in Texts /\ Number(out) \in {0, Thread[s].runs + 1}
  BY <1>2, TextFacts
<1>5. [Thread[s] EXCEPT !.pc = "lock", !.runs = @ + 1, !.buffer = out] \in SlotType
  <2>1. /\ "lock" \in Places /\ Thread[s].runs + 1 \in 0 .. MaxRuns
        /\ 0 \in SemType /\ <<Empty, Empty>> \in Texts \X Texts
    BY <1>2, TextFacts DEF Places, SemType
  <2> QED
    BY <1>1, <1>4, <2>1, FieldsReplaced
<1>6. Thread' = [Thread EXCEPT ![s] = [Thread[s] EXCEPT !.pc = "lock", !.runs = @ + 1, !.buffer = out]]
  BY <1>3
<1> QED
  BY <1>4, <1>5, <1>6

LEMMA LockStep ==
  ASSUME TypeInv, NEW s \in Slots, ThreadLock(s)
  PROVE  /\ [Thread[s] EXCEPT !.pc = "write", !.sem = Taken(s)] \in SlotType
         /\ Thread' = [Thread EXCEPT ![s] = [Thread[s] EXCEPT !.pc = "write", !.sem = Taken(s)]]
<1>1. Thread[s] \in SlotType
  BY SlotFacts DEF TypeInv
<1>2. Taken(s) \in SemType
  BY LockFacts DEF ThreadLock
<1> DEFINE sem == Taken(s)
<1>3. Thread' = [Thread EXCEPT ![s].pc = "write", ![s].sem = sem]
  BY DEF ThreadLock
<1> HIDE DEF sem
<1>4. sem \in SemType
  BY <1>2 DEF sem
<1>5. /\ [Thread[s] EXCEPT !.pc = "write", !.sem = sem] \in SlotType
      /\ Thread' = [Thread EXCEPT ![s] = [Thread[s] EXCEPT !.pc = "write", !.sem = sem]]
  BY <1>1, <1>3, <1>4 DEF SlotType, Places
<1> QED
  BY <1>5 DEF sem

LEMMA WriteStep ==
  ASSUME TypeInv, NEW s \in Slots, ThreadWrite(s)
  PROVE  /\ [Thread[s] EXCEPT !.pc = "write2", !.ret = <<Thread[s].buffer, Thread[s].ret[2]>>] \in SlotType
         /\ Thread' = [Thread EXCEPT ![s] =
                         [Thread[s] EXCEPT !.pc = "write2", !.ret = <<Thread[s].buffer, Thread[s].ret[2]>>]]
<1>1. Thread[s] \in SlotType
  BY SlotFacts DEF TypeInv
<1>2. /\ <<Thread[s].buffer, Thread[s].ret[2]>> \in Texts \X Texts
      /\ [Thread[s].ret EXCEPT ![1] = Thread[s].buffer] = <<Thread[s].buffer, Thread[s].ret[2]>>
  BY <1>1, PairFacts DEF SlotType
<1>3. Thread' = [Thread EXCEPT ![s] =
                  [Thread[s] EXCEPT !.pc = "write2", !.ret = [Thread[s].ret EXCEPT ![1] = Thread[s].buffer]]]
  BY <1>1 DEF ThreadWrite, SlotType
<1> QED
  BY <1>1, <1>2, <1>3 DEF SlotType, Places

LEMMA UnlockStep ==
  ASSUME TypeInv, NEW s \in Slots, ThreadUnlock(s)
  PROVE  /\ [Thread[s] EXCEPT !.pc = "run", !.ret = <<Thread[s].ret[1], Thread[s].buffer>>,
                              !.sem = Returned(s)] \in SlotType
         /\ Thread' = [Thread EXCEPT ![s] =
              [Thread[s] EXCEPT !.pc = "run", !.ret = <<Thread[s].ret[1], Thread[s].buffer>>,
                                !.sem = Returned(s)]]
<1>1. Thread[s] \in SlotType
  BY SlotFacts DEF TypeInv
<1>2. /\ <<Thread[s].ret[1], Thread[s].buffer>> \in Texts \X Texts
      /\ [Thread[s].ret EXCEPT ![2] = Thread[s].buffer] = <<Thread[s].ret[1], Thread[s].buffer>>
  BY <1>1, PairFacts DEF SlotType
<1> DEFINE sem == Returned(s)
<1>3. Thread' = [Thread EXCEPT ![s].pc = "run", ![s].ret[2] = Thread[s].buffer, ![s].sem = sem]
  BY DEF ThreadUnlock
<1>4. sem \in SemType
  BY ReturnFacts
<1> HIDE DEF sem
<1>5. Thread' = [Thread EXCEPT ![s] =
        [Thread[s] EXCEPT !.pc = "run", !.ret = [Thread[s].ret EXCEPT ![2] = Thread[s].buffer], !.sem = sem]]
  BY <1>1, <1>3 DEF SlotType
<1>6. "run" \in Places /\ Thread[s].buffer \in Texts /\ 0 \in 0 .. MaxRuns
  BY <1>1 DEF SlotType, Places
<1>7. [Thread[s] EXCEPT !.pc = "run", !.ret = <<Thread[s].ret[1], Thread[s].buffer>>, !.sem = sem] \in SlotType
  BY <1>1, <1>2, <1>4, <1>6, FieldsReplaced
<1> QED
  BY <1>2, <1>5, <1>7 DEF sem

\* The main process takes a semaphore, or gives it back.
LEMMA MainLockStep ==
  ASSUME TypeInv, MainLock
  PROVE  /\ slot \in Slots /\ [Thread[slot] EXCEPT !.sem = Taken(slot)] \in SlotType
         /\ Thread' = [Thread EXCEPT ![slot] = [Thread[slot] EXCEPT !.sem = Taken(slot)]]
<1>1. slot \in Slots
  BY DEF MainLock, TypeInv
<1>2. Thread[slot] \in SlotType /\ Taken(slot) \in SemType
  BY <1>1, SlotFacts, LockFacts DEF MainLock, TypeInv
<1> DEFINE sem == Taken(slot)
<1>3. Thread' = [Thread EXCEPT ![slot].sem = sem]
  BY DEF MainLock
<1> HIDE DEF sem
<1>4. sem \in SemType
  BY <1>2 DEF sem
<1>5. /\ [Thread[slot] EXCEPT !.sem = sem] \in SlotType
      /\ Thread' = [Thread EXCEPT ![slot] = [Thread[slot] EXCEPT !.sem = sem]]
  BY <1>1, <1>2, <1>3, <1>4 DEF SlotType
<1> QED
  BY <1>1, <1>5 DEF sem

LEMMA MainUnlockStep ==
  ASSUME TypeInv, MainUnlock
  PROVE  /\ slot \in Slots /\ [Thread[slot] EXCEPT !.sem = Returned(slot)] \in SlotType
         /\ Thread' = [Thread EXCEPT ![slot] = [Thread[slot] EXCEPT !.sem = Returned(slot)]]
<1>1. slot \in Slots
  BY DEF MainUnlock, TypeInv
<1>2. Thread[slot] \in SlotType /\ Returned(slot) \in SemType
  BY <1>1, SlotFacts, ReturnFacts DEF TypeInv
<1> DEFINE sem == Returned(slot)
<1>3. Thread' = [Thread EXCEPT ![slot].sem = sem]
  BY DEF MainUnlock
<1> HIDE DEF sem
<1>4. sem \in SemType
  BY <1>2 DEF sem
<1>5. /\ [Thread[slot] EXCEPT !.sem = sem] \in SlotType
      /\ Thread' = [Thread EXCEPT ![slot] = [Thread[slot] EXCEPT !.sem = sem]]
  BY <1>1, <1>2, <1>3, <1>4 DEF SlotType
<1> QED
  BY <1>1, <1>5 DEF sem

LEMMA RemoveStep ==
  ASSUME TypeInv, NEW s \in Slots, SemaphoreRemoved(s)
  PROVE  /\ [Thread[s] EXCEPT !.sem = NoMutex] \in SlotType
         /\ Thread' = [Thread EXCEPT ![s] = [Thread[s] EXCEPT !.sem = NoMutex]]
<1>1. Thread[s] \in SlotType
  BY SlotFacts DEF TypeInv
<1> QED
  BY <1>1 DEF SemaphoreRemoved, SlotType, SemType

\* A call of create_exec_thread adds a slot, or destroys one and kills them all, or ends
\* what is said of the program.
LEMMA CreateStep ==
  ASSUME TypeInv, main = "idle", NEW c \in Cmds, create_exec_thread(c)
  PROVE  \/ /\ \E sem \in {1, NoMutex} : Thread' = Append(Thread, Slot(c, sem))
            /\ Len(Thread) < NUM_THREADS /\ failures' \in Nat
            /\ UNCHANGED <<main, killed>>
         \/ /\ Thread' = [s \in Slots |-> [Thread[s] EXCEPT !.pc = "dead"]]
            /\ failures' = failures + 1 /\ killed' = TRUE /\ UNCHANGED main
         \/ main' = "undefined" /\ UNCHANGED <<Thread, failures, killed>>
  BY DEF create_exec_thread, KillAll, TypeInv

LEMMA EmptyPair == <<Empty, Empty>> \in Texts \X Texts /\ <<Empty, Empty>> # Missing
  BY TextFacts, PairFacts

\* What do_exec has copied is a pair of texts.
LEMMA CopiedType ==
  ASSUME TypeInv, main = "copy2"
  PROVE  /\ slot \in Slots /\ Thread[slot].key \in Cmds
         /\ <<half, Thread[slot].ret[2]>> \in Texts \X Texts
         /\ <<half, Thread[slot].ret[2]>> # Missing
         /\ Copied \in [Cmds -> {Missing} \union (Texts \X Texts)]
<1>1. slot \in Slots
  BY DEF TypeInv
<1>2. Thread[slot].key \in Cmds /\ Thread[slot].ret \in Texts \X Texts
  BY <1>1, SlotFacts DEF TypeInv, SlotType
<1>3. <<half, Thread[slot].ret[2]>> \in Texts \X Texts
  BY <1>2, PairFacts DEF TypeInv
<1>4. <<half, Thread[slot].ret[2]>> # Missing
  BY <1>3, PairFacts, TextFacts
<1> QED
  BY <1>1, <1>2, <1>3, <1>4 DEF Copied, TypeInv

-----------------------------------------------------------------------------
(* Types *)

LEMMA TypeStep == TypeInv /\ [Next]_vars => TypeInv'
<1> SUFFICES ASSUME TypeInv, [Next]_vars PROVE TypeInv'
  OBVIOUS
<1>1. CASE UNCHANGED vars
  BY <1>1 DEF vars, mainVars, envVars, TypeInv, Slots
<1>2. ASSUME NEW s \in Slots, NEW new \in SlotType, Thread' = [Thread EXCEPT ![s] = new],
             UNCHANGED <<EXEC, main, slot, half, sets, killed>>,
             signals' \in Nat, failures' \in Nat
      PROVE  TypeInv'
  BY <1>2, SlotReplaced DEF TypeInv
<1>3. ASSUME NEW s \in Slots, RunCommand(s) PROVE TypeInv'
  BY <1>2, <1>3, RunStep DEF RunCommand, mainVars, envVars, TypeInv
<1>4. ASSUME NEW s \in Slots, ThreadLock(s) PROVE TypeInv'
  BY <1>2, <1>4, LockStep, LockFacts DEF ThreadLock, mainVars, TypeInv
<1>5. ASSUME NEW s \in Slots, ThreadWrite(s) PROVE TypeInv'
  BY <1>2, <1>5, WriteStep DEF ThreadWrite, mainVars, envVars, TypeInv
<1>6. ASSUME NEW s \in Slots, ThreadUnlock(s) PROVE TypeInv'
  BY <1>2, <1>6, UnlockStep DEF ThreadUnlock, mainVars, envVars, TypeInv
<1>7. ASSUME NEW c \in Cmds, FirstCall(c) PROVE TypeInv'
  <2>1. /\ EXEC' \in [Cmds -> {Missing} \union (Texts \X Texts)]
        /\ sets' \in Nat /\ half' \in Texts /\ signals' \in Nat
    BY <1>7, EmptyPair DEF FirstCall, TypeInv
  <2>2. main = "idle" /\ create_exec_thread(c)
    BY <1>7 DEF FirstCall
  <2>3. CASE /\ \E sem \in {1, NoMutex} : Thread' = Append(Thread, Slot(c, sem))
             /\ Len(Thread) < NUM_THREADS /\ failures' \in Nat
             /\ UNCHANGED <<main, killed>>
    <3>1. Thread' \in Seq(SlotType) /\ Len(Thread') = Len(Thread) + 1
      BY <2>3, NewSlot, SlotAppended DEF TypeInv
    <3>2. Len(Thread') <= NUM_THREADS
      BY <2>3, <3>1, SlotFacts DEF TypeInv
    <3> QED
      BY <2>1, <2>2, <2>3, <3>1, <3>2 DEF TypeInv
  <2>4. CASE /\ Thread' = [s \in Slots |-> [Thread[s] EXCEPT !.pc = "dead"]]
             /\ failures' = failures + 1 /\ killed' = TRUE /\ UNCHANGED main
    <3>1. Thread' \in Seq(SlotType) /\ Len(Thread') = Len(Thread)
      BY <2>4, SlotsKilled DEF TypeInv
    <3>2. main' = "idle" /\ failures' \in Nat /\ killed' \in BOOLEAN
      BY <2>2, <2>4 DEF TypeInv
    <3> QED
      BY <2>1, <3>1, <3>2 DEF TypeInv
  <2>5. CASE main' = "undefined" /\ UNCHANGED <<Thread, failures, killed>>
    BY <2>1, <2>5 DEF TypeInv
  <2> QED
    BY <2>2, <2>3, <2>4, <2>5, CreateStep
<1>8. ASSUME NEW c \in Cmds, Reread(c) PROVE TypeInv'
  <2>1. slot' \in Slots /\ Slots' = Slots
    BY <1>8 DEF Reread, FindThread, Slots
  <2> QED
    BY <1>8, <2>1 DEF Reread, envVars, TypeInv
<1>9. CASE MainLock
  <2>1. signals' \in Nat
    BY <1>9, MainLockStep, LockFacts DEF MainLock
  <2> QED
    BY <1>9, <2>1, MainLockStep, SlotReplaced DEF MainLock, TypeInv
<1>10. CASE MainCopy
  <2>1. slot \in Slots /\ Slots' = Slots
    BY <1>10 DEF MainCopy, TypeInv, Slots
  <2>2. Thread[slot].ret[1] \in Texts
    BY <2>1, SlotFacts, PairFacts, TextFacts DEF TypeInv, SlotType
  <2> QED
    BY <1>10, <2>1, <2>2 DEF MainCopy, envVars, TypeInv
<1>11. CASE MainUnlock
  BY <1>11, MainUnlockStep, SlotReplaced, CopiedType, TextFacts DEF MainUnlock, envVars, TypeInv
<1>12. CASE plugin_exit_exec
  BY <1>12, SlotsKilled DEF plugin_exit_exec, envVars, TypeInv
<1>13. ASSUME NEW s \in Slots, SemaphoreRemoved(s) PROVE TypeInv'
  <2>1. UNCHANGED <<EXEC, main, slot, half, sets, signals, killed>> /\ failures' = failures + 1
    BY <1>13 DEF SemaphoreRemoved, mainVars
  <2>2. failures' \in Nat /\ signals' \in Nat
    BY <2>1 DEF TypeInv
  <2> QED
    BY <1>2, <1>13, <2>1, <2>2, RemoveStep
<1> QED
  BY <1>1, <1>3, <1>4, <1>5, <1>6, <1>7, <1>8, <1>9, <1>10, <1>11, <1>12, <1>13 DEF Next, InThread, InMain

LEMMA InitType == Init => TypeInv
<1> SUFFICES ASSUME Init PROVE TypeInv
  OBVIOUS
<1>1. EXEC \in [Cmds -> {Missing} \union (Texts \X Texts)]
  BY DEF Init
<1>2. Thread \in Seq(SlotType) /\ Len(Thread) <= NUM_THREADS
  BY DEF Init
<1>3. main = "idle" /\ half \in Texts /\ killed \in BOOLEAN
  BY TextFacts DEF Init
<1>4. sets \in Nat /\ failures \in Nat /\ signals \in Nat
  BY DEF Init
<1> QED
  BY <1>1, <1>2, <1>3, <1>4 DEF TypeInv

-----------------------------------------------------------------------------
(* A semaphore and those who have taken it count 1, and 1 more for each wait that a *)
(* signal ended: without such waits one at most has it.  A process that was killed   *)
(* between the halves of a text still has it.                                        *)

Whole(t) ==
  /\ t.pc \in {"run", "lock", "write"} => t.ret[1] = t.ret[2]
  /\ t.pc = "write2" => t.ret[1] = t.buffer

Inside(t) ==
  IF t.pc \in {"write", "write2"} \/ (t.pc = "dead" /\ t.ret[1] # t.ret[2]) THEN 1 ELSE 0

Copying(s) == IF main \in {"copy", "copy2"} /\ slot = s THEN 1 ELSE 0

Balance ==
  \A s \in Slots :
    /\ Whole(Thread[s])
    /\ Thread[s].sem # NoMutex => Thread[s].sem + Inside(Thread[s]) + Copying(s) <= 1 + signals

LEMMA BalanceStep == TypeInv /\ Balance /\ [Next]_vars => Balance'
<1> SUFFICES ASSUME TypeInv, Balance, [Next]_vars PROVE Balance'
  OBVIOUS
<1>0. /\ \A s \in Slots : Thread[s] \in SlotType /\ Thread[s].sem \in Int /\ Whole(Thread[s])
      /\ \A s \in Slots : Inside(Thread[s]) \in {0, 1} /\ Copying(s) \in {0, 1}
      /\ signals \in Nat
  BY SlotFacts DEF TypeInv, SlotType, SemType, NoMutex, Inside, Copying, Balance
<1>1. CASE UNCHANGED vars
  BY <1>1 DEF vars, mainVars, envVars, Balance, Copying, Slots
<1>2. ASSUME NEW s \in Slots, NEW new \in SlotType, Thread' = [Thread EXCEPT ![s] = new],
             signals' \in Nat, signals <= signals',
             \A r \in Slots \ {s} : Copying(r)' <= Copying(r), Whole(new),
             new.sem # NoMutex =>
               /\ Thread[s].sem # NoMutex
               /\ new.sem + Inside(new) + Copying(s)' - signals'
                    <= Thread[s].sem + Inside(Thread[s]) + Copying(s) - signals
      PROVE  Balance'
  <2>1. /\ Slots' = Slots /\ Thread'[s] = new
        /\ \A r \in Slots \ {s} : Thread'[r] = Thread[r]
    BY <1>2, SlotReplaced DEF TypeInv
  <2>2. new.sem \in Int /\ Inside(new) \in {0, 1} /\ \A r \in Slots : Copying(r)' \in {0, 1}
    BY DEF SlotType, SemType, NoMutex, Inside, Copying
  <2>3. new.sem # NoMutex => new.sem + Inside(new) + Copying(s)' <= 1 + signals'
    BY <1>0, <1>2, <2>2 DEF Balance
  <2>4. ASSUME NEW r \in Slots \ {s}, Thread[r].sem # NoMutex
        PROVE  Thread[r].sem + Inside(Thread[r]) + Copying(r)' <= 1 + signals'
    <3>1. Thread[r].sem + Inside(Thread[r]) + Copying(r) <= 1 + signals
      BY <2>4 DEF Balance
    <3>2. Copying(r)' <= Copying(r) /\ Copying(r)' \in {0, 1} /\ Copying(r) \in {0, 1}
      BY <1>0, <1>2, <2>2
    <3>3. Inside(Thread[r]) \in {0, 1} /\ Thread[r].sem \in Int /\ signals \in Nat
      BY <1>0
    <3> QED
      BY <1>2, <3>1, <3>2, <3>3
  <2> QED
    BY <1>0, <1>2, <2>1, <2>3, <2>4 DEF Balance, Inside, Whole
<1>d. ASSUME Thread' = [s \in Slots |-> [Thread[s] EXCEPT !.pc = "dead"]],
             UNCHANGED signals, \A r : Copying(r)' = 0
      PROVE  Balance'
  <2>1. Slots' = Slots /\ \A s \in Slots : Thread'[s] = [Thread[s] EXCEPT !.pc = "dead"]
    BY <1>d, SlotsKilled DEF TypeInv
  <2>2. ASSUME NEW s \in Slots
        PROVE  /\ Thread'[s].sem = Thread[s].sem /\ Inside(Thread'[s]) <= Inside(Thread[s])
               /\ Whole(Thread'[s]) /\ Inside(Thread'[s]) \in {0, 1}
    <3>1. /\ Thread'[s].pc = "dead" /\ Thread'[s].sem = Thread[s].sem
          /\ Thread'[s].ret = Thread[s].ret /\ Thread[s].pc \in Places
      BY <1>0, <2>1 DEF SlotType
    <3> QED
      BY <1>0, <3>1 DEF Inside, Whole, Places
  <2> QED
    BY <1>0, <1>d, <2>1, <2>2 DEF Balance, Inside, Whole
<1>3. ASSUME NEW s \in Slots, RunCommand(s) PROVE Balance'
  <2>1. UNCHANGED <<main, slot, signals>> /\ Thread[s].pc = "run"
    BY <1>3 DEF RunCommand, mainVars, envVars
  <2>2. PICK out \in Texts :
          /\ [Thread[s] EXCEPT !.pc = "lock", !.runs = @ + 1, !.buffer = out] \in SlotType
          /\ Thread' = [Thread EXCEPT ![s] = [Thread[s] EXCEPT !.pc = "lock", !.runs = @ + 1, !.buffer = out]]
    BY <1>3, RunStep
  <2> DEFINE new == [Thread[s] EXCEPT !.pc = "lock", !.runs = @ + 1, !.buffer = out]
  <2>3. /\ new.sem = Thread[s].sem /\ Inside(new) = 0 /\ Inside(Thread[s]) = 0
        /\ Whole(new)
    BY <1>0, <2>1 DEF Inside, Whole, SlotType
  <2>4. Copying(s)' = Copying(s) /\ \A r \in Slots \ {s} : Copying(r)' <= Copying(r)
    BY <1>0, <2>1 DEF Copying
  <2>5. new \in SlotType /\ Thread' = [Thread EXCEPT ![s] = new]
    BY <2>2
  <2> HIDE DEF new
  <2>6. new.sem # NoMutex =>
          /\ Thread[s].sem # NoMutex
          /\ new.sem + Inside(new) + Copying(s)' - signals'
               <= Thread[s].sem + Inside(Thread[s]) + Copying(s) - signals
    BY <1>0, <2>1, <2>3, <2>4, <2>5
  <2>7. signals' \in Nat /\ signals <= signals'
    BY <1>0, <2>1, <2>3, <2>4, <2>5
  <2> QED
    BY <1>2, <2>3, <2>4, <2>5, <2>6, <2>7
<1>4. ASSUME NEW s \in Slots, ThreadLock(s) PROVE Balance'
  <2> DEFINE new == [Thread[s] EXCEPT !.pc = "write", !.sem = Taken(s)]
  <2>1. UNCHANGED <<main, slot>> /\ Thread[s].pc = "lock"
    BY <1>4 DEF ThreadLock, mainVars
  <2>2. new \in SlotType /\ Thread' = [Thread EXCEPT ![s] = new]
    BY <1>4, LockStep
  <2>3. /\ new.sem = Taken(s) /\ Inside(new) = 1 /\ Inside(Thread[s]) = 0
        /\ Whole(new)
    BY <1>0, <2>1 DEF Inside, Whole, SlotType
  <2>4. /\ Taken(s) \in Int /\ signals' \in Nat /\ signals <= signals'
        /\ Taken(s) # NoMutex =>
             Thread[s].sem # NoMutex /\ Taken(s) + 1 - signals' = Thread[s].sem - signals
    BY <1>4, LockFacts DEF ThreadLock, SemType, NoMutex
  <2>5. Copying(s)' = Copying(s) /\ \A r \in Slots \ {s} : Copying(r)' <= Copying(r)
    BY <1>0, <2>1 DEF Copying
  <2> HIDE DEF new
  <2>6. new.sem # NoMutex =>
          /\ Thread[s].sem # NoMutex
          /\ new.sem + Inside(new) + Copying(s)' - signals'
               <= Thread[s].sem + Inside(Thread[s]) + Copying(s) - signals
    BY <1>0, <2>2, <2>3, <2>4, <2>5
  <2>7. signals' \in Nat /\ signals <= signals'
    BY <1>0, <2>2, <2>3, <2>4, <2>5
  <2> QED
    BY <1>2, <2>2, <2>3, <2>4, <2>5, <2>6, <2>7
<1>5. ASSUME NEW s \in Slots, ThreadWrite(s) PROVE Balance'
  <2> DEFINE new == [Thread[s] EXCEPT !.pc = "write2", !.ret = <<Thread[s].buffer, Thread[s].ret[2]>>]
  <2>1. UNCHANGED <<main, slot, signals>> /\ Thread[s].pc = "write"
    BY <1>5 DEF ThreadWrite, mainVars, envVars
  <2>2. new \in SlotType /\ Thread' = [Thread EXCEPT ![s] = new]
    BY <1>5, WriteStep
  <2>3. /\ new.sem = Thread[s].sem /\ Inside(new) = 1 /\ Inside(Thread[s]) = 1
        /\ Whole(new)
    BY <1>0, <2>1 DEF Inside, Whole, SlotType
  <2>4. Copying(s)' = Copying(s) /\ \A r \in Slots \ {s} : Copying(r)' <= Copying(r)
    BY <1>0, <2>1 DEF Copying
  <2> HIDE DEF new
  <2>6. new.sem # NoMutex =>
          /\ Thread[s].sem # NoMutex
          /\ new.sem + Inside(new) + Copying(s)' - signals'
               <= Thread[s].sem + Inside(Thread[s]) + Copying(s) - signals
    BY <1>0, <2>1, <2>2, <2>3, <2>4
  <2>7. signals' \in Nat /\ signals <= signals'
    BY <1>0, <2>1, <2>2, <2>3, <2>4
  <2> QED
    BY <1>2, <2>2, <2>3, <2>4, <2>6, <2>7
<1>6. ASSUME NEW s \in Slots, ThreadUnlock(s) PROVE Balance'
  <2> DEFINE new == [Thread[s] EXCEPT !.pc = "run", !.ret = <<Thread[s].ret[1], Thread[s].buffer>>,
                                       !.sem = Returned(s)]
  <2>1. UNCHANGED <<main, slot, signals>> /\ Thread[s].pc = "write2"
    BY <1>6 DEF ThreadUnlock, mainVars, envVars
  <2>2. new \in SlotType /\ Thread' = [Thread EXCEPT ![s] = new]
    BY <1>6, UnlockStep
  <2>3. /\ new.sem = Returned(s) /\ Inside(new) = 0 /\ Inside(Thread[s]) = 1
        /\ Whole(new)
    BY <1>0, <2>1 DEF Inside, Whole, SlotType
  <2>5. /\ Returned(s) \in Int
        /\ Returned(s) # NoMutex => Thread[s].sem # NoMutex /\ Returned(s) = Thread[s].sem + 1
    BY <1>0, ReturnFacts DEF SemType, NoMutex
  <2>4. Copying(s)' = Copying(s) /\ \A r \in Slots \ {s} : Copying(r)' <= Copying(r)
    BY <1>0, <2>1 DEF Copying
  <2> HIDE DEF new
  <2>6. new.sem # NoMutex =>
          /\ Thread[s].sem # NoMutex
          /\ new.sem + Inside(new) + Copying(s)' - signals'
               <= Thread[s].sem + Inside(Thread[s]) + Copying(s) - signals
    BY <1>0, <2>1, <2>2, <2>3, <2>4, <2>5
  <2>7. signals' \in Nat /\ signals <= signals'
    BY <1>0, <2>1, <2>2, <2>3, <2>4
  <2> QED
    BY <1>2, <2>2, <2>3, <2>4, <2>6, <2>7
<1>7. ASSUME NEW c \in Cmds, FirstCall(c) PROVE Balance'
  <2>1. /\ main = "idle" /\ main' \notin {"copy", "copy2"} /\ create_exec_thread(c)
        /\ signals' = signals
    BY <1>7, CreateStep DEF FirstCall
  <2>2. \A r : Copying(r)' = 0
    BY <2>1 DEF Copying
  <2>3. ASSUME NEW sem \in {1, NoMutex}, Thread' = Append(Thread, Slot(c, sem)) PROVE Balance'
    <3>1. /\ Slot(c, sem).sem \in {1, NoMutex} /\ Inside(Slot(c, sem)) = 0
          /\ Whole(Slot(c, sem))
      BY DEF Slot, Inside, Whole
    <3>2. ASSUME NEW r \in Slots'
          PROVE  /\ Whole(Thread'[r])
                 /\ Thread'[r].sem # NoMutex =>
                      Thread'[r].sem + Inside(Thread'[r]) + Copying(r)' <= 1 + signals'
      <4>1. r \in Slots => Thread'[r] = Thread[r]
        BY <2>3, NewSlot, SlotAppended DEF TypeInv
      <4>2. r \notin Slots => Thread'[r] = Slot(c, sem)
        BY <2>3, NewSlot, SlotAppended DEF TypeInv
      <4>3. CASE r \in Slots
        BY <1>0, <2>1, <2>2, <4>1, <4>3 DEF Balance
      <4> QED
        BY <1>0, <2>1, <2>2, <3>1, <4>2, <4>3
    <3> QED
      BY <3>2 DEF Balance, Inside, Whole
  <2>4. CASE Thread' = [s \in Slots |-> [Thread[s] EXCEPT !.pc = "dead"]]
    BY <1>d, <2>1, <2>2, <2>4
  <2>5. CASE UNCHANGED Thread
    BY <1>0, <2>1, <2>2, <2>5 DEF Balance, Slots
  <2> QED
    BY <2>1, <2>3, <2>4, <2>5, CreateStep
<1>8. ASSUME NEW c \in Cmds, Reread(c) PROVE Balance'
  <2>1. main' = "lock" /\ UNCHANGED <<Thread, signals>>
    BY <1>8 DEF Reread, envVars
  <2>2. \A r : Copying(r)' = 0
    BY <2>1 DEF Copying
  <2> QED
    BY <1>0, <2>1, <2>2 DEF Balance, Slots
<1>9. CASE MainLock
  <2> DEFINE new == [Thread[slot] EXCEPT !.sem = Taken(slot)]
  <2>1. main = "lock" /\ main' = "copy" /\ UNCHANGED slot /\ mutex_lock(slot)
    BY <1>9 DEF MainLock
  <2>2. slot \in Slots /\ new \in SlotType /\ Thread' = [Thread EXCEPT ![slot] = new]
    BY <1>9, MainLockStep
  <2>3. /\ new.sem = Taken(slot) /\ Inside(new) = Inside(Thread[slot])
        /\ Whole(new)
    BY <1>0, <2>2 DEF Inside, Whole, SlotType
  <2>4. /\ Taken(slot) \in Int /\ signals' \in Nat /\ signals <= signals'
        /\ Taken(slot) # NoMutex =>
             Thread[slot].sem # NoMutex /\ Taken(slot) + 1 - signals' = Thread[slot].sem - signals
    BY <2>1, <2>2, LockFacts DEF SemType, NoMutex
  <2>5. Copying(slot) = 0 /\ Copying(slot)' = 1 /\ \A r \in Slots \ {slot} : Copying(r)' = 0 /\ Copying(r) = 0
    BY <2>1 DEF Copying
  <2> HIDE DEF new
  <2>6. \A r \in Slots \ {slot} : Copying(r)' <= Copying(r)
    BY <2>5
  <2>7. new.sem # NoMutex =>
          /\ Thread[slot].sem # NoMutex
          /\ new.sem + Inside(new) + Copying(slot)' - signals'
               <= Thread[slot].sem + Inside(Thread[slot]) + Copying(slot) - signals
    BY <1>0, <2>2, <2>3, <2>4, <2>5
  <2>8. ASSUME NEW s \in Slots, s = slot PROVE Balance'
    BY <1>2, <2>1, <2>2, <2>3, <2>4, <2>6, <2>7, <2>8
  <2> QED
    BY <2>2, <2>8
<1>10. CASE MainCopy
  <2>1. UNCHANGED <<Thread, slot, signals>> /\ main = "copy" /\ main' = "copy2"
    BY <1>10 DEF MainCopy, envVars
  <2>2. \A r : Copying(r)' = Copying(r)
    BY <2>1 DEF Copying
  <2> QED
    BY <2>1, <2>2 DEF Balance, Slots
<1>11. CASE MainUnlock
  <2> DEFINE new == [Thread[slot] EXCEPT !.sem = Returned(slot)]
  <2>1. main = "copy2" /\ main' = "idle" /\ UNCHANGED signals
    BY <1>11 DEF MainUnlock, envVars
  <2>2. slot \in Slots /\ new \in SlotType /\ Thread' = [Thread EXCEPT ![slot] = new]
    BY <1>11, MainUnlockStep
  <2>3. /\ new.sem = Returned(slot) /\ Inside(new) = Inside(Thread[slot])
        /\ Whole(new)
    BY <1>0, <2>2 DEF Inside, Whole, SlotType
  <2>9. /\ Returned(slot) \in Int
        /\ Returned(slot) # NoMutex =>
             Thread[slot].sem # NoMutex /\ Returned(slot) = Thread[slot].sem + 1
    BY <1>0, <2>2, ReturnFacts DEF SemType, NoMutex
  <2>4. Copying(slot) = 1 /\ \A r : Copying(r)' = 0
    BY <2>1 DEF Copying
  <2> HIDE DEF new
  <2>5. PICK s \in Slots : s = slot
    BY <2>2
  <2>6. /\ Thread' = [Thread EXCEPT ![s] = new] /\ Copying(s) = 1 /\ Copying(s)' = 0
        /\ \A r \in Slots \ {s} : Copying(r)' <= Copying(r)
    BY <1>0, <2>2, <2>4, <2>5
  <2>7. new.sem # NoMutex =>
          /\ Thread[s].sem # NoMutex
          /\ new.sem + Inside(new) + Copying(s)' - signals'
               <= Thread[s].sem + Inside(Thread[s]) + Copying(s) - signals
    BY <1>0, <2>1, <2>3, <2>5, <2>6, <2>9
  <2>8. signals' \in Nat /\ signals <= signals'
    BY <1>0, <2>1
  <2> QED
    BY <1>2, <2>2, <2>3, <2>6, <2>7, <2>8
<1>12. CASE plugin_exit_exec
  <2>1. /\ main' = "exited" /\ UNCHANGED signals
        /\ Thread' = [s \in Slots |-> [Thread[s] EXCEPT !.pc = "dead"]]
    BY <1>12 DEF plugin_exit_exec, envVars
  <2>2. \A r : Copying(r)' = 0
    BY <2>1 DEF Copying
  <2> QED
    BY <1>d, <2>1, <2>2
<1>13. ASSUME NEW s \in Slots, SemaphoreRemoved(s) PROVE Balance'
  <2> DEFINE new == [Thread[s] EXCEPT !.sem = NoMutex]
  <2>1. UNCHANGED <<main, slot, signals>>
    BY <1>13 DEF SemaphoreRemoved, mainVars, envVars
  <2>2. new \in SlotType /\ Thread' = [Thread EXCEPT ![s] = new]
    BY <1>13, RemoveStep
  <2>3. new.sem = NoMutex /\ Whole(new)
    BY <1>0 DEF Whole, SlotType
  <2>4. \A r \in Slots : Copying(r)' <= Copying(r)
    BY <1>0, <2>1 DEF Copying
  <2> HIDE DEF new
  <2>5. signals' \in Nat /\ signals <= signals'
    BY <1>0, <2>1
  <2> QED
    BY <1>2, <2>2, <2>3, <2>4, <2>5
<1> QED
  BY <1>1, <1>3, <1>4, <1>5, <1>6, <1>7, <1>8, <1>9, <1>10, <1>11, <1>12, <1>13 DEF Next, InThread, InMain

LEMMA TypesFollow == TypeInv /\ Balance => TypeOK
<1> SUFFICES ASSUME TypeInv, Balance PROVE TypeOK
  OBVIOUS
<1>1. ASSUME NEW s \in Slots
      PROVE  Thread[s] \in [key : Cmds, sem : NoMutex .. 1 + signals, ret : Texts \X Texts,
                            buffer : Texts, runs : 0 .. MaxRuns,
                            pc : {"run", "lock", "write", "write2", "dead"}]
  <2>1. Thread[s] \in SlotType /\ Thread[s].sem \in SemType
    BY SlotFacts DEF TypeInv, SlotType
  <2>2. Inside(Thread[s]) \in {0, 1} /\ Copying(s) \in {0, 1} /\ signals \in Nat
    BY DEF Inside, Copying, TypeInv
  <2>3. Thread[s].sem \in NoMutex .. 1 + signals
    BY <2>1, <2>2 DEF Balance, SemType, NoMutex
  <2> QED
    BY <2>1, <2>3 DEF SlotType, Places
<1> QED
  BY <1>1 DEF TypeOK, TypeInv

\* The types of the variables are kept, and no semaphore counts more than its initial 1
\* and the waits that were interrupted: of two that call mutex_lock on it one waits.
THEOREM TypeCorrect == Spec => []TypeOK
<1>1. Init => TypeInv /\ Balance
  BY InitType DEF Init, Balance, Slots
<1>2. (TypeInv /\ Balance) /\ [Next]_vars => (TypeInv /\ Balance)'
  BY TypeStep, BalanceStep
<1> QED
  BY <1>1, <1>2, TypesFollow, PTL DEF Spec

-----------------------------------------------------------------------------
(* What each step leaves of the slots: their keys, and that runs and outputs go on. *)

Filled(t) ==
  /\ Number(t.ret[1]) <= t.runs
  /\ t.pc \in {"lock", "write", "write2"} => Number(t.buffer) \in {0, t.runs}

Onward(t, new) ==
  /\ new.key = t.key /\ t.runs <= new.runs
  /\ t.sem = NoMutex => new.sem = NoMutex
  /\ new.ret[1] = t.ret[1] \/ (new.ret[1] = t.buffer /\ t.pc = "write")
  /\ Filled(t) => Filled(new)

LEMMA SlotsGoOnward ==
  ASSUME TypeInv, [Next]_vars
  PROVE  /\ \A s \in Slots : s \in Slots' /\ Onward(Thread[s], Thread'[s])
         /\ \A s \in Slots' : s \notin Slots =>
              \E c \in Cmds, sem \in {1, NoMutex} :
                FirstCall(c) /\ s = Len(Thread) + 1 /\ Thread'[s] = Slot(c, sem)
<1> DEFINE Goal == /\ \A s \in Slots : s \in Slots' /\ Onward(Thread[s], Thread'[s])
                   /\ \A s \in Slots' : s \notin Slots =>
                        \E c \in Cmds, sem \in {1, NoMutex} :
                          FirstCall(c) /\ s = Len(Thread) + 1 /\ Thread'[s] = Slot(c, sem)
<1>0. \A s \in Slots : Thread[s] \in SlotType /\ Thread[s].runs \in Nat
  BY SlotFacts DEF TypeInv, SlotType
<1>a. \A s \in Slots : Onward(Thread[s], Thread[s])
  BY <1>0 DEF Onward
<1>b. UNCHANGED Thread => Goal
  BY <1>a DEF Slots
<1>c. ASSUME NEW s \in Slots, NEW new \in SlotType, Thread' = [Thread EXCEPT ![s] = new],
             Onward(Thread[s], new)
      PROVE  Goal
  BY <1>c, <1>a, SlotReplaced DEF TypeInv
<1>d. Thread' = [s \in Slots |-> [Thread[s] EXCEPT !.pc = "dead"]] => Goal
  <2> SUFFICES ASSUME Thread' = [s \in Slots |-> [Thread[s] EXCEPT !.pc = "dead"]] PROVE Goal
    OBVIOUS
  <2>1. Slots' = Slots /\ \A s \in Slots : Thread'[s] = [Thread[s] EXCEPT !.pc = "dead"]
    BY SlotsKilled DEF TypeInv
  <2>2. \A s \in Slots : /\ Thread'[s].pc = "dead" /\ Thread'[s].key = Thread[s].key
                         /\ Thread'[s].runs = Thread[s].runs /\ Thread'[s].ret = Thread[s].ret
                         /\ Thread'[s].sem = Thread[s].sem
    BY <1>0, <2>1 DEF SlotType
  <2>3. \A s \in Slots : Onward(Thread[s], Thread'[s])
    BY <1>0, <2>2 DEF Onward, Filled
  <2> QED
    BY <2>1, <2>3
<1> SUFFICES Goal
  OBVIOUS
<1> HIDE DEF Goal
<1>1. CASE UNCHANGED vars
  BY <1>1, <1>b DEF vars
<1>3. ASSUME NEW s \in Slots, RunCommand(s) PROVE Goal
  <2>1. PICK out \in Texts :
          /\ [Thread[s] EXCEPT !.pc = "lock", !.runs = @ + 1, !.buffer = out] \in SlotType
          /\ Thread' = [Thread EXCEPT ![s] = [Thread[s] EXCEPT !.pc = "lock", !.runs = @ + 1, !.buffer = out]]
          /\ Number(out) \in {0, Thread[s].runs + 1}
    BY <1>3, RunStep
  <2> DEFINE new == [Thread[s] EXCEPT !.pc = "lock", !.runs = @ + 1, !.buffer = out]
  <2>2. /\ new.key = Thread[s].key /\ new.runs = Thread[s].runs + 1 /\ new.ret = Thread[s].ret
        /\ new.buffer = out /\ new.sem = Thread[s].sem
    BY <1>0 DEF SlotType
  <2>3. new \in SlotType /\ Thread' = [Thread EXCEPT ![s] = new]
    BY <2>1
  <2> HIDE DEF new
  <2>4. Number(Thread[s].ret[1]) \in Nat
    BY <1>0, PairFacts, TextFacts DEF SlotType
  <2>5. Onward(Thread[s], new)
    BY <1>0, <2>1, <2>2, <2>4 DEF Onward, Filled
  <2> QED
    BY <1>c, <2>3, <2>5
<1>4. ASSUME NEW s \in Slots, ThreadLock(s) PROVE Goal
  <2> DEFINE new == [Thread[s] EXCEPT !.pc = "write", !.sem = Taken(s)]
  <2>1. new \in SlotType /\ Thread' = [Thread EXCEPT ![s] = new] /\ Thread[s].pc = "lock"
    BY <1>4, LockStep DEF ThreadLock
  <2>2. /\ new.key = Thread[s].key /\ new.runs = Thread[s].runs /\ new.ret = Thread[s].ret
        /\ new.buffer = Thread[s].buffer /\ new.sem = Taken(s)
        /\ Thread[s].sem = NoMutex => Taken(s) = NoMutex
    BY <1>0, <1>4, LockFacts DEF ThreadLock, SlotType
  <2> HIDE DEF new
  <2>3. Onward(Thread[s], new)
    BY <1>0, <2>1, <2>2 DEF Onward, Filled
  <2> QED
    BY <1>c, <2>1, <2>3
<1>5. ASSUME NEW s \in Slots, ThreadWrite(s) PROVE Goal
  <2> DEFINE new == [Thread[s] EXCEPT !.pc = "write2", !.ret = <<Thread[s].buffer, Thread[s].ret[2]>>]
  <2>1. new \in SlotType /\ Thread' = [Thread EXCEPT ![s] = new] /\ Thread[s].pc = "write"
    BY <1>5, WriteStep DEF ThreadWrite
  <2>2. /\ new.key = Thread[s].key /\ new.runs = Thread[s].runs /\ new.ret[1] = Thread[s].buffer
        /\ new.buffer = Thread[s].buffer /\ new.sem = Thread[s].sem
    BY <1>0 DEF SlotType
  <2> HIDE DEF new
  <2>3. Onward(Thread[s], new)
    BY <1>0, <2>1, <2>2 DEF Onward, Filled
  <2> QED
    BY <1>c, <2>1, <2>3
<1>6. ASSUME NEW s \in Slots, ThreadUnlock(s) PROVE Goal
  <2> DEFINE new == [Thread[s] EXCEPT !.pc = "run", !.ret = <<Thread[s].ret[1], Thread[s].buffer>>,
                                       !.sem = Returned(s)]
  <2>1. new \in SlotType /\ Thread' = [Thread EXCEPT ![s] = new]
    BY <1>6, UnlockStep
  <2>2. /\ new.key = Thread[s].key /\ new.runs = Thread[s].runs /\ new.ret[1] = Thread[s].ret[1]
        /\ new.pc = "run" /\ new.sem = Returned(s)
        /\ Thread[s].sem = NoMutex => Returned(s) = NoMutex
    BY <1>0, ReturnFacts DEF SlotType
  <2> HIDE DEF new
  <2>3. Onward(Thread[s], new)
    BY <1>0, <2>2 DEF Onward, Filled
  <2> QED
    BY <1>c, <2>1, <2>3
<1>7. ASSUME NEW c \in Cmds, FirstCall(c) PROVE Goal
  <2>1. main = "idle" /\ create_exec_thread(c)
    BY <1>7 DEF FirstCall
  <2>2. ASSUME NEW sem \in {1, NoMutex}, Thread' = Append(Thread, Slot(c, sem)) PROVE Goal
    <3>1. /\ Slots' = Slots \union {Len(Thread) + 1} /\ Thread'[Len(Thread) + 1] = Slot(c, sem)
          /\ \A s \in Slots : Thread'[s] = Thread[s]
      BY <2>2, NewSlot, SlotAppended DEF TypeInv
    <3>2. \A s \in Slots : s \in Slots' /\ Onward(Thread[s], Thread'[s])
      BY <1>a, <3>1
    <3> QED
      BY <1>7, <3>1, <3>2 DEF Goal
  <2> QED
    BY <1>b, <1>d, <2>1, <2>2, CreateStep
<1>8. ASSUME NEW c \in Cmds, Reread(c) PROVE Goal
  BY <1>8, <1>b DEF Reread
<1>9. ASSUME NEW s \in Slots, NEW n, Thread[s].sem = NoMutex => n = NoMutex,
             [Thread[s] EXCEPT !.sem = n] \in SlotType,
             Thread' = [Thread EXCEPT ![s] = [Thread[s] EXCEPT !.sem = n]]
      PROVE  Goal
  <2> DEFINE new == [Thread[s] EXCEPT !.sem = n]
  <2>1. /\ new.key = Thread[s].key /\ new.runs = Thread[s].runs /\ new.ret = Thread[s].ret
        /\ new.buffer = Thread[s].buffer /\ new.pc = Thread[s].pc /\ new.sem = n
    BY <1>0 DEF SlotType
  <2>2. new \in SlotType /\ Thread' = [Thread EXCEPT ![s] = new]
    BY <1>9
  <2> HIDE DEF new
  <2>3. Onward(Thread[s], new)
    BY <1>0, <1>9, <2>1 DEF Onward, Filled
  <2> QED
    BY <1>c, <2>2, <2>3
<1>10. CASE MainLock
  BY <1>9, <1>10, MainLockStep, LockFacts DEF MainLock
<1>11. CASE MainCopy
  BY <1>11, <1>b DEF MainCopy
<1>12. CASE MainUnlock
  BY <1>9, <1>12, MainUnlockStep, ReturnFacts
<1>13. CASE plugin_exit_exec
  BY <1>13, <1>d DEF plugin_exit_exec
<1>14. ASSUME NEW s \in Slots, SemaphoreRemoved(s) PROVE Goal
  BY <1>9, <1>14, RemoveStep
<1> QED
  BY <1>1, <1>3, <1>4, <1>5, <1>6, <1>7, <1>8, <1>10, <1>11, <1>12, <1>13, <1>14 DEF Next, InThread, InMain

\* A command that was called stays in the hash until the program ends, and counts as
\* called for the first time again only when the clock was set back.
LEMMA EntriesStay ==
  ASSUME TypeInv, [Next]_vars, main' # "exited"
  PROVE  /\ main # "exited" /\ sets <= sets'
         /\ \A c \in Cmds : EXEC[c] # Missing => EXEC'[c] # Missing
         /\ \A c \in Cmds : FirstCall(c) =>
              EXEC'[c] # Missing /\ (EXEC[c] = Missing \/ sets' = sets + 1)
<1> DEFINE Goal == /\ main # "exited" /\ sets <= sets'
                   /\ \A c \in Cmds : EXEC[c] # Missing => EXEC'[c] # Missing
<1>0. sets \in Nat
  BY DEF TypeInv
<1>1. ASSUME NEW c \in Cmds, FirstCall(c)
      PROVE  /\ Goal
             /\ EXEC'[c] # Missing /\ (EXEC[c] = Missing \/ sets' = sets + 1)
  <2>1. main = "idle" /\ (sets' = sets \/ sets' = sets + 1)
    BY <1>1 DEF FirstCall
  <2>2. EXEC' = [EXEC EXCEPT ![c] = <<Empty, Empty>>] /\ (EXEC[c] = Missing \/ sets' = sets + 1)
    BY <1>1 DEF FirstCall
  <2> QED
    BY <1>0, <2>1, <2>2, EmptyPair DEF TypeInv
<1>2. ASSUME MainUnlock PROVE Goal
  BY <1>0, <1>2, CopiedType DEF MainUnlock, envVars, Copied, TypeInv
<1>3. ASSUME plugin_exit_exec PROVE Goal
  BY <1>3 DEF plugin_exit_exec
<1>4. ASSUME UNCHANGED vars PROVE Goal
  BY <1>0, <1>4 DEF vars, mainVars, envVars
<1>5. ASSUME NEW s \in Slots, InThread(s) \/ SemaphoreRemoved(s) PROVE Goal
  BY <1>0, <1>5 DEF InThread, RunCommand, ThreadLock, ThreadWrite, ThreadUnlock, SemaphoreRemoved,
     mainVars, envVars
<1>6. ASSUME NEW c \in Cmds, Reread(c) PROVE Goal
  BY <1>0, <1>6 DEF Reread, envVars
<1>7. MainLock \/ MainCopy => Goal
  BY <1>0 DEF MainLock, MainCopy, envVars
<1>8. Goal
  BY <1>1, <1>2, <1>3, <1>4, <1>5, <1>6, <1>7 DEF Next, InMain
<1> QED
  BY <1>1, <1>8

-----------------------------------------------------------------------------
(* One thread per command *)

\* As long as the program runs, the commands that have a thread are in the hash.
Known == main # "exited" => \A s \in Slots : EXEC[Thread[s].key] # Missing

LEMMA KnownStep ==
  TypeInv /\ Known /\ OneThreadPerCommand /\ [Next]_vars => Known' /\ OneThreadPerCommand'
<1> SUFFICES ASSUME TypeInv, Known, OneThreadPerCommand, [Next]_vars PROVE Known' /\ OneThreadPerCommand'
  OBVIOUS
<1>0. \A s \in Slots : Thread[s].key \in Cmds
  BY SlotFacts DEF TypeInv, SlotType
<1>1. \A s \in Slots : s \in Slots' /\ Thread'[s].key = Thread[s].key
  BY SlotsGoOnward DEF Onward
<1>2. ASSUME NEW s \in Slots', s \notin Slots
      PROVE  \E c \in Cmds : FirstCall(c) /\ s = Len(Thread) + 1 /\ Thread'[s].key = c
  <2>1. \A c \in Cmds, sem \in {1, NoMutex} : Slot(c, sem).key = c
    BY DEF Slot
  <2> QED
    BY <1>2, <2>1, SlotsGoOnward
<1>3. CASE main' = "exited"
  <2>1. main \in {"idle", "exited"} /\ \A c \in Cmds : ~FirstCall(c)
    <3>1. ASSUME NEW c \in Cmds, FirstCall(c) PROVE FALSE
      <4>1. main = "idle" /\ create_exec_thread(c)
        BY <3>1 DEF FirstCall
      <4> QED
        BY <1>3, <4>1, CreateStep
    <3>2. main \in {"idle", "exited"}
      BY <1>3, <3>1 DEF Next, InThread, RunCommand, ThreadLock, ThreadWrite, ThreadUnlock, SemaphoreRemoved, Reread,
         InMain, MainLock, MainCopy, MainUnlock, plugin_exit_exec, vars, mainVars
    <3> QED
      BY <3>1, <3>2
  <2>2. sets' = sets
    BY <2>1 DEF Next, InThread, RunCommand, ThreadLock, ThreadWrite, ThreadUnlock, SemaphoreRemoved, Reread,
       InMain, MainLock, MainCopy, MainUnlock, plugin_exit_exec, vars, envVars
  <2>3. Slots' \subseteq Slots
    BY <1>2, <2>1
  <2> QED
    BY <1>1, <1>3, <2>2, <2>3 DEF Known, OneThreadPerCommand
<1>4. CASE main' # "exited"
  <2>1. /\ main # "exited" /\ sets <= sets' /\ sets \in Nat
        /\ \A c \in Cmds : EXEC[c] # Missing => EXEC'[c] # Missing
        /\ \A c \in Cmds : FirstCall(c) => EXEC'[c] # Missing /\ (EXEC[c] = Missing \/ sets' = sets + 1)
    BY <1>4, EntriesStay DEF TypeInv
  <2>2. ASSUME NEW s \in Slots' PROVE EXEC'[Thread'[s].key] # Missing
    <3>1. CASE s \in Slots
      BY <1>0, <1>1, <2>1, <3>1 DEF Known
    <3>2. CASE s \notin Slots
      BY <1>2, <2>1, <3>2
    <3> QED
      BY <3>1, <3>2
  <2>3. ASSUME sets' = 0, NEW r \in Slots', NEW s \in Slots', Thread'[r].key = Thread'[s].key PROVE r = s
    <3>1. sets = 0
      BY <2>1, <2>3 DEF TypeInv
    <3>2. ASSUME NEW c \in Cmds, FirstCall(c) PROVE \A q \in Slots : Thread[q].key # c
      BY <2>1, <2>3, <3>1, <3>2 DEF Known
    <3>3. CASE r \in Slots /\ s \in Slots
      BY <1>1, <2>3, <3>1, <3>3 DEF OneThreadPerCommand
    <3>4. CASE r \notin Slots /\ s \notin Slots
      BY <1>2, <3>4
    <3>5. ASSUME NEW p \in Slots, NEW q \in Slots', q \notin Slots PROVE Thread'[p].key # Thread'[q].key
      BY <1>1, <1>2, <3>2, <3>5
    <3> QED
      BY <2>3, <3>3, <3>4, <3>5
  <2> QED
    BY <2>2, <2>3 DEF Known, OneThreadPerCommand
<1> QED
  BY <1>3, <1>4

\* A command has one thread, whatever fails, as long as the clock is not set back: this is
\* what "first-time call: create thread" promises.
THEOREM CommandsHaveOneThread == Spec => []OneThreadPerCommand
<1>1. Init => TypeInv /\ Known /\ OneThreadPerCommand
  BY InitType DEF Init, Known, OneThreadPerCommand, Slots
<1>2. (TypeInv /\ Known /\ OneThreadPerCommand) /\ [Next]_vars
        => (TypeInv /\ Known /\ OneThreadPerCommand)'
  BY TypeStep, KnownStep
<1> QED
  BY <1>1, <1>2, PTL DEF Spec

-----------------------------------------------------------------------------
(* Outputs in their order.  The thread of a command, the first one that has its key, *)
(* writes ever newer outputs, or nothing; what the hash has, and the half that is    *)
(* being copied, is not newer than what the thread has written.                      *)

\* The text x is not newer than what the thread has written.
Reached(x, t) ==
  /\ Number(x) <= t.runs
  /\ Number(t.ret[1]) # 0 => Number(x) <= Number(t.ret[1])

Ordered ==
  /\ \A s \in Slots : Filled(Thread[s])
  /\ \A c \in Cmds : EXEC[c] # Missing =>
       \A s \in FindThread(c) : Reached(EXEC[c][1], Thread[s])
  /\ main \in {"lock", "copy", "copy2"} =>
       slot \in FindThread(Thread[slot].key) /\ EXEC[Thread[slot].key] # Missing
  /\ main = "copy2" =>
       /\ Reached(half, Thread[slot])
       /\ Number(half) # 0 => Number(EXEC[Thread[slot].key][1]) <= Number(half)

\* What a thread has reached stays reached.
LEMMA ReachedStays ==
  ASSUME NEW t \in SlotType, NEW new \in SlotType, Filled(t), Onward(t, new),
         NEW x \in Texts, Reached(x, t)
  PROVE  Reached(x, new)
<1>1. /\ t.runs \in Nat /\ new.runs \in Nat /\ t.ret[1] \in Texts /\ new.ret[1] \in Texts
      /\ t.buffer \in Texts
  BY PairFacts, TextFacts DEF SlotType
<1>2. \A y \in Texts : Number(y) \in Nat
  BY TextFacts
<1> QED
  BY <1>1, <1>2 DEF Onward, Filled, Reached

\* The first thread of a command stays its first thread.
LEMMA FirstThreadStays ==
  ASSUME TypeInv, [Next]_vars, NEW c \in Cmds, NEW s \in Slots
  PROVE  s \in FindThread(c)' <=> s \in FindThread(c)
<1>1. \A r \in Slots : r \in Slots' /\ Thread'[r].key = Thread[r].key
  BY SlotsGoOnward DEF Onward
<1>2. \A r \in 1 .. s - 1 : r \in Slots
  BY SlotFacts DEF TypeInv
<1> QED
  BY <1>1, <1>2 DEF FindThread

LEMMA OneFirstThread ==
  ASSUME TypeInv, NEW c \in Cmds, NEW r \in FindThread(c), NEW s \in FindThread(c)
  PROVE  r = s
<1>1. r \in Nat \ {0} /\ s \in Nat \ {0} /\ Thread[r].key = c /\ Thread[s].key = c
  BY SlotFacts DEF TypeInv, FindThread
<1>2. ~(r < s) /\ ~(s < r)
  BY <1>1 DEF FindThread
<1> QED
  BY <1>1, <1>2

\* An entry of the hash is left alone, or reset to nothing, or set to what was copied.
LEMMA EntrySteps ==
  ASSUME TypeInv, [Next]_vars, NEW c \in Cmds, EXEC'[c] # Missing
  PROVE  \/ EXEC'[c] = EXEC[c]
         \/ main = "copy2" /\ EXEC' = Copied
         \/ FirstCall(c) /\ EXEC'[c] = <<Empty, Empty>>
<1>1. ASSUME NEW b \in Cmds, FirstCall(b), b # c PROVE EXEC'[c] = EXEC[c]
  BY <1>1 DEF FirstCall, TypeInv
<1>2. FirstCall(c) => EXEC'[c] = <<Empty, Empty>>
  BY DEF FirstCall, TypeInv
<1>3. plugin_exit_exec => EXEC'[c] = Missing
  BY DEF plugin_exit_exec
<1> QED
  BY <1>1, <1>2, <1>3 DEF Next, InThread, RunCommand, ThreadLock, ThreadWrite, ThreadUnlock,
     SemaphoreRemoved, Reread, InMain, MainLock, MainCopy, MainUnlock, vars, mainVars

\* The main process comes to the second half after the first, and stays there until it
\* has copied it.
LEMMA CopySteps ==
  ASSUME TypeInv, [Next]_vars, main' = "copy2"
  PROVE  /\ slot' = slot /\ EXEC' = EXEC
         /\ MainCopy \/ (main = "copy2" /\ half' = half)
<1>1. \A c \in Cmds : ~FirstCall(c)
  BY CreateStep DEF FirstCall
<1> QED
  BY <1>1 DEF Next, InThread, RunCommand, ThreadLock, ThreadWrite, ThreadUnlock, SemaphoreRemoved,
     Reread, InMain, MainLock, MainCopy, MainUnlock, plugin_exit_exec, vars, mainVars

LEMMA OrderedStep == TypeInv /\ Ordered /\ [Next]_vars => Ordered'
<1> SUFFICES ASSUME TypeInv, Ordered, [Next]_vars PROVE Ordered'
  OBVIOUS
<1>0. /\ \A s \in Slots : Thread[s] \in SlotType /\ Thread[s].key \in Cmds
      /\ \A s \in Slots : Thread[s].runs \in Nat /\ Thread[s].ret[1] \in Texts
      /\ half \in Texts
      /\ \A c \in Cmds : EXEC[c] # Missing => EXEC[c][1] \in Texts
  <2>1. \A s \in Slots : Thread[s] \in SlotType
    BY SlotFacts DEF TypeInv
  <2>2. \A r \in Texts \X Texts : r[1] \in Texts
    BY TextFacts, PairFacts
  <2> QED
    BY <2>1, <2>2 DEF TypeInv, SlotType
<1>1. /\ TypeInv' /\ \A s \in Slots' : Thread'[s] \in SlotType
  <2>1. TypeInv'
    BY TypeStep
  <2>2. Thread' \in Seq(SlotType)
    BY <2>1 DEF TypeInv
  <2> QED
    BY <2>1, <2>2 DEF Slots
<1>2. \A s \in Slots : s \in Slots' /\ Onward(Thread[s], Thread'[s]) /\ Thread'[s].key = Thread[s].key
  BY SlotsGoOnward DEF Onward
<1>3. ASSUME NEW s \in Slots', s \notin Slots
      PROVE  \E c \in Cmds, sem \in {1, NoMutex} : FirstCall(c) /\ Thread'[s] = Slot(c, sem)
  BY <1>3, SlotsGoOnward
<1>4. \A s \in Slots, x \in Texts : Reached(x, Thread[s]) => Reached(x, Thread'[s])
  BY <1>0, <1>1, <1>2, ReachedStays DEF Ordered
<1>5. \A c \in Cmds, sem \in {1, NoMutex} :
        LET new == Slot(c, sem) IN
        new.runs = 0 /\ new.ret[1] = Empty /\ new.pc = "run" /\ new.key = c
  BY DEF Slot
<1>6. \A s \in Slots' : Filled(Thread[s])'
  <2>1. ASSUME NEW s \in Slots' PROVE Filled(Thread'[s])
    <3>1. CASE s \in Slots
      BY <1>2, <3>1 DEF Ordered, Onward
    <3>2. CASE s \notin Slots
      BY <1>3, <1>5, <3>2, TextFacts DEF Filled
    <3> QED
      BY <3>1, <3>2
  <2> QED
    BY <2>1 DEF Filled
<1>7. ASSUME NEW c \in Cmds, EXEC'[c] # Missing, NEW s \in FindThread(c)'
      PROVE  Reached(EXEC'[c][1], Thread'[s])
  <2>1. s \in Slots' /\ Thread'[s].key = c
    BY <1>7 DEF FindThread
  <2>2. ASSUME NEW b \in Cmds, FirstCall(b), b = c PROVE Reached(EXEC'[c][1], Thread'[s])
    <3>1. EXEC'[c] = <<Empty, Empty>>
      BY <2>2 DEF FirstCall, TypeInv
    <3>2. Thread'[s].runs \in Nat /\ Number(Thread'[s].ret[1]) \in Nat
      BY <1>1, <2>1, PairFacts, TextFacts DEF SlotType
    <3> QED
      BY <3>1, <3>2, TextFacts DEF Reached
  <2>3. CASE s \notin Slots
    BY <1>3, <1>5, <2>1, <2>2, <2>3
  <2>4. CASE s \in Slots
    <3>1. s \in FindThread(c)
      BY <1>7, <2>4, FirstThreadStays
    <3>2. CASE EXEC'[c] = EXEC[c]
      BY <1>0, <1>4, <1>7, <2>4, <3>1, <3>2 DEF Ordered
    <3>3. CASE main = "copy2" /\ EXEC' = Copied /\ EXEC'[c] # EXEC[c]
      <4>1. slot \in Slots /\ Thread[slot].key = c /\ EXEC'[c][1] = half
        BY <3>3, CopiedType DEF Copied, TypeInv
      <4>2. slot \in FindThread(c) /\ Reached(half, Thread[slot])
        BY <3>3, <4>1 DEF Ordered
      <4>3. s = slot
        BY <3>1, <4>2, OneFirstThread
      <4> QED
        BY <1>0, <1>4, <4>1, <4>2, <4>3
    <3> QED
      BY <1>7, <2>2, <3>2, <3>3, EntrySteps
  <2> QED
    BY <2>3, <2>4
<1>8. ASSUME main' \in {"lock", "copy", "copy2"}
      PROVE  slot' \in FindThread(Thread[slot].key)' /\ EXEC'[Thread'[slot'].key] # Missing
  <2>1. \/ \E c \in Cmds : Reread(c)
        \/ main \in {"lock", "copy", "copy2"} /\ slot' = slot /\ EXEC' = EXEC
    <3>1. \A c \in Cmds : ~FirstCall(c)
      BY <1>8, CreateStep DEF FirstCall
    <3> QED
      BY <1>8, <3>1 DEF Next, InThread, RunCommand, ThreadLock, ThreadWrite, ThreadUnlock, SemaphoreRemoved,
         InMain, MainLock, MainCopy, MainUnlock, plugin_exit_exec, vars, mainVars
  <2>2. ASSUME NEW c \in Cmds, NEW s \in FindThread(c), slot' = s, EXEC' = EXEC, EXEC[c] # Missing
        PROVE  slot' \in FindThread(Thread[slot].key)' /\ EXEC'[Thread'[slot'].key] # Missing
    <3>1. s \in Slots /\ Thread[s].key = c
      BY <2>2 DEF FindThread
    <3>2. s \in FindThread(c)' /\ Thread'[s].key = c
      BY <1>2, <2>2, <3>1, FirstThreadStays
    <3> QED
      BY <2>2, <3>2 DEF FindThread
  <2>3. ASSUME NEW c \in Cmds, Reread(c)
        PROVE  slot' \in FindThread(Thread[slot].key)' /\ EXEC'[Thread'[slot'].key] # Missing
    BY <2>2, <2>3 DEF Reread
  <2>4. CASE main \in {"lock", "copy", "copy2"} /\ slot' = slot /\ EXEC' = EXEC
    <3>1. Thread[slot].key \in Cmds
      BY <1>0, <2>4 DEF TypeInv
    <3> QED
      BY <2>2, <2>4, <3>1 DEF Ordered
  <2> QED
    BY <2>1, <2>3, <2>4
<1>9. ASSUME main' = "copy2"
      PROVE  /\ Reached(half', Thread'[slot'])
             /\ Number(half') # 0 => Number(EXEC'[Thread'[slot'].key][1]) <= Number(half')
  <2>1. /\ slot' = slot /\ EXEC' = EXEC
        /\ MainCopy \/ (main = "copy2" /\ half' = half)
    BY <1>9, CopySteps
  <2>2. slot \in Slots /\ main \in {"lock", "copy", "copy2"}
    BY <2>1 DEF MainCopy, TypeInv
  <2>3. Thread'[slot].key = Thread[slot].key /\ Thread[slot].key \in Cmds
    BY <1>0, <1>2, <2>2
  <2>4. CASE MainCopy
    <3>1. half' = Thread[slot].ret[1] /\ Thread[slot].ret[1] \in Texts
      BY <1>0, <2>2, <2>4 DEF MainCopy
    <3>2. Reached(half', Thread[slot])
      BY <1>0, <2>2, <3>1, TextFacts DEF Reached, Ordered, Filled
    <3>3. Reached(EXEC[Thread[slot].key][1], Thread[slot])
      BY <2>2, <2>3 DEF Ordered
    <3> QED
      BY <1>4, <2>1, <2>2, <2>3, <3>1, <3>2, <3>3 DEF Reached
  <2>5. CASE main = "copy2" /\ half' = half
    BY <1>0, <1>4, <2>1, <2>2, <2>3, <2>5 DEF Ordered
  <2> QED
    BY <2>1, <2>4, <2>5
<1>10. (\A c \in Cmds : EXEC[c] # Missing => \A s \in FindThread(c) : Reached(EXEC[c][1], Thread[s]))'
  BY <1>7 DEF Reached
<1> QED
  BY <1>6, <1>8, <1>9, <1>10 DEF Ordered, Reached

\* What a widget shows of a command only gets newer, whatever fails and whoever is
\* interrupted, for any number of commands, slots and runs.
THEOREM OutputsOnlyGetNewer == Spec => NeverOlder
<1>1. Init => TypeInv /\ Ordered
  BY InitType DEF Init, Ordered, Slots
<1>2. (TypeInv /\ Ordered) /\ [Next]_vars => (TypeInv /\ Ordered)'
  BY TypeStep, OrderedStep
<1>3. TypeInv /\ Ordered => [\A c \in Cmds :
         main = "copy2" /\ Thread[slot].key = c /\ Number(half) # 0 /\ Number(EXEC'[c][2]) # 0
           => Number(half) >= Number(EXEC[c][1])]_vars
  <2> SUFFICES ASSUME TypeInv, Ordered, NEW c \in Cmds, main = "copy2", Thread[slot].key = c, Number(half) # 0
               PROVE  Number(half) >= Number(EXEC[c][1])
    OBVIOUS
  <2>1. EXEC[c] # Missing /\ Number(EXEC[c][1]) <= Number(half)
    BY DEF Ordered
  <2>2. EXEC[c][1] \in Texts /\ half \in Texts
    BY <2>1, PairFacts DEF TypeInv
  <2> QED
    BY <2>1, <2>2, TextFacts
<1> QED
  BY <1>1, <1>2, <1>3, PTL DEF Spec, NeverOlder

-----------------------------------------------------------------------------
(* Whole texts.  Shared memory holds one text outside of strncpy, and is not written *)
(* while it is copied, unless there is no semaphore or a signal has let both in.     *)

Untorn ==
  /\ signals = 0 /\ main = "copy2" /\ Thread[slot].sem # NoMutex => half = Thread[slot].ret[1]
  /\ NoTornText

\* While the main process copies, the process of the slot does not write, nor was it
\* killed in writing.
LEMMA NotInside ==
  ASSUME TypeInv, Balance, signals = 0, main \in {"copy", "copy2"}, Thread[slot].sem # NoMutex
  PROVE  /\ slot \in Slots /\ Thread[slot].pc \notin {"write", "write2"}
         /\ Thread[slot].ret[1] = Thread[slot].ret[2]
<1>1. slot \in Slots /\ Thread[slot].sem \in Nat /\ Thread[slot].pc \in Places
  BY SlotFacts DEF TypeInv, SlotType, SemType
<1>2. Copying(slot) = 1 /\ Inside(Thread[slot]) \in {0, 1}
  BY DEF Copying, Inside
<1>3. Thread[slot].sem + Inside(Thread[slot]) + Copying(slot) <= 1 /\ Whole(Thread[slot])
  BY <1>1 DEF Balance
<1>4. Inside(Thread[slot]) = 0
  BY <1>1, <1>2, <1>3
<1> QED
  BY <1>1, <1>3, <1>4 DEF Inside, Whole, Places

\* Signals are only counted.
LEMMA SignalsStay ==
  ASSUME TypeInv, [Next]_vars, signals' = 0
  PROVE  signals = 0
<1>1. signals \in Nat
  BY DEF TypeInv
<1>2. ASSUME NEW s, mutex_lock(s) PROVE signals = 0
  BY <1>1, <1>2 DEF mutex_lock
<1> QED
  BY <1>1, <1>2 DEF Next, InThread, RunCommand, ThreadLock, ThreadWrite, ThreadUnlock, SemaphoreRemoved,
     FirstCall, Reread, InMain, MainLock, MainCopy, MainUnlock, plugin_exit_exec, vars, envVars

LEMMA UntornStep == TypeInv /\ Balance /\ Ordered /\ Untorn /\ [Next]_vars => Untorn'
<1> SUFFICES ASSUME TypeInv, Balance, Ordered, Untorn, [Next]_vars, signals' = 0
             PROVE  /\ main' = "copy2" /\ Thread'[slot'].sem # NoMutex => half' = Thread'[slot'].ret[1]
                    /\ NoTornText'
  BY DEF Untorn, NoTornText
<1>1. signals = 0
  BY SignalsStay
<1>2. \A s \in Slots : s \in Slots' /\ Onward(Thread[s], Thread'[s])
  BY SlotsGoOnward
<1>3. ASSUME main' = "copy2", Thread'[slot'].sem # NoMutex PROVE half' = Thread'[slot'].ret[1]
  <2>1. slot' = slot /\ (MainCopy \/ (main = "copy2" /\ half' = half))
    BY <1>3, CopySteps
  <2>2. slot \in Slots /\ main \in {"copy", "copy2"}
    BY <2>1 DEF MainCopy, TypeInv
  <2>3. Onward(Thread[slot], Thread'[slot]) /\ Thread[slot].sem # NoMutex
    BY <1>2, <1>3, <2>1, <2>2 DEF Onward
  <2>4. Thread[slot].pc # "write"
    BY <1>1, <2>2, <2>3, NotInside
  <2>5. CASE MainCopy
    BY <2>1, <2>5 DEF MainCopy
  <2>6. CASE main = "copy2" /\ half' = half
    BY <1>1, <2>1, <2>3, <2>4, <2>6 DEF Untorn, Onward
  <2> QED
    BY <2>1, <2>5, <2>6
<1>4. ASSUME NEW c \in Cmds, NEW s \in FindThread(c), Thread[s].sem = NoMutex
      PROVE  \E r \in FindThread(c)' : Thread'[r].sem = NoMutex
  <2>1. s \in Slots
    BY DEF FindThread
  <2>2. s \in FindThread(c)' /\ Thread'[s].sem = NoMutex
    BY <1>2, <1>4, <2>1, FirstThreadStays DEF Onward
  <2> QED
    BY <2>2
<1>5. ASSUME NEW c \in Cmds, EXEC'[c] # Missing
      PROVE  EXEC'[c][1] = EXEC'[c][2] \/ \E r \in FindThread(c)' : Thread'[r].sem = NoMutex
  <2>1. CASE EXEC'[c] = EXEC[c]
    BY <1>1, <1>4, <1>5, <2>1 DEF Untorn, NoTornText
  <2>2. CASE main = "copy2" /\ EXEC' = Copied /\ EXEC'[c] # EXEC[c]
    <3>1. /\ Thread[slot].key = c /\ slot \in Slots
          /\ EXEC'[c] = <<half, Thread[slot].ret[2]>>
      BY <2>2, CopiedType DEF Copied, TypeInv
    <3>2. slot \in FindThread(c)
      BY <2>2, <3>1 DEF Ordered
    <3>3. CASE Thread[slot].sem = NoMutex
      BY <1>4, <3>2, <3>3
    <3>4. CASE Thread[slot].sem # NoMutex
      BY <1>1, <2>2, <3>1, <3>4, NotInside DEF Untorn
    <3> QED
      BY <3>3, <3>4
  <2>3. CASE EXEC'[c] = <<Empty, Empty>>
    BY <2>3
  <2> QED
    BY <1>5, <2>1, <2>2, <2>3, EntrySteps
<1> QED
  BY <1>3, <1>5 DEF NoTornText

\* No widget shows a text made of two outputs of a command, for any number of commands,
\* slots and runs and also when the thread was killed while it wrote, as long as the
\* thread of the command has a semaphore and no wait for one was interrupted.
THEOREM NoTextIsTorn == Spec => []NoTornText
<1>1. Init => TypeInv /\ Balance /\ Ordered /\ Untorn
  BY InitType DEF Init, Balance, Slots, Ordered, Untorn, NoTornText
<1>2. (TypeInv /\ Balance /\ Ordered /\ Untorn) /\ [Next]_vars
        => (TypeInv /\ Balance /\ Ordered /\ Untorn)'
  BY TypeStep, BalanceStep, OrderedStep, UntornStep
<1>3. Untorn => NoTornText
  BY DEF Untorn
<1> QED
  BY <1>1, <1>2, <1>3, PTL DEF Spec

=============================================================================
