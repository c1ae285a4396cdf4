-------------------------------- MODULE Exec --------------------------------
(***************************************************************************)
(* plugin_exec.c on the primitives of thread.c: the expression function    *)
(* exec(cmd, delay) shows what a forked process last read from a command.  *)
(* Each command has a "thread", a process that runs it over and over and   *)
(* writes the output to shared memory under a SysV semaphore; the main     *)
(* process copies it to the hash EXEC under the same semaphore.            *)
(*                                                                         *)
(* Commands stand for their keys, 16-bit CRCs that are taken to differ.    *)
(* Slots are numbered from 1, so max_thread is Len(Thread) - 1.            *)
(***************************************************************************)
EXTENDS Integers, Sequences

CONSTANTS
  Cmds,         \* commands of the layout
  NUM_THREADS,
  MaxRuns,      \* bound: how often a thread runs its command
  MaxSets,      \* bound: how often the clock is set back
  MaxSurprises  \* bound: how often a signal reaches a process that waits for a lock,
                \*   semget, shmget or fork fails, or a semaphore is removed

ASSUME ExecAssumption ==
  /\ NUM_THREADS \in Nat /\ MaxRuns \in Nat /\ MaxSets \in Nat
  /\ MaxSurprises \in Nat

VARIABLES
  EXEC,         \* the hash: for each command Missing, or the two halves of a text
  Thread,       \* the slots 0 .. max_thread, see Slot
  main,         \* where the main process is in do_exec
  slot,         \* local of do_exec; 1 outside of it
  half,         \* the first half of the text that hash_put copies
  sets, failures, signals,
  killed        \* history: a SIGKILL was sent to every process there is

mainVars == <<EXEC, main, slot, half>>
envVars == <<sets, failures, signals>>
vars == <<mainVars, Thread, envVars, killed>>

\* The texts: the output of run n of command c, and what shared memory holds at
\* first and a command that cannot be run or read yields.
Output(c, n) == <<c, n>>

Empty == <<"", 0>>

Missing == <<>>

Texts == {Output(c, n) : c \in Cmds, n \in 1 .. MaxRuns} \union {Empty}

\* A semaphore on which semop fails, with a result nobody looks at: semget found none free, or
\* made one that only root may use (it asks for mode 0), or somebody has removed it.
NoMutex == -1

\* A slot and its process: the semaphore, the two halves of the shared memory, the
\* text in the process's buffer, the runs so far and where the process is.
Slot(c, sem) == [key |-> c, sem |-> sem, ret |-> <<Empty, Empty>>, buffer |-> Empty,
            runs |-> 0, pc |-> "run"]

Slots == DOMAIN Thread

-----------------------------------------------------------------------------
(* exec_thread, in the process of slot s *)

\* popen and fread: the output, or nothing when they fail.
RunCommand(s) ==
  /\ Thread[s].pc = "run" /\ Thread[s].runs < MaxRuns
  /\ \E out \in {Output(Thread[s].key, Thread[s].runs + 1), Empty} :
       Thread' = [Thread EXCEPT ![s].pc = "lock", ![s].runs = @ + 1, ![s].buffer = out]
  /\ UNCHANGED <<mainVars, envVars, killed>>

\* semop returns when it got the semaphore, when there is none to get, and when a
\* signal ends the wait: mutex_lock does not look which.
mutex_lock(s) ==
  \/ /\ Thread[s].sem # 0 /\ UNCHANGED signals
  \/ /\ Thread[s].sem = 0 /\ failures + signals < MaxSurprises /\ signals' = signals + 1

Taken(s) == IF Thread[s].sem > 0 THEN Thread[s].sem - 1 ELSE Thread[s].sem

\* mutex_unlock, which never waits.
Returned(s) == IF Thread[s].sem = NoMutex THEN NoMutex ELSE Thread[s].sem + 1

ThreadLock(s) ==
  /\ Thread[s].pc = "lock" /\ mutex_lock(s)
  /\ Thread' = [Thread EXCEPT ![s].pc = "write", ![s].sem = Taken(s)]
  /\ UNCHANGED <<mainVars, sets, failures, killed>>

\* strncpy is not atomic; its first half ...
ThreadWrite(s) ==
  /\ Thread[s].pc = "write"
  /\ Thread' = [Thread EXCEPT ![s].pc = "write2", ![s].ret[1] = Thread[s].buffer]
  /\ UNCHANGED <<mainVars, envVars, killed>>

\* Mutant of ThreadUnlock: the semaphore is not released.
Bug_NoUnlock(s) ==
  /\ Thread[s].pc = "write2"
  /\ Thread' = [Thread EXCEPT ![s].pc = "run", ![s].ret[2] = Thread[s].buffer]
  /\ UNCHANGED <<mainVars, envVars, killed>>

\* ... and its second, with mutex_unlock.
ThreadUnlock(s) ==
  /\ Thread[s].pc = "write2"
  /\ Thread' = [Thread EXCEPT ![s].pc = "run", ![s].ret[2] = Thread[s].buffer,
                              ![s].sem = Returned(s)]
  /\ UNCHANGED <<mainVars, envVars, killed>>

-----------------------------------------------------------------------------
(* do_exec, in the main process *)

\* kill(-1, SIGKILL) reaches every process but the caller.
KillAll == [s \in Slots |-> [Thread[s] EXCEPT !.pc = "dead"]]

\* create_exec_thread.  It goes on without a semaphore.  When shared memory or a process
\* cannot be had, the slot is destroyed while its pid is still -1, and that is what
\* thread_destroy kills.  The check max_thread >= NUM_THREADS lets one slot more through
\* than the array has; nothing is said of what the program does after that.
create_exec_thread(c) ==
  \/ /\ Len(Thread) < NUM_THREADS
     /\ \/ Thread' = Append(Thread, Slot(c, 1)) /\ UNCHANGED failures
        \/ /\ failures + signals < MaxSurprises /\ failures' = failures + 1
           /\ Thread' = Append(Thread, Slot(c, NoMutex))
     /\ UNCHANGED <<main, killed>>
  \/ /\ Len(Thread) < NUM_THREADS /\ failures + signals < MaxSurprises
     /\ failures' = failures + 1
     /\ killed' = TRUE /\ Thread' = KillAll
     /\ UNCHANGED main
  \/ /\ Len(Thread) = NUM_THREADS
     /\ main' = "undefined"
     /\ UNCHANGED <<Thread, failures, killed>>

\* Mutant of FirstCall: the hash entry is left to the next call.
Bug_NoEntry(c) ==
  /\ main = "idle" /\ EXEC[c] = Missing
  /\ create_exec_thread(c)
  /\ UNCHANGED <<EXEC, slot, half, sets, signals>>

\* hash_age is negative for a key that is not in the hash, and for one whose last
\* hash_put lies in the future because the clock was set back.
FirstCall(c) ==
  /\ main = "idle"
  /\ \/ EXEC[c] = Missing /\ UNCHANGED sets
     \/ EXEC[c] # Missing /\ sets < MaxSets /\ sets' = sets + 1
  /\ EXEC' = [EXEC EXCEPT ![c] = <<Empty, Empty>>]
  /\ create_exec_thread(c)
  /\ UNCHANGED <<slot, half, signals>>

\* Mutant of FindThread: the loop stops before the last thread.
Bug_SkipsLast(c) == {s \in Slots : s < Len(Thread) /\ Thread[s].key = c
                                   /\ \A r \in 1 .. s - 1 : Thread[r].key # c}

\* Mutant of FindThread: any thread of c will do.
Bug_AnyThread(c) == {s \in Slots : Thread[s].key = c}

\* The first thread of c, as a set: the code reports an error when there is none.
FindThread(c) == {s \in Slots : Thread[s].key = c /\ \A r \in 1 .. s - 1 : Thread[r].key # c}

\* The last hash_put is more than 10 msec ago (an earlier call changes nothing).
Reread(c) ==
  /\ main = "idle" /\ EXEC[c] # Missing
  /\ slot' \in FindThread(c)
  /\ main' = "lock"
  /\ UNCHANGED <<EXEC, half, Thread, envVars, killed>>

\* Mutant of MainLock: the main process does not wait for the semaphore.
Bug_NoLock ==
  /\ main = "lock" /\ main' = "copy"
  /\ UNCHANGED <<EXEC, slot, half, Thread, envVars, killed>>

MainLock ==
  /\ main = "lock" /\ mutex_lock(slot)
  /\ Thread' = [Thread EXCEPT ![slot].sem = Taken(slot)]
  /\ main' = "copy"
  /\ UNCHANGED <<EXEC, slot, half, sets, failures, killed>>

\* hash_put copies the first half ...
MainCopy ==
  /\ main = "copy"
  /\ half' = Thread[slot].ret[1] /\ main' = "copy2"
  /\ UNCHANGED <<EXEC, slot, Thread, envVars, killed>>

Copied == [EXEC EXCEPT ![Thread[slot].key] = <<half, Thread[slot].ret[2]>>]

\* Mutant of MainUnlock: the semaphore of slot 0 is released, whoever was read.
Bug_UnlocksFirst ==
  /\ main = "copy2" /\ main' = "idle" /\ slot' = 1
  /\ EXEC' = Copied /\ half' = Empty
  /\ Thread' = [Thread EXCEPT ![1].sem = Returned(1)]
  /\ UNCHANGED <<envVars, killed>>

\* ... and the second, and do_exec unlocks and returns.
MainUnlock ==
  /\ main = "copy2" /\ main' = "idle" /\ slot' = 1
  /\ EXEC' = Copied /\ half' = Empty
  /\ Thread' = [Thread EXCEPT ![slot].sem = Returned(slot)]
  /\ UNCHANGED <<envVars, killed>>

\* At the end of main: destroy_exec_thread of one slot after the other.
plugin_exit_exec ==
  /\ main = "idle" /\ main' = "exited"
  /\ EXEC' = [c \in Cmds |-> Missing]
  /\ Thread' = [s \in Slots |-> [Thread[s] EXCEPT !.pc = "dead"]]
  /\ UNCHANGED <<slot, half, envVars, killed>>

\* Environment: semaphores outlive nobody's ipcrm, nor the logout of the user
\* where logind is told to remove what is left.
SemaphoreRemoved(s) ==
  /\ Thread[s].sem # NoMutex
  /\ failures + signals < MaxSurprises /\ failures' = failures + 1
  /\ Thread' = [Thread EXCEPT ![s].sem = NoMutex]
  /\ UNCHANGED <<mainVars, sets, signals, killed>>

-----------------------------------------------------------------------------
Init ==
  /\ EXEC = [c \in Cmds |-> Missing] /\ Thread = <<>>
  /\ main = "idle" /\ slot = 1 /\ half = Empty
  /\ sets = 0 /\ failures = 0 /\ signals = 0 /\ killed = FALSE

InThread(s) ==
  RunCommand(s) \/ ThreadLock(s) \/ ThreadWrite(s) \/ ThreadUnlock(s)

InMain == MainLock \/ MainCopy \/ MainUnlock

Next ==
  \/ main # "undefined" /\ \E s \in Slots : InThread(s) \/ SemaphoreRemoved(s)
  \/ \E c \in Cmds : FirstCall(c) \/ Reread(c)
  \/ InMain \/ plugin_exit_exec

Spec == Init /\ [][Next]_vars

\* Processes that are alive get to run, and widgets are updated again and again,
\* each of them.
Fairness ==
  /\ WF_vars(InMain)
  /\ \A s \in 1 .. NUM_THREADS : WF_vars(s \in Slots /\ InThread(s))
  /\ \A c \in Cmds : SF_vars(Reread(c))

FairSpec == Spec /\ Fairness

-----------------------------------------------------------------------------
(* Properties *)

\* The variables have their types: no semaphore counts more than its initial 1 and
\* what interrupted waits have added so far, and do_exec copies from a slot that exists.
TypeOK ==
  /\ EXEC \in [Cmds -> {Missing} \union (Texts \X Texts)]
  /\ Len(Thread) <= NUM_THREADS
  /\ \A s \in Slots :
       Thread[s] \in [key : Cmds, sem : NoMutex .. 1 + signals, ret : Texts \X Texts,
                      buffer : Texts, runs : 0 .. MaxRuns,
                      pc : {"run", "lock", "write", "write2", "dead"}]
  /\ main \in {"idle", "lock", "copy", "copy2", "exited", "undefined"}
  /\ half \in Texts
  /\ main \in {"lock", "copy", "copy2"} => slot \in Slots
  /\ killed \in BOOLEAN

\* A widget never shows a text made of two outputs, also when the thread was killed while
\* it wrote, as long as the thread of its command has a semaphore and no wait for one was
\* interrupted: mutex_lock notices neither.
NoTornText ==
  signals = 0 =>
    \A c \in Cmds : EXEC[c] # Missing =>
      EXEC[c][1] = EXEC[c][2] \/ \E s \in FindThread(c) : Thread[s].sem = NoMutex

\* What a widget shows of a command only gets newer, whatever fails; it is only
\* reset when the command counts as called for the first time.
Number(t) == t[2]

NeverOlder ==
  [][\A c \in Cmds :
       main = "copy2" /\ Thread[slot].key = c /\ Number(half) # 0 /\ Number(EXEC'[c][2]) # 0
         => Number(half) >= Number(EXEC[c][1])]_vars

\* "first-time call: create thread" (plugin_exec.c:211): a command has one thread,
\* unless the clock was set back.
OneThreadPerCommand ==
  sets = 0 => \A r, s \in Slots : Thread[r].key = Thread[s].key => r = s

\* The main process does not wait for ever for a thread, unless it was killed.
MainReturns == main = "lock" ~> (main # "lock" \/ killed)

\* The last output of a command is shown, if it is the command's first thread that
\* wrote it and the program does not end.
Oldest(c) == {s \in Slots : Thread[s].key = c /\ \A r \in Slots : Thread[r].key = c => s <= r}

Written(c) == \E s \in Oldest(c) : Thread[s].pc = "run" /\ Thread[s].runs = MaxRuns

Shown(c) == \E s \in Oldest(c) : EXEC[c] = Thread[s].ret

LastOutputShown ==
  \A c \in Cmds : Written(c) ~> (Shown(c) \/ main \in {"exited", "undefined"} \/ killed)
=============================================================================
