------------------------------ MODULE Instances ------------------------------
(***************************************************************************)
(* The life of lcd4linux processes that share a pidfile: main of           *)
(* lcd4linux.c and, one system call at a time, pid_init and pid_exit of    *)
(* pid.c.  A process is named by its pid; pids are reused.                 *)
(*                                                                         *)
(* Only a daemon calls pid_init.  Every mode ends in pid_exit, which       *)
(* unlinks the pidfile whoever made it.                                    *)
(***************************************************************************)
EXTENDS Integers, FiniteSets

CONSTANTS
  Pids,        \* process ids
  None,        \* no file, no pid
  Modes,       \* a subset of AllModes
  MaxStarting, \* bound: daemons that are in pid_init at the same time
  MaxLaunches  \* bound on how many processes are started

\* "foreground" is -F, "interactive" -i, "expressions" -ii (no display).
AllModes == {"daemon", "foreground", "interactive", "expressions"}

ASSUME InstancesAssumption ==
  /\ IsFiniteSet(Pids) /\ None \notin Pids /\ Modes \subseteq AllModes
  /\ MaxStarting \in Nat /\ MaxLaunches \in Nat

VARIABLES
  pc,          \* where the process of each pid is, see Places
  mode,        \* how it was started
  seen,        \* the pid that pid_init has read from the pidfile
  pidfile,     \* the pid in the pidfile, None when there is no such file
  tmp,         \* the processes whose temporary file exists
  stale,       \* history: the pidfile is of a process that ended without pid_exit
  restart,     \* processes that SIGHUP took out of the main loop
  intruded,    \* history: a process that is no daemon unlinked the pidfile
  crowded,     \* history: two processes were in pid_init at the same time
  launches

vars == <<pc, mode, seen, pidfile, tmp, stale, restart, intruded, crowded, launches>>

Places == {"free",                            \* no process has this pid
           "other",                           \* another program has it
           "link", "read", "kill", "unlink",  \* in the loop of pid_init
           "driver",                          \* about to initialise the display
           "layout", "loop",                  \* with the display in hand
           "left",                            \* behind the main loop
           "released",                        \* about to call pid_exit
           "exec"}                            \* about to restart itself

Starting == {p \in Pids : pc[p] \in {"link", "read", "kill", "unlink"}}

\* Daemons that pid_init has let in and that have not called pid_exit yet.
Daemons == {p \in Pids : mode[p] = "daemon"
                         /\ pc[p] \in {"driver", "layout", "loop", "left", "released"}}

Go(p, place) == pc' = [pc EXCEPT ![p] = place]

-----------------------------------------------------------------------------
(* Starting *)

\* A process gets the pid q.  Configuration and plugins have been read by then; a
\* daemon has forked and detached, and writes its temporary file.
Start(q, m) ==
  /\ IF m = "daemon"
     THEN /\ Cardinality(Starting) < MaxStarting
          /\ tmp' = tmp \union {q}
     ELSE tmp' = tmp \ {q}
  /\ crowded' = (crowded \/ (m = "daemon" /\ Starting # {}))
  /\ mode' = [mode EXCEPT ![q] = m]
  /\ restart' = restart \ {q}

FirstPlace(m) == CASE m = "daemon" -> "link"
                   [] m = "expressions" -> "released"
                   [] OTHER -> "driver"

Launch(q, m) ==
  /\ pc[q] = "free" /\ launches < MaxLaunches
  /\ launches' = launches + 1
  /\ Start(q, m) /\ Go(q, FirstPlace(m))
  /\ UNCHANGED <<seen, pidfile, stale, intruded>>

\* execv: a daemon forks again and has another pid, other modes keep theirs.
Exec(p, q) ==
  /\ pc[p] = "exec"
  /\ IF mode[p] = "daemon" THEN q # p /\ pc[q] = "free" ELSE q = p
  /\ Start(q, mode[p])
  /\ pc' = [pc EXCEPT ![p] = "free", ![q] = FirstPlace(mode[p])]
  /\ UNCHANGED <<seen, pidfile, stale, intruded, launches>>

\* Started without a full path, the program does not find itself again.
ExecFails(p) ==
  /\ pc[p] = "exec" /\ Go(p, "free")
  /\ UNCHANGED <<mode, seen, pidfile, tmp, stale, restart, intruded, crowded, launches>>

-----------------------------------------------------------------------------
(* pid_init *)

\* pid_init returns 0 and the temporary file is removed ...
LetIn(p) == Go(p, "driver") /\ tmp' = tmp \ {p} /\ seen' = [seen EXCEPT ![p] = None]

\* ... or something else, and main exits with "already running".
Refuse(p) == Go(p, "free") /\ tmp' = tmp \ {p} /\ seen' = [seen EXCEPT ![p] = None]

Link(p) ==
  /\ pc[p] = "link"
  /\ IF pidfile = None
     THEN pidfile' = p /\ stale' = FALSE /\ LetIn(p)
     ELSE Go(p, "read") /\ UNCHANGED <<pidfile, stale, tmp, seen>>
  /\ UNCHANGED <<mode, restart, intruded, crowded, launches>>

\* Mutant of Read: a pidfile without a number in it is not an error.
Bug_ReadsNothing(p) ==
  /\ pc[p] = "read" /\ pidfile \notin {None, p}
  /\ Go(p, "kill")
  /\ UNCHANGED <<mode, seen, pidfile, tmp, stale, restart, intruded, crowded, launches>>

\* A pidfile that disappeared is tried again; one that cannot be opened, read or
\* understood ends it, as does a link that fails for another reason than EEXIST.
Read(p) ==
  /\ pc[p] = "read"
  /\ \/ pidfile = None /\ Go(p, "link") /\ UNCHANGED <<stale, tmp, seen>>
     \/ pidfile = p /\ stale' = FALSE /\ LetIn(p)
     \/ /\ pidfile \notin {None, p}
        /\ seen' = [seen EXCEPT ![p] = pidfile]
        /\ Go(p, "kill") /\ UNCHANGED <<stale, tmp>>
  /\ UNCHANGED <<mode, pidfile, restart, intruded, crowded, launches>>

SystemError(p) ==
  /\ pc[p] \in {"link", "read", "unlink"}
  /\ Refuse(p)
  /\ UNCHANGED <<mode, pidfile, stale, restart, intruded, crowded, launches>>

\* Mutant of Kill: the result of kill is not looked at.
Bug_NoCheck(p) ==
  /\ pc[p] = "kill" /\ Go(p, "unlink")
  /\ UNCHANGED <<tmp, seen, mode, pidfile, stale, restart, intruded, crowded, launches>>

\* kill(seen, 0): is there a process, of whatever program, with this pid?
Kill(p) ==
  /\ pc[p] = "kill"
  /\ IF pc[seen[p]] = "free" THEN Go(p, "unlink") /\ UNCHANGED <<tmp, seen>>
                             ELSE Refuse(p)
  /\ UNCHANGED <<mode, pidfile, stale, restart, intruded, crowded, launches>>

\* Mutant of Unlink: the stale file is taken for removed, and is not.
Bug_KeepsStale(p) ==
  /\ pc[p] = "unlink" /\ Go(p, "link")
  /\ UNCHANGED <<mode, seen, pidfile, tmp, stale, restart, intruded, crowded, launches>>

\* Whatever the name pidfile refers to by now is removed.
Unlink(p) ==
  /\ pc[p] = "unlink"
  /\ pidfile' = None /\ stale' = FALSE
  /\ Go(p, "link") /\ seen' = [seen EXCEPT ![p] = None]
  /\ UNCHANGED <<mode, tmp, restart, intruded, crowded, launches>>

-----------------------------------------------------------------------------
(* Running and ending *)

\* A process ends without pid_exit.
Ends(p) == Go(p, "free") /\ stale' = (stale \/ pidfile = p)

DriverInit(p) ==
  /\ pc[p] = "driver"
  /\ Go(p, "layout")
  /\ UNCHANGED <<mode, seen, pidfile, tmp, stale, restart, intruded, crowded, launches>>

\* Mutant of DriverFails: main exits without pid_exit.
Bug_ExitsAtOnce(p) ==
  /\ pc[p] = "driver"
  /\ Go(p, "free")
  /\ UNCHANGED <<mode, seen, pidfile, tmp, stale, restart, intruded, crowded, launches>>

\* drv_init fails, and main calls pid_exit and exits.
DriverFails(p) ==
  /\ pc[p] = "driver"
  /\ Go(p, "released")
  /\ UNCHANGED <<mode, seen, pidfile, tmp, stale, restart, intruded, crowded, launches>>

LayoutInit(p) ==
  /\ pc[p] = "layout" /\ mode[p] # "interactive"
  /\ Go(p, "loop")
  /\ UNCHANGED <<mode, seen, pidfile, tmp, stale, restart, intruded, crowded, launches>>

\* Without a 'Layout' entry main exits at once: the pidfile stays behind.
LayoutMissing(p) ==
  /\ pc[p] = "layout" /\ mode[p] # "interactive"
  /\ Ends(p)
  /\ UNCHANGED <<mode, seen, pidfile, tmp, restart, intruded, crowded, launches>>

\* A signal, or no timer left in the queue, ends the main loop.
LeaveLoop(p, hup) ==
  /\ pc[p] = "loop"
  /\ Go(p, "left")
  /\ restart' = IF hup THEN restart \union {p} ELSE restart
  /\ UNCHANGED <<mode, seen, pidfile, tmp, stale, intruded, crowded, launches>>

\* At the end of the main loop, or of the session of -i.
DrvQuit(p) ==
  /\ pc[p] = "left" \/ (pc[p] = "layout" /\ mode[p] = "interactive")
  /\ Go(p, "released")
  /\ UNCHANGED <<mode, seen, pidfile, tmp, stale, restart, intruded, crowded, launches>>

PidExit(p) ==
  /\ pc[p] = "released"
  /\ pidfile' = None /\ stale' = FALSE
  /\ intruded' = (intruded \/ (mode[p] # "daemon" /\ pidfile # None))
  /\ Go(p, IF p \in restart THEN "exec" ELSE "free")
  /\ UNCHANGED <<mode, seen, tmp, restart, crowded, launches>>

-----------------------------------------------------------------------------
(* Environment *)

\* SIGKILL, or a signal before main has installed its handlers.
Crash(p) ==
  /\ pc[p] \notin {"free", "other"}
  /\ Ends(p) /\ seen' = [seen EXCEPT ![p] = None]
  /\ UNCHANGED <<mode, pidfile, tmp, restart, intruded, crowded, launches>>

\* A pid that is not in use goes to another program, or comes back from it.
OtherProgram(p) ==
  /\ \/ pc[p] = "free" /\ launches < MaxLaunches /\ launches' = launches + 1 /\ Go(p, "other")
     \/ pc[p] = "other" /\ Go(p, "free") /\ UNCHANGED launches
  /\ UNCHANGED <<mode, seen, pidfile, tmp, stale, restart, intruded, crowded>>

Init ==
  /\ pc = [p \in Pids |-> "free"]
  /\ mode = [p \in Pids |-> "daemon"]
  /\ seen = [p \in Pids |-> None]
  /\ pidfile = None /\ tmp = {} /\ restart = {} /\ stale = FALSE /\ intruded = FALSE
  /\ crowded = FALSE /\ launches = 0

PidInit(p) == Link(p) \/ Read(p) \/ Kill(p) \/ Unlink(p)

Main(p) ==
  \/ DriverInit(p) \/ DriverFails(p) \/ LayoutInit(p) \/ LayoutMissing(p)
  \/ DrvQuit(p) \/ PidExit(p) \/ ExecFails(p)
  \/ \E q \in Pids : Exec(p, q)
  \/ \E hup \in BOOLEAN : LeaveLoop(p, hup)

Next ==
  \E p \in Pids :
    \/ \E m \in Modes : Launch(p, m)
    \/ PidInit(p) \/ SystemError(p) \/ Main(p) \/ Crash(p) \/ OtherProgram(p)

Spec == Init /\ [][Next]_vars

\* pid_init does not block, and the end of main does not either.
Fairness == \A p \in Pids : WF_vars(PidInit(p)) /\ WF_vars(DrvQuit(p) \/ PidExit(p))

FairSpec == Spec /\ Fairness

-----------------------------------------------------------------------------
(* Properties *)

\* The variables have their types; a process that checks or removes a pidfile has
\* read a pid from it.
TypeOK ==
  /\ pc \in [Pids -> Places]
  /\ mode \in [Pids -> AllModes]
  /\ seen \in [Pids -> Pids \union {None}]
  /\ \A p \in Pids : pc[p] \in {"kill", "unlink"} => seen[p] # None
  /\ pidfile \in Pids \union {None}
  /\ tmp \subseteq Pids /\ restart \subseteq Pids
  /\ stale \in BOOLEAN /\ intruded \in BOOLEAN /\ crowded \in BOOLEAN /\ launches \in 0 .. MaxLaunches

\* As long as no two processes were in pid_init at a time, and none in another mode has
\* removed it, the pidfile is there and names the daemon for as long as it runs:
\* after crashes, restarts and with stale files of reused pids.
PidfileNamesDaemon == ~intruded /\ ~crowded => \A p \in Daemons : pidfile = p

\* pid_init lets a daemon in only when no other runs; otherwise it "returns PID of
\* an already running process" (pid.c:31).
OneDaemon == \A p, q \in Daemons : p = q

\* SIGHUP never stops restarting processes.
RestartsForEver == []<><<\E p, q \in Pids : Exec(p, q)>>_vars

\* The loop of pid_init ends, although other processes make the file, remove it and leave
\* it stale while it runs: it goes on for ever only against daemons that are restarted
\* again and again, each with its file there at the link and away at the open.
PidInitEnds == \A p \in Pids : (p \in Starting ~> p \notin Starting) \/ RestartsForEver

\* A daemon that ends by a signal, or whose display cannot be initialised, takes
\* its pidfile along: one that names no daemon was left by a crash, or by a start
\* without layout.  And a process that pid_init lets in, or refuses, leaves no
\* temporary file.
NothingLeftBehind ==
  /\ pidfile = None \/ stale \/ pidfile \in Daemons
  /\ \A p \in tmp : pc[p] \in {"link", "read", "kill", "unlink", "free", "other"}
=============================================================================
