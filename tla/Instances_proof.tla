--------------------------- MODULE Instances_proof ---------------------------
(* Proofs about the processes that share a pidfile: their types, that the    *)
(* pidfile names the only daemon, unless two processes were in pid_init at   *)
(* once or one that has not made the file removed it, and that neither the   *)
(* pidfile nor a temporary file is left behind but by a crash.               *)
EXTENDS Instances, TLAPS

USE InstancesAssumption

-----------------------------------------------------------------------------
(* Types *)

LEMMA FirstPlaceType ==
  ASSUME NEW m \in AllModes
  PROVE  FirstPlace(m) \in {"link", "released", "driver"}
  BY DEF FirstPlace, AllModes

LEMMA TypeStep == TypeOK /\ [Next]_vars => TypeOK'
<1> SUFFICES ASSUME TypeOK, [Next]_vars PROVE TypeOK'
  OBVIOUS
<1> USE DEF TypeOK
<1>1. CASE UNCHANGED vars
  BY <1>1 DEF vars
<1>2. ASSUME NEW p \in Pids, NEW m \in Modes, Launch(p, m) PROVE TypeOK'
  BY <1>2, FirstPlaceType DEF Launch, Start, Go, Places
<1>3. ASSUME NEW p \in Pids, Link(p) PROVE TypeOK'
  BY <1>3 DEF Link, LetIn, Go, Places
<1>4. ASSUME NEW p \in Pids, Read(p) PROVE TypeOK'
  <2>1. CASE pidfile = None /\ Go(p, "link") /\ UNCHANGED <<stale, tmp, seen>>
    BY <1>4, <2>1 DEF Read, Go, Places
  <2>2. CASE pidfile = p /\ stale' = FALSE /\ LetIn(p)
    BY <1>4, <2>2 DEF Read, LetIn, Go, Places
  <2>3. CASE /\ pidfile \notin {None, p}
             /\ seen' = [seen EXCEPT ![p] = pidfile]
             /\ Go(p, "kill") /\ UNCHANGED <<stale, tmp>>
    <3>1. /\ pc' = [pc EXCEPT ![p] = "kill"] /\ pidfile \in Pids
          /\ UNCHANGED <<mode, pidfile, tmp, restart, stale, intruded, crowded, launches>>
      BY <1>4, <2>3 DEF Read, Go
    <3>2. \A r \in Pids : pc'[r] \in {"kill", "unlink"} => seen'[r] # None
      BY <2>3, <3>1
    <3>3. pc' \in [Pids -> Places] /\ seen' \in [Pids -> Pids \union {None}]
      BY <2>3, <3>1 DEF Places
    <3> QED
      BY <3>1, <3>2, <3>3
  <2> QED
    BY <1>4, <2>1, <2>2, <2>3 DEF Read
<1>5. ASSUME NEW p \in Pids, Kill(p) PROVE TypeOK'
  BY <1>5 DEF Kill, Refuse, Go, Places
<1>6. ASSUME NEW p \in Pids, Unlink(p) PROVE TypeOK'
  BY <1>6 DEF Unlink, Go, Places
<1>7. ASSUME NEW p \in Pids, SystemError(p) PROVE TypeOK'
  BY <1>7 DEF SystemError, Refuse, Go, Places
<1>8. ASSUME NEW p \in Pids, DriverInit(p) \/ DriverFails(p) \/ LayoutInit(p) \/ DrvQuit(p)
                             \/ ExecFails(p)
      PROVE TypeOK'
  BY <1>8 DEF DriverInit, DriverFails, LayoutInit, DrvQuit, ExecFails, Go, Places
<1>9. ASSUME NEW p \in Pids, LayoutMissing(p) PROVE TypeOK'
  BY <1>9 DEF LayoutMissing, Ends, Go, Places
<1>10. ASSUME NEW p \in Pids, PidExit(p) PROVE TypeOK'
  BY <1>10 DEF PidExit, Go, Places
<1>11. ASSUME NEW p \in Pids, NEW q \in Pids, Exec(p, q) PROVE TypeOK'
  BY <1>11, FirstPlaceType DEF Exec, Start, Places
<1>12. ASSUME NEW p \in Pids, NEW hup \in BOOLEAN, LeaveLoop(p, hup) PROVE TypeOK'
  BY <1>12 DEF LeaveLoop, Go, Places
<1>13. ASSUME NEW p \in Pids, Crash(p) PROVE TypeOK'
  BY <1>13 DEF Crash, Ends, Go, Places
<1>14. ASSUME NEW p \in Pids, OtherProgram(p) PROVE TypeOK'
  BY <1>14 DEF OtherProgram, Go, Places
<1> QED
  BY <1>1, <1>2, <1>3, <1>4, <1>5, <1>6, <1>7, <1>8, <1>9, <1>10, <1>11, <1>12, <1>13, <1>14
     DEF Next, PidInit, Main

LEMMA InitType == Init => TypeOK
<1> SUFFICES ASSUME Init PROVE TypeOK
  OBVIOUS
<1>1. pc \in [Pids -> Places] /\ mode \in [Pids -> AllModes]
  BY DEF Init, Places, AllModes
<1>2. seen \in [Pids -> Pids \union {None}] /\ pidfile \in Pids \union {None}
  BY DEF Init
<1>3. \A p \in Pids : pc[p] \in {"kill", "unlink"} => seen[p] # None
  BY DEF Init
<1>4. /\ tmp \subseteq Pids /\ restart \subseteq Pids
      /\ stale \in BOOLEAN /\ intruded \in BOOLEAN /\ crowded \in BOOLEAN
  BY DEF Init
<1>5. launches \in 0 .. MaxLaunches
  BY DEF Init
<1> QED
  BY <1>1, <1>2, <1>3, <1>4, <1>5 DEF TypeOK

\* The variables always have their types; a process about to check or to unlink
\* has read a pid.
THEOREM TypeCorrect == Spec => []TypeOK
  BY InitType, TypeStep, PTL DEF Spec

-----------------------------------------------------------------------------
(* The pidfile names the only daemon *)

\* What pid_init relies on: the process is a daemon to
\* be, the file has not changed but for being removed since its pid was read, and
\* no daemon is left when it is taken for stale.
StartingAreDaemons == \A p \in Starting : mode[p] = "daemon"

OneStarting == ~crowded => \A p, q \in Starting : p = q

Disturbed == intruded \/ crowded

FileAsSeen == ~Disturbed => \A p \in Pids : pc[p] = "kill" => pidfile \in {None, seen[p]}

NoDaemonAtUnlink == ~Disturbed => \A p \in Pids : pc[p] = "unlink" => Daemons = {}

IInv == /\ TypeOK /\ PidfileNamesDaemon
        /\ StartingAreDaemons /\ OneStarting /\ FileAsSeen /\ NoDaemonAtUnlink

\* A step that brings no process into pid_init, lets no daemon in and leaves the
\* file alone keeps the invariant.
LEMMA Leaves ==
  ASSUME IInv, TypeOK',
         Starting' \subseteq Starting, Daemons' \subseteq Daemons,
         \A q \in Starting' : mode'[q] = mode[q],
         pidfile' = pidfile, intruded' = intruded, crowded' = crowded,
         \A q \in Pids : pc'[q] = "kill" => pc[q] = "kill" /\ seen'[q] = seen[q],
         \A q \in Pids : pc'[q] = "unlink" => pc[q] = "unlink" \/ Daemons = {} \/ Disturbed
  PROVE  IInv'
<1>1. PidfileNamesDaemon' /\ StartingAreDaemons' /\ OneStarting'
  BY DEF IInv, PidfileNamesDaemon, StartingAreDaemons, OneStarting
<1>2. FileAsSeen'
  BY DEF IInv, FileAsSeen, Disturbed
<1>3. NoDaemonAtUnlink'
  BY DEF IInv, NoDaemonAtUnlink, Disturbed
<1> QED
  BY <1>1, <1>2, <1>3 DEF IInv

\* The process that takes the pid q starts with a first place of its mode: as a
\* daemon it is alone in pid_init or marked, otherwise nothing of the invariant is about it.
LEMMA StartKeeps ==
  ASSUME IInv, TypeOK', NEW q \in Pids, NEW m \in AllModes, Start(q, m),
         q \notin Starting, q \notin Daemons,
         pc'[q] = FirstPlace(m),
         \A r \in Pids \ {q} : pc'[r] = pc[r] \/ pc'[r] = "free",
         UNCHANGED <<seen, pidfile, intruded>>
  PROVE  IInv'
<1>1. \A r \in Pids \ {q} : mode'[r] = mode[r]
  BY DEF Start, IInv, TypeOK
<1>2. mode'[q] = m
  BY DEF Start, IInv, TypeOK
<1>3. m # "daemon" => pc'[q] \in {"driver", "released"}
  BY DEF FirstPlace, AllModes
<1>4. m = "daemon" => pc'[q] = "link"
  BY DEF FirstPlace
<1>5. Daemons' \subseteq Daemons
  BY <1>1, <1>2, <1>3, <1>4 DEF Daemons
<1>6. CASE m # "daemon"
  <2>1. Starting' \subseteq Starting
    BY <1>3, <1>6 DEF Starting
  <2>2. \A r \in Starting' : mode'[r] = mode[r]
    BY <1>1, <2>1, <1>3, <1>6 DEF Starting
  <2>3. \A r \in Pids : /\ pc'[r] = "kill" => pc[r] = "kill" /\ seen'[r] = seen[r]
                        /\ pc'[r] = "unlink" => pc[r] = "unlink"
    BY <1>3, <1>6
  <2>4. crowded' = crowded
    BY <1>6 DEF Start, IInv, TypeOK
  <2> QED
    BY <1>5, <2>1, <2>2, <2>3, <2>4, Leaves
<1>7. CASE m = "daemon"
  <2>1. ~crowded' => ~crowded /\ Starting = {}
    BY <1>7 DEF Start
  <2>2. Starting' \subseteq Starting \union {q}
    BY <1>4, <1>7 DEF Starting
  <2>3. ~crowded' => Starting' \subseteq {q}
    BY <2>1, <2>2
  <2>4. StartingAreDaemons'
    BY <1>1, <1>2, <1>7, <2>2 DEF IInv, StartingAreDaemons, Starting
  <2>5. PidfileNamesDaemon' /\ OneStarting'
    BY <1>5, <2>1, <2>3 DEF IInv, PidfileNamesDaemon, OneStarting
  <2>6. FileAsSeen' /\ NoDaemonAtUnlink'
    BY <1>4, <1>7, <2>3 DEF FileAsSeen, NoDaemonAtUnlink, Disturbed, Starting
  <2> QED
    BY <2>4, <2>5, <2>6 DEF IInv
<1> QED
  BY <1>6, <1>7

\* pid_init lets p in, with the pidfile its own.
LEMMA LetInKeeps ==
  ASSUME IInv, TypeOK', NEW p \in Starting, LetIn(p), pidfile' = p, ~Disturbed => Daemons = {},
         UNCHANGED <<mode, intruded, crowded>>
  PROVE  IInv'
<1>1. p \in Pids /\ pc' = [pc EXCEPT ![p] = "driver"]
  BY DEF LetIn, Go, Starting
<1>2. Starting' \subseteq Starting /\ (~crowded => Starting' = {})
  BY <1>1 DEF IInv, TypeOK, OneStarting, Starting
<1>3. Daemons' \subseteq Daemons \union {p}
  BY <1>1 DEF IInv, TypeOK, Daemons
<1>4. PidfileNamesDaemon'
  BY <1>3 DEF PidfileNamesDaemon, Disturbed
<1>5. StartingAreDaemons' /\ OneStarting'
  BY <1>2 DEF IInv, StartingAreDaemons, OneStarting
<1>6. FileAsSeen' /\ NoDaemonAtUnlink'
  BY <1>2 DEF FileAsSeen, NoDaemonAtUnlink, Disturbed, Starting
<1> QED
  BY <1>4, <1>5, <1>6 DEF IInv

LEMMA LinkKeeps ==
  ASSUME IInv, TypeOK', NEW p \in Pids, Link(p)
  PROVE  IInv'
<1>1. p \in Starting
  BY DEF Link, Starting
<1>2. CASE pidfile = None
  <2>1. ~Disturbed => Daemons = {}
    BY <1>2 DEF IInv, PidfileNamesDaemon, Daemons, Disturbed
  <2> QED
    BY <1>1, <1>2, <2>1, LetInKeeps DEF Link
<1>3. CASE pidfile # None
  <2>1. pc' = [pc EXCEPT ![p] = "read"] /\ UNCHANGED <<mode, seen, pidfile, intruded, crowded>>
    BY <1>3 DEF Link, Go
  <2>2. Starting' \subseteq Starting /\ Daemons' \subseteq Daemons
    BY <1>1, <2>1 DEF IInv, TypeOK, Starting, Daemons
  <2> QED
    BY <2>1, <2>2, Leaves DEF IInv, TypeOK
<1> QED
  BY <1>2, <1>3

LEMMA ReadKeeps ==
  ASSUME IInv, TypeOK', NEW p \in Pids, Read(p)
  PROVE  IInv'
<1>1. p \in Starting /\ p \notin Daemons
  BY DEF Read, Starting, Daemons
<1>2. CASE pidfile = None
  <2>1. pc' = [pc EXCEPT ![p] = "link"] /\ UNCHANGED <<mode, seen, pidfile, intruded, crowded>>
    BY <1>2 DEF Read, Go
  <2>2. Starting' \subseteq Starting /\ Daemons' \subseteq Daemons
    BY <1>1, <2>1 DEF IInv, TypeOK, Starting, Daemons
  <2> QED
    BY <2>1, <2>2, Leaves DEF IInv, TypeOK
<1>3. CASE pidfile = p
  <2>1. ~Disturbed => Daemons = {}
    BY <1>1, <1>3 DEF IInv, PidfileNamesDaemon, Disturbed
  <2> QED
    BY <1>1, <1>3, <2>1, LetInKeeps DEF Read
<1>4. CASE pidfile \notin {None, p}
  <2>1. /\ pc' = [pc EXCEPT ![p] = "kill"] /\ seen' = [seen EXCEPT ![p] = pidfile]
        /\ UNCHANGED <<mode, pidfile, intruded, crowded>>
    BY <1>4 DEF Read, Go
  <2>2. Starting' = Starting /\ Daemons' \subseteq Daemons
    BY <1>1, <2>1 DEF IInv, TypeOK, Starting, Daemons
  <2>3. PidfileNamesDaemon' /\ StartingAreDaemons' /\ OneStarting'
    BY <2>1, <2>2 DEF IInv, PidfileNamesDaemon, StartingAreDaemons, OneStarting
  <2>4. FileAsSeen'
    BY <2>1 DEF IInv, TypeOK, FileAsSeen, Disturbed
  <2>5. NoDaemonAtUnlink'
    BY <2>1, <2>2 DEF IInv, TypeOK, NoDaemonAtUnlink, Disturbed
  <2> QED
    BY <2>3, <2>4, <2>5 DEF IInv
<1> QED
  BY <1>2, <1>3, <1>4

\* The daemon that the file names would be the one just found dead.
LEMMA KillKeeps ==
  ASSUME IInv, TypeOK', NEW p \in Pids, Kill(p)
  PROVE  IInv'
<1>1. pc[p] = "kill" /\ UNCHANGED <<mode, pidfile, intruded, crowded>>
  BY DEF Kill
<1>2. CASE pc[seen[p]] = "free"
  <2>1. pc' = [pc EXCEPT ![p] = "unlink"] /\ seen' = seen
    BY <1>2 DEF Kill, Go
  <2>2. ~Disturbed => Daemons = {}
    <3>1. seen[p] \notin Daemons
      BY <1>2 DEF Daemons
    <3> QED
      BY <1>1, <3>1 DEF IInv, PidfileNamesDaemon, FileAsSeen, Daemons, Disturbed
  <2>3. Starting' \subseteq Starting /\ Daemons' \subseteq Daemons
    BY <1>1, <2>1 DEF IInv, TypeOK, Starting, Daemons
  <2> QED
    BY <1>1, <2>1, <2>2, <2>3, Leaves DEF IInv, TypeOK
<1>3. CASE pc[seen[p]] # "free"
  <2>1. pc' = [pc EXCEPT ![p] = "free"] /\ seen' = [seen EXCEPT ![p] = None]
    BY <1>3 DEF Kill, Refuse, Go
  <2>2. Starting' \subseteq Starting /\ Daemons' \subseteq Daemons
    BY <1>1, <2>1 DEF IInv, TypeOK, Starting, Daemons
  <2> QED
    BY <1>1, <2>1, <2>2, Leaves DEF IInv, TypeOK
<1> QED
  BY <1>2, <1>3

LEMMA UnlinkKeeps ==
  ASSUME IInv, TypeOK', NEW p \in Pids, Unlink(p)
  PROVE  IInv'
<1>1. /\ pc[p] = "unlink" /\ pc' = [pc EXCEPT ![p] = "link"] /\ pidfile' = None
      /\ UNCHANGED <<mode, intruded, crowded>>
  BY DEF Unlink, Go
<1>2. Starting' = Starting /\ Daemons' \subseteq Daemons
  BY <1>1 DEF IInv, TypeOK, Starting, Daemons
<1>3. ~Disturbed => Daemons = {}
  BY <1>1 DEF IInv, NoDaemonAtUnlink
<1>4. PidfileNamesDaemon' /\ StartingAreDaemons' /\ OneStarting'
  BY <1>1, <1>2, <1>3 DEF IInv, PidfileNamesDaemon, StartingAreDaemons, OneStarting, Disturbed
<1>5. FileAsSeen'
  BY <1>1 DEF FileAsSeen, Disturbed
<1>6. NoDaemonAtUnlink'
  BY <1>1, <1>2, <1>3 DEF IInv, TypeOK, NoDaemonAtUnlink, Disturbed
<1> QED
  BY <1>4, <1>5, <1>6 DEF IInv

\* The file that a daemon removes is its own; who is no daemon removes none, or is
\* an intruder.
LEMMA PidExitKeeps ==
  ASSUME IInv, TypeOK', NEW p \in Pids, PidExit(p)
  PROVE  IInv'
<1>1. /\ pc[p] = "released" /\ pidfile' = None /\ UNCHANGED <<mode, seen, crowded>>
      /\ intruded' = (intruded \/ (mode[p] # "daemon" /\ pidfile # None))
  BY DEF PidExit
<1>2. \/ pc' = [pc EXCEPT ![p] = "exec"]
      \/ pc' = [pc EXCEPT ![p] = "free"]
  BY DEF PidExit, Go
<1>3. Starting' = Starting /\ Daemons' = Daemons \ {p}
  BY <1>1, <1>2 DEF IInv, TypeOK, Starting, Daemons
<1>4. ~Disturbed' => Daemons' = {}
  <2>1. CASE mode[p] = "daemon"
    BY <1>1, <1>3, <2>1 DEF IInv, PidfileNamesDaemon, Daemons, Disturbed
  <2>2. CASE mode[p] # "daemon"
    BY <1>1, <1>3, <2>2 DEF IInv, PidfileNamesDaemon, Daemons, Disturbed
  <2> QED
    BY <2>1, <2>2
<1>5. PidfileNamesDaemon' /\ StartingAreDaemons' /\ OneStarting' /\ NoDaemonAtUnlink'
  BY <1>1, <1>3, <1>4
     DEF IInv, PidfileNamesDaemon, StartingAreDaemons, OneStarting, NoDaemonAtUnlink, Disturbed
<1>6. FileAsSeen'
  BY <1>1 DEF FileAsSeen, Disturbed
<1> QED
  BY <1>5, <1>6 DEF IInv

\* A process goes on or ends without touching the pidfile.
LEMMA OthersKeep ==
  ASSUME IInv, TypeOK', NEW p \in Pids,
         \A q \in Pids \ {p} : pc'[q] = pc[q] /\ seen'[q] = seen[q],
         \/ pc'[p] \in {"free", "other"}
         \/ /\ pc[p] \in {"driver", "layout", "loop", "left"}
            /\ pc'[p] \in {"layout", "loop", "left", "released"},
         mode' = mode, pidfile' = pidfile, intruded' = intruded, crowded' = crowded
  PROVE  IInv'
<1>1. Starting' \subseteq Starting /\ Daemons' \subseteq Daemons
  BY DEF Starting, Daemons
<1>2. \A q \in Pids : /\ pc'[q] = "kill" => pc[q] = "kill" /\ seen'[q] = seen[q]
                      /\ pc'[q] = "unlink" => pc[q] = "unlink"
  OBVIOUS
<1> QED
  BY <1>1, <1>2, Leaves

LEMMA InvStep == IInv /\ [Next]_vars => IInv'
<1> SUFFICES ASSUME IInv, [Next]_vars PROVE IInv'
  OBVIOUS
<1>0. TypeOK'
  BY TypeStep DEF IInv
<1>1. CASE UNCHANGED vars
  BY <1>1 DEF vars, IInv, TypeOK, PidfileNamesDaemon, StartingAreDaemons, OneStarting,
              FileAsSeen, NoDaemonAtUnlink, Daemons, Starting, Disturbed
<1>2. ASSUME NEW p \in Pids, NEW m \in Modes, Launch(p, m) PROVE IInv'
  <2>1. /\ p \notin Starting /\ p \notin Daemons /\ m \in AllModes
        /\ pc'[p] = FirstPlace(m) /\ \A r \in Pids \ {p} : pc'[r] = pc[r]
    BY <1>2 DEF Launch, Go, Starting, Daemons, IInv, TypeOK
  <2> QED
    BY <1>0, <1>2, <2>1, StartKeeps DEF Launch
<1>3. ASSUME NEW p \in Pids, NEW q \in Pids, Exec(p, q) PROVE IInv'
  <2>1. /\ q \notin Starting /\ q \notin Daemons /\ mode[p] \in AllModes
        /\ pc'[q] = FirstPlace(mode[p])
        /\ \A r \in Pids \ {q} : pc'[r] = pc[r] \/ pc'[r] = "free"
    BY <1>3 DEF Exec, Starting, Daemons, IInv, TypeOK
  <2> QED
    BY <1>0, <1>3, <2>1, StartKeeps DEF Exec
<1>4. ASSUME NEW p \in Pids, PidInit(p) PROVE IInv'
  BY <1>0, <1>4, LinkKeeps, ReadKeeps, KillKeeps, UnlinkKeeps DEF PidInit
<1>5. ASSUME NEW p \in Pids, PidExit(p) PROVE IInv'
  BY <1>0, <1>5, PidExitKeeps
<1>6. ASSUME NEW p \in Pids,
             SystemError(p) \/ LayoutMissing(p) \/ Crash(p) \/ ExecFails(p)
      PROVE  IInv'
  <2>1. /\ pc' = [pc EXCEPT ![p] = "free"]
        /\ mode' = mode /\ pidfile' = pidfile /\ intruded' = intruded /\ crowded' = crowded
        /\ seen' = seen \/ seen' = [seen EXCEPT ![p] = None]
    BY <1>6 DEF SystemError, Refuse, LayoutMissing, Ends, Crash, ExecFails, Go
  <2>2. pc'[p] = "free" /\ \A q \in Pids \ {p} : pc'[q] = pc[q] /\ seen'[q] = seen[q]
    BY <2>1 DEF IInv, TypeOK
  <2> QED
    BY <1>0, <2>1, <2>2, OthersKeep
<1>7. ASSUME NEW p \in Pids, DriverInit(p) \/ DriverFails(p) \/ LayoutInit(p) \/ DrvQuit(p)
                             \/ (\E hup \in BOOLEAN : LeaveLoop(p, hup))
      PROVE  IInv'
  <2>1. PICK place \in {"layout", "loop", "left", "released"} :
             pc' = [pc EXCEPT ![p] = place]
    BY <1>7 DEF DriverInit, DriverFails, LayoutInit, DrvQuit, LeaveLoop, Go
  <2>2. /\ pc[p] \in {"driver", "layout", "loop", "left"}
        /\ UNCHANGED <<mode, seen, pidfile, intruded, crowded>>
    BY <1>7 DEF DriverInit, DriverFails, LayoutInit, DrvQuit, LeaveLoop
  <2>3. /\ pc'[p] \in {"layout", "loop", "left", "released"}
        /\ \A q \in Pids \ {p} : pc'[q] = pc[q] /\ seen'[q] = seen[q]
    BY <2>1, <2>2 DEF IInv, TypeOK
  <2> QED
    BY <1>0, <2>2, <2>3, OthersKeep
<1>8. ASSUME NEW p \in Pids, OtherProgram(p) PROVE IInv'
  <2>1. UNCHANGED <<mode, seen, pidfile, intruded, crowded>>
    BY <1>8 DEF OtherProgram
  <2>2. pc'[p] \in {"free", "other"} /\ \A q \in Pids \ {p} : pc'[q] = pc[q]
    BY <1>8 DEF OtherProgram, Go, IInv, TypeOK
  <2> QED
    BY <1>0, <2>1, <2>2, OthersKeep
<1> QED
  BY <1>1, <1>2, <1>3, <1>4, <1>5, <1>6, <1>7, <1>8 DEF Next, Main

\* However processes crash, restart, fail to start or get the pid of an older one, the
\* pidfile exists and names the daemon while one runs, unless two processes were in
\* pid_init at once or one in another mode removed the file.
THEOREM PidfileNamesTheDaemon == Spec => []PidfileNamesDaemon
<1>1. Init => IInv
  <2> SUFFICES ASSUME Init PROVE IInv
    OBVIOUS
  <2>1. Daemons = {} /\ Starting = {} /\ \A p \in Pids : pc[p] = "free"
    BY DEF Init, Daemons, Starting
  <2>2. PidfileNamesDaemon /\ StartingAreDaemons /\ OneStarting /\ FileAsSeen /\ NoDaemonAtUnlink
    BY <2>1 DEF PidfileNamesDaemon, StartingAreDaemons, OneStarting, FileAsSeen, NoDaemonAtUnlink
  <2> QED
    BY <2>2, InitType DEF IInv
<1>2. IInv /\ [Next]_vars => IInv'
  BY InvStep
<1>3. IInv => PidfileNamesDaemon
  BY DEF IInv
<1> QED
  BY <1>1, <1>2, <1>3, PTL DEF Spec

-----------------------------------------------------------------------------
(* Nothing is left behind *)

\* A pidfile without a mark of a crash names a daemon; temporary files belong to
\* processes in pid_init, or to one that was killed there.
NInv == TypeOK /\ StartingAreDaemons /\ NothingLeftBehind

\* A step by which p alone moves, from a place where it has no temporary file, and which
\* takes p from the daemons only together with the pidfile or with a mark.
LEMMA MoveLeavesNothing ==
  ASSUME NInv, NEW p \in Pids, NEW place \in Places \ {"link", "read", "kill", "unlink"},
         pc' = [pc EXCEPT ![p] = place], mode' = mode, tmp' = tmp,
         pc[p] \notin {"link", "read", "kill", "unlink", "free", "other"} \/ place \in {"free", "other"},
         \/ pidfile' = pidfile /\ stale' = (stale \/ pidfile = p)
         \/ /\ pidfile' = pidfile /\ stale' = stale
            /\ p \in Daemons => place \in {"driver", "layout", "loop", "left", "released"}
         \/ pidfile' = None
  PROVE  StartingAreDaemons' /\ NothingLeftBehind'
<1> USE DEF NInv
<1>1. \A r \in Pids \ {p} : pc'[r] = pc[r]
  BY DEF TypeOK
<1>2. pc'[p] = place
  BY DEF TypeOK
<1>3. StartingAreDaemons'
  BY <1>1, <1>2 DEF StartingAreDaemons, Starting
<1>4. pidfile' = None \/ stale' \/ pidfile' \in Daemons'
  BY <1>1, <1>2 DEF NothingLeftBehind, Daemons, TypeOK
<1>5. \A r \in tmp' : pc'[r] \in {"link", "read", "kill", "unlink", "free", "other"}
  BY <1>1, <1>2 DEF NothingLeftBehind, TypeOK
<1> QED
  BY <1>3, <1>4, <1>5 DEF NothingLeftBehind

\* Process q starts anew, the place of an old one that restarts itself is free by then.
LEMMA StartLeavesNothing ==
  ASSUME NInv, NEW p \in Pids, NEW q \in Pids, NEW m \in AllModes, Start(q, m),
         pc[q] = "free" \/ (pc[q] = "exec" /\ p = q), p # q => pc[p] = "exec",
         pc' = [pc EXCEPT ![p] = "free", ![q] = FirstPlace(m)],
         pidfile' = pidfile, stale' = stale
  PROVE  StartingAreDaemons' /\ NothingLeftBehind'
<1> USE DEF NInv
<1>1. \A r \in Pids \ {p, q} : pc'[r] = pc[r]
  BY DEF TypeOK
<1>2. pc'[q] = FirstPlace(m) /\ (p # q => pc'[p] = "free")
  BY DEF TypeOK
<1>3. mode'[q] = m /\ \A r \in Pids \ {q} : mode'[r] = mode[r]
  BY DEF Start, TypeOK
<1>4. m = "daemon" => FirstPlace(m) = "link"
  BY DEF FirstPlace
<1>5. m # "daemon" => FirstPlace(m) \in {"driver", "released"}
  BY DEF FirstPlace
<1>6. StartingAreDaemons'
  BY <1>1, <1>2, <1>3, <1>5 DEF StartingAreDaemons, Starting
<1>7. \A r \in Daemons : r # p /\ r # q
  BY DEF Daemons
<1>8. Daemons \subseteq Daemons'
  BY <1>1, <1>3, <1>7 DEF Daemons
<1>9. \A r \in tmp' : pc'[r] \in {"link", "read", "kill", "unlink", "free", "other"}
  BY <1>1, <1>2, <1>4 DEF Start, NothingLeftBehind, TypeOK
<1> QED
  BY <1>6, <1>8, <1>9 DEF NothingLeftBehind

\* Every step keeps it.
LEMMA NStep == NInv /\ [Next]_vars => NInv'
<1> SUFFICES ASSUME NInv, [Next]_vars PROVE NInv'
  OBVIOUS
<1> USE DEF NInv
<1>t. TypeOK'
  BY TypeStep
<1> SUFFICES StartingAreDaemons' /\ NothingLeftBehind'
  BY <1>t
<1>1. CASE UNCHANGED vars
  BY <1>1 DEF vars, StartingAreDaemons, Starting, NothingLeftBehind, Daemons
<1>2. ASSUME NEW q \in Pids, NEW m \in Modes, Launch(q, m)
      PROVE  StartingAreDaemons' /\ NothingLeftBehind'
  <2>1. pc' = [pc EXCEPT ![q] = "free", ![q] = FirstPlace(m)]
    BY <1>2 DEF Launch, Go, TypeOK
  <2> QED
    BY <1>2, <2>1, StartLeavesNothing DEF Launch
<1>3. ASSUME NEW p \in Pids, NEW q \in Pids, Exec(p, q)
      PROVE  StartingAreDaemons' /\ NothingLeftBehind'
  BY <1>3, StartLeavesNothing DEF Exec, TypeOK
<1>4. ASSUME NEW p \in Pids, PidInit(p) \/ SystemError(p)
      PROVE  StartingAreDaemons' /\ NothingLeftBehind'
  <2>1. pc[p] \in {"link", "read", "kill", "unlink"} /\ mode' = mode /\ mode[p] = "daemon"
    BY <1>4 DEF PidInit, Link, Read, Kill, Unlink, SystemError, StartingAreDaemons, Starting
  <2>2. \A r \in Pids \ {p} : pc'[r] = pc[r]
    BY <1>4 DEF PidInit, Link, Read, Kill, Unlink, SystemError, Go, LetIn, Refuse, TypeOK
  <2>3. /\ tmp' \subseteq tmp
        /\ \/ pc'[p] \in {"link", "read", "kill", "unlink"}
           \/ pc'[p] \in {"driver", "free"} /\ p \notin tmp'
    BY <1>4 DEF PidInit, Link, Read, Kill, Unlink, SystemError, Go, LetIn, Refuse, TypeOK
  <2>4. StartingAreDaemons'
    BY <2>1, <2>2 DEF StartingAreDaemons, Starting
  <2>5. Daemons \subseteq Daemons'
    BY <2>1, <2>2 DEF Daemons
  <2>6. \/ pidfile' = pidfile /\ stale' = stale
        \/ pidfile' = None
        \/ pidfile' = p /\ p \in Daemons'
    BY <1>4, <2>1 DEF PidInit, Link, Read, Kill, Unlink, SystemError, Go, LetIn, Refuse, TypeOK, Daemons
  <2>7. \A r \in tmp' : pc'[r] \in {"link", "read", "kill", "unlink", "free", "other"}
    BY <2>2, <2>3 DEF NothingLeftBehind, TypeOK
  <2> QED
    BY <2>4, <2>5, <2>6, <2>7 DEF NothingLeftBehind
<1>5. ASSUME NEW p \in Pids, DriverInit(p) \/ DriverFails(p) \/ LayoutInit(p) \/ DrvQuit(p)
      PROVE  StartingAreDaemons' /\ NothingLeftBehind'
  BY <1>5, MoveLeavesNothing DEF DriverInit, DriverFails, LayoutInit, DrvQuit, Go, Places
<1>6. ASSUME NEW p \in Pids, LayoutMissing(p)
      PROVE  StartingAreDaemons' /\ NothingLeftBehind'
  BY <1>6, MoveLeavesNothing DEF LayoutMissing, Ends, Go, Places
<1>7. ASSUME NEW p \in Pids, PidExit(p)
      PROVE  StartingAreDaemons' /\ NothingLeftBehind'
  BY <1>7, MoveLeavesNothing DEF PidExit, Go, Places
<1>8. ASSUME NEW p \in Pids, ExecFails(p)
      PROVE  StartingAreDaemons' /\ NothingLeftBehind'
  <2>1. p \notin Daemons
    BY <1>8 DEF ExecFails, Daemons
  <2> QED
    BY <1>8, <2>1, MoveLeavesNothing DEF ExecFails, Go, Places
<1>9. ASSUME NEW p \in Pids, NEW hup \in BOOLEAN, LeaveLoop(p, hup)
      PROVE  StartingAreDaemons' /\ NothingLeftBehind'
  BY <1>9, MoveLeavesNothing DEF LeaveLoop, Go, Places
<1>10. ASSUME NEW p \in Pids, Crash(p)
       PROVE  StartingAreDaemons' /\ NothingLeftBehind'
  BY <1>10, MoveLeavesNothing DEF Crash, Ends, Go, Places
<1>11. ASSUME NEW p \in Pids, OtherProgram(p)
       PROVE  StartingAreDaemons' /\ NothingLeftBehind'
  <2>1. p \notin Daemons
    BY <1>11 DEF OtherProgram, Daemons
  <2> QED
    BY <1>11, <2>1, MoveLeavesNothing DEF OtherProgram, Go, Places
<1> QED
  BY <1>1, <1>2, <1>3, <1>4, <1>5, <1>6, <1>7, <1>8, <1>9, <1>10, <1>11 DEF Next, Main

\* However many processes start, fail, crash and restart at once: a pidfile that names no
\* daemon is the work of a crash or of a start without layout, and pid_init leaves no
\* temporary file behind.
THEOREM NothingIsLeftBehind == Spec => []NothingLeftBehind
<1>1. Init => NInv
  BY InitType DEF Init, NInv, StartingAreDaemons, Starting, NothingLeftBehind
<1>2. NInv => NothingLeftBehind
  BY DEF NInv
<1> QED
  BY <1>1, <1>2, NStep, PTL DEF Spec

=============================================================================
