------------------------------- MODULE TeakLCM -------------------------------
(***************************************************************************)
(* drv_TeakLCM.c: the conversation with a two-line display on a serial     *)
(* line.  Both sides send command frames and data frames; the driver keeps *)
(* a state machine that decides when the display may be written to, and a  *)
(* shadow of both rows, which it prints when the display (re)connects.     *)
(*                                                                         *)
(* Operators named after functions map the driver's record to what the     *)
(* function leaves; lcm.tx, the frames it has written, is also the line to *)
(* the display.  The display itself is outside of the program: Panel...    *)
(* is what the state machine expects of it.                                *)
(***************************************************************************)
EXTENDS Integers, Sequences, FiniteSets

CONSTANTS
  Texts,           \* what a row may hold
  Blank,           \* a row of spaces
  MaxWrites,       \* bounds: writes of the text driver,
  MaxStarts,       \*   starts of the program,
  MaxSurprises     \*   resets of the display, frames nobody asked for, frames lost

ASSUME TeakLCMAssumption ==
  /\ Blank \in Texts
  /\ MaxWrites \in Nat /\ MaxStarts \in Nat /\ MaxSurprises \in Nat

VARIABLES
  lcm,       \* lcm_fsm, global_reset_rx_flag, aborted and the frames written
  shadow,    \* the text of each row
  phase,     \* "down", "started" (the connect timer is pending) or "up"
  rx,        \* the frames on the way to the driver
  panel,     \* the display: mode, whether it is on, its rows
  quit,      \* history: the driver was quit while connected
  lost,      \* history: a frame to the driver was lost
  left,      \* history: the display has disconnected by itself, and was not reset since
  misled,    \* history: the driver has taken a CONFIRM for the end of a handshake
  used       \* how much of each bound is used

history == <<quit, lost, left, misled>>
vars == <<lcm, shadow, phase, rx, panel, history, used>>

States == {"IDLE", "COMMAND", "CONNECTED"}

Rows == {1, 2}

\* LCM_ commands the driver does not send are left out.
Cmds == {"CONNECT", "DISCONNECT", "ACK", "NACK", "CONFIRM", "RESET",
         "DISPLAY_ON", "DISPLAY_OFF", "BACKLIGHT_ON"}

\* What may arrive.  ALARM stands for every command that fsm_handle_cmd has no case for,
\* WRITE for a key and for data that is none, which differ in the log only.
\* The others are a key of several bytes, and data with a checksum that is right
\* and a length that is not.
PanelCmds == {"CONNECT", "DISCONNECT", "ACK", "NACK", "CONFIRM", "RESET", "ALARM",
              "WRITE", "WRITE_LONG", "BAD_LENGTH"}

Unset == "unset"                  \* next_state = -1
Uninitialized == [cmd |-> "ACTION_UNINITIALIZED"]
Noop == [cmd |-> "ACTION_NOOP"]

Cmd(c) == [cmd |-> c]

\* CMD_PRINT1 and CMD_PRINT2 with the text of the row.
PrintRow(r, t) == [cmd |-> "PRINT", row |-> r, text |-> t]

Frames == {Cmd(c) : c \in Cmds} \union {PrintRow(r, t) : r \in Rows, t \in Texts}

Actions == Frames \union {Uninitialized, Noop}

-----------------------------------------------------------------------------
(* The state machine *)

\* fsm_trans_noop, fsm_trans_cmd and fsm_trans_data.
fsm_trans(h, next, action) == [h EXCEPT !.next_state = next, !.action = action]

raw_send(h, f) == [h EXCEPT !.tx = Append(@, f)]

\* The first half of fsm_step.
Perform(h) ==
  [h EXCEPT !.action = Uninitialized,
            !.tx = IF h.action = Noop THEN @ ELSE Append(@, h.action)]

\* What fsm_step does unless it enters CONNECTED.
Settle(h) == [Perform(h) EXCEPT !.state = h.next_state, !.next_state = Unset]

\* fsm_send and fsm_send_data: nothing is queued for a display that is not
\* connected; for one that is, fsm_trans and fsm_step leave the frame written.
fsm_send(h, f) ==
  IF h.state = "CONNECTED"
  THEN [h EXCEPT !.next_state = Unset, !.action = Uninitialized, !.tx = Append(@, f)]
  ELSE h

flush_shadow(h, s) == fsm_send(fsm_send(h, PrintRow(1, s[1])), PrintRow(2, s[2]))

\* Mutant of try_reset: the state machine is not put back.
Bug_NoInit(h) == raw_send(h, Cmd("RESET"))

\* fsm_init and CMD_RESET.
try_reset(h) ==
  raw_send([h EXCEPT !.state = "IDLE", !.next_state = Unset, !.action = Uninitialized],
           Cmd("RESET"))

\* "properly connected for the first time", and again after each reset.
Greet(h, s) ==
  fsm_send(flush_shadow(fsm_send(h, Cmd("DISPLAY_ON")), s), Cmd("BACKLIGHT_ON"))

\* Mutant of fsm_step: the rows are not printed on entering CONNECTED.
Bug_NoFlush(h, s) == Settle(h)

\* abort stands for both calls of abort(): no action, or no next state.
fsm_step(h, s) ==
  IF h.action = Uninitialized \/ h.next_state = Unset THEN [h EXCEPT !.aborted = TRUE]
  ELSE IF h.next_state # "CONNECTED" \/ h.state = "CONNECTED" THEN Settle(h)
  ELSE IF h.reset_rx THEN Greet(Settle(h), s)
  ELSE try_reset(Perform(h))

React(next, action) == [next |-> next, action |-> action]

\* The two tables of fsm_handle_cmd, and what it does with any other command.
WhenNotConnected ==
  [CONNECT |-> React("COMMAND", Cmd("ACK")),
   ACK     |-> React("CONNECTED", Cmd("CONFIRM")),
   NACK    |-> React("IDLE", Cmd("CONFIRM")),
   CONFIRM |-> React("CONNECTED", Noop),
   RESET   |-> React("COMMAND", Cmd("CONNECT"))]

WhenConnected ==
  [ACK        |-> React("CONNECTED", Cmd("CONFIRM")),
   CONNECT    |-> React("CONNECTED", Cmd("NACK")),
   DISCONNECT |-> React("CONNECTED", Cmd("ACK")),
   RESET      |-> React("IDLE", Cmd("CONNECT"))]

Reaction(state, c) ==
  IF state = "CONNECTED"
  THEN IF c \in DOMAIN WhenConnected THEN WhenConnected[c] ELSE React("CONNECTED", Noop)
  ELSE IF c \in DOMAIN WhenNotConnected THEN WhenNotConnected[c] ELSE React("IDLE", Cmd("NACK"))

\* Mutant of fsm_handle_cmd: commands it does not know are only logged.
Bug_UnknownIgnored(h, c, s) ==
  LET r == Reaction(h.state, c)
      g == [h EXCEPT !.reset_rx = @ \/ c = "RESET"]
  IN fsm_step(IF c = "ALARM" THEN g ELSE fsm_trans(g, r.next, r.action), s)

\* Mutant of fsm_handle_cmd: a connected driver does not answer a reset.
Bug_ResetIgnored(h, c, s) ==
  LET r == IF h.state = "CONNECTED" /\ c = "RESET" THEN React("CONNECTED", Noop)
           ELSE Reaction(h.state, c)
      g == [h EXCEPT !.reset_rx = @ \/ c = "RESET"]
  IN fsm_step(fsm_trans(g, r.next, r.action), s)

fsm_handle_cmd(h, c, s) ==
  LET r == Reaction(h.state, c)
      g == [h EXCEPT !.reset_rx = @ \/ c = "RESET"]
  IN fsm_step(fsm_trans(g, r.next, r.action), s)

\* The assertions of fsm_handle_bytes and of fsm_handle_datacmd.
AssertionFails(h, c) ==
  c = "BAD_LENGTH" \/ (c = "WRITE_LONG" /\ h.state = "CONNECTED")

fsm_handle_datacmd(h, s) ==
  fsm_step(IF h.state = "CONNECTED" THEN fsm_trans(h, "CONNECTED", Noop)
           ELSE fsm_trans(h, h.state, Cmd("NACK")), s)

-----------------------------------------------------------------------------
(* The driver *)

Use(b, bound) == used[b] < bound /\ used' = [used EXCEPT ![b] = @ + 1]

Running == phase \in {"started", "up"} /\ ~lcm.aborted

\* drv_TeakLCM_start reads what the line holds, up to 32 bytes of it, away.
drv_TeakLCM_start ==
  /\ phase = "down" /\ Use("starts", MaxStarts)
  /\ phase' = "started" /\ quit' = FALSE
  /\ lcm' = [state |-> "IDLE", next_state |-> Unset, action |-> Uninitialized,
             reset_rx |-> FALSE, aborted |-> FALSE, tx |-> lcm.tx]
  /\ shadow' = [r \in Rows |-> Blank]
  /\ \E n \in 0 .. Len(rx) : rx' = SubSeq(rx, n + 1, Len(rx))
  /\ UNCHANGED <<panel, lost, left, misled>>

\* The one-shot timer that drv_TeakLCM_start has added.
initial_connect_to_display_callback ==
  /\ phase = "started"
  /\ phase' = "up" /\ lcm' = try_reset(lcm)
  /\ UNCHANGED <<shadow, rx, panel, history, used>>

\* A read that ends with a whole frame.  Reads of several frames are as many of
\* these steps: nothing else of the program runs in between, and what the line
\* does in between it may also do before.  An assertion that fails kills the process.
lcm_event_callback ==
  /\ phase = "up" /\ ~lcm.aborted /\ rx # <<>>
  /\ rx' = Tail(rx)
  /\ LET c == Head(rx).cmd IN
     \/ /\ AssertionFails(lcm, c)
        /\ phase' = "down" /\ UNCHANGED <<lcm, misled>>
     \/ /\ ~AssertionFails(lcm, c) /\ UNCHANGED phase
        /\ lcm' = IF c \in {"WRITE", "WRITE_LONG"} THEN fsm_handle_datacmd(lcm, shadow)
                  ELSE fsm_handle_cmd(lcm, c, shadow)
        /\ misled' = (misled \/ (c = "CONFIRM" /\ lcm.state # "CONNECTED"
                                   /\ lcm'.state = "CONNECTED"))
  /\ UNCHANGED <<shadow, panel, quit, lost, left, used>>

\* Frames are not put together from several reads.  Of a frame that is cut by
\* the end of a read, the second part is garbage at the head of the next read,
\* which is dropped with all that follows in it; so is a read with a damaged
\* data frame.  Some of these leave a NACK for the next fsm_step, which every
\* caller of it overwrites.  A frame that arrives as another one is one that is
\* lost in front of that other one: see Stray.
DropDamaged(n) ==
  /\ phase = "up" /\ ~lcm.aborted /\ n \in 1 .. Len(rx)
  /\ Use("surprises", MaxSurprises)
  /\ rx' = SubSeq(rx, n + 1, Len(rx))
  /\ \/ lcm' = fsm_trans(lcm, lcm.state, Cmd("NACK"))
     \/ UNCHANGED lcm
  /\ lost' = TRUE
  /\ UNCHANGED <<shadow, phase, panel, quit, left, misled>>

\* Called by blit of the text driver with a part of the row that has changed: t is
\* the row with that part in it.
drv_TeakLCM_write(r, t) ==
  /\ Running /\ t # shadow[r] /\ Use("writes", MaxWrites)
  /\ shadow' = [shadow EXCEPT ![r] = t]
  /\ lcm' = fsm_send(lcm, PrintRow(r, shadow'[r]))
  /\ UNCHANGED <<phase, rx, panel, history>>

\* Mutant of drv_TeakLCM_quit: disconnects before it clears the display.
Bug_DisconnectsFirst ==
  /\ Running /\ phase' = "down" /\ quit' = (lcm.state = "CONNECTED")
  /\ shadow' = [r \in Rows |-> Blank]
  /\ lcm' = fsm_send(flush_shadow(fsm_send(lcm, Cmd("DISCONNECT")), shadow'), Cmd("DISPLAY_OFF"))
  /\ UNCHANGED <<rx, panel, lost, left, misled, used>>

\* With drv_TeakLCM_clear and drv_TeakLCM_close.
drv_TeakLCM_quit ==
  /\ Running /\ phase' = "down" /\ quit' = (lcm.state = "CONNECTED")
  /\ shadow' = [r \in Rows |-> Blank]
  /\ lcm' = fsm_send(fsm_send(flush_shadow(lcm, shadow'), Cmd("DISPLAY_OFF")), Cmd("DISCONNECT"))
  /\ UNCHANGED <<rx, panel, lost, left, misled, used>>

\* The process is killed: what it has written is on its way.
Crash ==
  /\ Running /\ phase' = "down"
  /\ UNCHANGED <<lcm, shadow, rx, panel, history, used>>

-----------------------------------------------------------------------------
(* The display *)

PanelReset == [mode |-> "IDLE", on |-> FALSE, rows |-> [r \in Rows |-> Blank]]

\* What it shows after a frame f.
PanelAfter(f) ==
  CASE f.cmd = "RESET" -> PanelReset
    [] f.cmd = "CONNECT" -> [panel EXCEPT !.mode = "COMMAND"]
    [] f.cmd = "CONFIRM" /\ panel.mode = "COMMAND" -> [panel EXCEPT !.mode = "CONNECTED"]
    [] f.cmd = "DISCONNECT" -> [panel EXCEPT !.mode = "IDLE"]
    [] f.cmd = "PRINT" /\ panel.mode = "CONNECTED" -> [panel EXCEPT !.rows[f.row] = f.text]
    [] f.cmd = "DISPLAY_ON" /\ panel.mode = "CONNECTED" -> [panel EXCEPT !.on = TRUE]
    [] f.cmd = "DISPLAY_OFF" /\ panel.mode = "CONNECTED" -> [panel EXCEPT !.on = FALSE]
    [] OTHER -> panel

\* And what it answers: it announces a reset, and acknowledges what asks for it.
PanelAnswer(f) ==
  CASE f.cmd = "RESET" -> <<Cmd("RESET")>>
    [] f.cmd \in {"CONNECT", "DISCONNECT"} -> <<Cmd("ACK")>>
    [] OTHER -> <<>>

PanelReceives ==
  /\ lcm.tx # <<>>
  /\ panel' = PanelAfter(Head(lcm.tx)) /\ rx' = rx \o PanelAnswer(Head(lcm.tx))
  /\ lcm' = [lcm EXCEPT !.tx = Tail(@)]
  /\ left' = (left /\ Head(lcm.tx).cmd # "RESET")
  /\ UNCHANGED <<shadow, phase, quit, lost, misled, used>>

PowerCycle ==
  /\ Use("surprises", MaxSurprises)
  /\ panel' = PanelReset /\ rx' = Append(rx, Cmd("RESET")) /\ left' = FALSE
  /\ UNCHANGED <<lcm, shadow, phase, quit, lost, misled>>

\* The end of the connection on its side, which the driver acknowledges and does
\* not take part in.
PanelLeaves ==
  /\ panel.mode = "CONNECTED" /\ Use("surprises", MaxSurprises)
  /\ rx' = Append(rx, Cmd("DISCONNECT"))
  /\ panel' = [panel EXCEPT !.mode = "IDLE"] /\ left' = TRUE
  /\ UNCHANGED <<lcm, shadow, phase, quit, lost, misled>>

\* A key, an alarm, or what a damaged frame arrives as: command frames have no
\* checksum, so that is any command.
Stray(c) ==
  /\ Use("surprises", MaxSurprises) /\ rx' = Append(rx, Cmd(c))
  /\ UNCHANGED <<lcm, shadow, phase, panel, history>>

Init ==
  /\ lcm = [state |-> "IDLE", next_state |-> Unset, action |-> Uninitialized,
            reset_rx |-> FALSE, aborted |-> FALSE, tx |-> <<>>]
  /\ shadow = [r \in Rows |-> Blank] /\ phase = "down"
  /\ rx \in {<<>>, <<Cmd("RESET")>>} /\ panel = PanelReset
  /\ quit = FALSE /\ lost = FALSE /\ left = FALSE /\ misled = FALSE
  /\ used = [b \in {"writes", "starts", "surprises"} |-> 0]

Next ==
  \/ drv_TeakLCM_start \/ initial_connect_to_display_callback \/ lcm_event_callback
  \/ \E n \in 1 .. Len(rx) : DropDamaged(n)
  \/ \E r \in Rows, t \in Texts : drv_TeakLCM_write(r, t)
  \/ drv_TeakLCM_quit \/ Crash
  \/ PanelReceives \/ PowerCycle \/ PanelLeaves
  \/ \E c \in PanelCmds : Stray(c)

Spec == Init /\ [][Next]_vars

\* Timers fire, the descriptor of the line is polled, and the display reads.
Fairness ==
  /\ WF_vars(initial_connect_to_display_callback)
  /\ WF_vars(lcm_event_callback)
  /\ WF_vars(PanelReceives)

FairSpec == Spec /\ Fairness

-----------------------------------------------------------------------------
(* Properties *)

\* The variables have their types.  Between two callbacks a next state is only
\* left behind together with the NACK of a damaged frame.
TypeOK ==
  /\ lcm \in [state : States, next_state : States \union {Unset}, action : Actions,
             reset_rx : BOOLEAN, aborted : BOOLEAN, tx : Seq(Frames)]
  /\ ~lcm.aborted => \/ lcm.action = Uninitialized /\ lcm.next_state = Unset
                     \/ lcm.action = Cmd("NACK") /\ lcm.next_state = lcm.state
  /\ shadow \in [Rows -> Texts] /\ phase \in {"down", "started", "up"}
  /\ rx \in Seq({Cmd(c) : c \in PanelCmds})
  /\ panel \in [mode : States, on : BOOLEAN, rows : [Rows -> Texts]]
  /\ {quit, lost, left, misled} \subseteq BOOLEAN

\* Whatever frame arrives, known to the driver or not, and in whatever state, fsm_step
\* finds an action and a next state: its calls of abort are never reached.  What the two
\* assertions of the driver do to the process is no part of this.
NeverAborts == ~lcm.aborted

\* A display that both sides take for connected shows the shadow as soon as it
\* has read what was sent, however often either side was reset, whatever was
\* written while it was not connected, and whatever frames were lost or nobody's;
\* but a CONFIRM must not have ended a handshake, for no display that waits for one sends it.
ShowsShadow ==
  (phase = "up" /\ lcm.state = "CONNECTED" /\ panel.mode = "CONNECTED" /\ lcm.tx = <<>> /\ ~misled)
    => panel.rows = shadow /\ panel.on

\* A driver that was connected when it was quit leaves the display switched off, unless
\* the display has ended the connection by itself: the driver stays connected then
\* (drv_TeakLCM.c:406), and what it sends at the end is not obeyed.  The CONFIRM of
\* ShowsShadow is left out as well.
QuitLeavesOff == quit /\ ~left /\ ~misled /\ lcm.tx = <<>> => ~panel.on

\* Driver and display always come together again after a reset of either, fall silent, and
\* the display shows the shadow, unless a frame is lost, for nothing is sent again, or the
\* display has ended the connection by itself, or for the CONFIRM of ShowsShadow.
Settled ==
  \/ phase = "down"
  \/ /\ lcm.state = "CONNECTED" /\ panel.mode = "CONNECTED"
     /\ lcm.tx = <<>> /\ rx = <<>> /\ panel.rows = shadow

Reconnects == []<>(lost \/ left \/ misled \/ Settled)
=============================================================================
