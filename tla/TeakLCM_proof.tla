---------------------------- MODULE TeakLCM_proof ----------------------------
(* Proofs about the conversation with the TeakLCM display: the types, that   *)
(* the state machine never aborts, that a display both sides take for        *)
(* connected shows the shadow once it has read what was sent, and that one   *)
(* whose driver was quit while connected ends up switched off.               *)
EXTENDS TeakLCM, SequenceTheorems, TLAPS

USE TeakLCMAssumption

-----------------------------------------------------------------------------
(* The operators of the state machine *)

Host == [state : States, next_state : States \union {Unset}, action : Actions,
         reset_rx : BOOLEAN, aborted : BOOLEAN, tx : Seq(Frames)]

\* No action and no next state are left.
AtRest(h) == h.action = Uninitialized /\ h.next_state = Unset

LEMMA FrameFacts ==
  /\ \A c \in Cmds : Cmd(c) \in Frames /\ Cmd(c) # Uninitialized
  /\ \A r \in Rows, t \in Texts : PrintRow(r, t) \in Frames
  /\ Frames \subseteq Actions /\ Noop \in Actions /\ Uninitialized \in Actions
  /\ Noop # Uninitialized /\ Noop \notin Frames /\ Uninitialized \notin Frames
  /\ Unset \notin States
<1>1. \A c \in Cmds : c # "ACTION_UNINITIALIZED" /\ c # "ACTION_NOOP" /\ c # "PRINT"
  BY DEF Cmds
<1>2. \A f \in Frames : f.cmd # "ACTION_UNINITIALIZED" /\ f.cmd # "ACTION_NOOP"
  BY <1>1 DEF Frames, Cmd, PrintRow
<1>3. Noop.cmd = "ACTION_NOOP" /\ Uninitialized.cmd = "ACTION_UNINITIALIZED"
  BY DEF Noop, Uninitialized
<1>4. Noop \notin Frames /\ Uninitialized \notin Frames /\ Noop # Uninitialized
  BY <1>2, <1>3
<1>5. \A c \in Cmds : Cmd(c) \in Frames
  BY DEF Frames
<1> QED
  BY <1>4, <1>5 DEF Frames, Actions, Unset, States

LEMMA SendType ==
  ASSUME NEW h \in Host, NEW f \in Frames
  PROVE  /\ fsm_send(h, f) \in Host
         /\ fsm_send(h, f).aborted = h.aborted /\ fsm_send(h, f).state = h.state
         /\ AtRest(h) => AtRest(fsm_send(h, f))
         /\ h.state = "CONNECTED" => AtRest(fsm_send(h, f))
         /\ h.state # "CONNECTED" => fsm_send(h, f) = h
<1> DEFINE g == [h EXCEPT !.next_state = Unset, !.action = Uninitialized,
                           !.tx = Append(@, f)]
<1>1. Append(h.tx, f) \in Seq(Frames)
  BY DEF Host
<1>2. g \in Host /\ g.aborted = h.aborted /\ g.state = h.state /\ AtRest(g)
  BY <1>1, FrameFacts DEF Host, AtRest
<1> QED
  BY <1>2 DEF fsm_send

LEMMA FlushType ==
  ASSUME NEW h \in Host, NEW s \in [Rows -> Texts]
  PROVE  /\ flush_shadow(h, s) \in Host
         /\ flush_shadow(h, s).aborted = h.aborted /\ flush_shadow(h, s).state = h.state
         /\ AtRest(h) => AtRest(flush_shadow(h, s))
         /\ h.state = "CONNECTED" => AtRest(flush_shadow(h, s))
         /\ h.state # "CONNECTED" => flush_shadow(h, s) = h
<1> DEFINE g == fsm_send(h, PrintRow(1, s[1]))
<1>1. PrintRow(1, s[1]) \in Frames /\ PrintRow(2, s[2]) \in Frames
  BY FrameFacts DEF Rows
<1>2. g \in Host /\ g.aborted = h.aborted /\ g.state = h.state /\ (AtRest(h) => AtRest(g))
      /\ (h.state # "CONNECTED" => g = h)
  BY <1>1, SendType
<1> HIDE DEF g
<1>3. /\ fsm_send(g, PrintRow(2, s[2])) \in Host
      /\ fsm_send(g, PrintRow(2, s[2])).aborted = h.aborted
      /\ fsm_send(g, PrintRow(2, s[2])).state = h.state
      /\ AtRest(h) => AtRest(fsm_send(g, PrintRow(2, s[2])))
      /\ h.state = "CONNECTED" => AtRest(fsm_send(g, PrintRow(2, s[2])))
      /\ h.state # "CONNECTED" => fsm_send(g, PrintRow(2, s[2])) = h
  BY <1>1, <1>2, SendType
<1> QED
  BY <1>3 DEF flush_shadow, g

LEMMA GreetType ==
  ASSUME NEW h \in Host, NEW s \in [Rows -> Texts]
  PROVE  /\ Greet(h, s) \in Host
         /\ Greet(h, s).aborted = h.aborted /\ Greet(h, s).state = h.state
         /\ AtRest(h) => AtRest(Greet(h, s))
<1> DEFINE g1 == fsm_send(h, Cmd("DISPLAY_ON"))
           g2 == flush_shadow(g1, s)
<1>1. Cmd("DISPLAY_ON") \in Frames /\ Cmd("BACKLIGHT_ON") \in Frames
  BY FrameFacts DEF Cmds
<1>2. g1 \in Host /\ g1.aborted = h.aborted /\ g1.state = h.state /\ (AtRest(h) => AtRest(g1))
  BY <1>1, SendType
<1> HIDE DEF g1
<1>3. g2 \in Host /\ g2.aborted = h.aborted /\ g2.state = h.state /\ (AtRest(h) => AtRest(g2))
  BY <1>2, FlushType
<1> HIDE DEF g2
<1>4. /\ fsm_send(g2, Cmd("BACKLIGHT_ON")) \in Host
      /\ fsm_send(g2, Cmd("BACKLIGHT_ON")).aborted = h.aborted
      /\ fsm_send(g2, Cmd("BACKLIGHT_ON")).state = h.state
      /\ AtRest(h) => AtRest(fsm_send(g2, Cmd("BACKLIGHT_ON")))
  BY <1>1, <1>3, SendType
<1> QED
  BY <1>4 DEF Greet, g1, g2

LEMMA PerformType ==
  ASSUME NEW h \in Host, h.action \in Frames \union {Noop}
  PROVE  /\ Perform(h) \in Host
         /\ Perform(h) = [h EXCEPT !.action = Uninitialized, !.tx = Perform(h).tx]
         /\ Perform(h).tx = IF h.action = Noop THEN h.tx ELSE Append(h.tx, h.action)
<1>1. h.action # Noop => Append(h.tx, h.action) \in Seq(Frames)
  BY DEF Host
<1>2. h.tx \in Seq(Frames)
  BY DEF Host
<1> QED
  BY <1>1, <1>2, FrameFacts DEF Perform, Host

LEMMA ResetType ==
  ASSUME NEW h \in Host
  PROVE  /\ try_reset(h) \in Host /\ try_reset(h).aborted = h.aborted
         /\ AtRest(try_reset(h)) /\ try_reset(h).state = "IDLE"
<1> DEFINE g == [h EXCEPT !.state = "IDLE", !.next_state = Unset, !.action = Uninitialized]
<1>1. Cmd("RESET") \in Frames
  BY FrameFacts DEF Cmds
<1>2. /\ g \in Host /\ AtRest(g) /\ g.aborted = h.aborted /\ g.state = "IDLE"
  BY FrameFacts DEF Host, AtRest, States
<1> HIDE DEF g
<1> DEFINE t == Append(g.tx, Cmd("RESET"))
<1>a. t \in Seq(Frames)
  BY <1>1, <1>2 DEF Host
<1> HIDE DEF t
<1>b. raw_send(g, Cmd("RESET")) = [g EXCEPT !.tx = t]
  BY DEF raw_send, t
<1>3. raw_send(g, Cmd("RESET")) \in Host /\ AtRest(raw_send(g, Cmd("RESET")))
      /\ raw_send(g, Cmd("RESET")).aborted = g.aborted
      /\ raw_send(g, Cmd("RESET")).state = g.state
  BY <1>a, <1>b, <1>2 DEF Host, AtRest
<1> QED
  BY <1>2, <1>3 DEF try_reset, g

LEMMA SettleType ==
  ASSUME NEW h \in Host, h.action \in Frames \union {Noop}, h.next_state \in States
  PROVE  /\ Settle(h) \in Host /\ Settle(h).aborted = h.aborted
         /\ AtRest(Settle(h)) /\ Settle(h).state = h.next_state
         /\ Settle(h).tx = IF h.action = Noop THEN h.tx ELSE Append(h.tx, h.action)
<1> DEFINE g == Perform(h)
<1>1. /\ g \in Host /\ g = [h EXCEPT !.action = Uninitialized, !.tx = g.tx]
      /\ g.tx = IF h.action = Noop THEN h.tx ELSE Append(h.tx, h.action)
  BY PerformType
<1>2. g.action = Uninitialized /\ g.aborted = h.aborted
  BY <1>1 DEF Host
<1>3. Settle(h) = [g EXCEPT !.state = h.next_state, !.next_state = Unset]
  BY DEF Settle
<1> HIDE DEF g
<1>4. Settle(h) \in Host
  BY <1>1, <1>3 DEF Host
<1>5. /\ Settle(h).aborted = g.aborted /\ Settle(h).action = g.action /\ Settle(h).tx = g.tx
      /\ Settle(h).state = h.next_state /\ Settle(h).next_state = Unset
  BY <1>1, <1>3 DEF Host
<1> QED
  BY <1>1, <1>2, <1>4, <1>5 DEF AtRest

\* With an action and a next state fsm_step does not abort, and leaves neither.
LEMMA StepType ==
  ASSUME NEW h \in Host, NEW s \in [Rows -> Texts],
         h.action \in Frames \union {Noop}, h.next_state \in States
  PROVE  /\ fsm_step(h, s) \in Host /\ fsm_step(h, s).aborted = h.aborted
         /\ AtRest(fsm_step(h, s))
<1>1. h.action # Uninitialized /\ h.next_state # Unset
  BY FrameFacts
<1>2. CASE h.next_state # "CONNECTED" \/ h.state = "CONNECTED"
  BY <1>1, <1>2, SettleType DEF fsm_step
<1>3. CASE ~(h.next_state # "CONNECTED" \/ h.state = "CONNECTED") /\ h.reset_rx
  <2>1. Settle(h) \in Host /\ Settle(h).aborted = h.aborted /\ AtRest(Settle(h))
    BY SettleType
  <2> QED
    BY <1>1, <1>3, <2>1, GreetType DEF fsm_step
<1>4. CASE ~(h.next_state # "CONNECTED" \/ h.state = "CONNECTED") /\ ~h.reset_rx
  <2>1. Perform(h) \in Host /\ Perform(h).aborted = h.aborted
    BY PerformType DEF Host
  <2> QED
    BY <1>1, <1>4, <2>1, ResetType DEF fsm_step
<1> QED
  BY <1>2, <1>3, <1>4

LEMMA ReactionType ==
  ASSUME NEW st \in States, NEW c \in PanelCmds
  PROVE  /\ Reaction(st, c).next \in States
         /\ Reaction(st, c).action \in Frames \union {Noop}
<1>1. {Cmd("ACK"), Cmd("NACK"), Cmd("CONFIRM"), Cmd("CONNECT")} \subseteq Frames
  BY FrameFacts DEF Cmds
<1> QED
  BY <1>1 DEF Reaction, WhenConnected, WhenNotConnected, React, States, PanelCmds

LEMMA HandleType ==
  ASSUME NEW h \in Host, NEW s \in [Rows -> Texts], NEW c \in PanelCmds
  PROVE  /\ fsm_handle_cmd(h, c, s) \in Host /\ AtRest(fsm_handle_cmd(h, c, s))
         /\ fsm_handle_cmd(h, c, s).aborted = h.aborted
<1> DEFINE r == Reaction(h.state, c)
           g == [h EXCEPT !.reset_rx = @ \/ c = "RESET"]
           k == fsm_trans(g, r.next, r.action)
<1>1. r.next \in States /\ r.action \in Frames \union {Noop}
  BY ReactionType DEF Host
<1> HIDE DEF r
<1>2. k \in Host /\ k.action = r.action /\ k.next_state = r.next /\ k.aborted = h.aborted
  BY <1>1, FrameFacts DEF fsm_trans, Host
<1> HIDE DEF k
<1>3. fsm_step(k, s) \in Host /\ AtRest(fsm_step(k, s)) /\ fsm_step(k, s).aborted = h.aborted
  BY <1>1, <1>2, StepType
<1> QED
  BY <1>3 DEF fsm_handle_cmd, k, r

LEMMA HandleDataType ==
  ASSUME NEW h \in Host, NEW s \in [Rows -> Texts]
  PROVE  /\ fsm_handle_datacmd(h, s) \in Host /\ AtRest(fsm_handle_datacmd(h, s))
         /\ fsm_handle_datacmd(h, s).aborted = h.aborted
<1> DEFINE k == IF h.state = "CONNECTED" THEN fsm_trans(h, "CONNECTED", Noop)
                ELSE fsm_trans(h, h.state, Cmd("NACK"))
<1>1. Cmd("NACK") \in Frames
  BY FrameFacts DEF Cmds
<1>2. /\ k \in Host /\ k.action \in Frames \union {Noop} /\ k.next_state \in States
      /\ k.aborted = h.aborted
  BY <1>1, FrameFacts DEF fsm_trans, Host, States
<1> HIDE DEF k
<1>3. fsm_step(k, s) \in Host /\ AtRest(fsm_step(k, s)) /\ fsm_step(k, s).aborted = h.aborted
  BY <1>2, StepType
<1> QED
  BY <1>3 DEF fsm_handle_datacmd, k

-----------------------------------------------------------------------------
(* Types, and that the program does not abort *)

\* TypeOK with NeverAborts is inductive.
Sound == TypeOK /\ NeverAborts

LEMMA SoundFacts ==
  ASSUME Sound
  PROVE  /\ lcm \in Host /\ lcm.tx \in Seq(Frames) /\ lcm.state \in States
         /\ shadow \in [Rows -> Texts]
         /\ rx \in Seq({Cmd(c) : c \in PanelCmds})
  BY DEF Sound, TypeOK, Host

\* A record that is at rest and has not aborted is what TypeOK asks of lcm.
LEMMA RestIsSound ==
  ASSUME lcm' \in Host, AtRest(lcm'), lcm'.aborted = FALSE,
         shadow' \in [Rows -> Texts], phase' \in {"down", "started", "up"},
         rx' \in Seq({Cmd(c) : c \in PanelCmds}),
         panel' \in [mode : States, on : BOOLEAN, rows : [Rows -> Texts]],
         {quit', lost', left', misled'} \subseteq BOOLEAN
  PROVE  Sound'
  BY DEF Sound, TypeOK, NeverAborts, Host, AtRest

LEMMA InitSound == Init => Sound
<1> SUFFICES ASSUME Init PROVE Sound
  OBVIOUS
<1>1. <<>> \in Seq(Frames) /\ Cmd("RESET") \in {Cmd(c) : c \in PanelCmds}
  BY DEF PanelCmds
<1>2. <<>> \in Seq({Cmd(c) : c \in PanelCmds})
      /\ <<Cmd("RESET")>> \in Seq({Cmd(c) : c \in PanelCmds})
  BY <1>1
<1> QED
  BY <1>1, <1>2, FrameFacts DEF Init, Sound, TypeOK, NeverAborts, PanelReset, States

LEMMA PanelType ==
  ASSUME Sound, NEW f \in Frames
  PROVE  /\ PanelAfter(f) \in [mode : States, on : BOOLEAN, rows : [Rows -> Texts]]
         /\ PanelAnswer(f) \in Seq({Cmd(c) : c \in PanelCmds})
<1>1. panel \in [mode : States, on : BOOLEAN, rows : [Rows -> Texts]]
  BY DEF Sound, TypeOK
<1>2. f.cmd = "PRINT" => f.row \in Rows /\ f.text \in Texts
  BY DEF Frames, Cmd, PrintRow, Cmds
<1>3. PanelReset \in [mode : States, on : BOOLEAN, rows : [Rows -> Texts]]
  BY DEF PanelReset, States
<1>4. PanelAfter(f) \in [mode : States, on : BOOLEAN, rows : [Rows -> Texts]]
  BY <1>1, <1>2, <1>3 DEF PanelAfter, States
<1> DEFINE Heard == {Cmd(c) : c \in PanelCmds}
<1>5. Cmd("RESET") \in Heard /\ Cmd("ACK") \in Heard
  BY DEF PanelCmds
<1> HIDE DEF Heard
<1>a. <<Cmd("RESET")>> \in Seq(Heard) /\ <<Cmd("ACK")>> \in Seq(Heard) /\ <<>> \in Seq(Heard)
  BY <1>5
<1>b. PanelAnswer(f) \in {<<Cmd("RESET")>>, <<Cmd("ACK")>>, <<>>}
  BY DEF PanelAnswer
<1>6. PanelAnswer(f) \in Seq(Heard)
  BY <1>a, <1>b
<1> QED
  BY <1>4, <1>6 DEF Heard

LEMMA SoundStep == Sound /\ [Next]_vars => Sound'
<1> SUFFICES ASSUME Sound, [Next]_vars PROVE Sound'
  OBVIOUS
<1> DEFINE Heard == {Cmd(c) : c \in PanelCmds}
<1>t. /\ lcm \in Host /\ lcm.aborted = FALSE /\ shadow \in [Rows -> Texts]
      /\ rx \in Seq(Heard) /\ phase \in {"down", "started", "up"}
      /\ panel \in [mode : States, on : BOOLEAN, rows : [Rows -> Texts]]
      /\ {quit, lost, left, misled} \subseteq BOOLEAN
  BY DEF Sound, TypeOK, NeverAborts, Host
<1> HIDE DEF Heard
<1>s. \A n \in 0 .. Len(rx) : SubSeq(rx, n + 1, Len(rx)) \in Seq(Heard)
  BY <1>t
<1>1. CASE UNCHANGED vars
  BY <1>1 DEF vars, Sound, TypeOK, NeverAborts, history
<1>2. CASE drv_TeakLCM_start
  <2>1. [r \in Rows |-> Blank] \in [Rows -> Texts]
    OBVIOUS
  <2>2. rx' \in Seq(Heard)
    BY <1>2, <1>s DEF drv_TeakLCM_start
  <2>3. lcm' \in Host /\ AtRest(lcm') /\ lcm'.aborted = FALSE
    BY <1>2, <1>t, FrameFacts DEF drv_TeakLCM_start, Host, AtRest, States
  <2> QED
    BY <1>2, <1>t, <2>1, <2>2, <2>3, RestIsSound DEF drv_TeakLCM_start, Heard
<1>3. CASE initial_connect_to_display_callback
  <2>1. lcm' \in Host /\ AtRest(lcm') /\ lcm'.aborted = FALSE
    BY <1>3, <1>t, ResetType DEF initial_connect_to_display_callback
  <2> QED
    BY <1>3, <1>t, <2>1, RestIsSound DEF initial_connect_to_display_callback, Heard, history
<1>4. CASE lcm_event_callback
  <2>1. Head(rx) \in Heard /\ Tail(rx) \in Seq(Heard)
    BY <1>4, <1>t DEF lcm_event_callback
  <2>2. PICK c \in PanelCmds : Head(rx) = Cmd(c)
    BY <2>1 DEF Heard
  <2>3. Head(rx).cmd \in PanelCmds
    BY <2>2 DEF Cmd
  <2>4. CASE AssertionFails(lcm, c)
    BY <1>4, <1>t, <2>1, <2>2, <2>4 DEF lcm_event_callback, Sound, TypeOK, NeverAborts, Heard, Cmd
  <2>5. CASE ~AssertionFails(lcm, c)
    <3>1. lcm' \in Host /\ AtRest(lcm') /\ lcm'.aborted = FALSE
      BY <1>4, <1>t, <2>2, <2>3, <2>5, HandleType, HandleDataType DEF lcm_event_callback, Cmd
    <3>2. phase' = phase
      BY <1>4, <2>2, <2>5 DEF lcm_event_callback, Cmd
    <3> DEFINE b == Head(rx).cmd = "CONFIRM" /\ lcm.state # "CONNECTED" /\ lcm'.state = "CONNECTED"
    <3>3. misled' = (misled \/ b) /\ b \in BOOLEAN
      BY <1>4, <2>2, <2>5 DEF lcm_event_callback, Cmd
    <3> HIDE DEF b
    <3>4. misled \in BOOLEAN
      BY <1>t
    <3>5. misled' \in BOOLEAN
      BY <3>3, <3>4
    <3> QED
      BY <1>4, <1>t, <2>1, <3>1, <3>2, <3>5, RestIsSound DEF lcm_event_callback, Heard
  <2> QED
    BY <2>4, <2>5
<1>5. ASSUME NEW n \in 1 .. Len(rx), DropDamaged(n) PROVE Sound'
  <2>1. rx' \in Seq(Heard)
    BY <1>5, <1>s DEF DropDamaged
  <2>2. Cmd("NACK") \in Frames
    BY FrameFacts DEF Cmds
  <2>3. CASE UNCHANGED lcm
    BY <1>5, <1>t, <2>1, <2>3 DEF DropDamaged, Sound, TypeOK, NeverAborts, Heard
  <2>4. CASE lcm' = fsm_trans(lcm, lcm.state, Cmd("NACK"))
    <3>1. /\ lcm' \in Host /\ lcm'.aborted = FALSE
          /\ lcm'.action = Cmd("NACK") /\ lcm'.next_state = lcm'.state
      BY <1>t, <2>2, <2>4, FrameFacts DEF fsm_trans, Host
    <3> QED
      BY <1>5, <1>t, <2>1, <3>1 DEF DropDamaged, Sound, TypeOK, NeverAborts, Heard, Host
  <2> QED
    BY <1>5, <2>3, <2>4 DEF DropDamaged
<1>6. ASSUME NEW r \in Rows, NEW t \in Texts, drv_TeakLCM_write(r, t) PROVE Sound'
  <2>1. shadow' \in [Rows -> Texts] /\ shadow'[r] = t
    BY <1>6, <1>t DEF drv_TeakLCM_write
  <2>2. PrintRow(r, t) \in Frames
    BY FrameFacts
  <2>3. lcm' = fsm_send(lcm, PrintRow(r, t))
    BY <1>6, <2>1 DEF drv_TeakLCM_write
  <2>4. lcm' = lcm \/ AtRest(lcm')
    BY <2>3, FrameFacts DEF fsm_send, AtRest, Host
  <2>5. lcm' \in Host /\ lcm'.aborted = FALSE
    BY <1>t, <2>2, <2>3, SendType
  <2>6. CASE AtRest(lcm')
    BY <1>6, <1>t, <2>1, <2>5, <2>6, RestIsSound DEF drv_TeakLCM_write, Heard, history
  <2>7. CASE lcm' = lcm
    BY <1>6, <1>t, <2>1, <2>7 DEF drv_TeakLCM_write, Sound, TypeOK, NeverAborts, history
  <2> QED
    BY <2>4, <2>6, <2>7
<1>7. CASE drv_TeakLCM_quit
  <2> DEFINE g1 == flush_shadow(lcm, shadow')
             g2 == fsm_send(g1, Cmd("DISPLAY_OFF"))
  <2>1. shadow' \in [Rows -> Texts]
    BY <1>7 DEF drv_TeakLCM_quit
  <2>2. Cmd("DISPLAY_OFF") \in Frames /\ Cmd("DISCONNECT") \in Frames
    BY FrameFacts DEF Cmds
  <2>3. /\ g1 \in Host /\ g1.aborted = FALSE /\ g1.state = lcm.state
        /\ lcm.state # "CONNECTED" => g1 = lcm
    BY <1>t, <2>1, FlushType
  <2> HIDE DEF g1
  <2>4. /\ g2 \in Host /\ g2.aborted = FALSE /\ g2.state = lcm.state
        /\ lcm.state # "CONNECTED" => g2 = lcm
    BY <2>2, <2>3, SendType
  <2> HIDE DEF g2
  <2>5. lcm' = fsm_send(g2, Cmd("DISCONNECT"))
    BY <1>7 DEF drv_TeakLCM_quit, g1, g2
  <2>6. lcm' \in Host /\ lcm'.aborted = FALSE /\ (lcm' = lcm \/ AtRest(lcm'))
    BY <2>2, <2>4, <2>5, SendType
  <2>7. CASE AtRest(lcm')
    BY <1>7, <1>t, <2>1, <2>6, <2>7, RestIsSound DEF drv_TeakLCM_quit, Heard
  <2>8. CASE lcm' = lcm
    BY <1>7, <1>t, <2>1, <2>8 DEF drv_TeakLCM_quit, Sound, TypeOK, NeverAborts
  <2> QED
    BY <2>6, <2>7, <2>8
<1>8. CASE Crash
  BY <1>8 DEF Crash, Sound, TypeOK, NeverAborts, history
<1>9. CASE PanelReceives
  <2>1. Head(lcm.tx) \in Frames /\ Tail(lcm.tx) \in Seq(Frames)
    BY <1>9, <1>t DEF PanelReceives, Host
  <2>2. /\ lcm' \in Host /\ lcm'.aborted = FALSE /\ lcm'.state = lcm.state
        /\ lcm'.action = lcm.action /\ lcm'.next_state = lcm.next_state
    BY <1>9, <1>t, <2>1 DEF PanelReceives, Host
  <2>3. /\ panel' \in [mode : States, on : BOOLEAN, rows : [Rows -> Texts]]
        /\ PanelAnswer(Head(lcm.tx)) \in Seq(Heard)
    BY <1>9, <2>1, PanelType DEF PanelReceives, Heard
  <2>4. rx' \in Seq(Heard)
    BY <1>9, <1>t, <2>3 DEF PanelReceives
  <2> QED
    BY <1>9, <1>t, <2>2, <2>3, <2>4 DEF PanelReceives, Sound, TypeOK, NeverAborts, Heard, Host
<1>10. CASE PowerCycle
  <2>1. PanelReset \in [mode : States, on : BOOLEAN, rows : [Rows -> Texts]]
    BY DEF PanelReset, States
  <2>2. Cmd("RESET") \in Heard
    BY DEF PanelCmds, Heard
  <2>3. rx' \in Seq(Heard)
    BY <1>10, <1>t, <2>2 DEF PowerCycle
  <2> QED
    BY <1>10, <1>t, <2>1, <2>3 DEF PowerCycle, Sound, TypeOK, NeverAborts, Heard
<1>11. CASE PanelLeaves
  <2>1. Cmd("DISCONNECT") \in Heard
    BY DEF PanelCmds, Heard
  <2>2. rx' \in Seq(Heard)
    BY <1>11, <1>t, <2>1 DEF PanelLeaves
  <2>3. panel' \in [mode : States, on : BOOLEAN, rows : [Rows -> Texts]]
    BY <1>11, <1>t DEF PanelLeaves, States
  <2> QED
    BY <1>11, <1>t, <2>2, <2>3 DEF PanelLeaves, Sound, TypeOK, NeverAborts, Heard
<1>12. ASSUME NEW c \in PanelCmds, Stray(c) PROVE Sound'
  <2>1. Cmd(c) \in Heard
    BY DEF Heard
  <2>2. rx' \in Seq(Heard)
    BY <1>12, <1>t, <2>1 DEF Stray
  <2> QED
    BY <1>12, <1>t, <2>2 DEF Stray, Sound, TypeOK, NeverAborts, Heard, history
<1> QED
  BY <1>1, <1>2, <1>3, <1>4, <1>5, <1>6, <1>7, <1>8, <1>9, <1>10, <1>11, <1>12 DEF Next

LEMMA AlwaysSound == Spec => []Sound
<1> QED
  BY InitSound, SoundStep, PTL DEF Spec

\* The driver's record, the shadow, the line and the display keep their types, and
\* between callbacks the state machine has no action but the NACK of a damaged frame.
THEOREM TypeCorrect == Spec => []TypeOK
<1>1. Sound => TypeOK
  BY DEF Sound
<1> QED
  BY AlwaysSound, <1>1, PTL

\* No sequence of command and data frames leads to a call of abort in fsm_step, for any
\* texts and any number of starts, writes and surprises.  (The assertions of the driver,
\* which odd data frames do fail, end the process, too: they are not meant.)
THEOREM TheDriverNeverAborts == Spec => []NeverAborts
<1>1. Sound => NeverAborts
  BY DEF Sound
<1> QED
  BY AlwaysSound, <1>1, PTL

-----------------------------------------------------------------------------
(* What is shown *)

Severs(f) == f.cmd \in {"RESET", "CONNECT", "DISCONNECT"}

\* Frame f undoes frame w.
Overrides(f, w) ==
  IF w.cmd = "PRINT" THEN f.cmd = "PRINT" /\ f.row = w.row ELSE f.cmd = "DISPLAY_OFF"

ShownOn(w, p) == IF w.cmd = "PRINT" THEN p.rows[w.row] = w.text ELSE p.on

\* From frame n of the line on the connection stays what it is.
Whole(tx, n) == \A l \in n .. Len(tx) : ~Severs(tx[l])

\* The display is not half-way through a connect, and stays so.
Steady(tx, p) == p.mode # "COMMAND" /\ Whole(tx, 1)

\* Frame j of the line confirms the connection.
Confirmed(tx, j) == tx[j] = Cmd("CONFIRM") /\ Whole(tx, j)

\* What is written next reaches a display that takes itself for connected, or none.
Reach(tx, p) == Steady(tx, p) \/ \E j \in DOMAIN tx : Confirmed(tx, j)

OnItsWay(w, tx, p) ==
  \E k \in DOMAIN tx :
    /\ tx[k] = w /\ \A l \in k + 1 .. Len(tx) : ~Overrides(tx[l], w)
    /\ Steady(tx, p) \/ \E j \in 1 .. k - 1 : Confirmed(tx, j)

Arrived(w, tx, p) ==
  /\ Steady(tx, p) /\ \A l \in DOMAIN tx : ~Overrides(tx[l], w)
  /\ p.mode = "CONNECTED" => ShownOn(w, p)

Fine(w, tx, p) == OnItsWay(w, tx, p) \/ Arrived(w, tx, p)

Wanted(s) == {Cmd("DISPLAY_ON")} \union {PrintRow(r, s[r]) : r \in Rows}

\* With Sound the inductive invariant of ShowsShadow: each thing the display should
\* show is shown, or on its way behind the frame that confirms the connection.
Follows ==
  phase = "up" /\ lcm.state = "CONNECTED" /\ ~misled
    => \A w \in Wanted(shadow) : Fine(w, lcm.tx, panel)

Screens == [mode : States, on : BOOLEAN, rows : [Rows -> Texts]]

LEMMA FineReaches ==
  ASSUME NEW tx \in Seq(Frames), NEW p, NEW w, Fine(w, tx, p)
  PROVE  Reach(tx, p)
  BY DEF Fine, OnItsWay, Arrived, Reach

LEMMA WholeAppend ==
  ASSUME NEW tx \in Seq(Frames), NEW f \in Frames, ~Severs(f), NEW n \in Nat \ {0}, Whole(tx, n)
  PROVE  Whole(Append(tx, f), n)
  BY DEF Whole

LEMMA ReachAppend ==
  ASSUME NEW tx \in Seq(Frames), NEW f \in Frames, NEW p, ~Severs(f), Reach(tx, p)
  PROVE  Reach(Append(tx, f), p)
<1>1. CASE Steady(tx, p)
  BY <1>1, WholeAppend DEF Steady, Reach
<1>2. ASSUME NEW j \in DOMAIN tx, Confirmed(tx, j) PROVE Reach(Append(tx, f), p)
  <2>1. j \in DOMAIN Append(tx, f) /\ Append(tx, f)[j] = tx[j]
    OBVIOUS
  <2>2. Whole(Append(tx, f), j)
    BY <1>2, WholeAppend DEF Confirmed
  <2> QED
    BY <1>2, <2>1, <2>2 DEF Confirmed, Reach
<1> QED
  BY <1>1, <1>2 DEF Reach

\* A connection that is confirmed at the end of the line reaches the display.
LEMMA ConfirmReaches ==
  ASSUME NEW tx \in Seq(Frames), NEW p
  PROVE  Reach(Append(tx, Cmd("CONFIRM")), p)
<1> DEFINE t == Append(tx, Cmd("CONFIRM"))
<1>1. Cmd("CONFIRM") \in Frames
  BY FrameFacts DEF Cmds
<1>2. Len(t) = Len(tx) + 1 /\ t[Len(t)] = Cmd("CONFIRM") /\ Len(t) \in DOMAIN t
  BY <1>1
<1>3. ~Severs(Cmd("CONFIRM"))
  BY DEF Severs, Cmd
<1>4. Confirmed(t, Len(t))
  BY <1>2, <1>3 DEF Confirmed, Whole
<1> QED
  BY <1>2, <1>4 DEF Reach

\* A frame written to a display that is reached is on its way.
LEMMA WrittenIsFine ==
  ASSUME NEW tx \in Seq(Frames), NEW w \in Frames, NEW p, ~Severs(w), Reach(tx, p)
  PROVE  Fine(w, Append(tx, w), p)
<1> DEFINE t == Append(tx, w)
<1>1. /\ t \in Seq(Frames) /\ Len(t) = Len(tx) + 1 /\ t[Len(t)] = w /\ Len(t) \in DOMAIN t
      /\ \A j \in DOMAIN tx : j \in 1 .. Len(t) - 1 /\ t[j] = tx[j]
  OBVIOUS
<1>a. Steady(tx, p) => Steady(t, p)
  BY WholeAppend DEF Steady
<1>b. \A j \in DOMAIN tx : Confirmed(tx, j) => Confirmed(t, j)
  BY <1>1, WholeAppend DEF Confirmed
<1> HIDE DEF t
<1>2. ASSUME Steady(tx, p) PROVE Fine(w, t, p)
  <2>1. Steady(t, p)
    BY <1>2, <1>a
  <2> QED
    BY <1>1, <2>1 DEF Fine, OnItsWay
<1>3. ASSUME NEW j \in DOMAIN tx, Confirmed(tx, j) PROVE Fine(w, t, p)
  <2>2. Confirmed(t, j)
    BY <1>3, <1>b
  <2> QED
    BY <1>1, <2>2 DEF Fine, OnItsWay
<1> QED
  BY <1>2, <1>3 DEF Reach, t

LEMMA StaysFine ==
  ASSUME NEW tx \in Seq(Frames), NEW f \in Frames, NEW w, NEW p,
         ~Severs(f), ~Overrides(f, w), Fine(w, tx, p)
  PROVE  Fine(w, Append(tx, f), p)
<1> DEFINE t == Append(tx, f)
<1>1. /\ t \in Seq(Frames) /\ Len(t) = Len(tx) + 1 /\ t[Len(t)] = f
      /\ \A j \in DOMAIN tx : j \in DOMAIN t /\ t[j] = tx[j]
      /\ \A j \in DOMAIN t : j \in DOMAIN tx \/ j = Len(t)
  OBVIOUS
<1>2. Steady(tx, p) => Steady(t, p)
  BY WholeAppend DEF Steady
<1>3. \A j \in DOMAIN tx : Confirmed(tx, j) => Confirmed(t, j)
  BY <1>1, WholeAppend DEF Confirmed
<1> HIDE DEF t
<1>4. ASSUME OnItsWay(w, tx, p) PROVE Fine(w, t, p)
  <2>1. PICK k \in DOMAIN tx :
          /\ tx[k] = w /\ \A l \in k + 1 .. Len(tx) : ~Overrides(tx[l], w)
          /\ Steady(tx, p) \/ \E j \in 1 .. k - 1 : Confirmed(tx, j)
    BY <1>4 DEF OnItsWay
  <2>2. k \in DOMAIN t /\ t[k] = w
    BY <1>1, <2>1
  <2>3. \A l \in k + 1 .. Len(t) : ~Overrides(t[l], w)
    BY <1>1, <2>1
  <2>4. Steady(t, p) \/ \E j \in 1 .. k - 1 : Confirmed(t, j)
    BY <1>2, <1>3, <2>1
  <2> QED
    BY <2>2, <2>3, <2>4 DEF Fine, OnItsWay
<1>5. ASSUME Arrived(w, tx, p) PROVE Fine(w, t, p)
  <2>1. \A l \in DOMAIN t : ~Overrides(t[l], w)
    BY <1>1, <1>5 DEF Arrived
  <2> QED
    BY <1>2, <1>5, <2>1 DEF Fine, Arrived
<1> QED
  BY <1>4, <1>5 DEF Fine, t

\* A display that leaves the connection loses nothing that was on its way.
LEMMA IdleIsFine ==
  ASSUME NEW tx \in Seq(Frames), NEW w, NEW p, NEW q, q.mode = "IDLE", Fine(w, tx, p)
  PROVE  Fine(w, tx, q)
  BY DEF Fine, OnItsWay, Arrived, Steady

\* Reading a frame keeps what is shown, or on its way, so.
LEMMA ReadIsFine ==
  ASSUME Sound, NEW w \in Frames, w.cmd \in {"PRINT", "DISPLAY_ON"},
         lcm.tx # <<>>, Fine(w, lcm.tx, panel)
  PROVE  Fine(w, Tail(lcm.tx), PanelAfter(Head(lcm.tx)))
<1> DEFINE tx == lcm.tx
           t == Tail(tx)
           q == PanelAfter(Head(tx))
<1>1. tx \in Seq(Frames) /\ tx # <<>>
  BY DEF Sound, TypeOK
<1>2. /\ t \in Seq(Frames) /\ Len(t) = Len(tx) - 1 /\ Head(tx) = tx[1] /\ 1 \in DOMAIN tx
      /\ \A l \in DOMAIN t : l + 1 \in DOMAIN tx /\ t[l] = tx[l + 1]
      /\ \A l \in DOMAIN tx : l = 1 \/ (l - 1 \in DOMAIN t /\ t[l - 1] = tx[l])
      /\ DOMAIN t = 1 .. Len(t) /\ DOMAIN tx = 1 .. Len(tx) /\ Len(tx) \in Nat
  BY <1>1
<1>3. /\ panel \in Screens /\ tx[1] \in Frames
      /\ w.cmd = "PRINT" => w.row \in Rows
      /\ tx[1].cmd = "PRINT" => tx[1].row \in Rows
  BY <1>1, <1>2 DEF Sound, TypeOK, Screens, Frames, Cmd, PrintRow, Cmds
<1> HIDE DEF tx, t, q
<1>3a. Whole(tx, 1) => Whole(t, 1)
  BY <1>2 DEF Whole
<1>3b. ASSUME NEW n \in DOMAIN tx, n # 1, Whole(tx, n) PROVE Whole(t, n - 1)
  <2> SUFFICES ASSUME NEW l \in n - 1 .. Len(t) PROVE ~Severs(t[l])
    BY DEF Whole
  <2>1. l \in DOMAIN t /\ l + 1 \in n .. Len(tx)
    BY <1>2, <1>3b
  <2> QED
    BY <1>2, <1>3b, <2>1 DEF Whole
<1>4. \A n \in DOMAIN tx : Whole(tx, n) => (n # 1 => Whole(t, n - 1)) /\ (n = 1 => Whole(t, 1))
  BY <1>3a, <1>3b
<1>5. \A j \in DOMAIN tx : j # 1 /\ Confirmed(tx, j) => Confirmed(t, j - 1)
  BY <1>2, <1>4 DEF Confirmed
<1>6. Whole(tx, 1) => ~Severs(tx[1])
  BY <1>2 DEF Whole
<1>7. ~Severs(tx[1]) =>
        /\ q.mode = IF tx[1].cmd = "CONFIRM" /\ panel.mode = "COMMAND" THEN "CONNECTED"
                    ELSE panel.mode
        /\ q.mode = "CONNECTED" /\ panel.mode # "COMMAND" => panel.mode = "CONNECTED"
  BY <1>2, <1>3 DEF PanelAfter, Severs, Screens, q
<1>8. Steady(tx, panel) => Steady(t, q)
  BY <1>2, <1>4, <1>6, <1>7 DEF Steady
<1>9. Confirmed(tx, 1) => Steady(t, q)
  BY <1>2, <1>4, <1>6, <1>7 DEF Steady, Confirmed, Cmd
<1>10. ASSUME OnItsWay(w, tx, panel) PROVE Fine(w, t, q)
  <2>1. PICK k \in DOMAIN tx :
          /\ tx[k] = w /\ \A l \in k + 1 .. Len(tx) : ~Overrides(tx[l], w)
          /\ Steady(tx, panel) \/ \E j \in 1 .. k - 1 : Confirmed(tx, j)
    BY <1>10 DEF OnItsWay
  <2>2. CASE k = 1
    <3>1. Steady(tx, panel)
      BY <2>1, <2>2
    <3>2. \A l \in DOMAIN t : ~Overrides(t[l], w)
      BY <1>2, <2>1, <2>2
    <3>3. q.mode = "CONNECTED" => panel.mode = "CONNECTED"
      BY <1>6, <1>7, <3>1 DEF Steady
    <3>4. q.mode = "CONNECTED" => ShownOn(w, q)
      BY <1>2, <1>3, <2>1, <2>2, <3>3 DEF PanelAfter, ShownOn, Screens, q
    <3> QED
      BY <1>8, <3>1, <3>2, <3>4 DEF Fine, Arrived
  <2>3. CASE k # 1
    <3>1. k - 1 \in DOMAIN t /\ t[k - 1] = w
      BY <1>2, <2>1, <2>3
    <3>2. \A l \in (k - 1) + 1 .. Len(t) : ~Overrides(t[l], w)
      BY <1>2, <2>1, <3>1
    <3>3. Steady(t, q) \/ \E j \in 1 .. (k - 1) - 1 : Confirmed(t, j)
      <4>1. CASE Steady(tx, panel)
        BY <1>8, <4>1
      <4>2. ASSUME NEW j \in 1 .. k - 1, Confirmed(tx, j)
            PROVE  Steady(t, q) \/ \E i \in 1 .. (k - 1) - 1 : Confirmed(t, i)
        <5>1. j \in DOMAIN tx
          BY <1>2, <2>1
        <5>2. CASE j = 1
          BY <1>9, <4>2, <5>2
        <5>3. CASE j # 1
          <6>1. Confirmed(t, j - 1) /\ j - 1 \in 1 .. (k - 1) - 1
            BY <1>2, <1>5, <4>2, <5>1, <5>3
          <6> QED
            BY <6>1
        <5> QED
          BY <5>2, <5>3
      <4> QED
        BY <2>1, <4>1, <4>2
    <3> QED
      BY <3>1, <3>2, <3>3 DEF Fine, OnItsWay
  <2> QED
    BY <2>2, <2>3
<1>11. ASSUME Arrived(w, tx, panel) PROVE Fine(w, t, q)
  <2>1. Steady(tx, panel) /\ ~Overrides(tx[1], w) /\ \A l \in DOMAIN t : ~Overrides(t[l], w)
    BY <1>2, <1>11 DEF Arrived
  <2>2. ~Severs(tx[1]) /\ panel.mode # "COMMAND"
    BY <1>6, <2>1 DEF Steady
  <2>3. q.mode = "CONNECTED" => panel.mode = "CONNECTED" /\ ShownOn(w, panel)
    BY <1>7, <1>11, <2>2 DEF Arrived
  <2>4. q.mode = "CONNECTED" => ShownOn(w, q)
    BY <1>2, <1>3, <2>1, <2>2, <2>3 DEF PanelAfter, ShownOn, Overrides, Severs, Screens, q
  <2> QED
    BY <1>8, <2>1, <2>4 DEF Fine, Arrived
<1> QED
  BY <1>10, <1>11 DEF Fine, t, tx, q

LEMMA WantedFacts ==
  ASSUME NEW s \in [Rows -> Texts], NEW w \in Wanted(s)
  PROVE  w \in Frames /\ w.cmd \in {"PRINT", "DISPLAY_ON"} /\ ~Severs(w)
<1>1. Cmd("DISPLAY_ON") \in Frames
  BY FrameFacts DEF Cmds
<1> QED
  BY <1>1, FrameFacts DEF Wanted, Severs, Cmd, PrintRow

\* Answers of the driver touch neither the connection nor what is shown.
LEMMA AnswersAreHarmless ==
  ASSUME NEW s \in [Rows -> Texts], NEW w \in Wanted(s), NEW c \in {"ACK", "NACK", "CONFIRM", "BACKLIGHT_ON"}
  PROVE  Cmd(c) \in Frames /\ ~Severs(Cmd(c)) /\ ~Overrides(Cmd(c), w)
  BY FrameFacts DEF Severs, Overrides, Cmd, Cmds

\* On entering CONNECTED, with CONFIRM at the end of the line, everything is on its way.
LEMMA GreetIsFine ==
  ASSUME NEW h \in Host, h.state = "CONNECTED", NEW s \in [Rows -> Texts], NEW p, Reach(h.tx, p)
  PROVE  \A w \in Wanted(s) : Fine(w, Greet(h, s).tx, p)
<1> DEFINE on == Cmd("DISPLAY_ON")
           p1 == PrintRow(1, s[1])
           p2 == PrintRow(2, s[2])
           t1 == Append(h.tx, on)
           t2 == Append(t1, p1)
           t3 == Append(t2, p2)
           t4 == Append(t3, Cmd("BACKLIGHT_ON"))
<1>0. h.tx \in Seq(Frames)
  BY DEF Host
<1>1. Greet(h, s).tx = t4
  BY DEF Greet, flush_shadow, fsm_send, Host
<1>2. on \in Frames /\ p1 \in Frames /\ p2 \in Frames /\ Cmd("BACKLIGHT_ON") \in Frames
  BY FrameFacts DEF Cmds, Rows
<1>3. ~Severs(on) /\ ~Severs(p1) /\ ~Severs(p2) /\ ~Severs(Cmd("BACKLIGHT_ON"))
  BY DEF Severs, Cmd, PrintRow
<1>4. /\ ~Overrides(p1, on) /\ ~Overrides(p2, on) /\ ~Overrides(p2, p1)
      /\ \A w \in {on, p1, p2} : ~Overrides(Cmd("BACKLIGHT_ON"), w)
  BY DEF Overrides, Cmd, PrintRow
<1>5. \A w \in Wanted(s) : w \in {on, p1, p2}
  BY DEF Wanted, Rows
<1> HIDE DEF on, p1, p2
<1>6. t1 \in Seq(Frames) /\ t2 \in Seq(Frames) /\ t3 \in Seq(Frames)
  BY <1>0, <1>2
<1>7. Fine(on, t1, p) /\ Reach(t1, p)
  BY <1>0, <1>2, <1>3, WrittenIsFine, ReachAppend
<1> HIDE DEF t1
<1>8. Fine(on, t2, p) /\ Fine(p1, t2, p) /\ Reach(t2, p)
  BY <1>2, <1>3, <1>4, <1>6, <1>7, WrittenIsFine, ReachAppend, StaysFine
<1> HIDE DEF t2
<1>9. Fine(on, t3, p) /\ Fine(p1, t3, p) /\ Fine(p2, t3, p)
  BY <1>2, <1>3, <1>4, <1>6, <1>8, WrittenIsFine, ReachAppend, StaysFine
<1> HIDE DEF t3
<1>10. \A w \in {on, p1, p2} : Fine(w, t4, p)
  BY <1>2, <1>3, <1>4, <1>6, <1>9, StaysFine
<1> QED
  BY <1>1, <1>5, <1>10

\* A command from the display leaves the driver connected with the shadow shown or
\* on its way: it was connected, or has just greeted the display.
LEMMA HandleIsFine ==
  ASSUME NEW h \in Host, NEW s \in [Rows -> Texts], NEW c \in PanelCmds, NEW p,
         h.state = "CONNECTED" => \A w \in Wanted(s) : Fine(w, h.tx, p),
         h.state = "CONNECTED" \/ c # "CONFIRM",
         fsm_handle_cmd(h, c, s).state = "CONNECTED"
  PROVE  \A w \in Wanted(s) : Fine(w, fsm_handle_cmd(h, c, s).tx, p)
<1> DEFINE r == Reaction(h.state, c)
           g == [h EXCEPT !.reset_rx = @ \/ c = "RESET"]
           k == fsm_trans(g, r.next, r.action)
<1>1. r.next \in States /\ r.action \in Frames \union {Noop}
  BY ReactionType DEF Host
<1>2. /\ h.state = "CONNECTED" =>
           /\ c # "RESET" => r.next = "CONNECTED" /\ r.action \in {Noop, Cmd("CONFIRM"), Cmd("ACK"), Cmd("NACK")}
           /\ c = "RESET" => r.next = "IDLE"
      /\ h.state # "CONNECTED" =>
           /\ c = "ACK" => r.next = "CONNECTED" /\ r.action = Cmd("CONFIRM")
           /\ c # "ACK" => r.next # "CONNECTED"
  BY DEF Reaction, WhenConnected, WhenNotConnected, React, PanelCmds
<1> HIDE DEF r
<1>3. /\ k \in Host /\ k.action = r.action /\ k.next_state = r.next
      /\ k.state = h.state /\ k.tx = h.tx
  BY <1>1, FrameFacts DEF fsm_trans, Host
<1> HIDE DEF k
<1>4. fsm_handle_cmd(h, c, s) = fsm_step(k, s)
  BY DEF fsm_handle_cmd, k, r
<1>5. k.action # Uninitialized /\ k.next_state # Unset
  BY <1>1, <1>3, FrameFacts
<1>6. /\ Settle(k).state = r.next /\ Settle(k) \in Host
      /\ Settle(k).tx = IF r.action = Noop THEN h.tx ELSE Append(h.tx, r.action)
  BY <1>1, <1>3, SettleType
<1>7. CASE h.state = "CONNECTED"
  <2>1. fsm_step(k, s) = Settle(k)
    BY <1>3, <1>5, <1>7 DEF fsm_step
  <2>2. r.action \in {Noop, Cmd("CONFIRM"), Cmd("ACK"), Cmd("NACK")}
    BY <1>2, <1>4, <1>6, <1>7, <2>1
  <2>3. h.tx \in Seq(Frames)
    BY DEF Host
  <2>4. CASE r.action = Noop
    BY <1>4, <1>6, <1>7, <2>1, <2>4
  <2>5. ASSUME NEW a \in {"CONFIRM", "ACK", "NACK"}, r.action = Cmd(a)
        PROVE  \A w \in Wanted(s) : Fine(w, fsm_handle_cmd(h, c, s).tx, p)
    <3>1. fsm_handle_cmd(h, c, s).tx = Append(h.tx, Cmd(a))
      BY <1>1, <1>4, <1>6, <2>1, <2>5, FrameFacts DEF Cmds
    <3>2. ASSUME NEW w \in Wanted(s) PROVE Fine(w, Append(h.tx, Cmd(a)), p)
      BY <1>7, <2>3, AnswersAreHarmless, StaysFine
    <3> QED
      BY <3>1, <3>2
  <2> QED
    BY <2>2, <2>4, <2>5
<1>8. CASE h.state # "CONNECTED"
  <2>1. r.next = "CONNECTED"
    <3> SUFFICES ASSUME r.next # "CONNECTED" PROVE FALSE
      OBVIOUS
    <3>1. fsm_step(k, s) = Settle(k)
      BY <1>3, <1>5 DEF fsm_step
    <3> QED
      BY <1>4, <1>6, <3>1
  <2>2. r.action = Cmd("CONFIRM")
    BY <1>2, <1>8, <2>1
  <2>3. k.reset_rx
    <3> SUFFICES ASSUME ~k.reset_rx PROVE FALSE
      OBVIOUS
    <3>1. fsm_step(k, s) = try_reset(Perform(k))
      BY <1>3, <1>5, <1>8, <2>1 DEF fsm_step
    <3>2. Perform(k) \in Host
      BY <1>1, <1>3, PerformType
    <3> QED
      BY <1>4, <3>1, <3>2, ResetType
  <2>4. fsm_step(k, s) = Greet(Settle(k), s)
    BY <1>3, <1>5, <1>8, <2>1, <2>3 DEF fsm_step
  <2>5. Settle(k).tx = Append(h.tx, Cmd("CONFIRM"))
    BY <1>6, <2>2, FrameFacts DEF Cmds
  <2>6. Reach(Settle(k).tx, p)
    BY <2>5, ConfirmReaches DEF Host
  <2> QED
    BY <1>4, <1>6, <2>1, <2>4, <2>6, GreetIsFine
<1> QED
  BY <1>7, <1>8

LEMMA FollowsStep == Sound /\ Follows /\ [Next]_vars => Follows'
<1> SUFFICES ASSUME Sound, Follows, [Next]_vars, phase' = "up", lcm'.state = "CONNECTED",
                    ~misled', NEW w \in Wanted(shadow')
             PROVE  Fine(w, lcm'.tx, panel')
  BY DEF Follows
<1>t. /\ lcm \in Host /\ lcm.tx \in Seq(Frames) /\ shadow \in [Rows -> Texts]
      /\ rx \in Seq({Cmd(c) : c \in PanelCmds})
  BY SoundFacts
<1>m. ~misled
  BY DEF Next, drv_TeakLCM_start, initial_connect_to_display_callback, lcm_event_callback,
     DropDamaged, drv_TeakLCM_write, drv_TeakLCM_quit, Crash, PanelReceives, PowerCycle,
     PanelLeaves, Stray, vars, history
<1>0. phase = "up" /\ lcm.state = "CONNECTED" => \A v \in Wanted(shadow) : Fine(v, lcm.tx, panel)
  BY <1>m DEF Follows
<1>1. CASE UNCHANGED vars
  BY <1>0, <1>1 DEF vars
<1>2. CASE drv_TeakLCM_start
  BY <1>2 DEF drv_TeakLCM_start
<1>3. CASE initial_connect_to_display_callback
  BY <1>3, <1>t, ResetType DEF initial_connect_to_display_callback
<1>4. CASE lcm_event_callback
  <2> DEFINE Heard == {Cmd(c) : c \in PanelCmds}
  <2>1. Head(rx) \in Heard
    BY <1>4, <1>t DEF lcm_event_callback
  <2>2. PICK c \in PanelCmds : Head(rx) = Cmd(c)
    BY <2>1 DEF Heard
  <2>3. Head(rx).cmd = c
    BY <2>2 DEF Cmd
  <2>a. ~AssertionFails(lcm, c)
    BY <1>4, <2>3 DEF lcm_event_callback
  <2>4. CASE c \in {"WRITE", "WRITE_LONG"}
    <3> DEFINE k == IF lcm.state = "CONNECTED" THEN fsm_trans(lcm, "CONNECTED", Noop)
                    ELSE fsm_trans(lcm, lcm.state, Cmd("NACK"))
    <3>1. lcm' = fsm_step(k, shadow)
      BY <1>4, <2>a, <2>3, <2>4 DEF lcm_event_callback, fsm_handle_datacmd
    <3>2. Cmd("NACK") \in Frames
      BY FrameFacts DEF Cmds
    <3>3. /\ k \in Host /\ k.action \in Frames \union {Noop} /\ k.next_state = lcm.state
          /\ k.state = lcm.state /\ k.tx = lcm.tx
          /\ lcm.state = "CONNECTED" => k.action = Noop
      BY <1>t, <3>2, FrameFacts DEF fsm_trans, Host
    <3> HIDE DEF k
    <3>4. k.next_state \in States
      BY <1>t, <3>3 DEF Host
    <3>5. lcm' = Settle(k)
      BY <3>1, <3>3, <3>4, FrameFacts DEF fsm_step
    <3>6. lcm'.state = lcm.state /\ (lcm.state = "CONNECTED" => lcm'.tx = lcm.tx)
      BY <3>3, <3>4, <3>5, SettleType
    <3> QED
      BY <1>0, <1>4, <3>6 DEF lcm_event_callback
  <2>5. CASE c \notin {"WRITE", "WRITE_LONG"}
    <3>1. lcm' = fsm_handle_cmd(lcm, c, shadow)
      BY <1>4, <2>a, <2>3, <2>5 DEF lcm_event_callback
    <3>2. lcm.state = "CONNECTED" \/ c # "CONFIRM"
      BY <1>4, <2>a, <2>3 DEF lcm_event_callback
    <3> QED
      BY <1>0, <1>4, <1>t, <3>1, <3>2, HandleIsFine DEF lcm_event_callback
  <2> QED
    BY <2>4, <2>5
<1>5. ASSUME NEW n \in 1 .. Len(rx), DropDamaged(n) PROVE Fine(w, lcm'.tx, panel')
  <2>1. lcm'.tx = lcm.tx /\ lcm'.state = lcm.state
    BY <1>5, <1>t DEF DropDamaged, fsm_trans, Host
  <2> QED
    BY <1>0, <1>5, <2>1 DEF DropDamaged
<1>6. ASSUME NEW r \in Rows, NEW t \in Texts, drv_TeakLCM_write(r, t)
      PROVE  Fine(w, lcm'.tx, panel')
  <2>1. phase = "started" \/ phase = "up"
    BY <1>6 DEF drv_TeakLCM_write, Running
  <2>2. shadow' = [shadow EXCEPT ![r] = t] /\ shadow'[r] = t /\ lcm' = fsm_send(lcm, PrintRow(r, t))
    BY <1>6, <1>t DEF drv_TeakLCM_write
  <2>3. PrintRow(r, t) \in Frames /\ ~Severs(PrintRow(r, t))
    BY FrameFacts DEF Severs, PrintRow
  <2>4. lcm.state = "CONNECTED" /\ lcm'.tx = Append(lcm.tx, PrintRow(r, t))
    BY <1>t, <2>2, <2>3, SendType DEF fsm_send, Host
  <2>5. phase = "up" /\ panel' = panel
    BY <1>6 DEF drv_TeakLCM_write
  <2>6. CASE w = PrintRow(r, t)
    <3>1. Cmd("DISPLAY_ON") \in Wanted(shadow)
      BY DEF Wanted
    <3>2. Reach(lcm.tx, panel)
      BY <1>0, <1>t, <2>4, <2>5, <3>1, FineReaches
    <3> QED
      BY <1>t, <2>3, <2>4, <2>5, <2>6, <3>2, WrittenIsFine
  <2>7. CASE w # PrintRow(r, t)
    <3>1. w = Cmd("DISPLAY_ON") \/ \E q \in Rows : q # r /\ w = PrintRow(q, shadow[q])
      BY <1>t, <2>2, <2>7 DEF Wanted
    <3>2. w \in Wanted(shadow)
      BY <3>1 DEF Wanted
    <3>3. ~Overrides(PrintRow(r, t), w)
      BY <3>1 DEF Overrides, Cmd, PrintRow
    <3> QED
      BY <1>0, <1>t, <2>3, <2>4, <2>5, <3>2, <3>3, StaysFine
  <2> QED
    BY <2>6, <2>7
<1>7. CASE drv_TeakLCM_quit
  BY <1>7 DEF drv_TeakLCM_quit
<1>8. CASE Crash
  BY <1>8 DEF Crash
<1>9. CASE PanelReceives
  <2>1. /\ lcm'.state = lcm.state /\ lcm'.tx = Tail(lcm.tx) /\ lcm.tx # <<>>
        /\ panel' = PanelAfter(Head(lcm.tx)) /\ phase = "up" /\ shadow' = shadow
    BY <1>9, <1>t DEF PanelReceives, Host
  <2>2. w \in Frames /\ w.cmd \in {"PRINT", "DISPLAY_ON"}
    BY <1>t, <2>1, WantedFacts
  <2> QED
    BY <1>0, <2>1, <2>2, ReadIsFine
<1>10. CASE PowerCycle
  <2>1. panel'.mode = "IDLE" /\ UNCHANGED <<lcm, shadow, phase>>
    BY <1>10 DEF PowerCycle, PanelReset
  <2> QED
    BY <1>0, <1>t, <2>1, IdleIsFine
<1>11. CASE PanelLeaves
  <2>1. UNCHANGED <<lcm, shadow, phase>> /\ panel'.mode = "IDLE"
    BY <1>11 DEF PanelLeaves, Sound, TypeOK
  <2> QED
    BY <1>0, <1>t, <2>1, IdleIsFine
<1>12. ASSUME NEW c \in PanelCmds, Stray(c) PROVE Fine(w, lcm'.tx, panel')
  BY <1>0, <1>12 DEF Stray
<1> QED
  BY <1>1, <1>2, <1>3, <1>4, <1>5, <1>6, <1>7, <1>8, <1>9, <1>10, <1>11, <1>12 DEF Next

\* A display that both sides take for connected shows the shadow, and is on, as soon
\* as it has read the line, for any texts and any number of starts, resets, losses and
\* stray frames, unless a CONFIRM has ended a handshake.
THEOREM TheDisplayShowsTheShadow == Spec => []ShowsShadow
<1>1. Init => Follows
  BY DEF Init, Follows
<1>2. Sound /\ Follows => ShowsShadow
  <2> SUFFICES ASSUME Sound, Follows, phase = "up", lcm.state = "CONNECTED",
                      panel.mode = "CONNECTED", lcm.tx = <<>>, ~misled
               PROVE  panel.rows = shadow /\ panel.on
    BY DEF ShowsShadow
  <2>1. \A w \in Wanted(shadow) : ShownOn(w, panel)
    BY DEF Follows, Fine, OnItsWay, Arrived
  <2>2. ASSUME NEW r \in Rows PROVE panel.rows[r] = shadow[r]
    <3>1. PrintRow(r, shadow[r]) \in Wanted(shadow)
      BY DEF Wanted
    <3>2. ShownOn(PrintRow(r, shadow[r]), panel)
      BY <2>1, <3>1
    <3> QED
      BY <3>2 DEF ShownOn, PrintRow
  <2>3. panel.on
    <3>1. Cmd("DISPLAY_ON") \in Wanted(shadow)
      BY DEF Wanted
    <3>2. ShownOn(Cmd("DISPLAY_ON"), panel)
      BY <2>1, <3>1
    <3> QED
      BY <3>2 DEF ShownOn, Cmd
  <2>4. panel.rows \in [Rows -> Texts] /\ shadow \in [Rows -> Texts]
    BY DEF Sound, TypeOK
  <2> QED
    BY <2>2, <2>3, <2>4
<1> QED
  BY AlwaysSound, <1>1, <1>2, FollowsStep, PTL DEF Spec

-----------------------------------------------------------------------------
(* What is left *)

\* When the display has read frame m of the line it is not half-way through a connect.
Linked(tx, p, m) ==
  \/ p.mode # "COMMAND" /\ \A l \in 1 .. m : tx[l].cmd # "CONNECT"
  \/ \E j \in 1 .. m - 1 : /\ tx[j].cmd \in {"CONFIRM", "RESET", "DISCONNECT"}
                           /\ \A l \in j + 1 .. m : tx[l].cmd # "CONNECT"

\* When it comes to read frame k of the line it is off: it is now and nothing before
\* switches it on, or something before switches it off for good.
Dark(tx, p, k) ==
  \/ ~p.on /\ \A l \in 1 .. k - 1 : tx[l].cmd # "DISPLAY_ON"
  \/ \E m \in 1 .. k - 1 :
       /\ tx[m].cmd = "DISPLAY_OFF" /\ Linked(tx, p, m)
       /\ \A l \in m + 1 .. k - 1 : tx[l].cmd # "DISPLAY_ON"

\* Until its connect timer fires the driver takes the display for not connected.
StartsIdle == phase = "started" => lcm.state = "IDLE"

\* The display, but for one that has ended the connection by itself, which counts as off.
Screen == [panel EXCEPT !.on = @ /\ ~left]

\* With Sound, Follows and StartsIdle the inductive invariant of QuitLeavesOff: a display
\* that is not in a connection is off, so is one that reads the end of its connection,
\* whoever has started the program again since, and so is one that has read the line of
\* a driver that was quit.
Darkens ==
  ~misled =>
    /\ Screen.mode = "IDLE" => ~Screen.on
    /\ \A k \in DOMAIN lcm.tx : lcm.tx[k].cmd = "DISCONNECT" => Dark(lcm.tx, Screen, k)
    /\ quit => phase = "down" /\ Dark(lcm.tx, Screen, Len(lcm.tx) + 1)

\* t is tx and frames behind it that do not end the connection.
Grows(tx, t) ==
  /\ Len(tx) <= Len(t) /\ \A l \in DOMAIN tx : t[l] = tx[l]
  /\ \A l \in Len(tx) + 1 .. Len(t) : t[l].cmd # "DISCONNECT"

LEMMA GrowsTwice ==
  ASSUME NEW a \in Seq(Frames), NEW b \in Seq(Frames), NEW c \in Seq(Frames),
         Grows(a, b), Grows(b, c)
  PROVE  Grows(a, c)
<1>1. /\ Len(a) \in Nat /\ Len(b) \in Nat /\ Len(c) \in Nat
      /\ DOMAIN a = 1 .. Len(a) /\ DOMAIN b = 1 .. Len(b)
  BY LenProperties
<1>2. Len(a) <= Len(c) /\ \A l \in DOMAIN a : c[l] = a[l]
  BY <1>1 DEF Grows
<1>3. ASSUME NEW l \in Len(a) + 1 .. Len(c) PROVE c[l].cmd # "DISCONNECT"
  <2>1. CASE l \in 1 .. Len(b)
    BY <1>1, <1>3, <2>1 DEF Grows
  <2>2. CASE l \in Len(b) + 1 .. Len(c)
    BY <2>2 DEF Grows
  <2> QED
    BY <1>1, <1>3, <2>1, <2>2
<1> QED
  BY <1>2, <1>3 DEF Grows

LEMMA AppendGrows ==
  ASSUME NEW tx \in Seq(Frames), NEW f \in Frames
  PROVE  /\ Grows(tx, tx) /\ Append(tx, f) \in Seq(Frames)
         /\ f.cmd # "DISCONNECT" => Grows(tx, Append(tx, f))
  BY DEF Grows

LEMMA SendGrows ==
  ASSUME NEW h \in Host, NEW f \in Frames, f.cmd # "DISCONNECT"
  PROVE  fsm_send(h, f) \in Host /\ Grows(h.tx, fsm_send(h, f).tx)
<1>1. h.tx \in Seq(Frames)
  BY DEF Host
<1>2. Grows(h.tx, h.tx) /\ Grows(h.tx, Append(h.tx, f))
  BY <1>1, AppendGrows
<1>3. fsm_send(h, f).tx \in {h.tx, Append(h.tx, f)}
  BY DEF fsm_send, Host
<1> QED
  BY <1>2, <1>3, SendType

LEMMA GreetGrows ==
  ASSUME NEW h \in Host, NEW s \in [Rows -> Texts]
  PROVE  Grows(h.tx, Greet(h, s).tx)
<1> DEFINE g1 == fsm_send(h, Cmd("DISPLAY_ON"))
           g2 == fsm_send(g1, PrintRow(1, s[1]))
           g3 == fsm_send(g2, PrintRow(2, s[2]))
           g4 == fsm_send(g3, Cmd("BACKLIGHT_ON"))
<1>1. /\ Cmd("DISPLAY_ON") \in Frames /\ Cmd("BACKLIGHT_ON") \in Frames
      /\ PrintRow(1, s[1]) \in Frames /\ PrintRow(2, s[2]) \in Frames
  BY FrameFacts DEF Cmds, Rows
<1>2. /\ Cmd("DISPLAY_ON").cmd # "DISCONNECT" /\ Cmd("BACKLIGHT_ON").cmd # "DISCONNECT"
      /\ PrintRow(1, s[1]).cmd # "DISCONNECT" /\ PrintRow(2, s[2]).cmd # "DISCONNECT"
  BY DEF Cmd, PrintRow
<1>3. Greet(h, s) = g4
  BY DEF Greet, flush_shadow
<1>4. g1 \in Host /\ Grows(h.tx, g1.tx)
  BY <1>1, <1>2, SendGrows
<1> HIDE DEF g1
<1>5. g2 \in Host /\ Grows(g1.tx, g2.tx)
  BY <1>1, <1>2, <1>4, SendGrows
<1> HIDE DEF g2
<1>6. g3 \in Host /\ Grows(g2.tx, g3.tx)
  BY <1>1, <1>2, <1>5, SendGrows
<1> HIDE DEF g3
<1>7. g4 \in Host /\ Grows(g3.tx, g4.tx)
  BY <1>1, <1>2, <1>6, SendGrows
<1> HIDE DEF g4
<1>8. h.tx \in Seq(Frames) /\ g1.tx \in Seq(Frames) /\ g2.tx \in Seq(Frames)
      /\ g3.tx \in Seq(Frames) /\ g4.tx \in Seq(Frames)
  BY <1>4, <1>5, <1>6, <1>7 DEF Host
<1>9. Grows(h.tx, g2.tx) /\ Grows(g2.tx, g4.tx)
  BY <1>4, <1>5, <1>6, <1>7, <1>8, GrowsTwice
<1> QED
  BY <1>3, <1>8, <1>9, GrowsTwice

LEMMA ResetGrows ==
  ASSUME NEW h \in Host
  PROVE  Grows(h.tx, try_reset(h).tx)
<1>1. h.tx \in Seq(Frames) /\ Cmd("RESET") \in Frames
  BY FrameFacts DEF Cmds, Host
<1>2. try_reset(h).tx = Append(h.tx, Cmd("RESET"))
  BY DEF try_reset, raw_send, Host
<1>3. Cmd("RESET").cmd # "DISCONNECT"
  BY DEF Cmd
<1> QED
  BY <1>1, <1>2, <1>3, AppendGrows

LEMMA StepGrows ==
  ASSUME NEW h \in Host, NEW s \in [Rows -> Texts],
         h.action \in Frames \union {Noop}, h.next_state \in States,
         h.action.cmd # "DISCONNECT"
  PROVE  Grows(h.tx, fsm_step(h, s).tx)
<1>1. h.action # Uninitialized /\ h.next_state # Unset
  BY FrameFacts
<1>2. h.tx \in Seq(Frames)
  BY DEF Host
<1>a. Grows(h.tx, h.tx) /\ (h.action # Noop => Grows(h.tx, Append(h.tx, h.action)))
  <2>1. Cmd("RESET") \in Frames
    BY FrameFacts DEF Cmds
  <2> QED
    BY <1>2, <2>1, AppendGrows
<1>3. Settle(h) \in Host /\ Grows(h.tx, Settle(h).tx)
  BY <1>a, SettleType
<1>4. Perform(h) \in Host /\ Grows(h.tx, Perform(h).tx)
  BY <1>a, PerformType
<1>5. CASE h.next_state # "CONNECTED" \/ h.state = "CONNECTED"
  BY <1>1, <1>3, <1>5 DEF fsm_step
<1>6. CASE ~(h.next_state # "CONNECTED" \/ h.state = "CONNECTED") /\ h.reset_rx
  <2>1. fsm_step(h, s) = Greet(Settle(h), s)
    BY <1>1, <1>6 DEF fsm_step
  <2>2. Grows(Settle(h).tx, Greet(Settle(h), s).tx) /\ Greet(Settle(h), s) \in Host
    BY <1>3, GreetGrows, GreetType
  <2>3. Settle(h).tx \in Seq(Frames) /\ Greet(Settle(h), s).tx \in Seq(Frames)
    BY <1>3, <2>2 DEF Host
  <2> QED
    BY <1>2, <1>3, <2>1, <2>2, <2>3, GrowsTwice
<1>7. CASE ~(h.next_state # "CONNECTED" \/ h.state = "CONNECTED") /\ ~h.reset_rx
  <2>1. fsm_step(h, s) = try_reset(Perform(h))
    BY <1>1, <1>7 DEF fsm_step
  <2>2. Grows(Perform(h).tx, try_reset(Perform(h)).tx) /\ try_reset(Perform(h)) \in Host
    BY <1>4, ResetGrows, ResetType
  <2>3. Perform(h).tx \in Seq(Frames) /\ try_reset(Perform(h)).tx \in Seq(Frames)
    BY <1>4, <2>2 DEF Host
  <2> QED
    BY <1>2, <1>4, <2>1, <2>2, <2>3, GrowsTwice
<1> QED
  BY <1>5, <1>6, <1>7

\* No answer of the driver ends the connection.
LEMMA HandleGrows ==
  ASSUME NEW h \in Host, NEW s \in [Rows -> Texts], NEW c \in PanelCmds
  PROVE  /\ Grows(h.tx, fsm_handle_cmd(h, c, s).tx)
         /\ Grows(h.tx, fsm_handle_datacmd(h, s).tx)
<1> DEFINE r == Reaction(h.state, c)
           g == [h EXCEPT !.reset_rx = @ \/ c = "RESET"]
           k == fsm_trans(g, r.next, r.action)
           d == IF h.state = "CONNECTED" THEN fsm_trans(h, "CONNECTED", Noop)
                ELSE fsm_trans(h, h.state, Cmd("NACK"))
<1>1. r.next \in States /\ r.action \in Frames \union {Noop}
  BY ReactionType DEF Host
<1>2. r.action.cmd # "DISCONNECT"
  <2>1. /\ Noop.cmd # "DISCONNECT"
        /\ \A a \in {"ACK", "NACK", "CONFIRM", "CONNECT"} : Cmd(a).cmd # "DISCONNECT"
    BY DEF Noop, Cmd
  <2>2. r.action \in {Noop, Cmd("ACK"), Cmd("NACK"), Cmd("CONFIRM"), Cmd("CONNECT")}
    BY DEF Reaction, WhenConnected, WhenNotConnected, React, PanelCmds
  <2> QED
    BY <2>1, <2>2
<1> HIDE DEF r
<1>3. /\ k \in Host /\ k.action = r.action /\ k.next_state = r.next /\ k.tx = h.tx
  BY <1>1, FrameFacts DEF fsm_trans, Host
<1>4. fsm_handle_cmd(h, c, s) = fsm_step(k, s)
  BY DEF fsm_handle_cmd, r
<1>5. Cmd("NACK") \in Frames
  BY FrameFacts DEF Cmds
<1>6. /\ d \in Host /\ d.action \in Frames \union {Noop} /\ d.next_state \in States
      /\ d.tx = h.tx /\ d.action \in {Noop, Cmd("NACK")}
  BY <1>5, FrameFacts DEF fsm_trans, Host, States
<1>7. d.action.cmd # "DISCONNECT"
  BY <1>6 DEF Noop, Cmd
<1>8. fsm_handle_datacmd(h, s) = fsm_step(d, s)
  BY DEF fsm_handle_datacmd
<1> HIDE DEF k, d
<1> QED
  BY <1>1, <1>2, <1>3, <1>4, <1>6, <1>7, <1>8, StepGrows

\* Both are about the frames up to the one they are told.
LEMMA LinkedAgrees ==
  ASSUME NEW tx, NEW t, NEW p, NEW m \in Nat, \A l \in 1 .. m : t[l] = tx[l], Linked(tx, p, m)
  PROVE  Linked(t, p, m)
<1>1. CASE p.mode # "COMMAND" /\ \A l \in 1 .. m : tx[l].cmd # "CONNECT"
  BY <1>1 DEF Linked
<1>2. ASSUME NEW j \in 1 .. m - 1, tx[j].cmd \in {"CONFIRM", "RESET", "DISCONNECT"},
             \A l \in j + 1 .. m : tx[l].cmd # "CONNECT"
      PROVE  Linked(t, p, m)
  <2>1. j \in 1 .. m /\ \A l \in j + 1 .. m : l \in 1 .. m
    BY <1>2
  <2>2. t[j].cmd \in {"CONFIRM", "RESET", "DISCONNECT"}
    BY <1>2, <2>1
  <2>3. \A l \in j + 1 .. m : t[l].cmd # "CONNECT"
    BY <1>2, <2>1
  <2> QED
    BY <2>2, <2>3 DEF Linked
<1> QED
  BY <1>1, <1>2 DEF Linked

LEMMA DarkAgrees ==
  ASSUME NEW tx, NEW t, NEW p, NEW k \in Nat, \A l \in 1 .. k - 1 : t[l] = tx[l], Dark(tx, p, k)
  PROVE  Dark(t, p, k)
<1>1. CASE ~p.on /\ \A l \in 1 .. k - 1 : tx[l].cmd # "DISPLAY_ON"
  BY <1>1 DEF Dark
<1>2. ASSUME NEW m \in 1 .. k - 1, tx[m].cmd = "DISPLAY_OFF", Linked(tx, p, m),
             \A l \in m + 1 .. k - 1 : tx[l].cmd # "DISPLAY_ON"
      PROVE  Dark(t, p, k)
  <2>1. \A l \in m + 1 .. k - 1 : l \in 1 .. k - 1
    BY <1>2
  <2>2. \A l \in m + 1 .. k - 1 : t[l].cmd # "DISPLAY_ON"
    BY <1>2, <2>1
  <2>3. m \in Nat /\ \A l \in 1 .. m : t[l] = tx[l]
    BY <1>2
  <2>4. t[m].cmd = "DISPLAY_OFF" /\ Linked(t, p, m)
    BY <1>2, <2>3, LinkedAgrees
  <2> QED
    BY <2>2, <2>4 DEF Dark
<1> QED
  BY <1>1, <1>2 DEF Dark

\* A line that grows changes nothing about the frames already on it.
LEMMA DarkGrows ==
  ASSUME NEW tx \in Seq(Frames), NEW t \in Seq(Frames), Grows(tx, t), NEW p,
         NEW k \in 1 .. Len(tx) + 1, Dark(tx, p, k)
  PROVE  Dark(t, p, k)
<1>1. Len(tx) \in Nat /\ DOMAIN tx = 1 .. Len(tx)
  BY LenProperties
<1>2. \A l \in 1 .. k - 1 : t[l] = tx[l]
  BY <1>1 DEF Grows
<1> QED
  BY <1>1, <1>2, DarkAgrees

\* The steps of the driver but its quit.
LEMMA GrowingStaysDark ==
  ASSUME Sound, Darkens, ~misled, lcm' \in Host, Grows(lcm.tx, lcm'.tx),
         UNCHANGED <<panel, left>>, ~quit'
  PROVE  Darkens'
<1>0. Screen' = Screen
  BY DEF Screen
<1>1. lcm.tx \in Seq(Frames) /\ lcm'.tx \in Seq(Frames)
  BY SoundFacts DEF Host
<1>2. /\ Len(lcm.tx) \in Nat /\ DOMAIN lcm.tx = 1 .. Len(lcm.tx)
      /\ Len(lcm'.tx) \in Nat /\ DOMAIN lcm'.tx = 1 .. Len(lcm'.tx)
  BY <1>1, LenProperties
<1>3. ASSUME NEW k \in DOMAIN lcm'.tx, lcm'.tx[k].cmd = "DISCONNECT"
      PROVE  Dark(lcm'.tx, Screen', k)
  <2>1. k \in DOMAIN lcm.tx /\ lcm.tx[k].cmd = "DISCONNECT"
    BY <1>2, <1>3 DEF Grows
  <2>2. Dark(lcm.tx, Screen, k) /\ k \in 1 .. Len(lcm.tx) + 1
    BY <1>2, <2>1 DEF Darkens
  <2> QED
    BY <1>0, <1>1, <2>2, DarkGrows
<1> QED
  BY <1>0, <1>3 DEF Darkens

\* A display that a driver which takes it for connected writes to is not half-way.
LEMMA ReachLinks ==
  ASSUME NEW tx \in Seq(Frames), NEW p, Reach(tx, p), NEW t \in Seq(Frames), Grows(tx, t),
         NEW m \in Nat, m > Len(tx), \A l \in Len(tx) + 1 .. m : t[l].cmd # "CONNECT"
  PROVE  Linked(t, p, m)
<1>1. Len(tx) \in Nat /\ DOMAIN tx = 1 .. Len(tx)
  BY LenProperties
<1>2. \A l \in 1 .. Len(tx) : t[l] = tx[l]
  BY <1>1 DEF Grows
<1>3. ASSUME NEW n \in 1 .. Len(tx) + 1, Whole(tx, n)
      PROVE  \A l \in n .. m : t[l].cmd # "CONNECT"
  <2>1. ASSUME NEW l \in n .. m PROVE t[l].cmd # "CONNECT"
    <3>1. CASE l \in n .. Len(tx)
      <4>1. l \in 1 .. Len(tx) /\ tx[l].cmd # "CONNECT"
        BY <1>1, <1>3, <3>1 DEF Whole, Severs
      <4> QED
        BY <1>2, <4>1
    <3>2. CASE l \in Len(tx) + 1 .. m
      BY <3>2
    <3> QED
      BY <1>1, <1>3, <2>1, <3>1, <3>2
  <2> QED
    BY <2>1
<1>4. CASE Steady(tx, p)
  BY <1>1, <1>3, <1>4 DEF Steady, Linked
<1>5. ASSUME NEW j \in DOMAIN tx, Confirmed(tx, j) PROVE Linked(t, p, m)
  <2>1. \A l \in j .. m : t[l].cmd # "CONNECT"
    BY <1>1, <1>3, <1>5 DEF Confirmed
  <2>2. t[j].cmd = "CONFIRM" /\ j \in 1 .. m - 1
    BY <1>1, <1>2, <1>5 DEF Confirmed, Cmd
  <2> QED
    BY <2>1, <2>2 DEF Linked
<1> QED
  BY <1>4, <1>5 DEF Reach

\* What reading frame f does to a display.
Obeys(f, p, q) ==
  /\ f.cmd # "CONNECT" /\ p.mode # "COMMAND" => q.mode # "COMMAND"
  /\ f.cmd \in {"CONFIRM", "RESET", "DISCONNECT"} => q.mode # "COMMAND"
  /\ f.cmd # "DISPLAY_ON" /\ ~p.on => ~q.on
  /\ f.cmd = "DISPLAY_OFF" /\ p.mode # "COMMAND" => ~q.on

LEMMA ScreenObeys ==
  ASSUME Sound, PanelReceives, Screen.mode = "IDLE" => ~Screen.on
  PROVE  /\ Obeys(Head(lcm.tx), Screen, Screen')
         /\ Screen'.mode = "IDLE" /\ Head(lcm.tx).cmd # "DISCONNECT" => ~Screen'.on
         /\ Head(lcm.tx).cmd = "DISCONNECT" /\ ~Screen.on => ~Screen'.on
<1> DEFINE f == Head(lcm.tx)
<1>1. /\ panel \in Screens /\ panel.mode \in States /\ panel.on \in BOOLEAN /\ left \in BOOLEAN
  BY DEF Sound, TypeOK, Screens
<1>2. /\ Screen.mode = panel.mode /\ Screen.on = (panel.on /\ ~left)
      /\ panel.mode = "IDLE" => ~panel.on \/ left
  BY <1>1 DEF Screen, Screens
<1>3. panel' = PanelAfter(f) /\ left' = (left /\ f.cmd # "RESET")
  BY DEF PanelReceives
<1>4. f \in Frames
  BY DEF PanelReceives, Sound, TypeOK
<1> HIDE DEF f
<1>5. panel' \in Screens
  BY <1>3, <1>4, PanelType DEF Screens
<1>6. Screen'.mode = panel'.mode /\ Screen'.on = (panel'.on /\ ~left')
  BY <1>5 DEF Screen, Screens
<1>7. /\ f.cmd # "CONNECT" /\ panel.mode # "COMMAND" => panel'.mode # "COMMAND"
      /\ f.cmd \in {"CONFIRM", "RESET", "DISCONNECT"} => panel'.mode # "COMMAND"
      /\ f.cmd = "RESET" => ~panel'.on
      /\ f.cmd # "DISPLAY_ON" /\ ~panel.on => ~panel'.on
      /\ f.cmd = "DISPLAY_OFF" /\ panel.mode # "COMMAND" => ~panel'.on \/ panel.mode = "IDLE"
      /\ panel'.mode = "IDLE" /\ f.cmd \notin {"RESET", "DISCONNECT"} =>
           panel.mode = "IDLE" /\ panel'.on = panel.on
      /\ panel.mode = "IDLE" => panel'.on = (panel.on /\ f.cmd # "RESET")
  BY <1>1, <1>3 DEF PanelAfter, PanelReset, Screens, States
<1> QED
  BY <1>1, <1>2, <1>3, <1>6, <1>7 DEF Obeys, f

\* Reading a frame: what was dark stays so.
LEMMA ReadIsDark ==
  ASSUME NEW tx \in Seq(Frames), tx # <<>>, NEW p, NEW q, Obeys(Head(tx), p, q),
         NEW k \in 2 .. Len(tx) + 1, Dark(tx, p, k)
  PROVE  Dark(Tail(tx), q, k - 1)
<1> DEFINE t == Tail(tx)
<1>2. /\ Len(t) = Len(tx) - 1 /\ Head(tx) = tx[1] /\ Len(tx) \in Nat \ {0}
      /\ \A l \in 1 .. Len(t) : t[l] = tx[l + 1]
  OBVIOUS
<1>3. k \in 2 .. Len(tx) + 1 /\ Dark(tx, p, k)
  OBVIOUS
<1> HIDE DEF t
<1>4. /\ tx[1].cmd # "CONNECT" /\ p.mode # "COMMAND" => q.mode # "COMMAND"
      /\ tx[1].cmd \in {"CONFIRM", "RESET", "DISCONNECT"} => q.mode # "COMMAND"
      /\ tx[1].cmd # "DISPLAY_ON" /\ ~p.on => ~q.on
      /\ tx[1].cmd = "DISPLAY_OFF" /\ p.mode # "COMMAND" => ~q.on
  BY <1>2 DEF Obeys
<1>5. \A l \in 2 .. k - 1 : l - 1 \in 1 .. Len(t) /\ t[l - 1] = tx[l]
  BY <1>2, <1>3
<1>6. CASE ~p.on /\ \A l \in 1 .. k - 1 : tx[l].cmd # "DISPLAY_ON"
  <2>1. ~q.on
    BY <1>3, <1>4, <1>6
  <2>3. \A l \in 1 .. (k - 1) - 1 : t[l].cmd # "DISPLAY_ON"
    <3>1. ASSUME NEW l \in 1 .. (k - 1) - 1 PROVE t[l].cmd # "DISPLAY_ON"
      <4>1. l + 1 \in 1 .. k - 1 /\ t[l] = tx[l + 1]
        BY <1>2, <1>3
      <4> QED
        BY <1>6, <4>1
    <3> QED
      BY <3>1
  <2> QED
    BY <2>1, <2>3 DEF Dark, t
<1>7. ASSUME NEW m \in 1 .. k - 1, tx[m].cmd = "DISPLAY_OFF", Linked(tx, p, m),
             \A l \in m + 1 .. k - 1 : tx[l].cmd # "DISPLAY_ON"
      PROVE  Dark(t, q, k - 1)
  <2>1. \A l \in 1 .. (k - 1) - 1 : l + 1 \in 2 .. k - 1 /\ (l + 1) - 1 = l
    BY <1>3
  <2>2. CASE m = 1
    <3>1. p.mode # "COMMAND"
      BY <1>7, <2>2 DEF Linked
    <3>2. ~q.on
      BY <1>4, <1>7, <2>2, <3>1
    <3>3. \A l \in 1 .. (k - 1) - 1 : t[l].cmd # "DISPLAY_ON"
      <4>1. \A l \in 1 .. (k - 1) - 1 : l + 1 \in m + 1 .. k - 1
        BY <1>3, <2>2
      <4>2. \A l \in 1 .. (k - 1) - 1 : t[l] = tx[l + 1]
        BY <1>5, <2>1
      <4> QED
        BY <1>7, <4>1, <4>2
    <3> QED
      BY <3>2, <3>3 DEF Dark
  <2>3. CASE m # 1
    <3>1. m - 1 \in 1 .. (k - 1) - 1 /\ t[m - 1].cmd = "DISPLAY_OFF"
      <4>1. m \in 2 .. k - 1 /\ m - 1 \in 1 .. (k - 1) - 1
        BY <1>2, <1>3, <1>7, <2>3
      <4> QED
        BY <1>5, <1>7, <4>1
    <3>2. \A l \in (m - 1) + 1 .. (k - 1) - 1 : t[l].cmd # "DISPLAY_ON"
      <4>1. \A l \in (m - 1) + 1 .. (k - 1) - 1 : l + 1 \in m + 1 .. k - 1 /\ l \in 1 .. (k - 1) - 1
        BY <1>3
      <4> QED
        BY <1>5, <1>7, <2>1, <4>1
    <3>3. \A n \in 2 .. m : (\A l \in n .. m : tx[l].cmd # "CONNECT")
            => \A l \in n - 1 .. m - 1 : t[l].cmd # "CONNECT"
      <4>1. ASSUME NEW n \in 2 .. m, \A l \in n .. m : tx[l].cmd # "CONNECT", NEW l \in n - 1 .. m - 1
            PROVE  t[l].cmd # "CONNECT"
        <5>1. l + 1 \in n .. m /\ l + 1 \in 2 .. k - 1 /\ (l + 1) - 1 = l
          BY <1>3, <4>1
        <5> QED
          BY <1>5, <4>1, <5>1
      <4> QED
        BY <4>1
    <3>4. Linked(t, q, m - 1)
      <4>1. CASE p.mode # "COMMAND" /\ \A l \in 1 .. m : tx[l].cmd # "CONNECT"
        <5>1. 1 \in 1 .. m /\ 2 \in 2 .. m /\ \A l \in 2 .. m : l \in 1 .. m
          BY <1>3, <2>3
        <5>2. q.mode # "COMMAND"
          BY <1>4, <4>1, <5>1
        <5>3. \A l \in 1 .. m - 1 : t[l].cmd # "CONNECT"
          <6>1. \A l \in 2 .. m : tx[l].cmd # "CONNECT"
            BY <4>1, <5>1
          <6>2. 2 - 1 = 1
            OBVIOUS
          <6> QED
            BY <3>3, <5>1, <6>1, <6>2
        <5> QED
          BY <5>2, <5>3 DEF Linked
      <4>2. ASSUME NEW j \in 1 .. m - 1, tx[j].cmd \in {"CONFIRM", "RESET", "DISCONNECT"},
                   \A l \in j + 1 .. m : tx[l].cmd # "CONNECT"
            PROVE  Linked(t, q, m - 1)
        <5>1. j + 1 \in 2 .. m /\ (j + 1) - 1 = j
          BY <1>3, <4>2
        <5>2. \A l \in j .. m - 1 : t[l].cmd # "CONNECT"
          BY <3>3, <4>2, <5>1
        <5>3. CASE j = 1
          <6>1. q.mode # "COMMAND"
            BY <1>4, <4>2, <5>3
          <6> QED
            BY <5>2, <5>3, <6>1 DEF Linked
        <5>4. CASE j # 1
          <6>1. j - 1 \in 1 .. (m - 1) - 1 /\ j \in 2 .. k - 1 /\ (j - 1) + 1 = j
            BY <1>3, <4>2, <5>4
          <6>2. t[j - 1].cmd \in {"CONFIRM", "RESET", "DISCONNECT"}
            BY <1>5, <4>2, <6>1
          <6> QED
            BY <5>2, <6>1, <6>2 DEF Linked
        <5> QED
          BY <5>3, <5>4
      <4> QED
        BY <1>7, <4>1, <4>2 DEF Linked
    <3> QED
      BY <3>1, <3>2, <3>4 DEF Dark
  <2> QED
    BY <2>2, <2>3
<1> QED
  BY <1>3, <1>6, <1>7 DEF Dark, t

LEMMA StartsIdleStep == Sound /\ StartsIdle /\ [Next]_vars => StartsIdle'
<1> SUFFICES ASSUME Sound, StartsIdle, [Next]_vars, phase' = "started"
             PROVE  lcm'.state = "IDLE"
  BY DEF StartsIdle
<1>t. lcm \in Host
  BY SoundFacts
<1>1. CASE drv_TeakLCM_start
  BY <1>1 DEF drv_TeakLCM_start
<1>2. ASSUME NEW r \in Rows, NEW t \in Texts, drv_TeakLCM_write(r, t) PROVE lcm'.state = "IDLE"
  <2>1. phase = "started" /\ shadow' \in [Rows -> Texts] /\ lcm' = fsm_send(lcm, PrintRow(r, shadow'[r]))
    BY <1>2, SoundFacts DEF drv_TeakLCM_write
  <2>2. PrintRow(r, shadow'[r]) \in Frames
    BY <2>1, FrameFacts
  <2> QED
    BY <1>t, <2>1, <2>2, SendType DEF StartsIdle
<1>3. CASE PanelReceives
  <2>1. lcm'.state = lcm.state /\ phase = "started"
    BY <1>3, <1>t DEF PanelReceives, Host
  <2> QED
    BY <2>1 DEF StartsIdle
<1>4. CASE PowerCycle \/ PanelLeaves \/ (\E c \in PanelCmds : Stray(c)) \/ UNCHANGED vars
  BY <1>4 DEF PowerCycle, PanelLeaves, Stray, vars, StartsIdle
<1>5. CASE initial_connect_to_display_callback \/ lcm_event_callback
           \/ (\E n \in 1 .. Len(rx) : DropDamaged(n)) \/ drv_TeakLCM_quit \/ Crash
  BY <1>5 DEF initial_connect_to_display_callback, lcm_event_callback, DropDamaged,
     drv_TeakLCM_quit, Crash
<1> QED
  BY <1>1, <1>2, <1>3, <1>4, <1>5 DEF Next

\* What the driver leaves on the line when it is quit.
LEMMA QuitIsDark ==
  ASSUME Sound, Follows, StartsIdle, Darkens, ~misled, drv_TeakLCM_quit
  PROVE  Darkens'
<1>1. /\ lcm \in Host /\ lcm.tx \in Seq(Frames) /\ Len(lcm.tx) \in Nat
      /\ DOMAIN lcm.tx = 1 .. Len(lcm.tx)
  BY SoundFacts, LenProperties
<1>2. /\ phase \in {"started", "up"} /\ phase' = "down" /\ quit' = (lcm.state = "CONNECTED")
      /\ shadow' = [r \in Rows |-> Blank] /\ UNCHANGED <<panel, left>> /\ Screen' = Screen
      /\ lcm' = fsm_send(fsm_send(flush_shadow(lcm, shadow'), Cmd("DISPLAY_OFF")), Cmd("DISCONNECT"))
  BY DEF drv_TeakLCM_quit, Running, Screen
<1>3. Cmd("DISPLAY_OFF") \in Frames /\ Cmd("DISCONNECT") \in Frames
  BY FrameFacts DEF Cmds
<1>4. CASE lcm.state # "CONNECTED"
  <2>1. lcm' = lcm
    BY <1>2, <1>4 DEF flush_shadow, fsm_send
  <2>2. ~quit'
    BY <1>2, <1>4
  <2>3. Grows(lcm.tx, lcm'.tx)
    BY <1>1, <1>3, <2>1, AppendGrows
  <2> QED
    BY <1>1, <1>2, <2>1, <2>2, <2>3, GrowingStaysDark
<1>5. CASE lcm.state = "CONNECTED"
  <2> DEFINE p1 == PrintRow(1, Blank)
             p2 == PrintRow(2, Blank)
             off == Cmd("DISPLAY_OFF")
             bye == Cmd("DISCONNECT")
             n == Len(lcm.tx)
             t3 == Append(Append(Append(lcm.tx, p1), p2), off)
             t == Append(t3, bye)
  <2>1. lcm'.tx = t
    <3>1. shadow'[1] = Blank /\ shadow'[2] = Blank
      BY <1>2 DEF Rows
    <3> QED
      BY <1>1, <1>2, <1>5, <3>1 DEF flush_shadow, fsm_send, Host
  <2>2. p1 \in Frames /\ p2 \in Frames
    BY FrameFacts DEF Rows
  <2>3. /\ p1.cmd = "PRINT" /\ p2.cmd = "PRINT" /\ off.cmd = "DISPLAY_OFF" /\ bye.cmd = "DISCONNECT"
    BY DEF PrintRow, Cmd
  <2> HIDE DEF p1, p2, off, bye
  <2>4. /\ t \in Seq(Frames) /\ Len(t) = n + 4 /\ DOMAIN t = 1 .. n + 4
        /\ \A l \in 1 .. n : t[l] = lcm.tx[l]
        /\ t[n + 1] = p1 /\ t[n + 2] = p2 /\ t[n + 3] = off /\ t[n + 4] = bye
    BY <1>1, <1>3, <2>2 DEF off, bye
  <2>5. /\ t3 \in Seq(Frames) /\ Len(t3) = n + 3 /\ \A l \in 1 .. n : t3[l] = lcm.tx[l]
        /\ t3[n + 1] = p1 /\ t3[n + 2] = p2 /\ t3[n + 3] = off
        /\ \A l \in 1 .. n + 3 : t3[l] = t[l]
    BY <1>1, <1>3, <2>2 DEF off, bye
  <2> HIDE DEF t, t3
  <2>6. Grows(lcm.tx, t3)
    <3>1. \A l \in n + 1 .. n + 3 : l = n + 1 \/ l = n + 2 \/ l = n + 3
      BY <1>1
    <3>2. \A l \in n + 1 .. n + 3 : t3[l].cmd # "DISCONNECT"
      BY <2>3, <2>5, <3>1
    <3>3. n <= n + 3
      BY <1>1
    <3>4. \A l \in DOMAIN lcm.tx : t3[l] = lcm.tx[l]
      BY <1>1, <2>5
    <3> QED
      BY <2>5, <3>2, <3>3, <3>4 DEF Grows
  <2>7. Reach(lcm.tx, panel)
    <3>1. phase = "up"
      BY <1>2, <1>5 DEF StartsIdle
    <3>2. Cmd("DISPLAY_ON") \in Wanted(shadow)
      BY DEF Wanted
    <3>3. Fine(Cmd("DISPLAY_ON"), lcm.tx, panel)
      BY <1>5, <3>1, <3>2 DEF Follows
    <3> QED
      BY <1>1, <3>3, FineReaches
  <2>8. Linked(t3, panel, n + 3)
    <3>1. \A l \in n + 1 .. n + 3 : t3[l].cmd # "CONNECT"
      <4>1. \A l \in n + 1 .. n + 3 : l = n + 1 \/ l = n + 2 \/ l = n + 3
        BY <1>1
      <4> QED
        BY <2>3, <2>5, <4>1
    <3>2. n + 3 \in Nat /\ n + 3 > n
      BY <1>1
    <3> QED
      BY <1>1, <2>5, <2>6, <2>7, <3>1, <3>2, ReachLinks
  <2>9. Linked(t, Screen, n + 3)
    <3>1. n + 3 \in Nat
      BY <1>1
    <3>2. Linked(t, panel, n + 3)
      BY <2>5, <2>8, <3>1, LinkedAgrees
    <3>3. Screen.mode = panel.mode
      BY DEF Screen, Sound, TypeOK
    <3> QED
      BY <3>2, <3>3 DEF Linked
  <2>10. Dark(t, Screen, n + 4) /\ Dark(t, Screen, n + 5)
    <3>1. /\ n + 3 \in 1 .. (n + 4) - 1 /\ n + 3 \in 1 .. (n + 5) - 1
          /\ \A l \in (n + 3) + 1 .. (n + 5) - 1 : l = n + 4
          /\ \A l \in (n + 3) + 1 .. (n + 4) - 1 : FALSE
      BY <1>1
    <3>2. t[n + 3].cmd = "DISPLAY_OFF" /\ t[n + 4].cmd # "DISPLAY_ON"
      BY <2>3, <2>4
    <3> QED
      BY <2>9, <3>1, <3>2 DEF Dark
  <2>11. ASSUME NEW k \in DOMAIN t, t[k].cmd = "DISCONNECT" PROVE Dark(t, Screen, k)
    <3>1. k \in 1 .. n \/ k = n + 1 \/ k = n + 2 \/ k = n + 3 \/ k = n + 4
      BY <1>1, <2>4, <2>11
    <3>2. CASE k \in 1 .. n
      <4>1. lcm.tx[k].cmd = "DISCONNECT" /\ k \in DOMAIN lcm.tx
        BY <1>1, <2>4, <2>11, <3>2
      <4>2. Dark(lcm.tx, Screen, k)
        BY <4>1 DEF Darkens
      <4>3. Dark(t3, Screen, k)
        BY <1>1, <2>5, <2>6, <3>2, <4>2, DarkGrows
      <4>4. k \in Nat /\ \A l \in 1 .. k - 1 : t3[l] = t[l]
        BY <1>1, <2>5, <3>2
      <4> QED
        BY <4>3, <4>4, DarkAgrees
    <3>3. CASE k = n + 4
      BY <2>10, <3>3
    <3> QED
      BY <2>3, <2>4, <2>11, <3>1, <3>2, <3>3
  <2>12. (Len(t) + 1) = n + 5
    BY <1>1, <2>4
  <2>13. Screen.mode = "IDLE" => ~Screen.on
    BY DEF Darkens
  <2> QED
    BY <1>2, <2>1, <2>10, <2>11, <2>12, <2>13 DEF Darkens
<1> QED
  BY <1>4, <1>5

LEMMA DarkensStep == Sound /\ Follows /\ StartsIdle /\ Darkens /\ [Next]_vars => Darkens'
<1> SUFFICES ASSUME Sound, Follows, StartsIdle, Darkens, [Next]_vars, ~misled' PROVE Darkens'
  BY DEF Darkens
<1>t. /\ lcm \in Host /\ lcm' \in Host /\ lcm.tx \in Seq(Frames)
      /\ shadow \in [Rows -> Texts] /\ shadow' \in [Rows -> Texts]
      /\ rx \in Seq({Cmd(c) : c \in PanelCmds})
  <2>1. Sound'
    BY SoundStep
  <2> QED
    BY <2>1, SoundFacts DEF Sound, TypeOK, Host
<1>0. ~misled
  BY DEF Next, drv_TeakLCM_start, initial_connect_to_display_callback, lcm_event_callback,
     DropDamaged, drv_TeakLCM_write, drv_TeakLCM_quit, Crash, PanelReceives, PowerCycle,
     PanelLeaves, Stray, vars, history
<1>f. quit => phase = "down"
  BY <1>0 DEF Darkens
<1>a. ASSUME lcm'.tx = lcm.tx, UNCHANGED <<panel, left>>, ~quit' PROVE Darkens'
  <2>1. Cmd("RESET") \in Frames
    BY FrameFacts DEF Cmds
  <2>2. Grows(lcm.tx, lcm'.tx)
    BY <1>t, <1>a, <2>1, AppendGrows
  <2> QED
    BY <1>0, <1>t, <1>a, <2>2, GrowingStaysDark
<1>1. CASE UNCHANGED vars
  BY <1>1 DEF vars, history, Darkens, Screen
<1>2. CASE drv_TeakLCM_start
  <2>1. lcm'.tx = lcm.tx /\ UNCHANGED <<panel, left>> /\ ~quit'
    BY <1>2 DEF drv_TeakLCM_start
  <2> QED
    BY <1>a, <2>1
<1>3. CASE initial_connect_to_display_callback
  <2>1. lcm' = try_reset(lcm) /\ UNCHANGED <<panel, left>> /\ ~quit'
    BY <1>3, <1>f DEF initial_connect_to_display_callback, history
  <2> QED
    BY <1>0, <1>t, <2>1, ResetGrows, GrowingStaysDark
<1>4. CASE lcm_event_callback
  <2> DEFINE Heard == {Cmd(c) : c \in PanelCmds}
  <2>1. Head(rx) \in Heard
    BY <1>4, <1>t DEF lcm_event_callback
  <2>2. PICK c \in PanelCmds : Head(rx) = Cmd(c)
    BY <2>1 DEF Heard
  <2>3. Head(rx).cmd = c
    BY <2>2 DEF Cmd
  <2>4. UNCHANGED <<panel, left>> /\ ~quit'
    BY <1>4, <1>f DEF lcm_event_callback
  <2>5. \/ lcm' = lcm \/ lcm' = fsm_handle_cmd(lcm, c, shadow)
        \/ lcm' = fsm_handle_datacmd(lcm, shadow)
    BY <1>4, <2>3 DEF lcm_event_callback
  <2>c. CASE lcm' = lcm
    BY <1>a, <2>4, <2>c
  <2>d. CASE lcm' # lcm
    <3>1. Grows(lcm.tx, lcm'.tx)
      BY <1>t, <2>5, <2>d, HandleGrows
    <3> QED
      BY <1>0, <1>t, <2>4, <3>1, GrowingStaysDark
  <2> QED
    BY <2>c, <2>d
<1>5. ASSUME NEW n \in 1 .. Len(rx), DropDamaged(n) PROVE Darkens'
  <2>1. lcm'.tx = lcm.tx /\ UNCHANGED <<panel, left>> /\ ~quit'
    BY <1>5, <1>f, <1>t DEF DropDamaged, fsm_trans, Host
  <2> QED
    BY <1>a, <2>1
<1>6. ASSUME NEW r \in Rows, NEW t \in Texts, drv_TeakLCM_write(r, t) PROVE Darkens'
  <2>1. lcm' = fsm_send(lcm, PrintRow(r, shadow'[r])) /\ UNCHANGED <<panel, left>> /\ ~quit'
    BY <1>6, <1>f DEF drv_TeakLCM_write, Running, history
  <2>2. PrintRow(r, shadow'[r]) \in Frames /\ PrintRow(r, shadow'[r]).cmd # "DISCONNECT"
    BY <1>t, FrameFacts DEF PrintRow
  <2>3. Grows(lcm.tx, lcm'.tx)
    BY <1>t, <2>1, <2>2, SendGrows
  <2> QED
    BY <1>0, <1>t, <2>1, <2>3, GrowingStaysDark
<1>7. CASE drv_TeakLCM_quit
  BY <1>0, <1>7, QuitIsDark
<1>8. CASE Crash
  <2>1. lcm'.tx = lcm.tx /\ UNCHANGED <<panel, left>> /\ ~quit'
    BY <1>8, <1>f DEF Crash, Running, history
  <2> QED
    BY <1>a, <2>1
<1>9. CASE PanelReceives
  <2> DEFINE tx == lcm.tx
             p == Screen
             q == Screen'
  <2>1. tx # <<>> /\ tx \in Seq(Frames) /\ lcm'.tx = Tail(tx) /\ UNCHANGED <<phase, quit>>
    BY <1>9, <1>t DEF PanelReceives, Host
  <2>2. /\ p.mode = "IDLE" => ~p.on
        /\ \A k \in DOMAIN tx : tx[k].cmd = "DISCONNECT" => Dark(tx, p, k)
        /\ quit => Dark(tx, p, Len(tx) + 1)
    BY <1>0 DEF Darkens
  <2>o. /\ Obeys(Head(tx), p, q)
        /\ q.mode = "IDLE" /\ Head(tx).cmd # "DISCONNECT" => ~q.on
        /\ Head(tx).cmd = "DISCONNECT" /\ ~p.on => ~q.on
    BY <1>9, <2>2, ScreenObeys
  <2> HIDE DEF tx, p, q
  <2>3. /\ Len(Tail(tx)) = Len(tx) - 1 /\ Len(tx) \in Nat \ {0} /\ Head(tx) = tx[1]
        /\ DOMAIN tx = 1 .. Len(tx) /\ DOMAIN Tail(tx) = 1 .. Len(tx) - 1
        /\ \A k \in 1 .. Len(tx) - 1 : Tail(tx)[k] = tx[k + 1]
    BY <2>1
  <2>4. \A k \in 2 .. Len(tx) + 1 : Dark(tx, p, k) => Dark(Tail(tx), q, k - 1)
    BY <2>1, <2>o, ReadIsDark
  <2>5. q.mode = "IDLE" => ~q.on
    <3>1. tx[1].cmd = "DISCONNECT" => ~p.on
      <4>1. 1 \in DOMAIN tx /\ \A m \in 1 .. 1 - 1 : FALSE
        BY <2>3
      <4> QED
        BY <2>2, <4>1 DEF Dark
    <3> QED
      BY <2>3, <2>o, <3>1
  <2>6. ASSUME NEW k \in DOMAIN Tail(tx), Tail(tx)[k].cmd = "DISCONNECT" PROVE Dark(Tail(tx), q, k)
    <3>1. k + 1 \in 2 .. Len(tx) + 1 /\ k + 1 \in DOMAIN tx /\ (k + 1) - 1 = k
      BY <2>3, <2>6
    <3>2. Dark(tx, p, k + 1)
      BY <2>2, <2>3, <2>6, <3>1
    <3> QED
      BY <2>4, <3>1, <3>2
  <2>7. quit => Dark(Tail(tx), q, Len(Tail(tx)) + 1)
    <3>1. Len(tx) + 1 \in 2 .. Len(tx) + 1 /\ (Len(tx) + 1) - 1 = Len(Tail(tx)) + 1
      BY <2>3
    <3> QED
      BY <2>2, <2>4, <3>1
  <2> QED
    BY <1>f, <2>1, <2>5, <2>6, <2>7 DEF Darkens, q
<1>10. CASE PowerCycle \/ PanelLeaves
  <2>1. UNCHANGED <<lcm, quit, phase>> /\ panel'.mode = "IDLE" /\ (left' \/ panel'.on = FALSE)
    BY <1>10 DEF PowerCycle, PanelLeaves, PanelReset, Sound, TypeOK
  <2>2. panel' \in Screens
    <3>1. Sound'
      BY SoundStep
    <3> QED
      BY <3>1 DEF Sound, TypeOK, Screens
  <2>3. Screen'.mode = "IDLE" /\ ~Screen'.on
    BY <2>1, <2>2 DEF Screen, Screens
  <2>4. \A k : Dark(lcm.tx, Screen, k) => Dark(lcm.tx, Screen', k)
    BY <2>3 DEF Dark, Linked
  <2> QED
    BY <1>0, <2>1, <2>3, <2>4 DEF Darkens
<1>11. ASSUME NEW c \in PanelCmds, Stray(c) PROVE Darkens'
  BY <1>0, <1>11 DEF Stray, Darkens, Screen, history
<1> QED
  BY <1>1, <1>2, <1>3, <1>4, <1>5, <1>6, <1>7, <1>8, <1>9, <1>10, <1>11 DEF Next

\* A driver that was connected when it was quit leaves the display switched off once it has
\* read what was sent, whatever was on the line then or lost from it before, and for any
\* number of starts and resets before and after.  Left out are the display that has ended
\* the connection by itself and was not reset since (left), and the driver that a CONFIRM
\* has made take itself for connected (misled).
THEOREM QuitLeavesTheDisplayOff == Spec => []QuitLeavesOff
<1>1. Init => Follows /\ StartsIdle /\ Darkens
  <2> SUFFICES ASSUME Init PROVE Follows /\ StartsIdle /\ Darkens
    OBVIOUS
  <2>1. lcm.tx = <<>> /\ ~quit /\ Screen.on = FALSE /\ phase = "down"
    BY DEF Init, PanelReset, Screen
  <2> QED
    BY <2>1 DEF Follows, StartsIdle, Darkens
<1>2. Sound /\ Darkens => QuitLeavesOff
  <2> SUFFICES ASSUME Sound, Darkens, quit, ~left, ~misled, lcm.tx = <<>> PROVE ~panel.on
    BY DEF QuitLeavesOff
  <2>1. Dark(<<>>, Screen, 0 + 1)
    BY DEF Darkens
  <2>2. \A m \in 1 .. 0 + 1 - 1 : FALSE
    OBVIOUS
  <2>3. Screen.on = panel.on
    BY DEF Screen, Sound, TypeOK
  <2> QED
    BY <2>1, <2>2, <2>3 DEF Dark
<1> QED
  BY AlwaysSound, <1>1, <1>2, FollowsStep, StartsIdleStep, DarkensStep, PTL DEF Spec
=============================================================================
