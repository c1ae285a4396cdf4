# LCD4Linux in TLA+

LCD4Linux shows the state of a machine on a small display.  One single-threaded process
evaluates expressions from a configuration file on timers and on events, lets widgets draw
the results and sends what changed to a display driver.  Slow sources run in forked helper
processes ("threads").  This directory holds TLA+ modules of the parts of the program in
which the order of things matters, TLC configurations that check them on small instances,
and proofs checked by TLAPS for every size of the instance.

    tlc -workers 2 -config Timer.cfg Timer       # model-check one run
    tlapm Timer_proof.tla                        # check the proofs of one module

## The system

| Component | Source | State | Operations | Talks to |
|---|---|---|---|---|
| main loop | `lcd4linux.c` | `got_signal`, mode | start, loop, end, restart | all below |
| timer queue | `timer.c` | `Timers`, `nTimers` | `timer_add`, `timer_add_late`, `timer_remove`, `timer_process`, `timer_exit` | calls back drivers, groups, libdbus |
| timer groups | `timer_group.c` | `TimerGroups`, `TimerGroupWidgets` | `timer_add_widget`, `timer_remove_widget`, `timer_process_group`, ... | one generic timer per group; calls back widgets |
| events | `event.c`, `plugin_event.c` | `events`, `ev_names` | `event_add/del/modify/process`, `named_event_add/del/trigger` | polls for drivers and libdbus; updates widgets |
| pidfile | `pid.c` | a file | `pid_init`, `pid_exit` | other lcd4linux processes |
| exec plugin | `plugin_exec.c`, `thread.c` | `Thread`, `EXEC`, shared memory, semaphores | `do_exec`, `exec_thread`, creation, exit | forked processes; hash |
| hash | `hash.c` | sorted slots, columns, deltas | `hash_put`, `hash_get`, `hash_age`, ... | plugins |
| configuration | `cfg.c`, `plugin_cfg.c` | a sorted table of entries with locks | `cfg_cmd`, `cfg_init`, `cfg_list`, `cfg_rename`, `cfg_get`, `cfg_number`, `load_variables` | everything |
| evaluator, properties | `evaluator.c`, `property.c` | variables, functions, trees and the results kept in them | `Compile`, `Eval`, `SetResult`, `R2N`, `R2S`, `property_eval` | plugins, widgets |
| layout, widgets | `layout.c`, `widget*.c` | classes, widgets | `layout_init`, `widget_add`, updates | timer groups, named events, drivers |
| text driver | `drv_generic_text.c`, `drv_HD44780.c` | `LayoutFB`, `DisplayFB`, `Segment`, `BarFB` | blit, icons, bars, goto, write, defchar | hardware driver, controllers of the display |
| graphic driver | `drv_generic_graphic.c`, `drv_T6963.c` | layers, buffers of what was sent | draw functions of the widgets, blit, blend | hardware driver |
| TeakLCM | `drv_TeakLCM.c` | connection state, shadow of the display | frames, state machine, start, quit | timer queue, events, the display |
| D-Bus | `plugin_dbus.c`, `plugin_mpris_dbus.c` | registered signals | watches, timeouts, matching | events, timer queue |
| kvv, G15 | `plugin_kvv.c`, `drv_G15.c` | as exec | as exec | `thread.c` |
| other plugins, drivers | `plugin_*.c`, `drv_*.c` | little | read a source, write a device | hash, evaluator |

Behaviour that is hard to get right, and to test:

- **Reentrancy.**  Nothing runs concurrently inside the process, yet every table is walked by
  a loop whose callbacks change that table: timers (`timer.c:376`), groups (`timer_group.c:366`),
  events (`event.c:152`), subscribers (`event.c:296`).
- **Processes.**  Exec threads share memory with the main process under a semaphore; daemons
  race for the pidfile; processes crash anywhere.
- **Time.**  The clock is read several times per turn and may be set; lateness is a float.
- **Caches.**  The text driver sends only what differs from its copy of the display,
  while user-defined characters change under the cells that show them (`drv_generic_text.c:266`);
  graphic layers change their width under what was drawn (`drv_generic_graphic.c:140`); expressions
  keep the results of their last evaluation, in one or two types (`evaluator.c:363`).
- **A partner that restarts.**  The TeakLCM display and the driver reset independently, over a line that
  loses frames (`drv_TeakLCM.c:366-420`).
- **The order of entries.**  The configuration comes from arguments and a file that may repeat, nest, rename and
  misspell entries; widgets are made in the order of a sorted table, not in that of the file.
- **Failure half-way.**  Allocation, fork and shared memory fail after part of the state was
  changed; main has several ways out.

What makes each component correct: a timer that is due is served, and none is lost, doubled
or overslept; an active widget always has a group and a timer; only registered watches of
ready descriptors are called, each event reaches its subscribers once; one daemon runs and
the pidfile names it; a widget shows whole outputs that only get newer; a widget is the one its configuration means; a property has the value
its expression means; the display shows what the layout holds, also after a reset of either side.  `PROJECT.json` lists
the hazards line by line, with the properties that watch them.

## Modules

**`Timer`** (`timer.c`).  `Timers` is the array of slots, `nTimers` the part that is allocated.
`timer_process` is cut at every point where something else can happen: `BeginProcess` reads
the clock, `SkipSlot`, `FireSlot` and `CallbackDone` walk the slots, `SelectNext` computes the
delay from a second reading of the clock.  Between `FireSlot` and `CallbackDone` the callback
calls `timer_add`, `timer_add_late` and `timer_remove` as it likes.  `Tick` and `SetClock` are
gettimeofday.  Time is in ticks; the float division of `timer_inc` is exact up to
`FLOAT_EXACT` and off by one at most beyond, products wrap at `INT_MAX`.  `fired`, `inPass` and
`exact` are history.  With `SelfRemove` a callback may also remove the timer that called it;
the run leaves that out, because the walk then treats whatever timer took the slot as the old
one (`timer.c:380-387`), and no caller in the program does it.

**`TimerGroup`** (`timer_group.c`) composes with `Timer` by `T == INSTANCE Timer`: its actions
contain the queue's (`T!timer_add`, `T!FireSlot`, ...), and the data pointer of a generic timer
is the pair of a name and a group slot, so that the value of the field `interval` and its
address are different pointers, as they are in the code.  `ReAddWidget` is what
`widget_icon_update` and the gpo, image and ttf widgets do.

**`Event`**, **`MCEvent`** (`event.c`, with the callers in `plugin_dbus.c` and `plugin_event.c`).
`events` is the table, `fds` what ppoll answered, `i` and `j` the indices of the walk.  `WalkCall`
starts a callback, which may call everything in the module before `CallbackReturn`.  `stack` holds
the running `named_event_trigger` calls.  `live` and `subscribed` are what the owners asked for:
the tables are compared with them.  `event_del` and `event_modify` know an event by its descriptor alone, and libdbus has a
watch for reading and one for writing on the same socket: the first of them goes or is changed, whichever was meant
(`FirstOf`), and `mistaken` remembers that `event_del` took the other one.  `event_modify`
drops the last event of the table; `modified` remembers that.
`NestedAssumption` excludes widgets that trigger, in a circle, what they wait for.

**`Instances`** (`lcd4linux.c`, `pid.c`).  `pc` says where the process of each pid is; `Link`, `Read`,
`Kill` and `Unlink` are the system calls of the loop in `pid_init`, each an atomic step on the
pidfile.  Processes of all modes start, fail, crash, restart (a daemon gets another pid) and
end; `OtherProgram` takes pids and gives them back.  `intruded` remembers that a process that is no daemon removed the
pidfile, `crowded` that two processes were in `pid_init` at once; `PidfileNamesDaemon` speaks of the runs without either.

**`Exec`** (`plugin_exec.c`, `thread.c`, and what they use of `hash.c`).  A text is two halves that
are written and copied separately.  `RunCommand` to `ThreadUnlock` are the loop of the forked
process, `FirstCall` and `Reread` to `MainUnlock` are `do_exec`.  A semaphore may be missing, refuse its own maker or be removed at any time
(`NoMutex`), and then neither side is held up by it; `mutex_lock` also returns when a signal
interrupts it.  A failed creation sends SIGKILL to all processes of the user, which `killed`
remembers.  After the call that overruns the array of threads, main is "undefined" and
nothing more is claimed.

**`BarSegments`** (`drv_generic_text.c`) has the pure half of the bars, in the order of the calls of
`bar_draw`: `create_bar` (what the cells ask for), `create_segments`, `pack_segments` (which merges
similar segments until the characters suffice) and `define_chars`.  Directions are sets of the
bits of the code; the segments are numbered from 1, and 0 is the -1 of the code.  The table of
errors is computed from the present segments, except for its diagonal: there the code leaves
values of segments that are gone, which `Merge` follows.

**`TextDisplay`**, **`MCTextDisplay`** (`drv_generic_text.c`, with the updates in `widget_text.c`,
`widget_icon.c` and `widget_bar.c`) has the buffers and the widgets.  `TextUpdate`, `IconUpdate` and
`BarUpdate` are whole callbacks of widgets, which do not interrupt one another.  `glyph` and `screen`
stand for the display: a cell keeps the picture it was sent (`INVALIDATE`), or follows the
bitmap of its character.  `Sent` is what the loop of `blit` sends, with the gaps of up to
`GOTO_COST` equal cells it does not skip.  A frame of an icon is its number; the bitmap of an
east bar is the pair of its lengths and its style; that of a west bar is never
filled in by the code and is `Garbage`.  Bars and icons lie on the display, texts may leave
it.  `failed` and `selfMerged` are history.  Below `blit` is one of two drivers, `driver`: that of the
HD44780, or one whose display keeps old pictures.

**`HD44780`** (`drv_HD44780.c`) is the driver that `TextDisplay` extends.  `goto` finds the controller and the address
for a cell and how many columns are left, `drv_HD_write` sends a run of characters from there on, cut to these columns, and
`drv_HD_defchar` defines a character in every controller.  The code keeps the controller and the addresses
of its rows in static variables; here they are what `goto` returns.  `Place` and `OnGlass` are the
data sheet: which address shows at which cell.  Bits, nibbles, the bus and waiting for a busy
controller are left out.  `folded` of `TextDisplay` remembers the cells behind the middle of a row in
two halves that were sent in one write with cells before it.

**`TeakLCM`** (`drv_TeakLCM.c`).  `lcm` is the state machine: a function of the code that works on it
(`fsm_trans_cmd`, `fsm_send`, `fsm_step`, `fsm_handle_cmd`) is an operator that returns the machine it
leaves, and the actions are the callbacks (`initial_connect_to_display_callback`,
`lcm_event_callback`), start, quit, a crash and the writes of the text driver.  `Panel...` is the display
as the code expects it: it answers, restarts, and ends the connection itself (`PanelLeaves`).  `Stray` is any other frame: a
key, an alarm, data of an odd length, or any command that a damaged one arrives as, since command frames have no checksum.  `DropDamaged`
loses what a read that begins or ends within a frame loses.  `AssertionFails` says which frames end the process: a data frame whose checksum
is right and whose length is not, and a key of several bytes.  `lost`, `left` and `misled` are history.

**`Cfg`**, **`Layout`** (`cfg.c`, `plugin_cfg.c`, `layout.c`, `widget.c`, and `widget_text_init`).  `Cfg` has the table, as a
function of keys in which each word stands for all ways to write it, and what reads and fills it: `cfg_add` with
its lock, lines of the file one by one, `cfg_get` and `cfg_number`, which compile and evaluate an entry.
`Layout` is the program while it starts: `cfg_init`, `plugin_init`, `layout_init`, then for each key `layout_entry`,
`widget_add` and `widget_text_init` are its actions, and `program` says which comes next.  What an entry
evaluates to may depend on variables that earlier ones have set.

**`Evaluator`**, **`Meaning`**, **`TextWidget`**, **`MCTextWidget`** (`evaluator.c`, `property.c`, `widget_text.c`).
`Compile` is the recursive descent over tokens, with all the repairs it makes to expressions that are none
(missing operands, braces, arguments).  `EvalTree` evaluates a tree and returns it with the results its nodes
keep.  `Meaning` is the other view: what a tree means, by recursion over it and without anything kept, and how
it is written down.  `TextWidget` extends `Layout`: `layout` is the widget that is meant, `Starts(layout)` the configurations
that say so, and `MainLoop` goes on with one of the text widgets the start has made.  Its properties are compiled once and evaluated at each
update, while functions of plugins change their results and other expressions assign variables; what it draws
and how it scrolls is `Scrolled`, the body of `widget_text_scroll`.  After NULL was dereferenced nothing more
is claimed (`undefined`).  Numbers are whole, and texts are sequences of characters.

**`T6963`**, **`GraphicDisplay`**, **`Canvas`**, **`MCGraphicDisplay`** (`drv_T6963.c`, `drv_generic_graphic.c`, and the
updates in the five widgets that draw).  `GraphicDisplay` has each layer as the one-dimensional array it is in the code,
with rows of `LCOLS` pixels; an update of a widget evaluates (here: chooses) its values, makes the layers
larger, draws, blends and sends.  `T6963` is the blit below it: two buffers of bytes, runs of bytes that differ
(`SentBytes` is the set of the bytes that these loops send of a row), and the memory of a display whose halves lie apart.  `SIZE` bytes of each buffer
are allocated, the blit reaches up to `REACH`; what lies between (`Junk`) belongs to others, is read and overwritten, and `strayed` remembers where.
`Regular` is what the code takes for granted of the sizes, `Placed` what it takes for granted of the layout; both are hypotheses of theorems
and properties, not of the model: sizes need not divide, places may be negative, hollow bars empty (`Frame` of `bar_draw`).  `Canvas` is the abstract specification: planes and a
screen are functions of places, a widget paints a picture, that is, a function from places to pixels that
depends on what it shows only, and the screen is dark where the light that falls through the planes is weak.
`GraphicDisplay` implements it under the mapping of array indices to places and of memory to the screen
(`ImplementsCanvas`).

**`Timer_proof`**, **`TimerGroup_proof`**, **`Event_proof`**, **`Instances_proof`**, **`Exec_proof`**,
**`TeakLCM_proof`**, **`TextDisplay_proof`** and **`GraphicDisplay_proof`** hold the theorems, each about the module it is
named after and those below it.

## Runs

| Run | Question | Bounds, and why they suffice |
|---|---|---|
| `Timer` | Does the queue serve what is due, once, in time? | 2 slots: one fires while the other is added, removed or reused. Intervals 0 and 2 over a clock of 0..3, set once: a timer can be early, late, miss intervals and be moved by skew. 2 calls per callback: remove and add again. |
| `TimerGroup` | Does every widget keep its group and timer? | 2 widgets, 2 intervals, 2 groups, 3 widget slots, 3 timer slots: slots are reused and allocation fails. |
| `TimerGroup_leak` | finding below | the same with 2 widget slots |
| `Event` | Does a disturbed walk call the right watches? | 3 watches: one calls back, one is removed, one moves into the gap; two of them share a socket. 2 descriptors become ready; 4 calls; 3 widgets on 2 names, one of which triggers the other name. |
| `Instances` | Does the pidfile name the daemon, and does `pid_init` end? | 3 pids, 3 launches (a crashed daemon, a new one, an intruder or a reused pid), and restarts; two processes in pid_init at a time: one tries again while the other makes its file, restarts, ends or crashes, and its pid is reused. |
| `Instances_race` | finding below | daemons only |
| `Exec` | Are texts whole and new, and is the last one shown? | 2 commands, 2 thread slots, 2 runs each; one clock change, and one surprise: a signal that ends a wait, a creation that fails, or a semaphore that is missing or removed. With 2 surprises, both semaphores missing included, all properties hold as well (739730 states, some minutes); one keeps the run short. |
| `TextDisplay` | Does the display show the layout, and keep what icons and bars show? | 2 x 4 cells of 3 x 3 pixels (bars lie both ways: `OneResolution`). On the display that keeps old pictures: 3 characters for bars and 1 for icons, so that a hollow east bar of two cells and a north bar ask for up to 5 segments, some of which are reused, merged and freed; of two icons one gets no character, the other is shown twice and has 2 bitmaps; a text leaves the display and enlarges the layout; 3 pairs of lengths for the first bar, 1 for the second. On the HD44780: a controller for each row, of which the first has 3 columns, so that writes are cut, and the second a row in two halves; an icon on both, a bar on the first, and texts that leave the glass and cross the middle. `GotoFindsPlaces` checks `goto` on the sizes that displays have: 8 to 40 columns, 1, 2 and 4 rows, two controllers. |
| `TextDisplay_pack` | finding below | two plain bars with all lengths, 2 characters |
| `TeakLCM` | Does the display show what it should, whatever arrives, and do both come together again? | two texts per row, 2 writes, 2 starts of the program, 1 surprise (a restart, a disconnection, any frame sent unasked, frames lost or damaged). With 2 surprises and 1 write, one to disturb the connection and one to disturb its repair, all holds as well (2744224 states). |
| `TextWidget` | Is the widget the one that was configured, do expressions mean what they say, and is their value shown? | every operator with every other operator in each place of an operand; all sequences of up to 3 tokens, and conditions without an end; a text of one to three characters in a width of 3 in all alignments and with changing prefix and postfix. 2 updates and 1 change in between: what one evaluation leaves is met by the next. The texts are written down in three ways: as one would, carelessly (arguments that the file contradicts, entries and sections repeated in other cases, another layout, a second layer that does not exist, a class that is not for its place), and with the place given twice. `ErrorsAreFound` lists files that are refused. |
| `GraphicDisplay` | Is the screen what was painted? | 8 x 10 pixels in two halves, bytes of 2 pixels, a gap of 1, 2 layers, and a widget of each kind: all overlap another, the text and the image leave the screen and enlarge the layers; the image grows, shrinks and vanishes. Other bytes lie behind the buffers. |

Deadlock is not checked: the program ends (a signal, the last timer), and the bounds on
launches, runs and calls stop the model where the program would go on.

Properties, beside one type invariant per module:

- `Timer`: `OneShotOnce`, `NoStacking`, `NoLostTimer`, `NoOversleep`, `DueIsServed` (liveness);
- `TimerGroup`: `GroupsServeWidgets` (`NoOrphan` and `GroupsMatchWidgets`), `RemovesOneWidget`;
- `Event`: `TablesAgree` (`Registered`, `EachDescriptor` and `NamesAgree`), `CallsAreRight` (`CallsLive` and
  `EverySubscriberOnce`), `ReadyIsServed` (liveness);
- `Instances`: `PidfileNamesDaemon`, `NothingLeftBehind`, `PidInitEnds` (liveness);
- `Exec`: `NoTornText`, `OneThreadPerCommand`, `NeverOlder`, `MainReturns` and `LastOutputShown` (liveness);
- `TextDisplay`: `ScreenShowsLayout`, `CellsShowPictures` (`BarsShowSegments` and `IconsShowBitmap`),
  `SoundEndsAreKept`, `RoomIsUsed`;
- `TeakLCM`: `NeverAborts`, `ShowsShadow`, `QuitLeavesOff`, `Reconnects` (liveness);
- `TextWidget`: `MeansWhatItSays` (the evaluator agrees with `Meaning`), `ShowsValue` (with `IsConfigured`), `EndsAreShown` (liveness);
- `GraphicDisplay`: `ImplementsCanvas` (refinement), `ChangesAreRight`; `TypeOK` contains `OverrunIsShort`.

For each of them `PROJECT.json` names a mutant, an operator `Bug_...` next to the definition it
replaces, with which TLC finds the property violated.

### Fairness

`Timer`: the program's own steps and the passing of time; nothing of callbacks that add timers,
of events, signals or the setting of the clock.  `Event`: the main loop goes on and callbacks
return.  Poll is called again after each walk, so weak fairness of the whole of
`event_process` is enough for a descriptor that stays ready.  `Instances`: `pid_init` and the end of
main do not block.  `Exec`: each process gets to run; `Reread` is strongly fair for each command,
because a widget is updated again and again, though not while another one copies.
`TeakLCM`: the timer of the first connect fires, what arrives is read, and the display reads what it
is sent.  `TextWidget`: the timer of the scroller fires; updates need not come.  The
displays have safety properties only.

## Findings

- `timer_group.c:272` looks up the timer of a removed group by the address of a field instead of
  its value (and reports the failure as success): the timer stays (`TimerGroup_leak`).  That no
  widget is lost through it all the same is `GroupsServeWidgets`.
- `pid.c:131`: two daemons that start over one stale pidfile both run (`Instances_race`).
- `drv_generic_text.c:824`: the row and column of errors that move to `pack_i` leave on the diagonal
  the error between two segments, and a later turn merges a segment with itself, that is,
  replaces it by the last one whatever they look like (`TextDisplay_pack`).

Noticed on the way, and modelled as they are:

- `timer_group.c:366`: a one-shot widget that re-adds itself into a higher slot is called twice by
  the walk that is under way.
- `event.c:188`: `event_modify` drops the last event of the table.
- `event.c:167`: of the two watches that libdbus has on a socket `event_del` takes the first, also if the other one was meant.
- `pid.c:103`: `pid_init` goes on trying as long as there is a file at the link and none at the open.  TLC found that two daemons that are sent
  SIGHUP again and again, each of which makes its file and takes it away, can keep a third in the loop for ever; `PidInitEnds` leaves endless
  restarts out (`RestartsForEver`).
- `thread.c:100`: the semaphore is made with mode 0, so that only root may use it, and no result of `semget`, `semctl` or `semop` is looked at:
  without it the main process copies a text that the thread is writing.  `NoTornText` says so (`NoMutex`).
- `plugin_exec.c:185`, `:196`: a thread that cannot be created is "destroyed" by `kill(-1, SIGKILL)`.
- `drv_generic_text.c:481`: a redefined icon is sent again in one of its places only; on a display
  that keeps old pictures the others stay behind for ever.
- `drv_generic_text.c:810`: after a failed compaction `nSegment` is `CHARS - ICONS`, without the `fSegment`
  of the loop's condition.
- `drv_generic_text.c:660-680`, `:722`: a cell is cut to the resolution of its own direction, but compared with segments
  at theirs, so that with `XRES` other than `YRES` and bars of both directions a cell of a vertical bar can be given a segment of a
  horizontal one whose lengths are only the same number of pixels.  It then shows a part of a block in the other direction, and a
  merge can lose a full end.  `SoundEndsAreKept` therefore says `OneResolution`; without it TLC refutes the property (`XRES` 3,
  `YRES` 2, 2 characters for bars, two east bars and a north bar of two cells each) within 40 states.
- `drv_generic_text.c:858`: the bitmap of a west bar is not filled in.
- `drv_HD44780.c:904`, `:930`: on a 16x1 display, which is organized in two halves, only a write that begins in the second half
  goes to the addresses of that half.  One that runs over the middle goes on to addresses that are not on the glass,
  so that the second half keeps its old text; `folded` marks these cells in `ScreenShowsLayout`.
- `drv_HD44780.c:891`: the loop reduces the row and compares it with the accumulated rows of the controllers, so that with
  three or more of them rows of the third are taken for rows of the second.  `currController` follows it;
  `RealSizes` has two controllers at most.
- `drv_generic_text.c:790`: segments in use are spared by the first pass even if only the bar that is
  being drawn used them, so that a cell may stay approximate although characters are free
  afterwards; `RoomIsUsed` counts them as in use, each for itself, also where two are alike.
- `drv_generic_text.c:660`: with two resolutions, segments that differ for a horizontal bar can suit the same cell of a vertical one
  (`XRES` 3, `YRES` 2: a half block of 2 or of 3 pixels).  A merge moves the last segment before others (`:821`), and the cell then
  goes over from its own bitmap to that of another direction although it asks for nothing new.
  TLC shows it with two east bars, a north bar and 3 characters, in 4 draws; the part of `RoomIsUsed` that says characters are kept therefore says
  `OneResolution`.  The proof came upon it, and upon cells where bars of two directions overlap, which an earlier `RoomIsUsed`
  took for unchanged because only their lengths are.
- `widget_icon.c:107` accepts a frame behind the last bitmap, and shows what lies there.
- `cfg.c:618`: a closing brace takes what is behind the last dot of the section, so that a section with a dot in its name
  is still half open behind its brace, and the file is refused as unbalanced at its end.
- `cfg.c:208`: an entry that is overwritten keeps its lock and the spelling of its key.
- `plugin.c:285`: variables are evaluated before any function is registered, and in the order of their names
  (`plugin_cfg.c:61`): a call in the section Variables is empty, and so is a variable that comes later in the alphabet.
- `widget.c:249`: parents are found by `strcmp`, while their sections ignore case.
- `evaluator.c:1397`: an expression that begins with `''` counts as empty, and one that stops at a second `''` or at
  characters that are no token ends there without an error.
- `evaluator.c:1362`: a list, assignment or condition whose last operand has both types ("unhandled type <3>") becomes
  the empty text; it is why `Eval` never leaves both types in a result that is passed on.
- `evaluator.c:1302`, `widget_text.c:239`: a function that returns nothing, or one variable too many (867), is a NULL
  that is dereferenced.
- `widget_text.c:293`: the condition is always true, so that a marquee also moves on when its text changes, which the
  comment above it denies.
- `drv_T6963.c:326`, `:343`: the blit compares the byte behind a row, and copies one byte too many when a run meets the end;
  in the last row these lie one or two bytes behind the `TCOLS * DROWS` that are allocated (`:405`, `:411`), where Buffer2 is written
  to.  `OverrunIsShort` says that it is never more, if rows are whole bytes; the screen is right all the same, as
  `ImplementsCanvas` shows: what is sent too much was sent before, or lies outside.  Both take it that nobody else changes these bytes.
- `drv_T6963.c:395`: nothing asks `Cell` to divide the width.  With its default 6 and the size 128x64 a row has 21 bytes and a third, and
  the last row is drawn 22 bytes behind the buffer.
- `drv_generic_graphic.c:551`, `:581`: the frame of a hollow bar of length 0 is painted at its place and in front of it, and not sent.
- `layout.c:147`, `:161`: `Row0` and `Col0` are passed on as -1, and what such widgets draw lies in front of its row, or of the array.
- `widget_image.c:207`: an image with a `scale` that is kept between updates is scaled again at each of them.
- `drv_generic_graphic.c:637`: a centred image as wide as the layers is drawn in column 1, which makes the layers wider, so that
  the next update draws it elsewhere and leaves its first column behind.  `Covers` of `Canvas` asks for wiping in
  one place only, and for images, not for Truetype texts, whose area may shrink.
- `widget_image.c:251`: an image wider than the display whose `center` becomes true shrinks to the width of the display; what lies
  right of it is not wiped, on the layers, where nobody sees it.  The proof of the refinement came upon it, and `Covers` allows it.
- `drv_T6963.c:525`: a quiet start clears the display but does not blit, so that a dark base colour is not shown until
  something is drawn; `Canvas` allows that.
- `drv_TeakLCM.c:350`: the rest of a read behind a data frame is handled with a length that is one byte too long.
- `drv_TeakLCM.c:344`, `:432`: assertions about what arrives; a damaged data frame (FF 00 00 FF has a right checksum), or one with a longer
  key, ends the program.  The length is read low byte first here (343), and sent high byte first.
- `drv_TeakLCM.c:406`: the driver acknowledges a DISCONNECT of the display and stays connected: what it writes is lost until the
  display is reset, and a quit leaves it on.
- `drv_TeakLCM.c:387`: a CONFIRM makes a driver that waits for an ACK connected, before the display is: what it then prints is not obeyed.

Where a passing property excludes a state the code does reach, a history variable marks that state, so that the exclusion is as
narrow as it can be stated:

- `GroupsServeWidgets`: a failed allocation;
- `TablesAgree` and `ReadyIsServed`: a toggled watch (`modified`); these and `CallsLive`: one of two watches of a descriptor that was taken for
  the other (`mistaken`);
- `PidfileNamesDaemon`: a foreground process that removed the pidfile (`intruded`), two processes in `pid_init` at once (`crowded`);
- `NoTornText`: an interrupted wait, and a thread whose semaphore does not work; `MainReturns` and `LastOutputShown`: a killed thread;
- `ShowsShadow` and `QuitLeavesOff`: a CONFIRM that ended a handshake (`misled`); `QuitLeavesOff`: a display that has ended the connection itself
  and was not reset since (`left`); `Reconnects`: both of these, and a lost frame (`lost`);
- `ScreenShowsLayout`: a write over the middle of a row in halves; the properties of `TextDisplay`: a segment merged
  with itself, a failed compaction;
- `NoStacking`: a timer whose lateness left the exact range.

`ImplementsCanvas` is checked and proved where the sizes are `Regular` and the layout is `Placed`.
`ChangesAreRight` is checked there too, and proved for layouts that are not `Placed` as well.

## Proofs

From the constants' assumptions alone (any number of slots, keys, pids, launches):

- `Timer_proof!TypeCorrect`, `OneShotTriggersOnce`, `WalkCatchesUp`.  The inductive invariant `IInv`
  adds `CallbackSlotDue` to the three properties: during a callback, the slot at the index of the walk
  was due when the walk began, or was added in this pass.  Without it `CallbackDone` could leave behind the index
  a slot it knows nothing of.  The step that matters is `Respawn`: in the exact range
  `timer_inc` gives the first multiple of the interval after the time the walk began.
- `Timer_proof!NoTimerIsLost` assumes `~SelfRemove` and rests on a second invariant, that the slot
  whose callback runs stays that timer's.
- `Timer_proof!NeverOversleeps`: the delay of `SelectNext` ends when the first timer is due or before, and is bounded by the
  interval of one of them, whatever the clock did between its two readings.
- `TimerGroup_proof!TypeCorrect`, `GroupsAndWidgetsAgree` and `OneWidgetAtATime`.  The queue of timers is taken over
  from `Timer` by INSTANCE, with the theorems of its types.  `GInv` splits the agreement into its directions (a group has a timer, a widget a group, a group a
  widget, an interval one group) and adds where the walk is: `timer_process_group` runs exactly while the queue is in a
  callback, and the widget it has called is still active and of its group (`WalkInGroup`).  All timers
  of the queue are repeating ones (`OfGroups`), so the queue itself never takes one from a group.
- `Event_proof!TypeCorrect`, `BothTablesAgree` and `WhatIsCalledIsRight`
  (`OnlyTheLiveAreCalled` and `EverySubscriberIsCalledOnce`), for watches that have descriptors of their own or share them.  `TInv` says what callbacks leave alone while they change the table under
  the walk: the place in ppoll's answer that an event was given is one of its own descriptor (`WalkFits`), each descriptor
  has as many events as watches (`EachDescriptor`: what `event_del` takes has the descriptor it was asked for, `FirstIs`), no event is one of nobody
  while none was mistaken (`OfLive`), and until `event_modify` drops one the table is complete (`Complete`).  `NInv` says of each
  `named_event_trigger` that runs that it has called what lies before its index, each once (`CalledSoFar`, `NoDoubles`).
- `Instances_proof!TypeCorrect`, and `PidfileNamesTheDaemon`, for any number of processes in `pid_init`.  Its invariant,
  stated of the runs that are neither `intruded` nor `crowded`, says what `pid_init` relies on: between `Read` and `Kill` the file still holds the pid read, or is
  gone (`FileAsSeen`), and nobody is a daemon when the file is taken for stale
  (`NoDaemonAtUnlink`).  Both fail with two processes in `pid_init`, which is the finding above.
- `Instances_proof!NothingIsLeftBehind` needs no bound on who is in `pid_init`: a pidfile that names no daemon
  carries the mark of a crash, and a temporary file belongs to a process in `pid_init` or to one that was killed there.
- `Exec_proof!TypeCorrect`, `NoTextIsTorn`, `CommandsHaveOneThread` and `OutputsOnlyGetNewer`, for any commands,
  slots and runs, whichever semaphores are missing or get lost.  `Balance` says of each semaphore that works that it, the process that writes and the main process that copies
  count 1 together, and 1 more for each wait a signal ended: without signals one at most is inside, and `Untorn` follows
  what the halves then hold.  `Known` relates the hash to the slots, `Ordered` the shown output to the runs of
  the first thread of its command; both hold whatever fails.
- `TeakLCM_proof!TypeCorrect`, `TheDriverNeverAborts` and `TheDisplayShowsTheShadow`, for any texts and bounds.
  The first two come together: between two callbacks the machine is at rest, that is, has no action and no next state,
  or the NACK of a damaged frame with the present state as the next (`AtRest`), and each caller of `fsm_step` fills in both.
  For the third, `Follows` says of each thing the display should show (its light, each row of the shadow) that it is
  shown, or on its way in a frame behind the one that confirms the connection, with nothing after it that would
  undo it: the frames that are still under way are part of the invariant.
- `TeakLCM_proof!QuitLeavesTheDisplayOff`.  `Darkens` says that a display that is in no connection is off, and that it will be
  when it comes to read the end of a connection, or the end of the line of a driver that was quit: either
  nothing before switches it on, or something before switches it off for good (`Dark`), which it
  does only to a display that is not half-way through a connect (`Linked`).  It speaks of `Screen`, the display that counts as
  off once it has left by itself, and obeys what it reads as the display does (`ScreenObeys`).
- What `TheDriverNeverAborts` does not say: that the process goes on.  The assertions about lengths are steps to a driver that is down.
- `TextDisplay_proof!TypeCorrect` and `CellsShowTheirPictures`, for any display, number of characters, fixed segments, texts, icons
  and bars.  The invariant `Inv` says who owns which character, for buffers, segments and icons that are changed by three
  kinds of widgets: a character of the display that stands in the layout is in the share of the bars and the cell is one of a bar
  (`BarsOwn`, `BarsDrawn`), or it is in the share of the icons and the cell is the icon's that has it (`IconsOwn`, `IconsDrawn`);
  no two segments that need a character have the same (`Segments`), and the font holds the bitmap of each (`Bitmaps`,
  `IconBitmaps`) in every controller (`Fonts`).  `CellsShowPictures` alone is not inductive: what the next `pack_segments` and
  `define_chars` leave of a cell depends on segments that no cell shows at the moment.
- `TextDisplay_proof!BarsKeepTheirEnds` rests on `Inv` and follows `pack_segments` turn by turn: `segment_error` lets a segment
  replace another only if it has the same empty and full ends (`ReplaceableKeepsEnds`), and what has been replaced twice still
  has the ends it began with (`SameEndsChain`, for which `OneResolution` is needed).
- `TextDisplay_proof!RoomIsWellUsed` needs two more invariants.  `Uses`: the fixed segments stay what they were made, and the segment of a
  cell of a bar is one of them or marked as used, so that the first pass of the next draw keeps it.  `Firsts`: under
  `OneResolution` only fixed segments can suit the same cell (`AllApart`), and a cell that a fixed one suits has the first of them, which
  is also the one the next draw finds.  Each segment that a draw makes is the first for a request which no kept segment suits, and different
  segments are made for different requests (`FewAreMade`): where these find room, there are no more segments than characters,
  `pack_segments` changes nothing (`PackedApart`), and the cells have what they were given (`FilledIs`, `KeptApart`).
- `TextDisplay_proof!ScreenIsRight` adds `OnScreen`: what the display holds at the place of each cell is what `blit` would send there
  now.  On the HD44780 it assumes `RealDisplay`: one or two controllers (see `:891` above) of the sizes that displays have, so that
  the rows of one do not meet in its memory.  Then `goto` finds the controller and the address of each cell, a write reaches
  from there exactly the cells of its row that are on the glass (`WriteReaches`, by cases of rows, halves and
  wide controllers), and no two cells share a place.  The instance of the run satisfies it.
- `TextDisplay_proof!PackedAre` and the lemmas before it: the loops of the bars are recursive functions; what each turn leaves is shown by induction over the set of numbers for
  which it holds (`Induction`, from the well-foundedness of inclusion on finite sets), and so is that
  `pack_segments` leaves segments that fit, or has failed (`PackedAre`).
- `GraphicDisplay_proof!TypeCorrect`, for any sizes, any layout and contents, also careless ones.  `SInv` says that the layers
  have the pixels of their rows and columns, that bitmaps have the size of their images, and, where sizes are `Regular`, that buffers and memory
  have theirs and nothing but two bytes behind the buffers was touched.
- `GraphicDisplay_proof!GraphicImplementsCanvas`, for any display of `Regular` sizes, one half or two, any
  font, bitmaps and contents, and layouts that are `Placed`, under `NoneIsNoFunction`: what stands for no content is no record.  The inductive invariant
  `IInv` says that layers have `LROWS * LCOLS` pixels each (`IsLayers`), that buffers and memory have their sizes and the display has
  what `Buffer1` holds (`IsHw`, `Synced`), and that the bitmap of an image covers all that was drawn of it (`Images`,
  `Covered`); `TypeOK` alone does not tell that bytes which are not sent need not be.  Initial states map to initial
  states, and each update maps to `Draw` of that widget, `drv_T6_quit` to `Leave`.  The argument goes down
  the layers of the driver: the loop over a text, a bar and an image yields the picture that `Canvas` paints
  (`RenderDraws`, `IconDraws`, `BarDraws`, `ImageDraws`), larger layers keep each pixel at its place
  although its index changes (`ResizeIs`), a pixel goes to its place and no other (`PutIs`), the blend that begins at the first opaque layer is that
  of all (`BlackIs`), and the blit shows what is black in its window and leaves the rest (theorem `BlitIsLit`).  For the last, a byte
  that is sent too much is one this row has not drawn: it is what was sent before, and goes where it is already or, at the end of
  the upper half, behind the memory that is shown (`RowIsSent`).  What widgets make of a file, scaled and centred, has a bitmap that fits it in every case
  (`FittedIs`, `ImageRenders`, `TextImageRenders`).
- `GraphicDisplay_proof!WhatChangesIsRight`, for `Regular` sizes and any layout, also those the refinement leaves out: places in
  front of the layers and hollow bars of length 0.  Whatever a draw function puts where, it ends with a blit of the part of its area
  that lies on the screen, and what that blit changes is black of the layers (`Tells`); an image that is wiped and drawn blits twice
  (`Told` carries it over both).  At the end the layers are cleared and hold the goodbye (`QuitTells`).

`TextDisplayAssumption` says of layouts what these proofs use: texts may overlap texts and bars other bars, but not each other, an icon has its
cell to itself, and bars and icons do not leave the display (`widget.c:279` warns of what overlaps).  TLC found `Inv`, `OnScreen`, `Uses` and `Firsts` invariant on the
instance of the run before they were proved.

Only model-checked:

- all liveness, which is out of the prover's reach;
- what the evaluator computes (`MeansWhatItSays`): `Evaluator` and `Meaning` recur over trees, and that they agree is an induction
  over data; and with it `TypeOK` and `ShowsValue` of `TextWidget`, which stands on the evaluator.

## Not modelled

Of the hardware drivers only `drv_T6963.c`, `drv_HD44780.c` and `drv_TeakLCM.c` are modelled, as far as they decide what is
sent where; of the HD44780 the bus (4 and 8 bits, I2C, USB, serial to parallel), the busy flag,
the keypad, GPIOs, contrast and brightness are left out.
Of the configuration the quoting and comments of lines are left out, of widgets their colours and the
warnings about overlaps.  Drivers that only write bytes to a device, plugins that only parse a file or a socket, logging and
formatting: they have no state of their own that outlives a call.  libdbus, the kernel and
helper programs are the environment, modelled from how the program calls them.  `PROJECT.json`
says for every component what is left out.

## Plan

Done: `Timer`, `TimerGroup`, `Event`, `Instances`, `Exec`; `BarSegments` and `TextDisplay`, with
`HD44780` below it; `TeakLCM`; `Evaluator`,
`Cfg`, `Layout` and `TextWidget`; `GraphicDisplay`, which implements `Canvas`; the proofs about `Timer`, `TimerGroup`, `Event`, `Instances`,
`Exec`, `TeakLCM`, `TextDisplay` and `GraphicDisplay`.

Left, in this order:

1. Proofs: the types of `TextWidget` and `ShowsValue`, for which the recursion of `Evaluator` has to
   become recursive functions.
2. Abstract specifications: a queue of (trigger time, callback) pairs that `Timer` implements; a
   register that `Exec` implements; a set of watches that `Event` implements; a canvas of cells that `TextDisplay`
   implements outside of its findings.
3. `Hash`: sorted lookup against a set, the ring of deltas against a history.
4. The lock files of serial ports (`drv_generic_serial.c`), next to `Instances`.
