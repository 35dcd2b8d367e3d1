------------------------------ MODULE PowerKey ------------------------------
(* liuqin-power-keyd: it watches the power key of the tablet, tells a short  *)
(* press from a long one and runs a helper for each.  The daemon is a poll   *)
(* loop round a small state machine (struct power_fsm); the helper runs for  *)
(* up to five seconds, and while it does the key goes on filling the event   *)
(* buffer of the kernel.  Time is counted in ticks.  The key, the kernel's   *)
(* input layer, the clock, signals and systemd are the environment.          *)
EXTENDS Naturals, Sequences

CONSTANTS
  LONG_PRESS,       \* LONG_PRESS_MS
  SHORT_PRESS_MIN,  \* SHORT_PRESS_MIN_MS
  RECONNECT,        \* RECONNECT_MS
  ACTION_TIMEOUT,   \* ACTION_TIMEOUT_MS
  STALE,            \* the age at which a time stamp is no longer believed
  RESTART,          \* RestartSec of the unit
  Lag,              \* the longest the daemon is behind, by the scheduler
  BufSize,          \* events the kernel keeps for one reader
  MaxTime,          \* bound of the clock
  MaxPresses,       \* bound on the presses of a behaviour
  MaxFaults         \* bound on unplugging and on deaths of the daemon

ASSUME TickAssumption ==
  /\ LONG_PRESS \in Nat /\ SHORT_PRESS_MIN \in Nat /\ RECONNECT \in Nat /\ ACTION_TIMEOUT \in Nat
  /\ STALE \in Nat /\ RESTART \in Nat /\ Lag \in Nat /\ MaxTime \in Nat /\ MaxFaults \in Nat
  /\ BufSize \in Nat \ {0} /\ MaxPresses \in Nat \ {0}
  /\ SHORT_PRESS_MIN < LONG_PRESS /\ RECONNECT <= ACTION_TIMEOUT /\ RESTART <= ACTION_TIMEOUT

VARIABLES
  now,      \* CLOCK_MONOTONIC
  late,     \* how long the daemon has been behind: runnable, and not run to its next pause
  key,      \* the key is down
  node,     \* /dev/input has the power key
  buf,      \* the unread events of the open descriptor
  fd,       \* the descriptor: "closed", "open", or "gone" once the device left
  fsm,      \* struct power_fsm, and the press it follows
  pc,       \* where run_daemon is
  wake,     \* when poll, a pause or the helper's time runs out, while there is one
  todo,     \* what fsm_handle has left to do when the helper ends, and where it returns
  stopping, \* SIGTERM has arrived
  faults,   \* faults so far
  presses,  \* history: how many times the key went down
  press,    \* history: when each press began and ended, and whether the daemon could follow it
  did,      \* history: the actions run for each press
  blind,    \* history: events were dropped and no release has arrived since
  stopAt    \* history: when SIGTERM arrived

input  == <<key, node, presses, blind>>
daemon == <<fd, fsm, pc, wake, todo>>
vars   == <<now, late, key, node, buf, fd, fsm, pc, wake, todo, stopping, faults,
            presses, press, did, blind, stopAt>>

Time  == 0 .. MaxTime
Press == 1 .. MaxPresses
Held  == MaxTime + 1    \* the end of a press that has not ended

Event == [ev : {"press", "release", "dropped"}, at : Time, id : 0 .. MaxPresses]
Task  == [ev : {"none", "press", "release", "dropped", "disconnect"}, at : Time,
          id : 0 .. MaxPresses, back : {"loop", "read"}]
Fsm   == [pressed : BOOLEAN, long_fired : BOOLEAN, ignore : BOOLEAN, at : Time, id : 0 .. MaxPresses]

Nothing(back) == [ev |-> "none", at |-> 0, id |-> 0, back |-> back]

\* fsm_reset
Reset(ignore) == [pressed |-> FALSE, long_fired |-> FALSE, ignore |-> ignore, at |-> 0, id |-> 0]

-----------------------------------------------------------------------------
(* The state machine.                                                        *)

\* fsm_advance: the key has been held long enough at time t.
Fires(t) == /\ fsm.pressed /\ ~fsm.long_fired /\ ~fsm.ignore
            /\ t >= fsm.at + LONG_PRESS

\* A slip: events that were dropped are not noticed.
AfterEventOrDrop(f, e) ==
  CASE e.ev = "press"      -> IF f.ignore \/ f.pressed THEN f
                              ELSE [pressed |-> TRUE, long_fired |-> FALSE, ignore |-> FALSE, at |-> e.at, id |-> e.id]
    [] e.ev = "release"    -> IF f.ignore \/ f.pressed THEN Reset(FALSE) ELSE f
    [] e.ev = "dropped"    -> f
    [] e.ev = "disconnect" -> Reset(FALSE)

\* fsm_handle: the state an event leaves.
AfterEvent(f, e) ==
  CASE e.ev = "press"      -> IF f.ignore \/ f.pressed THEN f
                              ELSE [pressed |-> TRUE, long_fired |-> FALSE, ignore |-> FALSE, at |-> e.at, id |-> e.id]
    [] e.ev = "release"    -> IF f.ignore \/ f.pressed THEN Reset(FALSE) ELSE f
    [] e.ev = "dropped"    -> Reset(TRUE)
    [] e.ev = "disconnect" -> Reset(FALSE)

\* fsm_handle: the event ends a short press.
EndsShort(f, e) == /\ e.ev = "release"
                   /\ f.pressed /\ ~f.ignore /\ ~f.long_fired
                   /\ e.at >= f.at + SHORT_PRESS_MIN

\* run_action: fork the helper.  The daemon does nothing else until it ends.
RunAction(action, task) ==
  /\ did' = [did EXCEPT ![fsm.id] = Append(@, action)]
  /\ pc' = "run" /\ wake' = now + ACTION_TIMEOUT
  /\ todo' = task

\* The rest of fsm_handle, once the time of the event has been accounted for.
Finish(task) ==
  /\ fsm' = IF task.ev = "none" THEN fsm ELSE AfterEvent(fsm, task)
  /\ \/ /\ EndsShort(fsm, task)
        /\ RunAction("short", Nothing(task.back))
     \/ /\ ~EndsShort(fsm, task)
        /\ pc' = task.back /\ wake' = 0 /\ todo' = Nothing("loop")
        /\ UNCHANGED did

\* A slip: the long press is not marked when its helper is started.
HandleUnmarked(task) ==
  \/ /\ Fires(task.at)
     /\ RunAction("long", task)
     /\ UNCHANGED fsm
  \/ /\ ~Fires(task.at)
     /\ Finish(task)

\* The press that is followed is a long one.
Marked == [pressed |-> fsm.pressed, long_fired |-> TRUE, ignore |-> fsm.ignore, at |-> fsm.at, id |-> fsm.id]

\* fsm_advance, and then the rest: a long press is marked before its helper runs.
Handle(task) ==
  \/ /\ Fires(task.at)
     /\ fsm' = Marked
     /\ RunAction("long", task)
  \/ /\ ~Fires(task.at)
     /\ Finish(task)

\* input_event_ms: a time stamp that is too old is replaced by the present.
EventTime(e) == IF e.at + STALE < now THEN now ELSE e.at

-----------------------------------------------------------------------------
(* The loop of run_daemon.                                                   *)

\* A slip: the helper is not told of SIGTERM.
OverdueInTime == now >= wake

\* What the daemon waits for has happened.
PollReady == fd = "gone" \/ buf # <<>> \/ now >= wake
Overdue == now >= wake \/ stopping
Runnable == CASE pc = "wait"  -> PollReady
              [] pc = "sleep" -> now >= wake
              [] pc = "run"   -> Overdue
              [] OTHER        -> pc \notin {"stopped", "dead"}

\* The daemon has caught up when it blocks and nothing it waits for has happened.
CatchesUp == late' = IF Runnable' THEN late ELSE 0

\* A descriptor that is not open yet gets the state of the key; a key that is
\* down is ignored until it is released.
Open ==
  /\ pc = "loop" /\ ~stopping /\ fd = "closed" /\ node
  /\ fd' = "open" /\ fsm' = Reset(key) /\ pc' = "poll"
  /\ UNCHANGED <<wake, todo, did, buf>>

NoDevice ==
  /\ pc = "loop" /\ ~stopping /\ fd = "closed" /\ ~node
  /\ pc' = "sleep" /\ wake' = now + RECONNECT
  /\ UNCHANGED <<fd, fsm, todo, did, buf>>

Again ==
  /\ pc = "loop" /\ ~stopping /\ fd # "closed"
  /\ pc' = "poll"
  /\ UNCHANGED <<fd, fsm, wake, todo, did, buf>>

Slept ==
  /\ pc = "sleep" /\ now >= wake
  /\ pc' = "loop" /\ wake' = 0
  /\ UNCHANGED <<fd, fsm, todo, did, buf>>

\* Slips: the end of the press for the time that is left, and no thought of it.
PollUntilEnd == IF ~fsm.pressed \/ fsm.long_fired \/ fsm.ignore THEN RECONNECT ELSE fsm.at + LONG_PRESS
PollRegularly == RECONNECT

\* poll_timeout_ms: until the press becomes a long one, at most RECONNECT.
PollTimeout ==
  IF ~fsm.pressed \/ fsm.long_fired \/ fsm.ignore THEN RECONNECT
  ELSE LET end == fsm.at + LONG_PRESS
       IN  IF end <= now THEN 0
           ELSE IF end - now > RECONNECT THEN RECONNECT ELSE end - now

Poll ==
  /\ pc = "poll"
  /\ pc' = "wait" /\ wake' = now + PollTimeout
  /\ UNCHANGED <<fd, fsm, todo, did, buf>>

\* poll returns; the daemon acts on it, and reads the clock, some time later.
\* It looks at a lost device before it looks at unread events.
PollReturns ==
  /\ pc = "wait" /\ PollReady
  /\ pc' = IF fd = "gone" THEN "hup" ELSE IF buf # <<>> THEN "read" ELSE "timeout"
  /\ wake' = 0
  /\ UNCHANGED <<fd, fsm, todo, did, buf>>

TimedOut ==
  /\ pc = "timeout"
  /\ Handle([ev |-> "none", at |-> now, id |-> 0, back |-> "loop"])
  /\ UNCHANGED <<fd, buf>>

\* The device has gone: by POLLHUP, or by an error of read, whose handler uses
\* the clock as it was read last.
Disconnected ==
  /\ \/ pc = "hup"
     \/ pc = "read" /\ fd = "gone"
  /\ fd' = "closed" /\ buf' = <<>>
  /\ \E t \in 0 .. now :
        /\ IF pc = "hup" THEN t = now ELSE now <= t + late
        /\ Handle([ev |-> "disconnect", at |-> t, id |-> 0, back |-> "loop"])

Drained ==
  /\ pc = "read" /\ fd = "open" /\ buf = <<>>
  /\ pc' = "loop"
  /\ UNCHANGED <<fd, fsm, wake, todo, did, buf>>

Read ==
  /\ pc = "read" /\ fd = "open" /\ buf # <<>>
  /\ buf' = Tail(buf)
  /\ \/ /\ stopping
        /\ pc' = "loop"
        /\ UNCHANGED <<fsm, wake, todo, did>>
     \/ /\ ~stopping
        /\ LET e == Head(buf)
           IN  Handle([ev |-> e.ev, at |-> EventTime(e), id |-> e.id, back |-> "read"])
  /\ UNCHANGED fd

\* The helper ends by itself, or is killed when its time is up or the daemon
\* is to stop.
RunEnds ==
  /\ pc = "run"
  /\ Finish(todo)
  /\ UNCHANGED <<fd, buf>>

Stopped ==
  /\ pc = "loop" /\ stopping
  /\ pc' = "stopped" /\ fd' = "closed" /\ buf' = <<>> /\ fsm' = Reset(FALSE)
  /\ UNCHANGED <<wake, todo, did>>

Daemon ==
  /\ \/ Open \/ NoDevice \/ Again \/ Slept \/ Poll \/ PollReturns \/ TimedOut
     \/ Disconnected \/ Drained \/ Read \/ RunEnds \/ Stopped
  /\ UNCHANGED <<now, input, stopping, faults, press, stopAt>>
  /\ CatchesUp

-----------------------------------------------------------------------------
(* The environment.                                                          *)

\* The presses the daemon may fail to answer because of what just happened.
Losing(pr) ==
  [p \in Press |-> IF did[p] = <<>> THEN [down |-> pr[p].down, up |-> pr[p].up, clear |-> FALSE] ELSE pr[p]]

\* The kernel appends an event to the buffer of the reader, if there is one.
\* Into a full buffer it puts SYN_DROPPED, and the event unless the report that
\* follows the event was the one that did not fit.
Push(e, pr) ==
  \/ /\ fd # "open"
     /\ press' = pr
     /\ UNCHANGED <<buf, blind>>
  \/ /\ fd = "open" /\ Len(buf) < BufSize
     /\ buf' = Append(buf, e) /\ press' = pr
     /\ blind' = (blind /\ e.ev # "release")
  \/ /\ fd = "open" /\ Len(buf) = BufSize
     /\ LET d == [ev |-> "dropped", at |-> now, id |-> 0]
        IN  \/ buf' = <<d, e>> /\ blind' = (e.ev # "release")
            \/ buf' = <<d>> /\ blind' = TRUE
     /\ press' = Losing(pr)

KeyDown ==
  /\ ~key /\ presses < MaxPresses
  /\ key' = TRUE /\ presses' = presses + 1
  /\ Push([ev |-> "press", at |-> now, id |-> presses'],
          [press EXCEPT ![presses'] = [down |-> now, up |-> Held, clear |-> (fd = "open" /\ ~blind)]])
  /\ UNCHANGED <<now, late, node, daemon, stopping, faults, did, stopAt>>

KeyUp ==
  /\ key
  /\ key' = FALSE
  /\ Push([ev |-> "release", at |-> now, id |-> presses], [press EXCEPT ![presses].up = now])
  /\ UNCHANGED <<now, late, node, presses, daemon, stopping, faults, did, stopAt>>

\* The device goes away; the kernel has released its keys first, and what the
\* reader has not read is lost.
Unplug ==
  /\ node /\ ~key /\ faults < MaxFaults
  /\ node' = FALSE /\ faults' = faults + 1
  /\ fd' = IF fd = "open" THEN "gone" ELSE fd
  /\ buf' = <<>> /\ press' = Losing(press) /\ blind' = FALSE
  /\ UNCHANGED <<now, late, key, presses, fsm, pc, wake, todo, stopping, did, stopAt>>

Plug ==
  /\ ~node
  /\ node' = TRUE
  /\ UNCHANGED <<now, late, key, presses, blind, buf, daemon, stopping, faults, press, did, stopAt>>

\* A signal interrupts poll and the pause, but is only noticed at the next
\* check when it arrives just before them.
Signal ==
  /\ ~stopping /\ pc \notin {"stopped", "dead"}
  /\ stopping' = TRUE /\ stopAt' = now
  /\ \/ pc \in {"wait", "sleep"} /\ pc' = "loop" /\ wake' = 0
     \/ pc \notin {"wait", "sleep"} /\ UNCHANGED <<pc, wake>>
  /\ press' = Losing(press)
  /\ UNCHANGED <<now, late, input, buf, fd, fsm, todo, faults, did>>

\* The daemon dies, with the helper; systemd starts it again.
Die ==
  /\ pc \notin {"stopped", "dead"} /\ ~stopping /\ faults < MaxFaults
  /\ faults' = faults + 1
  /\ pc' = "dead" /\ wake' = now + RESTART /\ late' = 0
  /\ fd' = "closed" /\ buf' = <<>> /\ fsm' = Reset(FALSE) /\ todo' = Nothing("loop")
  /\ press' = Losing(press) /\ blind' = FALSE
  /\ UNCHANGED <<now, key, node, presses, stopping, did, stopAt>>

Restart ==
  /\ pc = "dead" /\ now >= wake
  /\ pc' = "loop" /\ wake' = 0
  /\ UNCHANGED <<now, late, input, buf, fd, fsm, todo, stopping, faults, press, did, stopAt>>

\* Time passes, but the daemon is not kept waiting longer than Lag.
Tick ==
  /\ now < MaxTime
  /\ Runnable => late < Lag
  /\ now' = now + 1
  /\ late' = IF Runnable THEN late + 1 ELSE late
  /\ UNCHANGED <<input, buf, daemon, stopping, faults, press, did, stopAt>>

Init ==
  /\ now = 0 /\ late = 0
  /\ key = FALSE /\ node \in BOOLEAN
  /\ buf = <<>> /\ fd = "closed" /\ fsm = Reset(FALSE)
  /\ pc = "loop" /\ wake = 0 /\ todo = Nothing("loop")
  /\ stopping = FALSE /\ faults = 0
  /\ presses = 0 /\ press = [p \in Press |-> [down |-> 0, up |-> Held, clear |-> FALSE]]
  /\ did = [p \in Press |-> <<>>] /\ blind = FALSE /\ stopAt = Held

Next == Daemon \/ KeyDown \/ KeyUp \/ Unplug \/ Plug \/ Signal \/ Die \/ Restart \/ Tick

Spec == Init /\ [][Next]_vars

-----------------------------------------------------------------------------
(* Properties.                                                               *)

\* The variables keep their types.
TypeOK ==
  /\ now \in Time /\ late \in 0 .. Lag /\ key \in BOOLEAN /\ node \in BOOLEAN
  /\ buf \in Seq(Event) /\ Len(buf) <= BufSize + 1
  /\ fd \in {"closed", "open", "gone"} /\ fsm \in Fsm
  /\ pc \in {"loop", "sleep", "poll", "wait", "timeout", "hup", "read", "run", "stopped", "dead"}
  /\ wake \in 0 .. (MaxTime + ACTION_TIMEOUT) /\ todo \in Task /\ stopping \in BOOLEAN /\ faults \in 0 .. MaxFaults
  /\ presses \in 0 .. MaxPresses
  /\ press \in [Press -> [down : Time, up : 0 .. Held, clear : BOOLEAN]]
  /\ did \in [Press -> Seq({"short", "long"})] /\ blind \in BOOLEAN /\ stopAt \in 0 .. Held

\* One press runs at most one helper: once the long one has been started, by
\* the timer or by a late event, the release does not start the short one too.
OneActionPerPress == \A p \in Press : Len(did[p]) <= 1

\* The short helper runs only for a press that really was short, however late
\* the daemon reads of it and whatever was dropped in between: a release is
\* never taken for the end of another press.
ShortWasShort ==
  \A p \in Press : did[p] = <<"short">> =>
     press[p].up - press[p].down \in SHORT_PRESS_MIN .. (LONG_PRESS - 1)

\* When the daemon has nothing left to do, every press that it could follow has
\* been answered with what it asked for: nothing for a bounce, the short helper,
\* or the long one even before the key is released.  A press that is let go
\* within the scheduling delay of the limit may be taken for either.
Due(p) ==
  LET held == (IF press[p].up = Held THEN now ELSE press[p].up) - press[p].down
  IN  (IF held < SHORT_PRESS_MIN \/ (press[p].up = Held /\ held < LONG_PRESS) THEN {<<>>} ELSE {})
      \cup (IF press[p].up # Held /\ held \in SHORT_PRESS_MIN .. (LONG_PRESS - 1) THEN {<<"short">>} ELSE {})
      \cup (IF held + (IF press[p].up = Held THEN 0 ELSE Lag) >= LONG_PRESS THEN {<<"long">>} ELSE {})

Answered ==
  pc = "wait" /\ ~Runnable /\ ~stopping =>
     \A p \in 1 .. presses : press[p].clear => did[p] \in Due(p)

\* After SIGTERM the daemon is gone within one period of poll and the delays of
\* the scheduler, with the helper it was running: long before systemd would
\* kill it (TimeoutStopSec).
StopsInTime ==
  stopping => pc \in {"stopped", "dead"} \/ now <= stopAt + RECONNECT + 2 * Lag

=============================================================================
