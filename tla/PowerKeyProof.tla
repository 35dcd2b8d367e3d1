---------------------------- MODULE PowerKeyProof ----------------------------
(* One helper per press, a short one only for a short press, an answer to     *)
(* every press, and an end soon after SIGTERM: for any timing, any buffer and *)
(* any number of faults.                                                      *)
EXTENDS PowerKey, SequenceTheorems, TLAPS

\* A press that has not happened has run nothing.
Fresh == \A p \in Press : p > presses => did[p] = <<>>

\* The press the state machine follows has run the long helper if it is marked
\* so, and nothing otherwise.
Followed ==
  fsm.pressed => /\ fsm.id \in 1 .. presses
                 /\ ~fsm.ignore
                 /\ did[fsm.id] = IF fsm.long_fired THEN <<"long">> ELSE <<>>

\* A press that has not been read yet has run nothing, is not the one that is
\* followed, and is in the buffer once.
Unread ==
  \A i \in 1 .. Len(buf) : buf[i].ev = "press" =>
     /\ buf[i].id \in 1 .. presses
     /\ did[buf[i].id] = <<>>
     /\ fsm.pressed => fsm.id # buf[i].id
     /\ \A j \in 1 .. Len(buf) : j # i /\ buf[j].ev = "press" => buf[j].id # buf[i].id

\* An event waits for a helper only if it is the long one.
Pending == todo.ev # "none" => pc = "run" /\ fsm.pressed /\ fsm.long_fired

PressInv == TypeOK /\ Fresh /\ Followed /\ Unread /\ Pending /\ OneActionPerPress

-----------------------------------------------------------------------------
(* The state machine.                                                        *)

LEMMA ResetType ==
  ASSUME NEW b \in BOOLEAN
  PROVE  Reset(b) \in Fsm /\ ~Reset(b).pressed
  BY TickAssumption DEF Reset, Fsm, Time

LEMMA NothingType ==
  ASSUME NEW back \in {"loop", "read"}
  PROVE  Nothing(back) \in Task /\ Nothing(back).ev = "none" /\ Nothing(back).back = back
  BY TickAssumption DEF Nothing, Task, Time

\* What an event leaves: nothing followed, what was followed, or a new press.
LEMMA AfterEventIs ==
  ASSUME NEW f \in Fsm, NEW e \in Task, e.ev # "none"
  PROVE  \/ AfterEvent(f, e) = Reset(FALSE)
         \/ AfterEvent(f, e) = Reset(TRUE)
         \/ AfterEvent(f, e) = f /\ (e.ev = "release" => ~f.pressed)
         \/ /\ AfterEvent(f, e) = [pressed |-> TRUE, long_fired |-> FALSE, ignore |-> FALSE, at |-> e.at, id |-> e.id]
            /\ e.ev = "press" /\ ~f.pressed
<1>1. e.ev \in {"press", "release", "dropped", "disconnect"}
  BY DEF Task
<1>2. CASE e.ev = "press"
  <2>1. AfterEvent(f, e) = IF f.ignore \/ f.pressed THEN f
           ELSE [pressed |-> TRUE, long_fired |-> FALSE, ignore |-> FALSE, at |-> e.at, id |-> e.id]
    BY <1>2, Zenon DEF AfterEvent
  <2>2. QED  BY <2>1, <1>2
<1>3. CASE e.ev = "release"
  <2>1. AfterEvent(f, e) = IF f.ignore \/ f.pressed THEN Reset(FALSE) ELSE f
    BY <1>3, Zenon DEF AfterEvent
  <2>2. QED  BY <2>1, <1>3
<1>4. CASE e.ev = "dropped"
  <2>1. AfterEvent(f, e) = Reset(TRUE)
    BY <1>4, Zenon DEF AfterEvent
  <2>2. QED  BY <2>1
<1>5. CASE e.ev = "disconnect"
  <2>1. AfterEvent(f, e) = Reset(FALSE)
    BY <1>5, Zenon DEF AfterEvent
  <2>2. QED  BY <2>1
<1>6. QED  BY <1>1, <1>2, <1>3, <1>4, <1>5

\* A press that is marked stays marked or is forgotten.
LEMMA MarkedEvent ==
  ASSUME NEW f \in Fsm, NEW e \in Task, e.ev # "none", f.pressed
  PROVE  AfterEvent(f, e) \in {f, Reset(FALSE), Reset(TRUE)}
  BY AfterEventIs

LEMMA AfterEventType ==
  ASSUME NEW f \in Fsm, NEW e \in Task, e.ev # "none"
  PROVE  AfterEvent(f, e) \in Fsm
<1>1. CASE AfterEvent(f, e) = [pressed |-> TRUE, long_fired |-> FALSE, ignore |-> FALSE, at |-> e.at, id |-> e.id]
  BY <1>1 DEF Fsm, Task
<1>2. QED  BY <1>1, AfterEventIs, ResetType

-----------------------------------------------------------------------------
(* fsm_handle.                                                               *)

\* What the handling of an event may do: it acts only for the press that was
\* followed, and then follows that one, the new one or none.
Handled(task) ==
  /\ fsm' \in Fsm /\ did' \in [Press -> Seq({"short", "long"})]
  /\ pc' \in {"run", task.back} /\ wake' \in 0 .. (MaxTime + ACTION_TIMEOUT) /\ todo' \in Task
  /\ \A p \in Press : did'[p] = did[p] \/ (fsm.pressed /\ p = fsm.id)
  /\ fsm'.pressed => (fsm.pressed /\ fsm'.id = fsm.id) \/ (task.ev = "press" /\ fsm'.id = task.id)
  /\ fsm'.pressed => ~fsm'.ignore /\ did'[fsm'.id] = IF fsm'.long_fired THEN <<"long">> ELSE <<>>
  /\ todo'.ev # "none" => pc' = "run" /\ fsm'.pressed /\ fsm'.long_fired
  /\ \A p \in Press : Len(did'[p]) <= 1

\* A press that may be followed next: it has run nothing.
Readable(task) == task.ev = "press" => task.id \in 1 .. presses /\ did[task.id] = <<>>

LEMMA RunActionDoes ==
  ASSUME TypeOK, fsm.id \in Press, did[fsm.id] = <<>>, OneActionPerPress,
         NEW action \in {"short", "long"}, NEW task \in Task, RunAction(action, task)
  PROVE  /\ did' \in [Press -> Seq({"short", "long"})]
         /\ did'[fsm.id] = <<action>>
         /\ \A p \in Press : did'[p] = did[p] \/ p = fsm.id
         /\ \A p \in Press : Len(did'[p]) <= 1
         /\ pc' = "run" /\ wake' \in 0 .. (MaxTime + ACTION_TIMEOUT) /\ todo' = task
<1>1. did' = [did EXCEPT ![fsm.id] = Append(<<>>, action)]
  BY DEF RunAction
<1>2. Append(<<>>, action) = <<action>> /\ <<action>> \in Seq({"short", "long"}) /\ Len(<<action>>) = 1
  OBVIOUS
<1>3. did' = [did EXCEPT ![fsm.id] = <<action>>] /\ did \in [Press -> Seq({"short", "long"})]
  BY <1>1, <1>2 DEF TypeOK
<1>4. did'[fsm.id] = <<action>> /\ \A p \in Press : p # fsm.id => did'[p] = did[p]
  BY <1>3
<1>5. did' \in [Press -> Seq({"short", "long"})]
  BY <1>2, <1>3
<1>6. \A p \in Press : Len(did'[p]) <= 1
  <2>1. TAKE p \in Press
  <2>2. CASE p = fsm.id
    BY <2>2, <1>2, <1>4
  <2>3. CASE p # fsm.id
    BY <2>3, <1>4 DEF OneActionPerPress
  <2>4. QED  BY <2>2, <2>3
<1>7. wake' \in 0 .. (MaxTime + ACTION_TIMEOUT)
  <2>1. now \in 0 .. MaxTime /\ wake' = now + ACTION_TIMEOUT
    BY DEF RunAction, TypeOK, Time
  <2>2. QED  BY <2>1, TickAssumption
<1>8. QED
  BY <1>4, <1>5, <1>6, <1>7 DEF RunAction

LEMMA FinishDoes ==
  ASSUME TypeOK, Followed, OneActionPerPress, NEW task \in Task, Readable(task), Finish(task)
  PROVE  Handled(task)
<1>1. fsm \in Fsm /\ task.back \in {"loop", "read"} /\ presses \in 0 .. MaxPresses
  BY DEF TypeOK, Task
<1>2. CASE EndsShort(fsm, task)
  <2>1. fsm' = Reset(FALSE) \/ fsm' = Reset(TRUE)
    <3>1. task.ev = "release" /\ fsm.pressed /\ fsm' = AfterEvent(fsm, task)
      BY <1>2 DEF EndsShort, Finish
    <3>2. QED  BY <3>1, <1>1, AfterEventIs
  <2>2. fsm' \in Fsm /\ ~fsm'.pressed
    BY <2>1, ResetType
  <2>3. fsm.pressed /\ fsm.id \in Press /\ did[fsm.id] = <<>>
    BY <1>1, <1>2, TickAssumption DEF EndsShort, Followed, Press
  <2>4. RunAction("short", Nothing(task.back)) /\ Nothing(task.back) \in Task /\ Nothing(task.back).ev = "none"
    BY <1>1, <1>2, NothingType DEF Finish
  <2>5. QED
    BY <2>2, <2>3, <2>4, RunActionDoes DEF Handled
<1>3. CASE ~EndsShort(fsm, task)
  <2>1. did' = did /\ pc' = task.back /\ wake' = 0 /\ todo' = Nothing("loop")
    BY <1>3 DEF Finish
  <2>2. wake' \in 0 .. (MaxTime + ACTION_TIMEOUT) /\ todo' \in Task /\ todo'.ev = "none"
    BY <2>1, NothingType, TickAssumption
  <2>3. fsm' \in Fsm
    BY <1>1, AfterEventType DEF Finish
  <2>4. \/ fsm' = fsm \/ ~fsm'.pressed
        \/ /\ fsm' = [pressed |-> TRUE, long_fired |-> FALSE, ignore |-> FALSE, at |-> task.at, id |-> task.id]
           /\ task.ev = "press"
    BY <1>1, AfterEventIs, ResetType DEF Finish
  <2>5. did' \in [Press -> Seq({"short", "long"})] /\ \A p \in Press : did'[p] = did[p] /\ Len(did'[p]) <= 1
    BY <2>1 DEF TypeOK, OneActionPerPress
  <2>6. fsm'.pressed => (fsm.pressed /\ fsm'.id = fsm.id) \/ (task.ev = "press" /\ fsm'.id = task.id)
    BY <2>4
  <2>7. fsm'.pressed => ~fsm'.ignore /\ did'[fsm'.id] = IF fsm'.long_fired THEN <<"long">> ELSE <<>>
    BY <2>1, <2>4 DEF Followed, Readable
  <2>8. QED
    BY <2>1, <2>2, <2>3, <2>5, <2>6, <2>7 DEF Handled
<1>4. QED  BY <1>2, <1>3

LEMMA HandleDoes ==
  ASSUME TypeOK, Followed, OneActionPerPress, NEW task \in Task, Readable(task), Handle(task)
  PROVE  Handled(task)
<1>1. CASE Fires(task.at) /\ fsm' = Marked /\ RunAction("long", task)
  <2>1. fsm \in Fsm /\ fsm.pressed /\ ~fsm.long_fired /\ ~fsm.ignore
    BY <1>1 DEF Fires, TypeOK
  <2>2. fsm.id \in Press /\ did[fsm.id] = <<>>
    <3>1. presses \in 0 .. MaxPresses
      BY DEF TypeOK
    <3>2. QED  BY <2>1, <3>1, TickAssumption DEF Followed, Press
  <2>3. fsm' \in Fsm /\ fsm'.pressed /\ fsm'.long_fired /\ ~fsm'.ignore /\ fsm'.id = fsm.id
    BY <1>1, <2>1 DEF Fsm, Marked
  <2>4. QED
    BY <1>1, <2>1, <2>2, <2>3, RunActionDoes DEF Handled
<1>2. CASE ~Fires(task.at) /\ Finish(task)
  BY <1>2, FinishDoes
<1>3. QED  BY <1>1, <1>2 DEF Handle

-----------------------------------------------------------------------------
(* The steps of the daemon.                                                  *)

Pcs == {"loop", "sleep", "poll", "wait", "timeout", "hup", "read", "run", "stopped", "dead"}

\* What every step of the daemon leaves alone, and what it keeps in range.
Frame ==
  /\ UNCHANGED <<now, key, node, presses, blind, stopping, faults, press, stopAt>>
  /\ late' \in 0 .. Lag /\ fd' \in {"closed", "open", "gone"} /\ pc' \in Pcs
  /\ wake' \in 0 .. (MaxTime + ACTION_TIMEOUT)
  /\ buf' \in Seq(Event) /\ Len(buf') <= BufSize + 1

\* The unread presses of a buffer b, while the state machine follows f.
Fit(b, f) ==
  \A i \in 1 .. Len(b) : b[i].ev = "press" =>
     /\ b[i].id \in 1 .. presses
     /\ did[b[i].id] = <<>>
     /\ f.pressed => f.id # b[i].id
     /\ \A j \in 1 .. Len(b) : j # i /\ b[j].ev = "press" => b[j].id # b[i].id

LEMMA TypeFrom ==
  ASSUME TypeOK, Frame, fsm' \in Fsm, todo' \in Task, did' \in [Press -> Seq({"short", "long"})]
  PROVE  TypeOK'
  BY DEF TypeOK, Frame, Pcs, Time, Press, Held

\* A step that runs nothing.
LEMMA QuietStep ==
  ASSUME PressInv, Frame, pc # "run", todo' = todo, did' = did,
         fsm' = fsm \/ (\E b \in BOOLEAN : fsm' = Reset(b)),
         buf' = buf \/ buf' = <<>>
  PROVE  PressInv'
<1>1. fsm' \in Fsm /\ (fsm'.pressed => fsm' = fsm)
  BY ResetType DEF PressInv, TypeOK
<1>2. TypeOK'
  BY <1>1, TypeFrom DEF PressInv, TypeOK
<1>3. presses' = presses
  BY DEF Frame
<1>4. Fresh' /\ OneActionPerPress'
  BY <1>3 DEF PressInv, Fresh, OneActionPerPress
<1>5. Followed'
  BY <1>1, <1>3 DEF PressInv, Followed
<1>6. Unread'
  <2>1. CASE buf' = buf
    BY <2>1, <1>1, <1>3 DEF PressInv, Unread
  <2>2. CASE buf' = <<>>
    BY <2>2 DEF Unread
  <2>3. QED  BY <2>1, <2>2
<1>7. Pending'
  BY DEF PressInv, Pending
<1>8. QED  BY <1>2, <1>4, <1>5, <1>6, <1>7 DEF PressInv

\* A step that handles an event.
LEMMA HandlingStep ==
  ASSUME PressInv, Frame, NEW task \in Task, Readable(task), Handled(task),
         Fit(buf', fsm), task.ev = "press" => \A i \in 1 .. Len(buf') : buf'[i].ev = "press" => buf'[i].id # task.id
  PROVE  PressInv'
<1>1. presses' = presses /\ presses \in 0 .. MaxPresses
  BY DEF Frame, PressInv, TypeOK
<1>2. TypeOK'
  BY TypeFrom DEF PressInv, Handled
<1>3. OneActionPerPress' /\ Pending'
  BY DEF Handled, OneActionPerPress, Pending
<1>4. fsm.pressed => fsm.id \in 1 .. presses
  BY DEF PressInv, Followed
<1>5. Fresh'
  <2>1. SUFFICES ASSUME NEW p \in Press, p > presses  PROVE did'[p] = <<>>
    BY <1>1 DEF Fresh
  <2>2. did[p] = <<>> /\ ~(fsm.pressed /\ p = fsm.id)
    BY <2>1, <1>1, <1>4, TickAssumption DEF PressInv, Fresh, Press
  <2>3. QED  BY <2>2 DEF Handled
<1>6. Followed'
  <2>1. fsm'.pressed => fsm'.id \in 1 .. presses
    BY <1>4 DEF Handled, Readable
  <2>2. QED  BY <2>1, <1>1 DEF Handled, Followed
<1>7. Unread'
  <2>1. SUFFICES ASSUME NEW i \in 1 .. Len(buf'), buf'[i].ev = "press"
                 PROVE  /\ buf'[i].id \in 1 .. presses
                        /\ did'[buf'[i].id] = <<>>
                        /\ fsm'.pressed => fsm'.id # buf'[i].id
                        /\ \A j \in 1 .. Len(buf') : j # i /\ buf'[j].ev = "press" => buf'[j].id # buf'[i].id
    BY <1>1 DEF Unread
  <2>2. /\ buf'[i].id \in 1 .. presses /\ did[buf'[i].id] = <<>>
        /\ fsm.pressed => fsm.id # buf'[i].id
        /\ \A j \in 1 .. Len(buf') : j # i /\ buf'[j].ev = "press" => buf'[j].id # buf'[i].id
    BY <2>1 DEF Fit
  <2>3. buf'[i].id \in Press
    BY <2>2, <1>1, TickAssumption DEF Press
  <2>4. did'[buf'[i].id] = <<>>
    BY <2>2, <2>3 DEF Handled
  <2>5. fsm'.pressed => fsm'.id # buf'[i].id
    BY <2>1, <2>2 DEF Handled
  <2>6. QED  BY <2>2, <2>4, <2>5
<1>8. QED  BY <1>2, <1>3, <1>5, <1>6, <1>7 DEF PressInv

LEMMA FitEmpty == ASSUME NEW f PROVE Fit(<<>>, f)
  BY DEF Fit

LEMMA EmptyBuf == <<>> \in Seq(Event) /\ Len(<<>>) <= BufSize + 1
  BY TickAssumption

LEMMA PollTimeoutRange ==
  ASSUME TypeOK
  PROVE  now + PollTimeout \in 0 .. (MaxTime + ACTION_TIMEOUT) /\ now \in 0 .. MaxTime
<1>1. now \in 0 .. MaxTime /\ fsm.at \in 0 .. MaxTime
  BY DEF TypeOK, Fsm, Time
<1>2. PollTimeout \in 0 .. RECONNECT
  BY <1>1, TickAssumption DEF PollTimeout
<1>3. QED  BY <1>1, <1>2, TickAssumption

LEMMA DaemonStep ==
  ASSUME PressInv, Daemon
  PROVE  PressInv'
<1>0. /\ UNCHANGED <<now, key, node, presses, blind, stopping, faults, press, stopAt>>
      /\ late' \in 0 .. Lag
  <2>1. UNCHANGED <<now, key, node, presses, blind, stopping, faults, press, stopAt>>
    BY DEF Daemon, input
  <2>2. late \in 0 .. Lag /\ (late' = late \/ late' = 0)
    BY DEF Daemon, CatchesUp, PressInv, TypeOK
  <2>3. QED  BY <2>1, <2>2, TickAssumption
<1>a. TypeOK
  BY DEF PressInv
<1>b. /\ fd \in {"closed", "open", "gone"} /\ wake \in 0 .. (MaxTime + ACTION_TIMEOUT)
      /\ buf \in Seq(Event) /\ Len(buf) <= BufSize + 1 /\ key \in BOOLEAN /\ now \in 0 .. MaxTime
  BY <1>a DEF TypeOK, Time
<1>c. 0 \in 0 .. (MaxTime + ACTION_TIMEOUT) /\ now + RECONNECT \in 0 .. (MaxTime + ACTION_TIMEOUT)
  BY <1>b, TickAssumption
<1>d. Fit(buf, fsm)
  BY DEF PressInv, Unread, Fit
<1>1. CASE Open
  <2>1. Frame
    BY <1>1, <1>0, <1>b DEF Open, Frame, Pcs
  <2>2. QED  BY <1>1, <1>b, <2>1, QuietStep DEF Open
<1>2. CASE NoDevice
  <2>1. Frame
    BY <1>2, <1>0, <1>b, <1>c DEF NoDevice, Frame, Pcs
  <2>2. QED  BY <1>2, <2>1, QuietStep DEF NoDevice
<1>3. CASE Again
  <2>1. Frame
    BY <1>3, <1>0, <1>b DEF Again, Frame, Pcs
  <2>2. QED  BY <1>3, <2>1, QuietStep DEF Again
<1>4. CASE Slept
  <2>1. Frame
    BY <1>4, <1>0, <1>b, <1>c DEF Slept, Frame, Pcs
  <2>2. QED  BY <1>4, <2>1, QuietStep DEF Slept
<1>5. CASE Poll
  <2>1. Frame
    BY <1>5, <1>0, <1>a, <1>b, PollTimeoutRange DEF Poll, Frame, Pcs
  <2>2. QED  BY <1>5, <2>1, QuietStep DEF Poll
<1>6. CASE PollReturns
  <2>1. Frame
    BY <1>6, <1>0, <1>b, <1>c DEF PollReturns, Frame, Pcs
  <2>2. QED  BY <1>6, <2>1, QuietStep DEF PollReturns
<1>7. CASE TimedOut
  <2> DEFINE task == [ev |-> "none", at |-> now, id |-> 0, back |-> "loop"]
  <2>1. task \in Task /\ Readable(task) /\ Handle(task) /\ task.ev = "none" /\ task.back = "loop"
    BY <1>7, <1>b, TickAssumption DEF TimedOut, Task, Time, Readable
  <2>2. Handled(task)
    BY <2>1, HandleDoes DEF PressInv
  <2>3. Frame
    BY <1>7, <1>0, <1>b, <2>1, <2>2 DEF TimedOut, Frame, Pcs, Handled
  <2>4. buf' = buf
    BY <1>7 DEF TimedOut
  <2>5. QED  BY <1>d, <2>1, <2>2, <2>3, <2>4, HandlingStep
<1>8. CASE Disconnected
  <2>1. PICK t \in 0 .. now : Handle([ev |-> "disconnect", at |-> t, id |-> 0, back |-> "loop"])
    BY <1>8 DEF Disconnected
  <2> DEFINE task == [ev |-> "disconnect", at |-> t, id |-> 0, back |-> "loop"]
  <2>2. t \in Time
    BY <1>b, TickAssumption DEF Time
  <2>3. task \in Task /\ Readable(task) /\ task.ev = "disconnect" /\ task.back = "loop"
    BY <2>2, TickAssumption DEF Task, Readable
  <2>4. Handled(task)
    BY <2>1, <2>3, HandleDoes DEF PressInv
  <2>5. fd' = "closed" /\ buf' = <<>>
    BY <1>8 DEF Disconnected
  <2>6. Frame
    BY <1>0, <1>b, <2>3, <2>4, <2>5, EmptyBuf DEF Frame, Pcs, Handled
  <2>7. Fit(buf', fsm)
    BY <2>5, FitEmpty
  <2>8. QED  BY <2>3, <2>4, <2>6, <2>7, HandlingStep
<1>9. CASE Drained
  <2>1. Frame
    BY <1>9, <1>0, <1>b DEF Drained, Frame, Pcs
  <2>2. QED  BY <1>9, <2>1, QuietStep DEF Drained
<1>10. CASE Read
  <2>1. buf # <<>> /\ buf' = Tail(buf) /\ fd' = fd /\ pc = "read"
    BY <1>10 DEF Read
  <2>2. /\ buf' \in Seq(Event) /\ Len(buf') = Len(buf) - 1 /\ Len(buf) \in Nat \ {0}
        /\ \A i \in 1 .. Len(buf') : i + 1 \in 1 .. Len(buf) /\ buf'[i] = buf[i + 1]
        /\ Head(buf) = buf[1] /\ buf[1] \in Event /\ 1 \in 1 .. Len(buf)
    BY <2>1, <1>b
  <2>3. Fit(buf', fsm)
    <3>1. SUFFICES ASSUME NEW i \in 1 .. Len(buf'), buf'[i].ev = "press"
                   PROVE  /\ buf'[i].id \in 1 .. presses
                          /\ did[buf'[i].id] = <<>>
                          /\ fsm.pressed => fsm.id # buf'[i].id
                          /\ \A j \in 1 .. Len(buf') : j # i /\ buf'[j].ev = "press" => buf'[j].id # buf'[i].id
      BY DEF Fit
    <3>2. i + 1 \in 1 .. Len(buf) /\ buf'[i] = buf[i + 1]
      BY <2>2
    <3>3. \A j \in 1 .. Len(buf') : j # i => j + 1 \in 1 .. Len(buf) /\ buf'[j] = buf[j + 1] /\ j + 1 # i + 1
      BY <2>2
    <3>4. QED  BY <1>d, <3>1, <3>2, <3>3 DEF Fit
  <2>4. Len(buf') <= BufSize + 1
    BY <2>2, <1>b, TickAssumption
  <2>5. CASE stopping
    <3>1. pc' = "loop" /\ fsm' = fsm /\ wake' = wake /\ todo' = todo /\ did' = did
      BY <1>10, <2>5 DEF Read
    <3>2. Frame
      BY <1>0, <1>b, <2>1, <2>2, <2>4, <3>1 DEF Frame, Pcs
    <3>3. TypeOK'
      BY <1>a, <3>1, <3>2, TypeFrom DEF TypeOK
    <3>4. Unread' /\ Fresh' /\ Followed' /\ Pending' /\ OneActionPerPress'
      BY <1>0, <2>1, <2>3, <3>1 DEF PressInv, Unread, Fit, Fresh, Followed, Pending, OneActionPerPress
    <3>5. QED  BY <3>3, <3>4 DEF PressInv
  <2>6. CASE ~stopping
    <3> DEFINE e == Head(buf)
               task == [ev |-> e.ev, at |-> EventTime(e), id |-> e.id, back |-> "read"]
    <3>1. Handle(task)
      BY <1>10, <2>6 DEF Read
    <3>2. EventTime(e) \in Time
      BY <1>b, <2>2 DEF EventTime, Event, Time
    <3>3. task \in Task /\ task.ev = e.ev /\ task.id = e.id /\ task.back = "read"
      BY <2>2, <3>2 DEF Task, Event
    <3>4. Readable(task)
      BY <1>d, <2>2, <3>3 DEF Readable, Fit
    <3>5. Handled(task)
      BY <3>1, <3>3, <3>4, HandleDoes DEF PressInv
    <3>6. Frame
      BY <1>0, <1>b, <2>1, <2>2, <2>4, <3>3, <3>5 DEF Frame, Pcs, Handled
    <3>7. task.ev = "press" => \A i \in 1 .. Len(buf') : buf'[i].ev = "press" => buf'[i].id # task.id
      <4>1. \A i \in 1 .. Len(buf') : i + 1 # 1
        OBVIOUS
      <4>2. QED  BY <1>d, <2>2, <3>3, <4>1 DEF Fit
    <3>8. QED  BY <2>3, <3>3, <3>4, <3>5, <3>6, <3>7, HandlingStep
  <2>7. QED  BY <2>5, <2>6
<1>11. CASE RunEnds
  <2>1. todo \in Task /\ Finish(todo) /\ todo.back \in {"loop", "read"} /\ buf' = buf /\ fd' = fd
    BY <1>11, <1>a DEF RunEnds, TypeOK, Task
  <2>2. todo.ev # "none" => fsm.pressed /\ fsm.long_fired
    BY DEF PressInv, Pending
  <2>3. CASE todo.ev # "press"
    <3>1. Readable(todo)
      BY <2>3 DEF Readable
    <3>2. Handled(todo)
      BY <2>1, <3>1, FinishDoes DEF PressInv
    <3>3. Frame
      BY <1>0, <1>b, <2>1, <3>2 DEF Frame, Pcs, Handled
    <3>4. QED  BY <1>d, <2>1, <2>3, <3>1, <3>2, <3>3, HandlingStep
  <2>4. CASE todo.ev = "press"
    <3>1. fsm \in Fsm /\ fsm.pressed /\ fsm.long_fired
      BY <2>2, <2>4, <1>a DEF TypeOK
    <3>2. fsm' = AfterEvent(fsm, todo) /\ ~EndsShort(fsm, todo)
      BY <2>1, <2>4 DEF Finish, EndsShort
    <3>3. fsm' \in {fsm, Reset(FALSE), Reset(TRUE)}
      BY <2>1, <2>4, <3>1, <3>2, MarkedEvent
    <3>4. did' = did /\ pc' = todo.back /\ wake' = 0 /\ todo' = Nothing("loop")
      BY <2>1, <3>2 DEF Finish
    <3>5. Frame
      BY <1>0, <1>b, <1>c, <2>1, <3>4 DEF Frame, Pcs
    <3>6. fsm' \in Fsm /\ (fsm'.pressed => fsm' = fsm) /\ todo' \in Task /\ todo'.ev = "none"
      BY <3>1, <3>3, <3>4, ResetType, NothingType
    <3>7. TypeOK'
      BY <1>a, <3>4, <3>5, <3>6, TypeFrom DEF TypeOK
    <3>8. Unread' /\ Fresh' /\ Followed' /\ Pending' /\ OneActionPerPress'
      BY <1>0, <2>1, <3>4, <3>6 DEF PressInv, Unread, Fresh, Followed, Pending, OneActionPerPress
    <3>9. QED  BY <3>7, <3>8 DEF PressInv
  <2>5. QED  BY <2>3, <2>4
<1>12. CASE Stopped
  <2>1. Frame
    BY <1>12, <1>0, <1>b, EmptyBuf DEF Stopped, Frame, Pcs
  <2>2. QED  BY <1>12, <2>1, QuietStep DEF Stopped
<1>13. QED
  BY <1>1, <1>2, <1>3, <1>4, <1>5, <1>6, <1>7, <1>8, <1>9, <1>10, <1>11, <1>12 DEF Daemon

-----------------------------------------------------------------------------
(* The steps of the environment.                                             *)

\* Whatever does not touch the state machine, the helpers or the buffer.
LEMMA OutsideStep ==
  ASSUME PressInv, TypeOK', presses' = presses, did' = did, todo' = todo,
         fsm' = fsm \/ fsm' = Reset(FALSE), buf' = buf \/ buf' = <<>>,
         todo.ev # "none" => pc' = pc /\ fsm' = fsm
  PROVE  PressInv'
<1>1. fsm'.pressed => fsm' = fsm
  BY ResetType
<1>2. Fresh' /\ OneActionPerPress' /\ Followed' /\ Pending'
  BY <1>1 DEF PressInv, Fresh, OneActionPerPress, Followed, Pending
<1>3. Unread'
  <2>1. CASE buf' = buf
    BY <2>1, <1>1 DEF PressInv, Unread
  <2>2. CASE buf' = <<>>
    BY <2>2 DEF Unread
  <2>3. QED  BY <2>1, <2>2
<1>4. QED  BY <1>2, <1>3 DEF PressInv

Presses == [Press -> [down : Time, up : 0 .. Held, clear : BOOLEAN]]

LEMMA LosingType ==
  ASSUME NEW pr \in Presses
  PROVE  Losing(pr) \in Presses
<1>1. ASSUME NEW p \in Press
      PROVE  (IF did[p] = <<>> THEN [down |-> pr[p].down, up |-> pr[p].up, clear |-> FALSE] ELSE pr[p])
                \in [down : Time, up : 0 .. Held, clear : BOOLEAN]
  BY DEF Presses
<1>2. QED  BY <1>1 DEF Losing, Presses

\* A new event in the buffer: a press that has run nothing, or no press.
LEMMA PushStep ==
  ASSUME PressInv, NEW e \in Event, NEW pr \in Presses, Push(e, pr),
         UNCHANGED <<now, late, node, fd, fsm, pc, wake, todo, stopping, faults, did, stopAt>>,
         key' \in BOOLEAN, presses' \in 0 .. MaxPresses, presses' >= presses,
         e.ev # "dropped",
         e.ev = "press" => e.id = presses' /\ presses' = presses + 1
  PROVE  PressInv'
<1>a. /\ TypeOK /\ presses \in 0 .. MaxPresses /\ buf \in Seq(Event) /\ now \in 0 .. MaxTime
      /\ BufSize \in Nat \ {0} /\ MaxPresses \in Nat
  BY TickAssumption DEF PressInv, TypeOK, Time
<1>b. Fit(buf, fsm)
  BY DEF PressInv, Unread, Fit
<1>c. fsm.pressed => fsm.id \in 1 .. presses
  BY DEF PressInv, Followed
<1>d. e.ev = "press" => /\ e.id \in 1 .. presses' /\ did[e.id] = <<>>
                        /\ fsm.pressed => fsm.id # e.id
                        /\ \A i \in 1 .. Len(buf) : buf[i].ev = "press" => buf[i].id # e.id
  <2>1. SUFFICES ASSUME e.ev = "press"
                 PROVE  /\ e.id \in 1 .. presses' /\ did[e.id] = <<>>
                        /\ fsm.pressed => fsm.id # e.id
                        /\ \A i \in 1 .. Len(buf) : buf[i].ev = "press" => buf[i].id # e.id
    OBVIOUS
  <2>2. e.id = presses + 1 /\ e.id \in 1 .. presses' /\ e.id \in Press
    BY <1>a, <2>1 DEF Press
  <2>3. did[e.id] = <<>>
    BY <1>a, <2>2 DEF PressInv, Fresh
  <2>4. \A i \in 1 .. Len(buf) : buf[i].ev = "press" => buf[i].id \in 1 .. presses
    BY <1>b DEF Fit
  <2>5. QED  BY <1>a, <1>c, <2>2, <2>3, <2>4
<1>1. /\ buf' \in Seq(Event) /\ Len(buf') <= BufSize + 1 /\ press' \in Presses /\ blind' \in BOOLEAN
      /\ \A i \in 1 .. Len(buf') : buf'[i].ev = "press" =>
            /\ buf'[i].id \in 1 .. presses' /\ did[buf'[i].id] = <<>>
            /\ fsm.pressed => fsm.id # buf'[i].id
            /\ \A j \in 1 .. Len(buf') : j # i /\ buf'[j].ev = "press" => buf'[j].id # buf'[i].id
  <2>1. CASE fd # "open"
    <3>1. buf' = buf /\ press' = pr /\ blind' = blind
      BY <2>1 DEF Push
    <3>2. QED  BY <1>a, <1>b, <3>1 DEF TypeOK, Fit
  <2>2. CASE fd = "open" /\ Len(buf) < BufSize
    <3>0. ~(Len(buf) = BufSize)
      BY <1>a, <2>2
    <3>1. buf' = Append(buf, e) /\ press' = pr /\ blind' \in BOOLEAN
      BY <2>2, <3>0, Zenon DEF Push
    <3>2. buf' \in Seq(Event) /\ Len(buf') = Len(buf) + 1
      BY <1>a, <3>1
    <3>3. \A i \in 1 .. Len(buf') : \/ i \in 1 .. Len(buf) /\ buf'[i] = buf[i]
                                    \/ i = Len(buf) + 1 /\ buf'[i] = e
      BY <1>a, <3>1
    <3>4. Len(buf') <= BufSize + 1
      BY <1>a, <2>2, <3>2
    <3>5. ASSUME NEW i \in 1 .. Len(buf'), buf'[i].ev = "press"
          PROVE  /\ buf'[i].id \in 1 .. presses' /\ did[buf'[i].id] = <<>>
                 /\ fsm.pressed => fsm.id # buf'[i].id
                 /\ \A j \in 1 .. Len(buf') : j # i /\ buf'[j].ev = "press" => buf'[j].id # buf'[i].id
      <4>1. CASE i \in 1 .. Len(buf) /\ buf'[i] = buf[i]
        <5>1. /\ buf[i].id \in 1 .. presses' /\ did[buf[i].id] = <<>>
              /\ fsm.pressed => fsm.id # buf[i].id
          BY <1>a, <1>b, <3>5, <4>1 DEF Fit
        <5>2. ASSUME NEW j \in 1 .. Len(buf'), j # i, buf'[j].ev = "press"
              PROVE  buf'[j].id # buf'[i].id
          <6>1. CASE j \in 1 .. Len(buf) /\ buf'[j] = buf[j]
            BY <1>b, <3>5, <4>1, <5>2, <6>1 DEF Fit
          <6>2. CASE buf'[j] = e
            BY <1>d, <3>5, <4>1, <5>2, <6>2
          <6>3. QED  BY <3>3, <6>1, <6>2
        <5>3. QED  BY <4>1, <5>1, <5>2
      <4>2. CASE i = Len(buf) + 1 /\ buf'[i] = e
        <5>1. ASSUME NEW j \in 1 .. Len(buf'), j # i, buf'[j].ev = "press"
              PROVE  buf'[j].id # buf'[i].id
          <6>1. j \in 1 .. Len(buf) /\ buf'[j] = buf[j]
            BY <3>3, <4>2, <5>1
          <6>2. QED  BY <1>d, <3>5, <4>2, <5>1, <6>1
        <5>2. QED  BY <1>d, <3>5, <4>2, <5>1
      <4>3. QED  BY <3>3, <4>1, <4>2
    <3>6. QED  BY <3>1, <3>2, <3>4, <3>5
  <2>3. CASE fd = "open" /\ Len(buf) = BufSize
    <3> DEFINE d == [ev |-> "dropped", at |-> now, id |-> 0]
    <3>0. ~(Len(buf) < BufSize)
      BY <1>a, <2>3
    <3>1. press' = Losing(pr) /\ blind' \in BOOLEAN /\ (buf' = <<d, e>> \/ buf' = <<d>>)
      BY <2>3, <3>0, Zenon DEF Push
    <3>2. d \in Event /\ d.ev = "dropped"
      BY <1>a DEF Event, Time
    <3>3. CASE buf' = <<d, e>>
      <4> HIDE DEF d
      <4>1. buf' \in Seq(Event) /\ Len(buf') = 2 /\ buf'[1] = d /\ buf'[2] = e
        BY <3>2, <3>3
      <4>2. \A i \in 1 .. Len(buf') : i = 1 \/ i = 2
        BY <4>1
      <4>3. \A i \in 1 .. Len(buf') : buf'[i].ev = "press" => i = 2 /\ buf'[i] = e
        BY <3>2, <4>1, <4>2
      <4>4. Len(buf') <= BufSize + 1
        BY <1>a, <4>1
      <4>5. QED  BY <1>d, <3>1, <4>1, <4>3, <4>4, LosingType
    <3>4. CASE buf' = <<d>>
      <4> HIDE DEF d
      <4>1. buf' \in Seq(Event) /\ Len(buf') = 1 /\ buf'[1] = d
        BY <3>2, <3>4
      <4>2. \A i \in 1 .. Len(buf') : i = 1
        BY <4>1
      <4>3. \A i \in 1 .. Len(buf') : buf'[i].ev # "press"
        BY <3>2, <4>1, <4>2
      <4>4. Len(buf') <= BufSize + 1
        BY <1>a, <4>1
      <4>5. QED  BY <3>1, <4>1, <4>3, <4>4, LosingType
    <3>5. QED  BY <3>1, <3>3, <3>4
  <2>4. QED  BY <2>1, <2>2, <2>3 DEF Push
<1>2. TypeOK'
  BY <1>a, <1>1 DEF TypeOK, Presses, Time, Press, Held
<1>3. Unread'
  BY <1>1 DEF Unread
<1>4. Fresh' /\ Followed' /\ Pending' /\ OneActionPerPress'
  BY <1>a DEF PressInv, Fresh, Followed, Pending, OneActionPerPress, Press
<1>5. QED  BY <1>2, <1>3, <1>4 DEF PressInv

LEMMA KeyDownStep == ASSUME PressInv, KeyDown PROVE PressInv'
<1>1. /\ presses \in 0 .. MaxPresses /\ presses < MaxPresses /\ presses' = presses + 1 /\ key' = TRUE
      /\ now \in Time /\ press \in Presses /\ presses' \in Press /\ presses' \in 0 .. MaxPresses
      /\ presses' >= presses
  BY TickAssumption DEF KeyDown, PressInv, TypeOK, Press, Presses
<1> DEFINE e == [ev |-> "press", at |-> now, id |-> presses']
           c == (fd = "open" /\ ~blind)
           new == [down |-> now, up |-> Held, clear |-> c]
           pr == [press EXCEPT ![presses'] = new]
<1>2. Push(e, pr)
  BY Zenon DEF KeyDown
<1>3. UNCHANGED <<now, late, node, fd, fsm, pc, wake, todo, stopping, faults, did, stopAt>>
  BY DEF KeyDown, daemon
<1>4. e \in Event /\ e.ev = "press" /\ e.id = presses'
  BY <1>1 DEF Event
<1>5. c \in BOOLEAN
  OBVIOUS
<1>6. Held \in 0 .. Held
  BY TickAssumption DEF Held
<1>7. pr \in Presses
  <2> HIDE DEF c
  <2>1. new \in [down : Time, up : 0 .. Held, clear : BOOLEAN]
    BY <1>1, <1>5, <1>6
  <2> HIDE DEF new
  <2>2. QED  BY <1>1, <2>1 DEF Presses
<1> HIDE DEF e, pr
<1>8. QED  BY <1>1, <1>2, <1>3, <1>4, <1>7, PushStep

LEMMA KeyUpStep == ASSUME PressInv, KeyUp PROVE PressInv'
<1>1. /\ presses \in 0 .. MaxPresses /\ presses' = presses /\ key' = FALSE
      /\ now \in Time /\ press \in Presses /\ presses' >= presses
  <2>1. presses \in 0 .. MaxPresses /\ now \in Time /\ press \in Presses
    BY DEF PressInv, TypeOK, Presses
  <2>2. presses' = presses /\ key' = FALSE
    BY DEF KeyUp
  <2>3. QED
    BY <2>1, <2>2, TickAssumption
<1> DEFINE e == [ev |-> "release", at |-> now, id |-> presses]
           pr == [press EXCEPT ![presses].up = now]
<1>2. Push(e, pr)
  BY DEF KeyUp
<1>3. UNCHANGED <<now, late, node, fd, fsm, pc, wake, todo, stopping, faults, did, stopAt>>
  BY DEF KeyUp, daemon
<1>4. e \in Event /\ e.ev = "release"
  BY <1>1 DEF Event
<1>5. now \in 0 .. Held
  BY <1>1, TickAssumption DEF Held, Time
<1>6. pr \in Presses
  BY <1>1, <1>5 DEF Presses
<1> HIDE DEF e, pr
<1>7. QED  BY <1>1, <1>2, <1>3, <1>4, <1>6, PushStep

LEMMA OtherSteps ==
  ASSUME PressInv, Unplug \/ Plug \/ Signal \/ Die \/ Restart \/ Tick
  PROVE  PressInv'
<1>a. TypeOK /\ press \in Presses
  BY DEF PressInv, TypeOK, Presses
<1>b. /\ now \in 0 .. MaxTime /\ faults \in 0 .. MaxFaults /\ late \in 0 .. Lag
      /\ fd \in {"closed", "open", "gone"} /\ 0 \in 0 .. (MaxTime + ACTION_TIMEOUT)
  BY <1>a, TickAssumption DEF TypeOK, Time
<1>c. Losing(press) \in Presses
  BY <1>a, LosingType
<1>1. CASE Unplug
  <2>1. faults' \in 0 .. MaxFaults
    BY <1>1, <1>b, TickAssumption DEF Unplug
  <2>2. TypeOK'
    BY <1>1, <1>a, <1>b, <1>c, <2>1, EmptyBuf DEF Unplug, TypeOK, Presses, Time, Press, Held
  <2>3. QED  BY <1>1, <2>2, OutsideStep DEF Unplug
<1>2. CASE Plug
  <2>1. TypeOK'
    BY <1>2, <1>a DEF Plug, daemon, TypeOK, Time, Press, Held
  <2>2. QED  BY <1>2, <2>1, OutsideStep DEF Plug, daemon
<1>3. CASE Signal
  <2>1. now \in 0 .. Held
    BY <1>b, TickAssumption DEF Held
  <2>2. pc' \in Pcs /\ wake' \in 0 .. (MaxTime + ACTION_TIMEOUT) /\ (pc = "run" => pc' = pc)
    BY <1>3, <1>a, <1>b DEF Signal, TypeOK, Pcs
  <2>3. TypeOK'
    BY <1>3, <1>a, <1>c, <2>1, <2>2 DEF Signal, input, TypeOK, Presses, Pcs, Time, Press, Held
  <2>4. todo.ev # "none" => pc = "run"
    BY DEF PressInv, Pending
  <2>5. QED  BY <1>3, <2>2, <2>3, <2>4, OutsideStep DEF Signal, input
<1>4. CASE Die
  <2>1. faults' \in 0 .. MaxFaults /\ wake' \in 0 .. (MaxTime + ACTION_TIMEOUT) /\ late' \in 0 .. Lag
    BY <1>4, <1>b, TickAssumption DEF Die
  <2>2. fsm' \in Fsm /\ ~fsm'.pressed /\ todo' \in Task /\ todo'.ev = "none"
    BY <1>4, ResetType, NothingType DEF Die
  <2>3. TypeOK'
    BY <1>4, <1>a, <1>b, <1>c, <2>1, <2>2, EmptyBuf DEF Die, TypeOK, Presses, Time, Press, Held
  <2>4. Fresh' /\ OneActionPerPress' /\ Followed' /\ Pending'
    BY <1>4, <2>2 DEF Die, PressInv, Fresh, OneActionPerPress, Followed, Pending
  <2>5. Unread'
    BY <1>4 DEF Die, Unread
  <2>6. QED  BY <2>3, <2>4, <2>5 DEF PressInv
<1>5. CASE Restart
  <2>1. TypeOK'
    BY <1>5, <1>a, <1>b DEF Restart, input, TypeOK, Time, Press, Held
  <2>2. todo.ev = "none"
    BY <1>5 DEF Restart, PressInv, Pending
  <2>3. QED  BY <1>5, <2>1, <2>2, OutsideStep DEF Restart, input
<1>6. CASE Tick
  <2>1. now' \in 0 .. MaxTime /\ late' \in 0 .. Lag
    BY <1>6, <1>b, TickAssumption DEF Tick
  <2>2. TypeOK'
    BY <1>6, <1>a, <2>1 DEF Tick, input, daemon, TypeOK, Time, Press, Held
  <2>3. QED  BY <1>6, <2>2, OutsideStep DEF Tick, input, daemon
<1>7. QED  BY <1>1, <1>2, <1>3, <1>4, <1>5, <1>6

LEMMA PressInit == Init => PressInv
<1>1. SUFFICES ASSUME Init PROVE PressInv
  OBVIOUS
<1>2. fsm \in Fsm /\ ~fsm.pressed /\ todo \in Task /\ todo.ev = "none"
  BY <1>1, ResetType, NothingType DEF Init
<1>3. press \in Presses
  BY <1>1, TickAssumption DEF Init, Presses, Time, Held
<1>4. did \in [Press -> Seq({"short", "long"})] /\ \A p \in Press : did[p] = <<>> /\ Len(did[p]) <= 1
  BY <1>1 DEF Init
<1>a. /\ now = 0 /\ late = 0 /\ key = FALSE /\ node \in BOOLEAN /\ buf = <<>> /\ fd = "closed"
      /\ pc = "loop" /\ wake = 0 /\ stopping = FALSE /\ faults = 0 /\ presses = 0
      /\ blind = FALSE /\ stopAt = Held
  BY <1>1 DEF Init
<1>b. /\ now \in Time /\ late \in 0 .. Lag /\ wake \in 0 .. (MaxTime + ACTION_TIMEOUT)
      /\ faults \in 0 .. MaxFaults /\ presses \in 0 .. MaxPresses /\ stopAt \in 0 .. Held
  BY <1>a, TickAssumption DEF Time, Held
<1>5. TypeOK
  BY <1>a, <1>b, <1>2, <1>3, <1>4, EmptyBuf DEF TypeOK, Presses
<1>6. Fresh /\ Followed /\ Unread /\ Pending /\ OneActionPerPress
  <2>1. Len(buf) = 0
    BY <1>a
  <2>2. Unread
    BY <2>1 DEF Unread
  <2>3. QED  BY <1>2, <1>4, <2>2 DEF Fresh, Followed, Pending, OneActionPerPress
<1>7. QED  BY <1>5, <1>6 DEF PressInv

LEMMA PressNext == PressInv /\ [Next]_vars => PressInv'
<1>1. SUFFICES ASSUME PressInv, [Next]_vars PROVE PressInv'
  OBVIOUS
<1>2. CASE UNCHANGED vars
  BY <1>1, <1>2 DEF vars, PressInv, TypeOK, Fresh, Followed, Unread, Pending, OneActionPerPress, Time, Press, Held
<1>3. QED
  BY <1>1, <1>2, DaemonStep, KeyDownStep, KeyUpStep, OtherSteps DEF Next

\* The state of the daemon keeps its types, the clock and the time limits of
\* poll and of the helper included.
THEOREM KeyTypes == Spec => []TypeOK
<1>1. PressInv => TypeOK
  BY DEF PressInv
<1>2. QED  BY <1>1, PressInit, PressNext, PTL DEF Spec

\* For any limits, any delay of the scheduler, any size of the event buffer and
\* any number of presses, lost events, lost devices and restarts, a press runs
\* at most one helper.
THEOREM OneHelperPerPress == Spec => []OneActionPerPress
<1>1. PressInv => OneActionPerPress
  BY DEF PressInv
<1>2. QED  BY <1>1, PressInit, PressNext, PTL DEF Spec

-----------------------------------------------------------------------------
(* SIGTERM.                                                                  *)

\* Until the daemon pauses it is late by all the time since the signal; it
\* pauses at most once, in a poll the signal came just before.
StopInv ==
  /\ pc = "dead" => ~stopping
  /\ stopping /\ pc \notin {"stopped", "dead"} =>
       /\ pc # "sleep"
       /\ pc = "poll" => now <= stopAt + late
       /\ pc = "wait" => wake <= stopAt + Lag + RECONNECT
       /\ now <= stopAt + Lag + RECONNECT + late

LEMMA HandlePlace ==
  ASSUME NEW task, Handle(task) \/ Finish(task)
  PROVE  pc' \in {"run", task.back}
  BY DEF Handle, Finish, RunAction

\* A step of the daemon once SIGTERM has arrived: it polls, or it stays behind.
LEMMA StoppingStep ==
  ASSUME TypeOK, Daemon, stopping
  PROVE  \/ pc' = "stopped"
         \/ Poll /\ late' \in {late, 0}
         \/ pc \notin {"poll", "sleep", "stopped", "dead"} /\ pc' \in {"loop", "timeout", "hup", "read", "run"} /\ late' = late
         \/ pc = "sleep"
<1>1. stopping' = stopping /\ (late' = late \/ (late' = 0 /\ ~Runnable'))
  BY DEF Daemon, CatchesUp
<1>2. pc' \in {"loop", "timeout", "hup", "read", "run"} => late' = late
  BY <1>1 DEF Runnable, Overdue
<1>3. ~Open /\ ~NoDevice /\ ~Again
  BY DEF Open, NoDevice, Again
<1>4. PollReturns \/ Drained => pc \notin {"poll", "sleep", "stopped", "dead"} /\ pc' \in {"loop", "timeout", "hup", "read", "run"}
  BY DEF PollReturns, Drained
<1>5. TimedOut \/ Disconnected \/ Read \/ RunEnds =>
        pc \notin {"poll", "sleep", "stopped", "dead"} /\ pc' \in {"loop", "timeout", "hup", "read", "run"}
  <2>1. TimedOut => pc = "timeout" /\ pc' \in {"run", "loop"}
    BY HandlePlace DEF TimedOut
  <2>2. Disconnected => pc \in {"hup", "read"} /\ pc' \in {"run", "loop"}
    BY HandlePlace DEF Disconnected
  <2>3. Read => pc = "read" /\ pc' \in {"run", "loop", "read"}
    BY DEF Read
  <2>4. RunEnds => pc = "run" /\ pc' \in {"run", "loop", "read"}
    BY HandlePlace DEF RunEnds, TypeOK, Task
  <2>5. QED
    BY <2>1, <2>2, <2>3, <2>4
<1>6. Slept => pc = "sleep"
  BY DEF Slept
<1>7. Stopped => pc' = "stopped"
  BY DEF Stopped
<1>8. QED
  BY <1>1, <1>2, <1>3, <1>4, <1>5, <1>6, <1>7 DEF Daemon

LEMMA StopNext ==
  ASSUME TypeOK, StopInv, [Next]_vars
  PROVE  StopInv'
<1>1. /\ now \in Nat /\ late \in 0 .. Lag /\ stopAt \in Nat /\ Lag \in Nat /\ RECONNECT \in Nat /\ wake \in Nat
      /\ fsm.at \in Nat /\ LONG_PRESS \in Nat
  BY TickAssumption DEF TypeOK, Time, Held, Fsm
<1>2. CASE Daemon
  <2>1. UNCHANGED <<now, stopping, stopAt>>
    BY <1>2 DEF Daemon
  <2>2. CASE ~stopping
    BY <2>1, <2>2 DEF StopInv
  <2>3. CASE stopping
    <3>1. pc \notin {"sleep"}
      BY <1>2, <2>3 DEF StopInv, Daemon, Open, NoDevice, Again, Slept, Poll, PollReturns, TimedOut, Disconnected, Drained, Read, RunEnds, Stopped
    <3>2. CASE Poll /\ late' \in {late, 0}
      <4>1. now <= stopAt + late /\ pc' = "wait" /\ wake' = now + PollTimeout
        BY <2>3, <3>2 DEF Poll, StopInv
      <4>2. PollTimeout \in Nat /\ PollTimeout <= RECONNECT
        BY <1>1 DEF PollTimeout
      <4>3. late' \in Nat /\ now <= stopAt + Lag + RECONNECT
        BY <1>1, <3>2, <4>1
      <4>4. \A n, m, d \in Nat : n <= m => n <= m + d
        OBVIOUS
      <4>5. stopAt + Lag + RECONNECT \in Nat
        BY <1>1
      <4>a. now <= stopAt + Lag + RECONNECT + late'
        BY <1>1, <4>3, <4>4, <4>5
      <4>b. wake' <= stopAt + Lag + RECONNECT
        BY <1>1, <4>1, <4>2
      <4>6. QED
        BY <2>1, <4>1, <4>a, <4>b DEF StopInv
    <3>3. CASE pc \notin {"poll", "sleep", "stopped", "dead"} /\ pc' \in {"loop", "timeout", "hup", "read", "run"} /\ late' = late
      BY <2>1, <2>3, <3>3 DEF StopInv
    <3>4. CASE pc' = "stopped"
      BY <3>4 DEF StopInv
    <3>5. QED
      BY <1>2, <2>3, <3>1, <3>2, <3>3, <3>4, StoppingStep
  <2>4. QED
    BY <2>2, <2>3
<1>3. CASE KeyDown \/ KeyUp \/ Unplug \/ Plug
  BY <1>3 DEF KeyDown, KeyUp, Unplug, Plug, daemon, StopInv
<1>4. CASE Signal
  <2>1. stopAt' = now /\ now' = now /\ late' = late /\ pc' \notin {"sleep", "wait", "dead"}
    BY <1>4 DEF Signal, TypeOK
  <2>2. now <= now + late /\ now <= now + Lag + RECONNECT + late
    BY <1>1
  <2>3. QED
    BY <2>1, <2>2 DEF StopInv
<1>5. CASE Die
  BY <1>5 DEF Die, StopInv
<1>6. CASE Restart
  BY <1>6 DEF Restart, StopInv
<1>7. CASE Tick
  <2>1. UNCHANGED <<pc, wake, stopping, stopAt>> /\ now' = now + 1 /\ late' = IF Runnable THEN late + 1 ELSE late
    BY <1>7 DEF Tick, daemon
  <2>2. CASE Runnable
    BY <1>1, <2>1, <2>2 DEF StopInv
  <2>3. CASE ~Runnable /\ stopping
    <3>1. pc \in {"wait", "sleep", "stopped", "dead"} /\ (pc = "wait" => now < wake)
      BY <1>1, <2>3 DEF Runnable, Overdue, PollReady
    <3>2. QED
      BY <1>1, <2>1, <2>3, <3>1 DEF StopInv
  <2>4. QED
    BY <2>1, <2>2, <2>3 DEF StopInv
<1>8. CASE UNCHANGED vars
  BY <1>8 DEF vars, daemon, StopInv
<1>9. QED
  BY <1>2, <1>3, <1>4, <1>5, <1>6, <1>7, <1>8 DEF Next

\* After SIGTERM the daemon is gone within one period of poll and twice the
\* delay of the scheduler, with the helper it was running, whatever it was
\* doing and whatever the key does meanwhile (run_daemon tests `stopping` at
\* every turn, run_action every 20 ms).
THEOREM StopsSoon == Spec => []StopsInTime
<1>1. Init => StopInv
  BY DEF Init, StopInv
<1>2. TypeOK /\ StopInv /\ [Next]_vars => StopInv'
  BY StopNext
<1>3. TypeOK /\ StopInv => StopsInTime
  <2> SUFFICES ASSUME TypeOK, StopInv, stopping, pc \notin {"stopped", "dead"}
               PROVE  now <= stopAt + RECONNECT + 2 * Lag
    BY DEF StopsInTime
  <2>1. now <= stopAt + Lag + RECONNECT + late
    BY DEF StopInv
  <2>2. now \in Nat /\ stopAt \in Nat /\ late \in 0 .. Lag
    BY TickAssumption DEF TypeOK, Time, Held
  <2>3. QED
    BY <2>1, <2>2, TickAssumption
<1>4. QED
  BY <1>1, <1>2, <1>3, KeyTypes, PTL DEF Spec


-----------------------------------------------------------------------------
(* A short press.                                                            *)

\* The press that goes on, and the presses that are over.
On   == IF key THEN presses ELSE 0
Over == (1 .. presses) \ {On}

\* What comes after a press in the buffer b, at place i: its release, a loss,
\* or nothing while it is the press that goes on.
Closes(b, i, id, on) ==
  IF i > Len(b) THEN id = on
  ELSE b[i].ev = "dropped" \/ (b[i].ev = "release" /\ b[i].id = id)

\* The unread events tell of the presses pr as they were.
Sound(b, pr, over, on) ==
  \A i \in 1 .. Len(b) :
    /\ b[i].ev = "press" => b[i].at = pr[b[i].id].down /\ Closes(b, i + 1, b[i].id, on)
    /\ b[i].ev = "release" => b[i].id \in over /\ b[i].at = pr[b[i].id].up

\* A press that is followed and not marked is as it was.
Awaited(b, f, pr, on) ==
  f.pressed /\ ~f.long_fired => f.at = pr[f.id].down /\ Closes(b, 1, f.id, on)

\* The press p is over, and was short.
Short(p, pr, over) == p \in over /\ pr[p].up - pr[p].down \in SHORT_PRESS_MIN .. (LONG_PRESS - 1)

ShortInv ==
  /\ key => presses \in Press
  /\ fd # "open" => buf = <<>>
  /\ fd = "open" /\ ~stopping => Sound(buf, press, Over, On) /\ Awaited(buf, fsm, press, On)
  /\ \A p \in Press : did[p] = <<"short">> => Short(p, press, Over)

\* No unread event is so old that its time stamp is not believed.
Prompt == \A i \in 1 .. Len(buf) : now <= buf[i].at + STALE

\* The presses ps are those of pr, but for the losses.
Same(pr, ps) == \A p \in Press : ps[p].down = pr[p].down /\ ps[p].up = pr[p].up

\* Events that name presses only.
Named(b, f) ==
  /\ \A i \in 1 .. Len(b) : b[i].ev = "press" => b[i].id \in 1 .. presses
  /\ f.pressed => f.id \in 1 .. presses

LEMMA NamedNow == ASSUME PressInv PROVE Named(buf, fsm) /\ presses \in 0 .. MaxPresses /\ 1 .. presses \subseteq Press
  BY TickAssumption DEF PressInv, TypeOK, Unread, Followed, Named, Press

LEMMA SameKeeps ==
  ASSUME NEW b \in Seq(Event), NEW f, Named(b, f), presses \in 0 .. MaxPresses, 1 .. presses \subseteq Press,
         NEW pr, NEW ps, Same(pr, ps)
  PROVE  /\ Sound(b, pr, Over, On) => Sound(b, ps, Over, On)
         /\ Awaited(b, f, pr, On) => Awaited(b, f, ps, On)
         /\ \A p \in Press : Short(p, pr, Over) => Short(p, ps, Over)
<1>1. ASSUME Sound(b, pr, Over, On) PROVE Sound(b, ps, Over, On)
  BY <1>1 DEF Sound, Same, Named, Over
<1>2. ASSUME Awaited(b, f, pr, On) PROVE Awaited(b, f, ps, On)
  BY <1>2 DEF Awaited, Same, Named
<1>3. ASSUME NEW p \in Press, Short(p, pr, Over) PROVE Short(p, ps, Over)
  BY <1>3 DEF Short, Same
<1>4. QED
  BY <1>1, <1>2, <1>3

\* One more event, which ends the press that goes on, if there is one.
LEMMA ClosesAppend ==
  ASSUME NEW b \in Seq(Event), NEW e \in Event, NEW i \in 1 .. (Len(b) + 1), NEW id, NEW on, NEW on2,
         id # on \/ (e.ev = "release" /\ e.id = id), Closes(b, i, id, on)
  PROVE  Closes(Append(b, e), i, id, on2)
<1>1. Len(Append(b, e)) = Len(b) + 1 /\ Len(b) \in Nat
  OBVIOUS
<1>2. CASE i = Len(b) + 1
  <2>1. Append(b, e)[i] = e /\ ~(i > Len(b) + 1) /\ i > Len(b)
    BY <1>1, <1>2
  <2>2. QED
    BY <1>1, <2>1 DEF Closes
<1>3. CASE i \in 1 .. Len(b)
  <2>1. Append(b, e)[i] = b[i] /\ ~(i > Len(b) + 1) /\ ~(i > Len(b))
    BY <1>1, <1>3
  <2>2. QED
    BY <1>1, <2>1 DEF Closes
<1>4. QED
  BY <1>1, <1>2, <1>3

\* The event e goes on from presses as told by the buffer b: the presses that
\* are known began when they did, and those that are over ended when they did.
GoesOn(b, e, f, pr, ps, over, over2, on, on2, known) ==
  /\ over \subseteq over2
  /\ \A p \in known : ps[p].down = pr[p].down
  /\ \A p \in over : ps[p].up = pr[p].up
  /\ \A i \in 1 .. Len(b) : b[i].ev = "press" => b[i].id \in known
  /\ f.pressed => f.id \in known
  /\ \A p \in known : p # on \/ (e.ev = "release" /\ e.id = p)
  /\ e.ev = "press" => e.at = ps[e.id].down /\ e.id = on2
  /\ e.ev = "release" => e.id \in over2 /\ e.at = ps[e.id].up

LEMMA SoundAppend ==
  ASSUME NEW b \in Seq(Event), NEW e \in Event, NEW f,
         NEW pr, NEW ps, NEW over, NEW over2, NEW on, NEW on2, NEW known,
         GoesOn(b, e, f, pr, ps, over, over2, on, on2, known),
         Sound(b, pr, over, on), Awaited(b, f, pr, on)
  PROVE  Sound(Append(b, e), ps, over2, on2) /\ Awaited(Append(b, e), f, ps, on2)
<1>a. /\ over \subseteq over2
      /\ \A p \in known : ps[p].down = pr[p].down
      /\ \A p \in over : ps[p].up = pr[p].up
      /\ \A i \in 1 .. Len(b) : b[i].ev = "press" => b[i].id \in known
      /\ f.pressed => f.id \in known
      /\ \A p \in known : p # on \/ (e.ev = "release" /\ e.id = p)
      /\ e.ev = "press" => e.at = ps[e.id].down /\ e.id = on2
      /\ e.ev = "release" => e.id \in over2 /\ e.at = ps[e.id].up
  BY DEF GoesOn
<1> DEFINE c == Append(b, e)
<1>1. c \in Seq(Event) /\ Len(c) = Len(b) + 1 /\ Len(b) \in Nat /\ c[Len(b) + 1] = e
      /\ \A i \in 1 .. Len(b) : c[i] = b[i]
  OBVIOUS
<1>2. \A i \in 1 .. (Len(b) + 1) : \A p \in known : Closes(b, i, p, on) => Closes(c, i, p, on2)
  BY <1>a, ClosesAppend
<1> HIDE DEF c
<1>3. ASSUME NEW i \in 1 .. Len(c)
      PROVE  /\ c[i].ev = "press" => c[i].at = ps[c[i].id].down /\ Closes(c, i + 1, c[i].id, on2)
             /\ c[i].ev = "release" => c[i].id \in over2 /\ c[i].at = ps[c[i].id].up
  <2>1. CASE i = Len(b) + 1
    <3>1. c[i] = e /\ i + 1 > Len(c)
      BY <1>1, <2>1
    <3>2. Closes(c, i + 1, on2, on2)
      BY <3>1 DEF Closes
    <3>3. QED
      BY <1>a, <3>1, <3>2
  <2>2. CASE i \in 1 .. Len(b)
    <3>1. c[i] = b[i] /\ i + 1 \in 1 .. (Len(b) + 1)
      BY <1>1, <2>2
    <3>2. b[i].ev = "press" => b[i].at = pr[b[i].id].down /\ Closes(b, i + 1, b[i].id, on) /\ b[i].id \in known
      BY <2>2 DEF Sound, GoesOn
    <3>3. b[i].ev = "release" => b[i].id \in over /\ b[i].at = pr[b[i].id].up
      BY <2>2 DEF Sound
    <3>4. QED
      BY <1>2, <1>a, <3>1, <3>2, <3>3
  <2>3. QED
    BY <1>1, <1>3, <2>1, <2>2
<1>4. Sound(c, ps, over2, on2)
  BY <1>3 DEF Sound
<1>5. Awaited(c, f, ps, on2)
  <2>1. 1 \in 1 .. (Len(b) + 1)
    BY <1>1
  <2>2. QED
    BY <1>2, <1>a, <2>1 DEF Awaited
<1>6. QED
  BY <1>4, <1>5 DEF c

\* A buffer that begins with a loss.
LEMMA SoundLoss ==
  ASSUME NEW d \in Event, d.ev = "dropped", NEW e \in Event, NEW f, NEW ps, NEW over, NEW on, NEW b,
         b = <<d, e>> \/ b = <<d>>,
         e.ev = "press" => e.at = ps[e.id].down /\ e.id = on,
         e.ev = "release" => e.id \in over /\ e.at = ps[e.id].up,
         f.pressed /\ ~f.long_fired => f.at = ps[f.id].down
  PROVE  Sound(b, ps, over, on) /\ Awaited(b, f, ps, on)
<1>1. CASE b = <<d, e>>
  <2>1. Len(b) = 2 /\ b[1] = d /\ b[2] = e
    BY <1>1
  <2>2. \A i \in 1 .. Len(b) : i = 1 \/ i = 2
    BY <2>1
  <2>3. Closes(b, 1, f.id, on) /\ Closes(b, 3, on, on)
    BY <2>1 DEF Closes
  <2>4. Sound(b, ps, over, on)
    <3>1. ASSUME NEW i \in 1 .. Len(b)
          PROVE  /\ b[i].ev = "press" => b[i].at = ps[b[i].id].down /\ Closes(b, i + 1, b[i].id, on)
                 /\ b[i].ev = "release" => b[i].id \in over /\ b[i].at = ps[b[i].id].up
      <4>1. CASE i = 1
        BY <2>1, <4>1
      <4>2. CASE i = 2
        BY <2>1, <2>3, <4>2
      <4>3. QED
        BY <2>2, <4>1, <4>2
    <3>2. QED
      BY <3>1 DEF Sound
  <2>5. QED
    BY <2>3, <2>4 DEF Awaited
<1>2. CASE b = <<d>>
  <2>1. Len(b) = 1 /\ b[1] = d
    BY <1>2
  <2>2. \A i \in 1 .. Len(b) : i = 1
    BY <2>1
  <2>3. Closes(b, 1, f.id, on)
    BY <2>1 DEF Closes
  <2>4. Sound(b, ps, over, on)
    BY <2>1, <2>2 DEF Sound
  <2>5. QED
    BY <2>3, <2>4 DEF Awaited
<1>3. QED
  BY <1>1, <1>2

\* One event less.
LEMMA SoundTail ==
  ASSUME NEW b \in Seq(Event), b # <<>>, NEW pr, NEW over, NEW on, Sound(b, pr, over, on)
  PROVE  /\ Sound(Tail(b), pr, over, on)
         /\ \A id : Closes(b, 2, id, on) => Closes(Tail(b), 1, id, on)
<1> DEFINE c == Tail(b)
<1>1. Len(c) = Len(b) - 1 /\ Len(b) \in Nat \ {0} /\ \A i \in 1 .. Len(c) : i + 1 \in 1 .. Len(b) /\ c[i] = b[i + 1]
  OBVIOUS
<1> HIDE DEF c
<1>2. \A id : \A i \in 1 .. Len(b) : Closes(b, i + 1, id, on) => Closes(c, i, id, on)
  <2> SUFFICES ASSUME NEW id, NEW i \in 1 .. Len(b), Closes(b, i + 1, id, on)
               PROVE  Closes(c, i, id, on)
    OBVIOUS
  <2>1. CASE i = Len(b)
    <3>1. i > Len(c) /\ i + 1 > Len(b)
      BY <1>1, <2>1
    <3>2. QED
      BY <3>1 DEF Closes
  <2>2. CASE i \in 1 .. Len(c)
    <3>1. ~(i > Len(c)) /\ ~(i + 1 > Len(b)) /\ c[i] = b[i + 1]
      BY <1>1, <2>2
    <3>2. QED
      BY <3>1 DEF Closes
  <2>3. QED
    BY <1>1, <2>1, <2>2
<1>3. Sound(c, pr, over, on)
  <2>1. ASSUME NEW i \in 1 .. Len(c)
        PROVE  /\ c[i].ev = "press" => c[i].at = pr[c[i].id].down /\ Closes(c, i + 1, c[i].id, on)
               /\ c[i].ev = "release" => c[i].id \in over /\ c[i].at = pr[c[i].id].up
    <3>1. c[i] = b[i + 1] /\ i + 1 \in 1 .. Len(b)
      BY <1>1
    <3>2. QED
      BY <1>2, <3>1 DEF Sound
  <2>2. QED
    BY <2>1 DEF Sound
<1>4. 1 \in 1 .. Len(b) /\ 1 + 1 = 2
  BY <1>1
<1>5. QED
  BY <1>2, <1>3, <1>4 DEF c

-----------------------------------------------------------------------------
(* The steps.                                                                *)

\* Handling an event runs the short helper only at the end of a short press.
LEMMA HandleRuns ==
  ASSUME PressInv, NEW task \in Task, Handle(task) \/ Finish(task),
         NEW p \in Press, did'[p] = <<"short">>
  PROVE  \/ did[p] = <<"short">>
         \/ p = fsm.id /\ EndsShort(fsm, task) /\ (Handle(task) => ~Fires(task.at))
<1>1. TypeOK /\ OneActionPerPress /\ fsm \in Fsm /\ task.back \in {"loop", "read"} /\ did \in [Press -> Seq({"short", "long"})]
  BY DEF PressInv, TypeOK, Task
<1>2. fsm.pressed /\ ~fsm.long_fired => fsm.id \in Press /\ did[fsm.id] = <<>>
  BY <1>1, NamedNow DEF PressInv, Followed, Named
<1>3. CASE Fires(task.at) /\ RunAction("long", task)
  <2>1. did'[fsm.id] = <<"long">> /\ \A q \in Press : did'[q] = did[q] \/ q = fsm.id
    BY <1>1, <1>2, <1>3, RunActionDoes DEF Fires
  <2>2. <<"long">> # <<"short">>
    OBVIOUS
  <2>3. QED
    BY <2>1, <2>2
<1>4. CASE Finish(task) /\ (Handle(task) => ~Fires(task.at))
  <2>1. CASE EndsShort(fsm, task)
    <3>1. RunAction("short", Nothing(task.back)) /\ Nothing(task.back) \in Task
      BY <1>1, <1>4, <2>1, NothingType DEF Finish
    <3>2. fsm.id \in Press /\ did[fsm.id] = <<>>
      BY <1>2, <2>1 DEF EndsShort
    <3>3. \A q \in Press : did'[q] = did[q] \/ q = fsm.id
      BY <1>1, <3>1, <3>2, RunActionDoes
    <3>4. QED
      BY <1>4, <2>1, <3>3
  <2>2. CASE ~EndsShort(fsm, task)
    BY <1>4, <2>2 DEF Finish
  <2>3. QED
    BY <2>1, <2>2
<1>5. CASE Finish(task) /\ Handle(task) /\ Fires(task.at)
  <2>1. RunAction("long", task)
    BY <1>5 DEF Handle
  <2>2. QED
    BY <1>3, <1>5, <2>1
<1>6. QED
  BY <1>3, <1>4, <1>5 DEF Handle

\* The press it leaves to be followed, not marked, is the one of before or new.
LEMMA HandleFollows ==
  ASSUME PressInv, NEW task \in Task, Handle(task) \/ Finish(task),
         fsm'.pressed, ~fsm'.long_fired
  PROVE  \/ fsm' = fsm /\ (task.ev \in {"none", "press"} \/ ~fsm.pressed)
         \/ /\ task.ev = "press" /\ ~fsm.pressed
            /\ fsm'.at = task.at /\ fsm'.id = task.id
<1>1. fsm \in Fsm /\ ~Reset(TRUE).pressed /\ ~Reset(FALSE).pressed
  BY ResetType DEF PressInv, TypeOK
<1>2. fsm' # Marked
  BY DEF Marked
<1>3. fsm' = IF task.ev = "none" THEN fsm ELSE AfterEvent(fsm, task)
  BY <1>2 DEF Handle, Finish
<1>4. CASE task.ev = "none"
  BY <1>3, <1>4
<1>5. CASE task.ev = "press"
  <2>1. fsm' = AfterEvent(fsm, task) /\ task.ev # "none"
    BY <1>3, <1>5
  <2>2. CASE fsm' = fsm
    BY <1>5, <2>2
  <2>3. CASE fsm' = [pressed |-> TRUE, long_fired |-> FALSE, ignore |-> FALSE, at |-> task.at, id |-> task.id] /\ ~fsm.pressed
    BY <1>5, <2>3
  <2>4. QED
    BY <1>1, <2>1, <2>2, <2>3, AfterEventIs
<1>6. CASE task.ev = "release"
  BY <1>1, <1>3, <1>6, AfterEventIs
<1>7. CASE task.ev \in {"dropped", "disconnect"}
  BY <1>1, <1>3, <1>7 DEF AfterEvent
<1>8. QED
  BY <1>4, <1>5, <1>6, <1>7 DEF Task

\* The task of a helper does not end a short press: a press with a helper that
\* is waited for is marked.
LEMMA TodoIsLong == ASSUME PressInv PROVE ~EndsShort(fsm, todo)
  BY DEF PressInv, Pending, EndsShort

LEMMA ShortReads ==
  ASSUME PressInv, ShortInv, Prompt, Read, ~stopping, UNCHANGED <<key, presses, press, stopping>>
  PROVE  ShortInv'
<1> DEFINE e == Head(buf)
           task == [ev |-> e.ev, at |-> EventTime(e), id |-> e.id, back |-> "read"]
<1>1. fd = "open" /\ fd' = fd /\ buf # <<>> /\ buf' = Tail(buf) /\ Handle(task)
  BY DEF Read
<1>2. /\ TypeOK /\ buf \in Seq(Event) /\ now \in Time /\ fsm \in Fsm /\ presses \in 0 .. MaxPresses
      /\ press \in Presses /\ LONG_PRESS \in Nat /\ SHORT_PRESS_MIN \in Nat /\ STALE \in Nat /\ MaxTime \in Nat
  BY TickAssumption DEF PressInv, TypeOK, Presses
<1>3. Sound(buf, press, Over, On) /\ Awaited(buf, fsm, press, On)
  BY <1>1 DEF ShortInv
<1>4. e = buf[1] /\ e \in Event /\ 1 \in 1 .. Len(buf) /\ ~(1 > Len(buf)) /\ 1 + 1 = 2
  BY <1>1, <1>2
<1>5. EventTime(e) = e.at
  <2>1. now <= e.at + STALE /\ e.at \in Nat /\ now \in Nat
    BY <1>2, <1>4 DEF Prompt, Event, Time
  <2>2. QED
    BY <1>2, <2>1 DEF EventTime
<1> HIDE DEF e
<1>6. task \in Task /\ task.ev = e.ev /\ task.at = e.at /\ task.id = e.id
  BY <1>4, <1>5 DEF Task, Event
<1>7. On' = On /\ Over' = Over
  BY DEF On, Over
<1>8. Sound(buf', press, Over, On) /\ \A id : Closes(buf, 2, id, On) => Closes(buf', 1, id, On)
  BY <1>1, <1>2, <1>3, SoundTail
<1>9. /\ e.ev = "press" => e.at = press[e.id].down /\ Closes(buf, 2, e.id, On)
      /\ e.ev = "release" => e.id \in Over /\ e.at = press[e.id].up
  BY <1>3, <1>4 DEF Sound
<1>10. fsm.pressed /\ ~fsm.long_fired =>
          fsm.at = press[fsm.id].down /\ (e.ev = "dropped" \/ (e.ev = "release" /\ e.id = fsm.id))
  BY <1>3, <1>4 DEF Awaited, Closes
<1> HIDE DEF task
<1>11. Awaited(buf', fsm', press, On)
  <2>1. SUFFICES ASSUME fsm'.pressed, ~fsm'.long_fired
                 PROVE  fsm'.at = press[fsm'.id].down /\ Closes(buf', 1, fsm'.id, On)
    BY DEF Awaited
  <2>2. \/ fsm' = fsm /\ (task.ev \in {"none", "press"} \/ ~fsm.pressed)
        \/ task.ev = "press" /\ ~fsm.pressed /\ fsm'.at = task.at /\ fsm'.id = task.id
    BY <1>1, <1>6, <2>1, HandleFollows
  <2>3. e.ev # "none"
    BY <1>4 DEF Event
  <2>4. ~(fsm' = fsm /\ (task.ev \in {"none", "press"} \/ ~fsm.pressed))
    BY <1>6, <1>10, <2>1, <2>3
  <2>5. QED
    BY <1>6, <1>8, <1>9, <2>2, <2>4
<1>12. ASSUME NEW p \in Press, did'[p] = <<"short">>
       PROVE  Short(p, press, Over)
  <2>1. CASE did[p] = <<"short">>
    BY <2>1 DEF ShortInv
  <2>2. CASE p = fsm.id /\ EndsShort(fsm, task) /\ ~Fires(task.at)
    <3>1. /\ e.ev = "release" /\ fsm.pressed /\ ~fsm.long_fired /\ ~fsm.ignore
          /\ e.at >= fsm.at + SHORT_PRESS_MIN /\ ~(e.at >= fsm.at + LONG_PRESS)
      BY <1>6, <2>2 DEF EndsShort, Fires
    <3>2. e.id = p /\ p \in Over /\ e.at = press[p].up /\ fsm.at = press[p].down
      BY <1>9, <1>10, <2>2, <3>1
    <3>3. e.at \in Nat /\ fsm.at \in Nat
      BY <1>2, <1>4 DEF Event, Fsm, Time
    <3>4. e.at - fsm.at \in SHORT_PRESS_MIN .. (LONG_PRESS - 1)
      BY <1>2, <3>1, <3>3
    <3>5. QED
      BY <3>2, <3>4 DEF Short
  <2>3. QED
    BY <1>1, <1>6, <1>12, <2>1, <2>2, HandleRuns
<1>13. QED
  BY <1>1, <1>7, <1>8, <1>11, <1>12 DEF ShortInv

LEMMA ShortDaemon ==
  ASSUME PressInv, ShortInv, Prompt, Daemon
  PROVE  ShortInv'
<1>1. UNCHANGED <<key, presses, press, stopping>> /\ On' = On /\ Over' = Over
  BY DEF Daemon, input, On, Over
<1>2. fsm \in Fsm /\ ~Reset(TRUE).pressed /\ ~Reset(FALSE).pressed
  BY ResetType DEF PressInv, TypeOK
<1>3. CASE NoDevice \/ Again \/ Slept \/ Poll \/ PollReturns \/ Drained
  <2>1. UNCHANGED <<buf, fd, fsm, did>>
    BY <1>3 DEF NoDevice, Again, Slept, Poll, PollReturns, Drained
  <2>2. QED
    BY <1>1, <2>1 DEF ShortInv
<1>4. CASE Open
  <2>1. buf = <<>> /\ buf' = <<>> /\ did' = did /\ ~fsm'.pressed
    <3>1. fsm' = Reset(key) /\ key \in BOOLEAN
      BY <1>4 DEF Open, PressInv, TypeOK
    <3>2. QED
      BY <1>4, <3>1, ResetType DEF Open, ShortInv
  <2>2. Sound(<<>>, press, Over, On)
    BY DEF Sound
  <2>3. QED
    BY <1>1, <2>1, <2>2 DEF ShortInv, Awaited
<1>5. CASE Stopped
  BY <1>1, <1>5 DEF Stopped, ShortInv
<1>6. CASE TimedOut
  <2> DEFINE task == [ev |-> "none", at |-> now, id |-> 0, back |-> "loop"]
  <2>1. task \in Task /\ task.ev = "none" /\ Handle(task) /\ ~EndsShort(fsm, task)
    BY <1>6, TickAssumption DEF TimedOut, Task, EndsShort, PressInv, TypeOK
  <2> HIDE DEF task
  <2>2. \A p \in Press : did'[p] = <<"short">> => did[p] = <<"short">>
    BY <2>1, HandleRuns
  <2>3. fsm'.pressed /\ ~fsm'.long_fired => fsm' = fsm
    BY <2>1, HandleFollows
  <2>4. buf' = buf /\ fd' = fd
    BY <1>6 DEF TimedOut
  <2>5. QED
    BY <1>1, <2>2, <2>3, <2>4 DEF ShortInv, Awaited
<1>7. CASE Disconnected
  <2>1. PICK t \in 0 .. now : Handle([ev |-> "disconnect", at |-> t, id |-> 0, back |-> "loop"])
    BY <1>7 DEF Disconnected
  <2> DEFINE task == [ev |-> "disconnect", at |-> t, id |-> 0, back |-> "loop"]
  <2>2. task \in Task /\ Handle(task) /\ ~EndsShort(fsm, task)
    BY <2>1, TickAssumption DEF Task, Time, EndsShort, PressInv, TypeOK
  <2> HIDE DEF task
  <2>3. \A p \in Press : did'[p] = <<"short">> => did[p] = <<"short">>
    BY <2>2, HandleRuns
  <2>4. buf' = <<>> /\ fd' = "closed"
    BY <1>7 DEF Disconnected
  <2>5. QED
    BY <1>1, <2>3, <2>4 DEF ShortInv
<1>8. CASE Read
  <2>1. CASE stopping
    <3>1. did' = did /\ stopping' /\ fd' = "open"
      BY <1>1, <1>8, <2>1 DEF Read
    <3>2. QED
      BY <1>1, <3>1 DEF ShortInv
  <2>2. QED
    BY <1>1, <1>8, <2>1, ShortReads
<1>9. CASE RunEnds
  <2>1. todo \in Task /\ Finish(todo) /\ buf' = buf /\ fd' = fd
    BY <1>9 DEF RunEnds, PressInv, TypeOK
  <2>2. \A p \in Press : did'[p] = <<"short">> => did[p] = <<"short">>
    BY <2>1, HandleRuns, TodoIsLong
  <2>3. fsm'.pressed /\ ~fsm'.long_fired => fsm' = fsm
    <3>1. todo.ev # "none" => fsm.pressed
      BY DEF PressInv, Pending
    <3>2. QED
      BY <2>1, <3>1, HandleFollows
  <2>4. QED
    BY <1>1, <2>1, <2>2, <2>3 DEF ShortInv, Awaited
<1>10. QED
  BY <1>3, <1>4, <1>5, <1>6, <1>7, <1>8, <1>9 DEF Daemon

\* The key adds an event to the buffer, or loses some.
LEMMA ShortPush ==
  ASSUME PressInv, ShortInv, NEW e \in Event, NEW pr \in Presses, Push(e, pr),
         UNCHANGED <<fd, fsm, stopping, did>>, On' \in Nat, Over \subseteq Over',
         \A p \in Over : pr[p] = press[p],
         \A p \in 1 .. presses : pr[p].down = press[p].down,
         \A p \in 1 .. presses : p # On \/ (e.ev = "release" /\ e.id = p),
         key' => presses' \in Press,
         e.ev = "press" => e.id \in Press /\ e.at = pr[e.id].down /\ e.id = On',
         e.ev = "release" => e.id \in Press /\ e.id \in Over' /\ e.at = pr[e.id].up
  PROVE  ShortInv'
<1>1. buf \in Seq(Event) /\ Named(buf, fsm) /\ 1 .. presses \subseteq Press /\ Len(buf) <= BufSize + 1 /\ now \in Time
  BY NamedNow DEF PressInv, TypeOK
<1>2. Same(pr, press')
  <2>1. press' = pr \/ press' = Losing(pr)
    BY Zenon DEF Push
  <2>2. Same(pr, Losing(pr))
    BY DEF Same, Losing
  <2>3. QED
    BY <2>1, <2>2 DEF Same
<1>3. Over \subseteq 1 .. presses
  BY DEF Over
<1>4. /\ \A p \in 1 .. presses : press'[p].down = press[p].down
      /\ \A p \in Over : press'[p].up = press[p].up
      /\ e.ev = "press" => e.at = press'[e.id].down /\ e.id = On'
      /\ e.ev = "release" => e.id \in Over' /\ e.at = press'[e.id].up
  BY <1>1, <1>2, <1>3 DEF Same
<1>5. \A p \in Press : did'[p] = <<"short">> => Short(p, press', Over')
  BY <1>3, <1>4 DEF ShortInv, Short
<1>6. CASE fd # "open"
  BY <1>5, <1>6, Zenon DEF Push, ShortInv
<1>7. CASE fd = "open" /\ stopping
  BY <1>5, <1>7 DEF ShortInv
<1>8. CASE fd = "open" /\ ~stopping
  <2>1. Sound(buf, press, Over, On) /\ Awaited(buf, fsm, press, On)
    BY <1>8 DEF ShortInv
  <2>2. CASE buf' = Append(buf, e)
    <3>1. Sound(Append(buf, e), press', Over', On') /\ Awaited(Append(buf, e), fsm, press', On')
      <4> DEFINE known == 1 .. presses
                 over2 == Over'
                 on2 == On'
                 ps == press'
      <4>1. /\ \A i \in 1 .. Len(buf) : buf[i].ev = "press" => buf[i].id \in known
            /\ fsm.pressed => fsm.id \in known
            /\ \A p \in known : ps[p].down = press[p].down
            /\ \A p \in known : p # On \/ (e.ev = "release" /\ e.id = p)
            /\ \A p \in Over : ps[p].up = press[p].up
            /\ Over \subseteq over2
            /\ e.ev = "press" => e.at = ps[e.id].down /\ e.id = on2
            /\ e.ev = "release" => e.id \in over2 /\ e.at = ps[e.id].up
        BY <1>1, <1>4 DEF Named
      <4> HIDE DEF known, over2, on2, ps
      <4>2. GoesOn(buf, e, fsm, press, ps, Over, over2, On, on2, known)
        BY <4>1 DEF GoesOn
      <4>3. Sound(Append(buf, e), ps, over2, on2) /\ Awaited(Append(buf, e), fsm, ps, on2)
        BY <1>1, <2>1, <4>2, SoundAppend
      <4>4. QED
        BY <4>3 DEF over2, on2, ps
    <3>2. QED
      BY <1>5, <1>8, <2>2, <3>1 DEF ShortInv
  <2>3. CASE Len(buf) = BufSize
    <3> DEFINE d == [ev |-> "dropped", at |-> now, id |-> 0]
    <3>1. d \in Event /\ d.ev = "dropped"
      BY <1>1, TickAssumption DEF Event
    <3>2. buf' = <<d, e>> \/ buf' = <<d>> \/ buf' = Append(buf, e)
      BY <1>8, Zenon DEF Push
    <3>3. fsm.pressed /\ ~fsm.long_fired => fsm.at = press'[fsm.id].down
      BY <1>1, <1>4, <2>1 DEF Awaited, Named
    <3> HIDE DEF d
    <3>4. CASE buf' = <<d, e>> \/ buf' = <<d>>
      <4>1. Sound(buf', press', Over', On') /\ Awaited(buf', fsm, press', On')
        <5> DEFINE b == buf'
                   ps == press'
                   over2 == Over'
                   on2 == On'
        <5>1. /\ b = <<d, e>> \/ b = <<d>>
              /\ e.ev = "press" => e.at = ps[e.id].down /\ e.id = on2
              /\ e.ev = "release" => e.id \in over2 /\ e.at = ps[e.id].up
              /\ fsm.pressed /\ ~fsm.long_fired => fsm.at = ps[fsm.id].down
          BY <1>4, <3>3, <3>4
        <5> HIDE DEF b, ps, over2, on2
        <5>2. Sound(b, ps, over2, on2) /\ Awaited(b, fsm, ps, on2)
          BY <3>1, <5>1, SoundLoss
        <5>3. QED
          BY <5>2 DEF b, ps, over2, on2
      <4>2. QED
        BY <1>5, <1>8, <4>1 DEF ShortInv
    <3>5. QED
      BY <2>2, <3>2, <3>4
  <2>4. QED
    BY <1>8, <2>2, <2>3, Zenon DEF Push
<1>9. QED
  BY <1>6, <1>7, <1>8

LEMMA ShortKeyDown == ASSUME PressInv, ShortInv, KeyDown PROVE ShortInv'
<1>1. /\ presses \in 0 .. MaxPresses /\ presses < MaxPresses /\ presses' = presses + 1 /\ ~key /\ key' = TRUE
      /\ now \in Time /\ press \in Presses /\ presses' \in Press /\ presses' \in 0 .. MaxPresses
  BY TickAssumption DEF KeyDown, PressInv, TypeOK, Press, Presses
<1> DEFINE e == [ev |-> "press", at |-> now, id |-> presses']
           c == (fd = "open" /\ ~blind)
           new == [down |-> now, up |-> Held, clear |-> c]
           pr == [press EXCEPT ![presses'] = new]
<1>2. Push(e, pr)
  BY Zenon DEF KeyDown
<1>3. UNCHANGED <<fd, fsm, stopping, did>>
  BY DEF KeyDown, daemon
<1>4. c \in BOOLEAN /\ Held \in 0 .. Held
  BY TickAssumption DEF Held
<1>5. On = 0 /\ On' = presses' /\ Over = 1 .. presses /\ Over' = 1 .. presses
  BY <1>1 DEF On, Over
<1>6. e \in Event /\ e.ev = "press" /\ e.id = presses' /\ e.at = now
  BY <1>1 DEF Event
<1>7. new \in [down : Time, up : 0 .. Held, clear : BOOLEAN] /\ new.down = now
  <2> HIDE DEF c
  <2>1. QED
    BY <1>1, <1>4
<1> HIDE DEF new
<1>8. pr \in Presses /\ pr[presses'] = new /\ \A p \in 1 .. presses : pr[p] = press[p]
  BY <1>1, <1>7 DEF Presses
<1> HIDE DEF e, pr
<1>9. /\ \A p \in 1 .. presses : p # On
      /\ On' \in Nat
  BY <1>1, <1>5
<1>10. QED
  BY <1>1, <1>2, <1>3, <1>5, <1>6, <1>7, <1>8, <1>9, ShortPush

LEMMA ShortKeyUp == ASSUME PressInv, ShortInv, KeyUp PROVE ShortInv'
<1>1. /\ presses \in 0 .. MaxPresses /\ presses' = presses /\ key /\ key' = FALSE
      /\ now \in Time /\ press \in Presses
  BY DEF KeyUp, PressInv, TypeOK, Presses
<1> DEFINE e == [ev |-> "release", at |-> now, id |-> presses]
           pr == [press EXCEPT ![presses].up = now]
<1>2. Push(e, pr)
  BY DEF KeyUp
<1>3. UNCHANGED <<fd, fsm, stopping, did>>
  BY DEF KeyUp, daemon
<1>4. presses \in Press /\ now \in 0 .. Held
  BY <1>1, TickAssumption DEF ShortInv, Held, Time
<1>5. On = presses /\ On' = 0 /\ Over = (1 .. presses) \ {presses} /\ Over' = 1 .. presses /\ presses \in 1 .. presses
  BY <1>1, <1>4, TickAssumption DEF On, Over, Press
<1>6. e \in Event /\ e.ev = "release" /\ e.id = presses /\ e.at = now
  BY <1>1 DEF Event
<1>7. /\ pr \in Presses /\ pr[presses].up = now
      /\ \A p \in Press : pr[p].down = press[p].down /\ (p # presses => pr[p] = press[p])
  BY <1>1, <1>4 DEF Presses
<1>8. 1 .. presses \subseteq Press
  BY NamedNow
<1> HIDE DEF e, pr
<1>9. (\A p \in Over : pr[p] = press[p]) /\ On' \in Nat /\ Over \subseteq Over' /\ e.id \in Over'
  BY <1>5, <1>6, <1>7, <1>8
<1>10. \A p \in 1 .. presses : p # On \/ (e.ev = "release" /\ e.id = p)
  BY <1>5, <1>6
<1>11. QED
  <2>1. \A p \in 1 .. presses : pr[p].down = press[p].down
    BY <1>7, <1>8
  <2>2. QED
    BY <1>1, <1>2, <1>3, <1>4, <1>6, <1>7, <1>9, <1>10, <2>1, ShortPush

LEMMA ShortOther ==
  ASSUME PressInv, ShortInv, Unplug \/ Plug \/ Signal \/ Die \/ Restart \/ Tick
  PROVE  ShortInv'
<1>0. UNCHANGED <<key, presses, did>>
  BY DEF Unplug, Plug, Signal, Die, Restart, Tick, input, daemon
<1>1. UNCHANGED <<key, presses, did>> /\ On' = On /\ Over' = Over
  BY <1>0 DEF On, Over
<1>2. press' = press \/ press' = Losing(press)
  BY DEF Unplug, Plug, Signal, Die, Restart, Tick
<1>3. Same(press, press')
  BY <1>2 DEF Same, Losing
<1>4. buf \in Seq(Event) /\ Named(buf, fsm) /\ presses \in 0 .. MaxPresses /\ 1 .. presses \subseteq Press
  BY NamedNow DEF PressInv, TypeOK
<1>5. \A p \in Press : did'[p] = <<"short">> => Short(p, press', Over')
  BY <1>1, <1>3, <1>4, SameKeeps DEF ShortInv
<1>6. CASE Unplug \/ Die
  <2>1. buf' = <<>> /\ fd' # "open"
    BY <1>6 DEF Unplug, Die
  <2>2. QED
    BY <1>1, <1>5, <2>1 DEF ShortInv
<1>7. CASE Plug \/ Signal \/ Restart \/ Tick
  <2>1. UNCHANGED <<buf, fd, fsm>> /\ (stopping => stopping')
    BY <1>7 DEF Plug, Signal, Restart, Tick, input, daemon
  <2>2. Sound(buf, press, Over, On) /\ Awaited(buf, fsm, press, On) =>
        Sound(buf, press', Over, On) /\ Awaited(buf, fsm, press', On)
    BY <1>3, <1>4, SameKeeps
  <2>3. QED
    BY <1>1, <1>5, <2>1, <2>2 DEF ShortInv
<1>8. QED
  BY <1>6, <1>7

LEMMA ShortNext == PressInv /\ ShortInv /\ Prompt /\ [Next]_vars => ShortInv'
<1>1. SUFFICES ASSUME PressInv, ShortInv, Prompt, [Next]_vars PROVE ShortInv'
  OBVIOUS
<1>2. CASE UNCHANGED vars
  BY <1>1, <1>2 DEF vars, ShortInv, On, Over
<1>3. QED
  BY <1>1, <1>2, ShortDaemon, ShortKeyDown, ShortKeyUp, ShortOther DEF Next

\* The short helper runs only for a press that was short, however late the
\* daemon is and whatever was dropped, unplugged or restarted in between, as
\* long as it does not leave an event unread for longer than the time after
\* which input_event_ms takes the present for the time of the event.
THEOREM ShortOnlyForShort == Spec /\ []Prompt => []ShortWasShort
<1>1. Init => ShortInv
  <2>1. ASSUME Init PROVE /\ buf = <<>> /\ fd = "closed" /\ ~key
                          /\ \A p \in Press : did[p] = <<>>
    BY <2>1 DEF Init
  <2>2. <<>> # <<"short">>
    OBVIOUS
  <2>3. QED
    BY <2>1, <2>2 DEF ShortInv
<1>2. ShortInv => ShortWasShort
  BY DEF ShortInv, Short, ShortWasShort
<1>3. QED
  BY <1>1, <1>2, PressInit, PressNext, ShortNext, PTL DEF Spec

-----------------------------------------------------------------------------
(* Every press is answered. *)

\* The state machine once the helper it waits for has ended.
Then == IF todo.ev = "none" THEN fsm ELSE AfterEvent(fsm, todo)

\* It takes the next press for one.
Idle(f) == ~f.pressed /\ ~f.ignore

\* The times of the presses: those that are over have ended by now.
Timed ==
  \A p \in 1 .. presses :
    /\ press[p].down <= now
    /\ p \in Over => press[p].up <= now
    /\ p = On => press[p].up = Held

\* A loss comes first in the buffer: what was there before is gone.
LossFirst == \A i \in 2 .. Len(buf) : buf[i].ev # "dropped"

\* An unread press that can be followed will find the state machine idle.
Ready ==
  \A i \in 1 .. Len(buf) : buf[i].ev = "press" /\ press[buf[i].id].clear =>
     /\ i = 1 => Idle(Then)
     /\ i = 2 => buf[1].ev # "dropped"

\* While the key is up the next press will find it so.
Rested ==
  ~key /\ fd = "open" /\ ~blind =>
     IF buf = <<>> THEN Idle(Then) ELSE buf[Len(buf)].ev = "release"

\* The press that is followed hears of its release next.
Kept ==
  fsm.pressed /\ ~fsm.long_fired /\ press[fsm.id].clear =>
     fd = "open" /\ (buf # <<>> => buf[1].ev # "dropped")

\* A press that can be followed and has run nothing is unread, is followed, or was a bounce.
Accounted ==
  \A p \in 1 .. presses : press[p].clear /\ did[p] = <<>> =>
     \/ \E i \in 1 .. Len(buf) : buf[i].ev = "press" /\ buf[i].id = p
     \/ fsm.pressed /\ fsm.id = p
     \/ p \in Over /\ press[p].up - press[p].down < SHORT_PRESS_MIN

\* The long helper ran for a press that was long, but for the delay of the scheduler.
WasLong(p) ==
  IF p = On THEN press[p].down + LONG_PRESS <= now
  ELSE press[p].down + LONG_PRESS <= press[p].up + Lag

LongOnes == \A p \in 1 .. presses : press[p].clear /\ did[p] = <<"long">> => WasLong(p)

\* What arrives after poll has timed out is as recent as the daemon is late.
Recent == pc = "timeout" => \A i \in 1 .. Len(buf) : now <= buf[i].at + late

\* poll does not outlast the press that is followed.
InTime ==
  pc = "wait" /\ fsm.pressed /\ ~fsm.long_fired => wake <= now \/ wake <= fsm.at + LONG_PRESS

\* A hang-up is that of a device that has left.
Gone == pc = "hup" => fd = "gone"

\* What becomes of the presses, while the daemon is not told to stop.
Traced == LossFirst /\ Ready /\ Rested /\ Kept /\ Accounted /\ LongOnes

AnswerInv == ~stopping => Traced /\ Recent /\ InTime /\ Gone

-----------------------------------------------------------------------------

\* The answers are told apart.
LEMMA AnswersDiffer == <<"long">> # <<>> /\ <<"short">> # <<>> /\ <<"short">> # <<"long">>
<1>1. Len(<<"long">>) = 1 /\ Len(<<"short">>) = 1 /\ Len(<<>>) = 0
  OBVIOUS
<1>2. <<"short">>[1] # <<"long">>[1]
  OBVIOUS
<1>3. QED  BY <1>1, <1>2

\* The press that is followed is a press, and unanswered while it is not marked.
LEMMA FollowedIs ==
  ASSUME PressInv, fsm.pressed
  PROVE  /\ fsm.id \in 1 .. presses /\ fsm.id \in Press /\ ~fsm.ignore
         /\ ~fsm.long_fired => did[fsm.id] = <<>>
         /\ fsm.long_fired => did[fsm.id] = <<"long">>
  BY NamedNow DEF PressInv, Followed, Named

\* The only presses p whose answer changes are followed; what they get is a.
Adds(p, a) == did'[p] = a /\ \A q \in Press : q # p => did'[q] = did[q]

\* The ways fsm_handle can end: the long helper is started, the short one is, or none.
FiresLong(task) ==
  /\ Fires(task.at) /\ fsm' = Marked /\ Adds(fsm.id, <<"long">>)
  /\ todo' = task /\ pc' = "run"

EndsPress(task) ==
  /\ ~Fires(task.at) /\ EndsShort(fsm, task) /\ fsm' = AfterEvent(fsm, task) /\ Adds(fsm.id, <<"short">>)
  /\ todo'.ev = "none" /\ pc' = "run"

RunsNothing(task) ==
  /\ ~Fires(task.at) /\ ~EndsShort(fsm, task) /\ did' = did
  /\ fsm' = IF task.ev = "none" THEN fsm ELSE AfterEvent(fsm, task)
  /\ todo'.ev = "none" /\ pc' = task.back

LEMMA HandleEnds ==
  ASSUME PressInv, NEW task \in Task, Handle(task)
  PROVE  FiresLong(task) \/ EndsPress(task) \/ RunsNothing(task)
<1>1. TypeOK /\ OneActionPerPress /\ task.back \in {"loop", "read"}
  BY DEF PressInv, Task
<1>2. CASE Fires(task.at) /\ fsm' = Marked /\ RunAction("long", task)
  <2>1. fsm.pressed /\ ~fsm.long_fired
    BY <1>2 DEF Fires
  <2>2. fsm.id \in Press /\ did[fsm.id] = <<>>
    BY <2>1, FollowedIs
  <2>3. did'[fsm.id] = <<"long">> /\ (\A q \in Press : did'[q] = did[q] \/ q = fsm.id) /\ pc' = "run" /\ todo' = task
    BY <1>1, <1>2, <2>2, RunActionDoes
  <2>4. QED
    BY <1>2, <2>3 DEF FiresLong, Adds
<1>3. CASE ~Fires(task.at) /\ Finish(task) /\ EndsShort(fsm, task)
  <2>1. fsm.pressed /\ ~fsm.long_fired /\ task.ev = "release"
    BY <1>3 DEF EndsShort
  <2>2. fsm.id \in Press /\ did[fsm.id] = <<>>
    BY <2>1, FollowedIs
  <2>3. RunAction("short", Nothing(task.back)) /\ Nothing(task.back) \in Task /\ Nothing(task.back).ev = "none"
    BY <1>1, <1>3, NothingType DEF Finish
  <2>4. /\ did'[fsm.id] = <<"short">> /\ \A q \in Press : did'[q] = did[q] \/ q = fsm.id
        /\ pc' = "run" /\ todo' = Nothing(task.back)
    BY <1>1, <2>2, <2>3, RunActionDoes
  <2>5. fsm' = AfterEvent(fsm, task)
    BY <1>3, <2>1 DEF Finish
  <2>6. QED
    BY <1>3, <2>3, <2>4, <2>5 DEF EndsPress, Adds
<1>4. CASE ~Fires(task.at) /\ Finish(task) /\ ~EndsShort(fsm, task)
  <2>1. did' = did /\ pc' = task.back /\ todo' = Nothing("loop")
    BY <1>4 DEF Finish
  <2>2. Nothing("loop").ev = "none"
    BY NothingType
  <2>3. fsm' = IF task.ev = "none" THEN fsm ELSE AfterEvent(fsm, task)
    BY <1>4 DEF Finish
  <2>4. QED
    BY <1>4, <2>1, <2>2, <2>3, Zenon DEF RunsNothing
<1>5. QED
  BY <1>2, <1>3, <1>4 DEF Handle

\* A release leaves the state machine idle, and so does the end of the device.
LEMMA ReleaseIdles ==
  ASSUME NEW f \in Fsm, NEW task \in Task, task.ev \in {"release", "disconnect"}
  PROVE  Idle(AfterEvent(f, task))
<1>1. Reset(FALSE).pressed = FALSE /\ Reset(FALSE).ignore = FALSE
  BY DEF Reset
<1>2. CASE task.ev = "release"
  <2>1. AfterEvent(f, task) = IF f.ignore \/ f.pressed THEN Reset(FALSE) ELSE f
    BY <1>2, Zenon DEF AfterEvent
  <2>2. QED  BY <1>1, <2>1 DEF Idle
<1>3. CASE task.ev = "disconnect"
  <2>1. AfterEvent(f, task) = Reset(FALSE)
    BY <1>3, Zenon DEF AfterEvent
  <2>2. QED  BY <1>1, <2>1 DEF Idle
<1>4. QED  BY <1>2, <1>3

\* Whether the helper is started or not, the state machine will be what the event makes of it.
LEMMA ThenIs ==
  ASSUME PressInv, NEW task \in Task, Handle(task)
  PROVE  /\ task.ev \in {"release", "disconnect"} => Idle(Then')
         /\ task.ev = "none" /\ Idle(fsm) => Idle(Then')
<1>a. fsm \in Fsm /\ (fsm.pressed => fsm.pressed) /\ (Fires(task.at) => Marked \in Fsm)
  <2>1. fsm \in Fsm
    BY DEF PressInv, TypeOK
  <2>2. QED  BY <2>1 DEF Marked, Fsm
<1>1. Then' = IF todo'.ev = "none" THEN fsm' ELSE AfterEvent(fsm', todo')
  BY DEF Then, AfterEvent, Reset
<1>2. CASE FiresLong(task)
  <2>1. task.ev # "none" => Then' = AfterEvent(Marked, task)
    BY <1>1, <1>2 DEF FiresLong
  <2>2. ~Idle(fsm)
    BY <1>2 DEF FiresLong, Fires, Idle
  <2>3. Fires(task.at)
    BY <1>2 DEF FiresLong
  <2>4. QED
    BY <1>a, <2>1, <2>2, <2>3, ReleaseIdles
<1>3. CASE EndsPress(task)
  <2>1. Then' = AfterEvent(fsm, task) /\ task.ev = "release"
    BY <1>1, <1>3 DEF EndsPress, EndsShort
  <2>2. QED
    BY <1>a, <2>1, ReleaseIdles
<1>4. CASE RunsNothing(task)
  <2>1. Then' = IF task.ev = "none" THEN fsm ELSE AfterEvent(fsm, task)
    BY <1>1, <1>4 DEF RunsNothing
  <2>2. QED
    BY <1>a, <2>1, ReleaseIdles
<1>5. QED
  BY <1>2, <1>3, <1>4, HandleEnds

-----------------------------------------------------------------------------
(* The times of the presses. *)

\* What the key does to the presses: they change as the key says, but for the
\* losses.
LEMMA PushTimes ==
  ASSUME NEW e, NEW pr \in Presses, Push(e, pr)
  PROVE  Same(pr, press') /\ \A p \in Press : press'[p].clear => pr[p].clear
<1>1. press' = pr \/ press' = Losing(pr)
  BY Zenon DEF Push
<1>2. Same(pr, Losing(pr)) /\ \A p \in Press : Losing(pr)[p].clear => pr[p].clear
  BY DEF Same, Losing
<1>3. QED  BY <1>1, <1>2 DEF Same

LEMMA TimedKeyDown == ASSUME PressInv, ShortInv, Timed, KeyDown PROVE Timed'
<1>1. /\ presses \in 0 .. MaxPresses /\ presses < MaxPresses /\ presses' = presses + 1 /\ ~key /\ key' = TRUE
      /\ now \in Time /\ press \in Presses /\ presses' \in Press /\ now' = now
  BY TickAssumption DEF KeyDown, PressInv, TypeOK, Press, Presses
<1> DEFINE e == [ev |-> "press", at |-> now, id |-> presses']
           c == (fd = "open" /\ ~blind)
           new == [down |-> now, up |-> Held, clear |-> c]
           pr == [press EXCEPT ![presses'] = new]
<1>2. Push(e, pr)
  BY Zenon DEF KeyDown
<1>3. c \in BOOLEAN /\ Held \in 0 .. Held
  BY TickAssumption DEF Held
<1>4. new \in [down : Time, up : 0 .. Held, clear : BOOLEAN] /\ new.down = now /\ new.up = Held
  <2> HIDE DEF c
  <2>1. QED  BY <1>1, <1>3
<1> HIDE DEF new
<1>5. pr \in Presses /\ pr[presses'] = new /\ \A p \in 1 .. presses : pr[p] = press[p]
  BY <1>1, <1>4 DEF Presses
<1> HIDE DEF e, pr
<1>6. Same(pr, press')
  BY <1>2, <1>5, PushTimes
<1>7. On = 0 /\ On' = presses' /\ Over = 1 .. presses /\ Over' = 1 .. presses /\ 1 .. presses \subseteq Press
  BY <1>1, NamedNow DEF On, Over
<1>8. QED
  BY <1>1, <1>4, <1>5, <1>6, <1>7 DEF Timed, Same, Time

LEMMA TimedKeyUp == ASSUME PressInv, ShortInv, Timed, KeyUp PROVE Timed'
<1>1. /\ presses \in 0 .. MaxPresses /\ presses' = presses /\ key /\ key' = FALSE
      /\ now \in Time /\ press \in Presses /\ now' = now
  BY DEF KeyUp, PressInv, TypeOK, Presses
<1> DEFINE e == [ev |-> "release", at |-> now, id |-> presses]
           pr == [press EXCEPT ![presses].up = now]
<1>2. Push(e, pr)
  BY DEF KeyUp
<1>3. presses \in Press /\ now \in 0 .. Held
  BY <1>1, TickAssumption DEF ShortInv, Held, Time
<1>4. /\ pr \in Presses /\ pr[presses].up = now
      /\ \A p \in Press : pr[p].down = press[p].down /\ (p # presses => pr[p] = press[p])
  BY <1>1, <1>3 DEF Presses
<1> HIDE DEF e, pr
<1>5. Same(pr, press')
  BY <1>2, <1>4, PushTimes
<1>6. On = presses /\ On' = 0 /\ Over' = 1 .. presses /\ 1 .. presses \subseteq Press
  BY <1>1, NamedNow DEF On, Over
<1>7. \A p \in 1 .. presses : p # presses => p \in Over
  BY <1>6 DEF Over
<1>8. ASSUME NEW p \in 1 .. presses PROVE press'[p].down <= now /\ press'[p].up <= now
  <2>1. p \in Press /\ press'[p].down = pr[p].down /\ press'[p].up = pr[p].up /\ pr[p].down = press[p].down
    BY <1>4, <1>5, <1>6 DEF Same
  <2>2. press[p].down <= now
    BY DEF Timed
  <2>3. CASE p = presses
    BY <1>1, <1>4, <2>1, <2>2, <2>3 DEF Time
  <2>4. CASE p # presses
    <3>1. press[p].up <= now
      BY <1>7, <2>4 DEF Timed
    <3>2. QED  BY <1>4, <2>1, <2>2, <2>4, <3>1
  <2>5. QED  BY <2>3, <2>4
<1>9. QED
  BY <1>1, <1>6, <1>8 DEF Timed

LEMMA TimedNext == PressInv /\ ShortInv /\ Timed /\ [Next]_vars => Timed'
<1>1. SUFFICES ASSUME PressInv, ShortInv, Timed, [Next]_vars PROVE Timed'
  OBVIOUS
<1>2. CASE KeyDown
  BY <1>1, <1>2, TimedKeyDown
<1>3. CASE KeyUp
  BY <1>1, <1>3, TimedKeyUp
<1>4. CASE Daemon \/ Unplug \/ Plug \/ Signal \/ Die \/ Restart \/ Tick \/ UNCHANGED vars
  <2>1. UNCHANGED <<key, presses>> /\ (now' = now \/ now' = now + 1) /\ (press' = press \/ press' = Losing(press))
    BY <1>4 DEF Daemon, Unplug, Plug, Signal, Die, Restart, Tick, input, daemon, vars
  <2>2. Same(press, press')
    BY <2>1 DEF Same, Losing
  <2>3. On' = On /\ Over' = Over
    BY <2>1 DEF On, Over
  <2>4. now \in Nat /\ press \in Presses /\ 1 .. presses \subseteq Press
    BY <1>1, NamedNow, TickAssumption DEF PressInv, TypeOK, Time, Presses
  <2>5. ASSUME NEW p \in 1 .. presses
        PROVE  /\ press'[p].down <= now' /\ (p \in Over => press'[p].up <= now')
               /\ p = On => press'[p].up = Held
    <3>1. p \in Press /\ press'[p].down = press[p].down /\ press'[p].up = press[p].up
      BY <2>2, <2>4 DEF Same
    <3>2. press[p].down \in Nat /\ press[p].up \in Nat
      BY <2>4, <3>1, TickAssumption DEF Presses, Time, Held
    <3>3. press[p].down <= now /\ (p \in Over => press[p].up <= now) /\ (p = On => press[p].up = Held)
      BY <1>1 DEF Timed
    <3>4. QED  BY <2>1, <2>4, <3>1, <3>2, <3>3
  <2>6. QED  BY <2>1, <2>3, <2>5 DEF Timed, Held
<1>5. QED
  BY <1>1, <1>2, <1>3, <1>4 DEF Next

-----------------------------------------------------------------------------
(* The steps of the daemon. *)

\* What no step of the daemon touches.
Still == UNCHANGED <<now, key, presses, press, blind, stopping>>

\* A step that runs nothing and reads nothing.
LEMMA AnswerQuiet ==
  ASSUME Traced, Still, UNCHANGED <<buf, fd, fsm, todo, did>>
  PROVE  Traced'
<1>1. On' = On /\ Over' = Over /\ Then' = Then
  BY DEF Still, On, Over, Then, AfterEvent, Reset
<1>2. LossFirst' /\ Ready' /\ Rested' /\ Kept'
  BY <1>1 DEF Traced, Still, LossFirst, Ready, Rested, Kept, Idle
<1>3. Accounted' /\ LongOnes'
  BY <1>1 DEF Traced, Still, Accounted, LongOnes, WasLong
<1>4. QED  BY <1>2, <1>3 DEF Traced

\* The clock of poll.
LEMMA PollInTime ==
  ASSUME PressInv, Poll, UNCHANGED <<now, fsm>>
  PROVE  InTime'
<1>1. now \in Nat /\ fsm \in Fsm /\ fsm.at \in Nat
  BY TickAssumption DEF PressInv, TypeOK, Time, Fsm
<1>2. wake' = now + PollTimeout /\ now' = now /\ fsm' = fsm
  BY DEF Poll
<1>3. fsm.pressed /\ ~fsm.long_fired => wake' <= now \/ wake' <= fsm.at + LONG_PRESS
  <2>1. SUFFICES ASSUME fsm.pressed, ~fsm.long_fired
                 PROVE  wake' <= now \/ wake' <= fsm.at + LONG_PRESS
    OBVIOUS
  <2>2. ~fsm.ignore
    BY <2>1, FollowedIs
  <2>3. PollTimeout = IF fsm.at + LONG_PRESS <= now THEN 0
                      ELSE IF fsm.at + LONG_PRESS - now > RECONNECT THEN RECONNECT ELSE fsm.at + LONG_PRESS - now
    <3>1. ~(~fsm.pressed \/ fsm.long_fired \/ fsm.ignore)
      BY <2>1, <2>2
    <3>2. QED  BY <1>1, <3>1, TickAssumption DEF PollTimeout
  <2>4. QED  BY <1>1, <1>2, <2>3, TickAssumption
<1>4. QED  BY <1>2, <1>3 DEF InTime

\* A new descriptor: nobody has been followed since it was closed.
LEMMA AnswerOpen ==
  ASSUME PressInv, ShortInv, Traced, Still, Open
  PROVE  Traced'
<1>1. /\ pc = "loop" /\ fd = "closed" /\ fd' = "open" /\ fsm' = Reset(key)
      /\ UNCHANGED <<todo, did, buf>> /\ buf = <<>>
  BY DEF Open, ShortInv
<1>2. ~fsm'.pressed /\ (~key => ~fsm'.ignore)
  BY <1>1 DEF Reset
<1>3. Then' = fsm'
  <2>1. todo.ev = "none" /\ todo' = todo
    BY <1>1 DEF PressInv, Pending
  <2>2. QED  BY <2>1 DEF Then
<1>4. On' = On /\ Over' = Over
  BY DEF Still, On, Over
<1>5. LossFirst' /\ Ready'
  BY <1>1 DEF LossFirst, Ready
<1>6. Rested' /\ Kept'
  BY <1>1, <1>2, <1>3 DEF Still, Rested, Kept, Idle
<1>7. Accounted'
  <2>1. SUFFICES ASSUME NEW p \in 1 .. presses, press[p].clear, did[p] = <<>>
                 PROVE  p \in Over /\ press[p].up - press[p].down < SHORT_PRESS_MIN
    BY <1>1, <1>4 DEF Accounted, Still
  <2>2. ~(fsm.pressed /\ fsm.id = p)
    <3>1. SUFFICES ASSUME fsm.pressed, fsm.id = p PROVE FALSE
      OBVIOUS
    <3>2. ~fsm.long_fired
      BY <2>1, <3>1, FollowedIs, AnswersDiffer
    <3>3. QED  BY <1>1, <2>1, <3>1, <3>2 DEF Traced, Kept
  <2>3. QED  BY <1>1, <2>1, <2>2 DEF Traced, Accounted
<1>8. LongOnes'
  BY <1>1, <1>4 DEF Traced, LongOnes, WasLong, Still
<1>9. QED  BY <1>5, <1>6, <1>7, <1>8 DEF Traced

\* The press that is followed, marked by the end of this handling, was long.
LEMMA LongFrom ==
  ASSUME PressInv, LongOnes, Still, NEW task \in Task, Handle(task),
         FiresLong(task) /\ press[fsm.id].clear => WasLong(fsm.id)
  PROVE  LongOnes'
<1>1. On' = On /\ Over' = Over
  BY DEF Still, On, Over
<1>2. SUFFICES ASSUME NEW p \in 1 .. presses, press[p].clear, did'[p] = <<"long">>
               PROVE  WasLong(p)
  BY <1>1 DEF LongOnes, WasLong, Still
<1>3. p \in Press
  BY NamedNow
<1>4. CASE did[p] = <<"long">>
  BY <1>2, <1>4 DEF LongOnes
<1>5. CASE did[p] # <<"long">>
  <2>1. FiresLong(task) /\ p = fsm.id
    BY <1>2, <1>3, <1>5, HandleEnds, AnswersDiffer DEF FiresLong, EndsPress, RunsNothing, Adds
  <2>2. QED  BY <1>2, <2>1
<1>6. QED  BY <1>4, <1>5

\* A press that is still unanswered was before.
LEMMA StillUnanswered ==
  ASSUME PressInv, NEW task \in Task, Handle(task), NEW p \in 1 .. presses, did'[p] = <<>>
  PROVE  /\ did[p] = <<>>
         /\ fsm.pressed /\ fsm.id = p => RunsNothing(task) /\ ~fsm.long_fired
<1>1. p \in Press
  BY NamedNow
<1>2. did[p] = <<>> /\ (fsm.pressed /\ fsm.id = p => RunsNothing(task))
  <2>1. CASE FiresLong(task)
    BY <1>1, <2>1, AnswersDiffer DEF FiresLong, Adds
  <2>2. CASE EndsPress(task)
    BY <1>1, <2>2, AnswersDiffer DEF EndsPress, Adds
  <2>3. CASE RunsNothing(task)
    BY <2>3 DEF RunsNothing
  <2>4. QED  BY <2>1, <2>2, <2>3, HandleEnds
<1>3. QED  BY <1>2, FollowedIs, AnswersDiffer

\* The poll has timed out: only the press that is followed is concerned.
LEMMA AnswerTimedOut ==
  ASSUME PressInv, ShortInv, Timed, Traced, Recent, ~stopping, Still, TimedOut
  PROVE  Traced'
<1> DEFINE task == [ev |-> "none", at |-> now, id |-> 0, back |-> "loop"]
<1>a. /\ now \in Nat /\ late \in Nat /\ late <= Lag /\ fsm \in Fsm /\ fsm.at \in Nat /\ press \in Presses
      /\ LONG_PRESS \in Nat /\ Lag \in Nat /\ MaxTime \in Nat /\ buf \in Seq(Event)
  BY TickAssumption DEF PressInv, TypeOK, Time, Fsm, Presses
<1>1. task \in Task /\ task.ev = "none" /\ task.at = now /\ Handle(task)
  BY TickAssumption DEF TimedOut, Task, PressInv, TypeOK
<1> HIDE DEF task
<1>2. pc = "timeout" /\ UNCHANGED <<buf, fd>>
  BY DEF TimedOut
<1>3. todo.ev = "none" /\ Then = fsm
  BY <1>2 DEF PressInv, Pending, Then
<1>4. Idle(Then) => Idle(Then')
  BY <1>1, <1>3, ThenIs
<1>5. On' = On /\ Over' = Over
  BY DEF Still, On, Over
<1>6. LossFirst' /\ Ready' /\ Rested'
  BY <1>2, <1>4 DEF Traced, LossFirst, Ready, Rested, Still
<1>7. Kept'
  <2>1. fsm'.pressed /\ ~fsm'.long_fired => fsm' = fsm
    BY <1>1, HandleFollows
  <2>2. QED  BY <1>2, <2>1 DEF Traced, Kept, Still
<1>8. Accounted'
  <2>1. SUFFICES ASSUME NEW p \in 1 .. presses, press[p].clear, did'[p] = <<>>
                 PROVE  \/ \E i \in 1 .. Len(buf) : buf[i].ev = "press" /\ buf[i].id = p
                        \/ fsm'.pressed /\ fsm'.id = p
                        \/ p \in Over /\ press[p].up - press[p].down < SHORT_PRESS_MIN
    BY <1>2, <1>5 DEF Accounted, Still
  <2>2. did[p] = <<>> /\ (fsm.pressed /\ fsm.id = p => RunsNothing(task))
    BY <1>1, <2>1, StillUnanswered
  <2>3. RunsNothing(task) => fsm' = fsm
    BY <1>1 DEF RunsNothing
  <2>4. QED  BY <2>1, <2>2, <2>3 DEF Traced, Accounted
<1>9. ASSUME FiresLong(task), press[fsm.id].clear PROVE WasLong(fsm.id)
  <2>1. fsm.pressed /\ ~fsm.long_fired /\ now >= fsm.at + LONG_PRESS
    BY <1>1, <1>9 DEF FiresLong, Fires
  <2>2. fsm.id \in 1 .. presses /\ fsm.id \in Press
    BY <2>1, FollowedIs
  <2>3. fd = "open" /\ (buf # <<>> => buf[1].ev # "dropped")
    BY <1>9, <2>1 DEF Traced, Kept
  <2>4. fsm.at = press[fsm.id].down /\ Closes(buf, 1, fsm.id, On)
    BY <2>1, <2>3 DEF ShortInv, Awaited
  <2>5. CASE fsm.id = On
    BY <1>a, <2>1, <2>4, <2>5 DEF WasLong
  <2>6. CASE fsm.id # On
    <3>1. 1 <= Len(buf) /\ buf # <<>> /\ 1 \in 1 .. Len(buf)
      BY <1>a, <2>4, <2>6 DEF Closes
    <3>2. buf[1].ev = "release" /\ buf[1].id = fsm.id
      BY <1>a, <2>3, <2>4, <3>1 DEF Closes
    <3>3. Sound(buf, press, Over, On)
      BY <2>3 DEF ShortInv
    <3>4. buf[1].at = press[fsm.id].up
      BY <3>1, <3>2, <3>3 DEF Sound
    <3>5. now <= press[fsm.id].up + late
      BY <1>2, <3>1, <3>4 DEF Recent
    <3>6. press[fsm.id].up \in Nat
      BY <1>a, <2>2, TickAssumption DEF Presses, Held
    <3>7. QED  BY <1>a, <2>1, <2>4, <2>6, <3>5, <3>6 DEF WasLong
  <2>7. QED  BY <2>5, <2>6
<1>10. LongOnes'
  BY <1>1, <1>9, LongFrom DEF Traced
<1>11. QED  BY <1>6, <1>7, <1>8, <1>10 DEF Traced

\* The device has gone: nobody who could be followed is.
LEMMA AnswerDisconnected ==
  ASSUME PressInv, ShortInv, Traced, Gone, Still, Disconnected
  PROVE  Traced'
<1>1. PICK t \in 0 .. now : Handle([ev |-> "disconnect", at |-> t, id |-> 0, back |-> "loop"])
  BY DEF Disconnected
<1> DEFINE task == [ev |-> "disconnect", at |-> t, id |-> 0, back |-> "loop"]
<1>2. task \in Task /\ task.ev = "disconnect" /\ Handle(task)
  BY <1>1, TickAssumption DEF Task, Time, PressInv, TypeOK
<1> HIDE DEF task
<1>3. fd = "gone" /\ buf = <<>> /\ buf' = <<>> /\ fd' = "closed"
  BY DEF Disconnected, Gone, ShortInv
<1>4. On' = On /\ Over' = Over
  BY DEF Still, On, Over
<1>5. fsm.pressed /\ ~fsm.long_fired => ~press[fsm.id].clear
  BY <1>3 DEF Traced, Kept
<1>6. LossFirst' /\ Ready' /\ Rested'
  BY <1>3 DEF LossFirst, Ready, Rested
<1>7. Kept'
  BY <1>2, HandleFollows DEF Kept
<1>8. Accounted'
  <2>1. SUFFICES ASSUME NEW p \in 1 .. presses, press[p].clear, did'[p] = <<>>
                 PROVE  p \in Over /\ press[p].up - press[p].down < SHORT_PRESS_MIN
    BY <1>4 DEF Accounted, Still
  <2>2. did[p] = <<>> /\ (fsm.pressed /\ fsm.id = p => ~fsm.long_fired)
    BY <1>2, <2>1, StillUnanswered
  <2>3. QED  BY <1>3, <1>5, <2>1, <2>2 DEF Traced, Accounted
<1>9. FiresLong(task) => ~press[fsm.id].clear
  BY <1>5 DEF FiresLong, Fires
<1>10. LongOnes'
  BY <1>2, <1>9, LongFrom DEF Traced
<1>11. QED  BY <1>6, <1>7, <1>8, <1>10 DEF Traced

\* The helper has ended.
LEMMA AnswerRunEnds ==
  ASSUME PressInv, Traced, Still, RunEnds
  PROVE  Traced'
<1>1. todo \in Task /\ Finish(todo) /\ ~EndsShort(fsm, todo) /\ UNCHANGED <<buf, fd>> /\ fsm \in Fsm
  BY TodoIsLong DEF RunEnds, PressInv, TypeOK
<1>2. did' = did /\ todo' = Nothing("loop") /\ fsm' = Then
  BY <1>1 DEF Finish, Then
<1>3. Then' = Then
  <2>1. todo'.ev = "none"
    BY <1>2, NothingType
  <2>2. Then' = fsm'
    BY <2>1 DEF Then
  <2>3. QED  BY <1>2, <2>2
<1>4. On' = On /\ Over' = Over
  BY DEF Still, On, Over
<1>5. fsm'.pressed /\ ~fsm'.long_fired => fsm' = fsm
  <2>1. todo.ev # "none" => fsm.pressed
    BY DEF PressInv, Pending
  <2>2. QED  BY <1>1, <2>1, HandleFollows
<1>6. fsm.pressed /\ ~fsm.long_fired => fsm' = fsm
  BY <1>2 DEF PressInv, Pending, Then
<1>7. LossFirst' /\ Ready' /\ Rested' /\ Kept'
  BY <1>1, <1>3, <1>5 DEF Traced, Still, LossFirst, Ready, Rested, Kept, Idle
<1>8. Accounted'
  <2>1. SUFFICES ASSUME NEW p \in 1 .. presses, press[p].clear, did[p] = <<>>
                 PROVE  \/ \E i \in 1 .. Len(buf) : buf[i].ev = "press" /\ buf[i].id = p
                        \/ fsm'.pressed /\ fsm'.id = p
                        \/ p \in Over /\ press[p].up - press[p].down < SHORT_PRESS_MIN
    BY <1>1, <1>2, <1>4 DEF Accounted, Still
  <2>2. fsm.pressed /\ fsm.id = p => ~fsm.long_fired
    BY <2>1, FollowedIs, AnswersDiffer
  <2>3. QED  BY <1>6, <2>1, <2>2 DEF Traced, Accounted
<1>9. LongOnes'
  BY <1>2, <1>4 DEF Traced, Still, LongOnes, WasLong
<1>10. QED  BY <1>7, <1>8, <1>9 DEF Traced

\* An event is read.
LEMMA AnswerReads ==
  ASSUME PressInv, ShortInv, Timed, Traced, Prompt, ~stopping, Still, Read
  PROVE  Traced'
<1> DEFINE e == Head(buf)
           task == [ev |-> e.ev, at |-> EventTime(e), id |-> e.id, back |-> "read"]
<1>1. fd = "open" /\ fd' = fd /\ buf # <<>> /\ buf' = Tail(buf) /\ Handle(task) /\ pc = "read"
  BY DEF Read
<1>2. /\ buf \in Seq(Event) /\ now \in Nat /\ fsm \in Fsm /\ fsm.at \in Nat /\ press \in Presses
      /\ LONG_PRESS \in Nat /\ SHORT_PRESS_MIN \in Nat /\ STALE \in Nat /\ MaxTime \in Nat /\ Lag \in Nat
  BY TickAssumption DEF PressInv, TypeOK, Presses, Time, Fsm
<1>3. e = buf[1] /\ e \in Event /\ 1 \in 1 .. Len(buf) /\ ~(1 > Len(buf)) /\ e.at \in Nat
  <2>1. e = buf[1] /\ e \in Event /\ 1 \in 1 .. Len(buf) /\ ~(1 > Len(buf))
    BY <1>1, <1>2
  <2>2. e.at \in Nat
    BY <2>1 DEF Event, Time
  <2>3. QED  BY <2>1, <2>2
<1>4. EventTime(e) = e.at
  <2>1. now <= e.at + STALE
    BY <1>3 DEF Prompt
  <2>2. QED  BY <1>2, <1>3, <2>1 DEF EventTime
<1> HIDE DEF e
<1>5. task \in Task /\ task.ev = e.ev /\ task.at = e.at /\ task.id = e.id /\ e.ev \in {"press", "release", "dropped"}
  <2>1. e.at \in Time
    BY <1>3 DEF Event
  <2>2. task = [ev |-> e.ev, at |-> e.at, id |-> e.id, back |-> "read"]
    BY <1>4
  <2> HIDE DEF task
  <2>3. QED  BY <1>3, <2>1, <2>2 DEF Task, Event
<1> HIDE DEF task
<1>6. /\ Len(buf') = Len(buf) - 1 /\ Len(buf) \in Nat \ {0}
      /\ \A i \in 1 .. Len(buf') : i + 1 \in 1 .. Len(buf) /\ buf'[i] = buf[i + 1]
      /\ buf' = <<>> => Len(buf) = 1
      /\ buf' # <<>> => 1 \in 1 .. Len(buf') /\ Len(buf') \in 1 .. Len(buf') /\ Len(buf') + 1 = Len(buf) /\ 1 + 1 = 2
                        /\ 2 \in 2 .. Len(buf)
  <2>1. /\ Len(buf') = Len(buf) - 1 /\ Len(buf) \in Nat \ {0} /\ buf' \in Seq(Event)
        /\ \A i \in 1 .. Len(buf') : i + 1 \in 1 .. Len(buf) /\ buf'[i] = buf[i + 1]
    BY <1>1, <1>2
  <2>2. buf' = <<>> => Len(buf) = 1
    BY <2>1
  <2>3. buf' # <<>> => Len(buf') \in Nat \ {0}
    BY <2>1, EmptySeq
  <2>4. QED  BY <2>1, <2>2, <2>3
<1>7. Sound(buf, press, Over, On) /\ Awaited(buf, fsm, press, On)
  BY <1>1 DEF ShortInv
<1>8. /\ e.ev = "press" => e.at = press[e.id].down /\ Closes(buf, 2, e.id, On) /\ e.id \in 1 .. presses
      /\ e.ev = "release" => e.id \in Over /\ e.at = press[e.id].up
  <2>1. 1 + 1 = 2
    OBVIOUS
  <2>2. e.ev = "press" => e.id \in 1 .. presses
    BY <1>3 DEF PressInv, Unread
  <2>3. QED  BY <1>3, <1>7, <2>1, <2>2 DEF Sound
<1>9. fsm.pressed /\ ~fsm.long_fired =>
          fsm.at = press[fsm.id].down /\ (e.ev = "dropped" \/ (e.ev = "release" /\ e.id = fsm.id))
  BY <1>3, <1>7 DEF Awaited, Closes
<1>10. fsm.pressed /\ ~fsm.long_fired /\ press[fsm.id].clear =>
          e.ev = "release" /\ e.id = fsm.id /\ fsm.id \in Over /\ fsm.at = press[fsm.id].down /\ e.at = press[fsm.id].up
  BY <1>1, <1>3, <1>8, <1>9 DEF Traced, Kept
<1>11. Then = fsm
  BY <1>1 DEF PressInv, Pending, Then
<1>12. On' = On /\ Over' = Over
  BY DEF Still, On, Over
<1>13. e.ev = "release" => Idle(Then')
  BY <1>1, <1>5, ThenIs
<1>14. LossFirst'
  <2>1. ASSUME NEW i \in 2 .. Len(buf') PROVE buf'[i].ev # "dropped"
    <3>1. i + 1 \in 2 .. Len(buf) /\ buf'[i] = buf[i + 1]
      BY <1>6
    <3>2. QED  BY <3>1 DEF Traced, LossFirst
  <2>2. QED  BY <2>1 DEF LossFirst
<1>15. buf' # <<>> => buf'[1] = buf[2] /\ buf'[1].ev # "dropped"
  BY <1>6 DEF Traced, LossFirst
<1>16. Ready'
  <2>1. SUFFICES ASSUME NEW i \in 1 .. Len(buf'), buf'[i].ev = "press", press[buf'[i].id].clear
                 PROVE  /\ i = 1 => Idle(Then')
                        /\ i = 2 => buf'[1].ev # "dropped"
    BY DEF Ready, Still
  <2>2. buf' # <<>>
    BY <1>6
  <2>3. ASSUME i = 1 PROVE Idle(Then')
    <3>1. 2 \in 1 .. Len(buf) /\ buf[2].ev = "press" /\ press[buf[2].id].clear
      BY <1>6, <1>15, <2>1, <2>2, <2>3
    <3>2. buf[1].ev # "dropped"
      BY <3>1 DEF Traced, Ready
    <3>3. ~Closes(buf, 2, e.id, On)
      BY <3>1 DEF Closes
    <3>4. e.ev = "release"
      BY <1>3, <1>5, <1>8, <3>2, <3>3
    <3>5. QED  BY <1>13, <3>4
  <2>4. QED  BY <1>15, <2>2, <2>3
<1>17. Rested'
  <2>1. SUFFICES ASSUME ~key, ~blind
                 PROVE  IF buf' = <<>> THEN Idle(Then') ELSE buf'[Len(buf')].ev = "release"
    BY DEF Rested, Still
  <2>2. buf[Len(buf)].ev = "release"
    BY <1>1, <2>1 DEF Traced, Rested
  <2>3. CASE buf' = <<>>
    BY <1>3, <1>6, <1>13, <2>2, <2>3
  <2>4. CASE buf' # <<>>
    BY <1>6, <2>2, <2>4
  <2>5. QED  BY <2>3, <2>4
<1>18. Kept'
  BY <1>1, <1>15 DEF Kept
<1>19. Accounted'
  <2>1. SUFFICES ASSUME NEW p \in 1 .. presses, press[p].clear, did'[p] = <<>>
                 PROVE  \/ \E i \in 1 .. Len(buf') : buf'[i].ev = "press" /\ buf'[i].id = p
                        \/ fsm'.pressed /\ fsm'.id = p
                        \/ p \in Over /\ press[p].up - press[p].down < SHORT_PRESS_MIN
    BY <1>12 DEF Accounted, Still
  <2>2. did[p] = <<>> /\ (fsm.pressed /\ fsm.id = p => RunsNothing(task) /\ ~fsm.long_fired)
    BY <1>1, <1>5, <2>1, StillUnanswered
  <2>3. CASE fsm.pressed /\ fsm.id = p
    <3>1. RunsNothing(task) /\ ~fsm.long_fired /\ ~fsm.ignore
      BY <2>2, <2>3, FollowedIs
    <3>2. e.ev = "release" /\ p \in Over /\ fsm.at = press[p].down /\ e.at = press[p].up
      BY <1>10, <2>1, <2>3, <3>1
    <3>3. ~EndsShort(fsm, task)
      BY <3>1 DEF RunsNothing
    <3>4. ~(e.at >= fsm.at + SHORT_PRESS_MIN)
      BY <1>5, <2>3, <3>1, <3>2, <3>3 DEF EndsShort
    <3>5. press[p].up - press[p].down < SHORT_PRESS_MIN
      BY <1>2, <1>3, <3>2, <3>4
    <3>6. QED  BY <3>2, <3>5
  <2>4. CASE \E i \in 1 .. Len(buf) : buf[i].ev = "press" /\ buf[i].id = p
    <3>1. PICK i \in 1 .. Len(buf) : buf[i].ev = "press" /\ buf[i].id = p
      BY <2>4
    <3>2. CASE i = 1
      <4>1. e.ev = "press" /\ e.id = p /\ Idle(fsm)
        BY <1>3, <1>11, <2>1, <3>1, <3>2 DEF Traced, Ready
      <4>2. ~fsm.pressed /\ ~fsm.ignore
        BY <4>1 DEF Idle
      <4>3. RunsNothing(task)
        BY <1>1, <1>5, <4>2, HandleEnds DEF FiresLong, Fires, EndsPress, EndsShort
      <4>4. fsm' = AfterEvent(fsm, task)
        BY <1>5, <4>1, <4>3 DEF RunsNothing
      <4>5. AfterEvent(fsm, task) = [pressed |-> TRUE, long_fired |-> FALSE, ignore |-> FALSE, at |-> task.at, id |-> task.id]
        <5>1. AfterEvent(fsm, task) = IF fsm.ignore \/ fsm.pressed THEN fsm
                 ELSE [pressed |-> TRUE, long_fired |-> FALSE, ignore |-> FALSE, at |-> task.at, id |-> task.id]
          BY <1>5, <4>1, Zenon DEF AfterEvent
        <5>2. QED  BY <4>2, <5>1
      <4>6. QED  BY <1>5, <4>1, <4>4, <4>5
    <3>3. CASE i # 1
      <4>1. i - 1 \in 1 .. Len(buf') /\ (i - 1) + 1 = i
        BY <1>6, <3>3
      <4>2. buf'[i - 1] = buf[i]
        BY <1>6, <4>1
      <4>3. QED  BY <3>1, <4>1, <4>2
    <3>4. QED  BY <3>2, <3>3
  <2>5. CASE p \in Over /\ press[p].up - press[p].down < SHORT_PRESS_MIN
    BY <2>5
  <2>6. QED  BY <2>1, <2>2, <2>3, <2>4, <2>5 DEF Traced, Accounted
<1>20. ASSUME FiresLong(task), press[fsm.id].clear PROVE WasLong(fsm.id)
  <2>1. fsm.pressed /\ ~fsm.long_fired /\ e.at >= fsm.at + LONG_PRESS
    BY <1>5, <1>20 DEF FiresLong, Fires
  <2>2. fsm.id \in Over /\ fsm.at = press[fsm.id].down /\ e.at = press[fsm.id].up
    BY <1>10, <1>20, <2>1
  <2>3. fsm.id # On
    BY <2>2 DEF Over
  <2>4. QED  BY <1>2, <1>3, <2>1, <2>2, <2>3 DEF WasLong
<1>21. LongOnes'
  BY <1>1, <1>5, <1>20, LongFrom DEF Traced
<1>22. QED  BY <1>14, <1>16, <1>17, <1>18, <1>19, <1>21 DEF Traced

LEMMA AnswerDaemon ==
  ASSUME PressInv, ShortInv, Timed, AnswerInv, Prompt, Daemon
  PROVE  AnswerInv'
<1>1. Still
  BY DEF Daemon, input, Still
<1>2. SUFFICES ASSUME ~stopping PROVE Traced' /\ Recent' /\ InTime' /\ Gone'
  BY <1>1 DEF Still, AnswerInv, Traced
<1>3. Traced /\ Recent /\ InTime /\ Gone
  BY <1>2 DEF AnswerInv, Traced
<1>4. pc' \notin {"timeout", "wait", "hup"} => Recent' /\ InTime' /\ Gone'
  BY DEF Recent, InTime, Gone
<1>5. CASE Open
  BY <1>1, <1>3, <1>4, <1>5, AnswerOpen DEF Open
<1>6. CASE NoDevice \/ Again \/ Slept \/ Drained
  <2>1. UNCHANGED <<buf, fd, fsm, todo, did>> /\ pc' \notin {"timeout", "wait", "hup"}
    BY <1>6 DEF NoDevice, Again, Slept, Drained
  <2>2. QED  BY <1>1, <1>3, <1>4, <2>1, AnswerQuiet
<1>7. CASE Poll
  <2>1. UNCHANGED <<buf, fd, fsm, todo, did>> /\ pc' = "wait"
    BY <1>7 DEF Poll
  <2>2. Recent' /\ Gone'
    BY <2>1 DEF Recent, Gone
  <2>3. InTime'
    BY <1>1, <1>7, <2>1, PollInTime DEF Still
  <2>4. QED  BY <1>1, <1>3, <2>1, <2>2, <2>3, AnswerQuiet
<1>8. CASE PollReturns
  <2>1. UNCHANGED <<buf, fd, fsm, todo, did>> /\ pc' \in {"hup", "read", "timeout"}
        /\ (pc' = "timeout" => buf = <<>>) /\ (pc' = "hup" => fd = "gone")
    BY <1>8 DEF PollReturns
  <2>2. Recent' /\ InTime' /\ Gone'
    BY <2>1 DEF Recent, InTime, Gone
  <2>3. QED  BY <1>1, <1>3, <2>1, <2>2, AnswerQuiet
<1>9. CASE TimedOut
  <2>1. pc' \in {"run", "loop"}
    BY <1>9, HandlePlace DEF TimedOut
  <2>2. QED  BY <1>1, <1>2, <1>3, <1>4, <1>9, <2>1, AnswerTimedOut
<1>10. CASE Disconnected
  <2>1. pc' \in {"run", "loop"}
    BY <1>10, HandlePlace DEF Disconnected
  <2>2. QED  BY <1>1, <1>3, <1>4, <1>10, <2>1, AnswerDisconnected
<1>11. CASE Read
  <2>1. pc' \in {"run", "loop", "read"}
    BY <1>11, HandlePlace DEF Read
  <2>2. QED  BY <1>1, <1>2, <1>3, <1>4, <1>11, <2>1, AnswerReads
<1>12. CASE RunEnds
  <2>1. pc' \in {"run", "loop", "read"}
    BY <1>12, HandlePlace DEF RunEnds, PressInv, TypeOK, Task
  <2>2. QED  BY <1>1, <1>3, <1>4, <1>12, <2>1, AnswerRunEnds
<1>13. CASE Stopped
  BY <1>2, <1>13 DEF Stopped
<1>14. QED
  BY <1>5, <1>6, <1>7, <1>8, <1>9, <1>10, <1>11, <1>12, <1>13 DEF Daemon

-----------------------------------------------------------------------------
(* The steps of the environment. *)

LEMMA LosingIs ==
  ASSUME NEW pr
  PROVE  \A p \in Press : /\ Losing(pr)[p].down = pr[p].down /\ Losing(pr)[p].up = pr[p].up
                          /\ Losing(pr)[p].clear => pr[p].clear
                          /\ did[p] = <<>> => ~Losing(pr)[p].clear
  BY DEF Losing

\* The key moves while the presses are known as pr: it begins a press or ends the one that goes on.
Moves(e, pr) ==
  /\ e \in Event /\ e.ev \in {"press", "release"} /\ e.at = now
  /\ Over \subseteq Over' /\ presses' \in Nat /\ 1 .. presses \subseteq 1 .. presses' /\ 1 .. presses' \subseteq Press
  /\ \A p \in 1 .. presses : pr[p].down = press[p].down /\ (pr[p].clear => press[p].clear)
  /\ \A p \in Over : pr[p].up = press[p].up
  /\ key' => e.ev = "press"
  /\ e.ev = "press" => /\ ~key /\ key' /\ On = 0 /\ 1 .. presses' = (1 .. presses) \cup {e.id}
                       /\ did[e.id] = <<>> /\ e.id \in Press /\ (pr[e.id].clear => fd = "open" /\ ~blind)
  /\ e.ev = "release" => ~key' /\ 1 .. presses' = 1 .. presses /\ On' = 0 /\ (On \in 1 .. presses => pr[On].up = now)
  /\ UNCHANGED <<now, late, fd, fsm, pc, wake, todo, stopping, did>>

\* The kernel has no reader for the event, room for it, or none.
LEMMA PushIs ==
  ASSUME PressInv, NEW e, NEW pr, Push(e, pr)
  PROVE  \/ fd # "open" /\ press' = pr /\ buf' = buf
         \/ fd = "open" /\ press' = pr /\ buf' = Append(buf, e)
         \/ /\ fd = "open" /\ press' = Losing(pr)
            /\ \E d \in Event : /\ d.ev = "dropped" /\ d.at = now
                                /\ buf' = <<d, e>> \/ (buf' = <<d>> /\ blind')
<1>1. CASE fd # "open"
  BY <1>1, Zenon DEF Push
<1>2. CASE fd = "open" /\ Len(buf) < BufSize
  BY <1>2, SMT DEF Push, PressInv, TypeOK
<1>3. CASE fd = "open" /\ press' = Losing(pr)
             /\ LET d == [ev |-> "dropped", at |-> now, id |-> 0]
                IN  \/ buf' = <<d, e>> /\ blind' = (e.ev # "release")
                    \/ buf' = <<d>> /\ blind' = TRUE
  <2> DEFINE d == [ev |-> "dropped", at |-> now, id |-> 0]
  <2>1. d \in Event /\ d.ev = "dropped" /\ d.at = now
    BY TickAssumption DEF Event, PressInv, TypeOK
  <2>2. buf' = <<d, e>> \/ (buf' = <<d>> /\ blind')
    BY <1>3, Zenon
  <2> HIDE DEF d
  <2>3. QED  BY <1>3, <2>1, <2>2
<1>4. QED
  BY <1>1, <1>2, <1>3, Zenon DEF Push

\* What was told of the presses before still holds of them.
LEMMA MovesKeep ==
  ASSUME PressInv, Timed, NEW e, NEW pr \in Presses, Push(e, pr), Moves(e, pr)
  PROVE  /\ \A p \in 1 .. presses : press'[p].down = press[p].down /\ (press'[p].clear => press[p].clear)
         /\ \A p \in Over : press'[p].up = press[p].up
         /\ e.ev = "release" /\ On \in 1 .. presses => press'[On].up = now
         /\ e.ev = "press" /\ press'[e.id].clear => fd = "open" /\ ~blind
<1>1. Same(pr, press') /\ \A p \in Press : press'[p].clear => pr[p].clear
  BY PushTimes
<1>2. 1 .. presses \subseteq Press /\ Over \subseteq 1 .. presses
  BY NamedNow DEF Over
<1>3. ASSUME NEW p \in 1 .. presses
      PROVE  press'[p].down = press[p].down /\ (press'[p].clear => press[p].clear)
  BY <1>1, <1>2 DEF Moves, Same
<1>4. ASSUME NEW p \in Over PROVE press'[p].up = press[p].up
  BY <1>1, <1>2 DEF Moves, Same
<1>5. e.ev = "release" /\ On \in 1 .. presses => press'[On].up = now
  BY <1>1, <1>2 DEF Moves, Same
<1>6. e.ev = "press" /\ press'[e.id].clear => fd = "open" /\ ~blind
  BY <1>1 DEF Moves
<1>7. QED  BY <1>3, <1>4, <1>5, <1>6

\* A press that was long still is, when it ends and when another one begins.
LEMMA MovesLong ==
  ASSUME PressInv, Timed, LongOnes, NEW e, NEW pr \in Presses, Push(e, pr), Moves(e, pr)
  PROVE  LongOnes'
<1>1. /\ \A p \in 1 .. presses : press'[p].down = press[p].down /\ (press'[p].clear => press[p].clear)
      /\ \A p \in Over : press'[p].up = press[p].up
      /\ e.ev = "release" /\ On \in 1 .. presses => press'[On].up = now
  BY MovesKeep
<1>2. SUFFICES ASSUME NEW p \in 1 .. presses', press'[p].clear, did[p] = <<"long">>
               PROVE  WasLong(p)'
  BY DEF LongOnes, Moves
<1>3. p \in 1 .. presses /\ p \in Press
  BY <1>2, AnswersDiffer, NamedNow DEF Moves
<1>4. WasLong(p)
  BY <1>1, <1>2, <1>3 DEF LongOnes
<1>5. CASE p # On
  <2>1. p \in Over /\ p \in Over'
    BY <1>3, <1>5 DEF Over, Moves
  <2>2. p # On'
    BY <2>1 DEF Over
  <2>3. QED  BY <1>1, <1>3, <1>4, <1>5, <2>1, <2>2 DEF WasLong
<1>6. CASE p = On
  <2>1. e.ev = "release" /\ On' = 0
    BY <1>3, <1>6 DEF Moves
  <2>2. press'[p].down = press[p].down /\ press'[p].up = now /\ p # On' /\ press[p].down + LONG_PRESS <= now
    BY <1>1, <1>3, <1>4, <1>6, <2>1 DEF WasLong
  <2>3. now \in Nat /\ Lag \in Nat
    BY TickAssumption DEF PressInv, TypeOK, Time
  <2>4. press[p].down + LONG_PRESS <= now + Lag
    <3>1. press[p].down \in Nat /\ LONG_PRESS \in Nat
      BY <1>3, TickAssumption DEF PressInv, TypeOK, Time
    <3>2. QED  BY <2>2, <2>3, <3>1
  <2>5. QED  BY <2>2, <2>4 DEF WasLong
<1>7. QED  BY <1>5, <1>6

\* The event is not kept for anybody.
LEMMA AnswerUnseen ==
  ASSUME PressInv, ShortInv, Timed, Traced, Recent, NEW e, NEW pr \in Presses, Push(e, pr), Moves(e, pr),
         fd # "open", buf' = buf
  PROVE  Traced' /\ Recent'
<1>1. buf = <<>> /\ buf' = <<>> /\ fd' # "open"
  BY DEF ShortInv, Moves
<1>2. /\ \A p \in 1 .. presses : press'[p].down = press[p].down /\ (press'[p].clear => press[p].clear)
      /\ \A p \in Over : press'[p].up = press[p].up
      /\ e.ev = "press" => ~press'[e.id].clear
  BY MovesKeep
<1>3. fsm' = fsm /\ did' = did /\ (fsm.pressed => fsm.id \in 1 .. presses)
  BY NamedNow DEF Moves, Named
<1>4. LossFirst' /\ Ready' /\ Rested' /\ Recent'
  BY <1>1 DEF LossFirst, Ready, Rested, Recent
<1>5. Kept'
  BY <1>2, <1>3 DEF Traced, Kept
<1>6. Accounted'
  <2>1. SUFFICES ASSUME NEW p \in 1 .. presses', press'[p].clear, did[p] = <<>>
                 PROVE  \/ fsm.pressed /\ fsm.id = p
                        \/ p \in Over' /\ press'[p].up - press'[p].down < SHORT_PRESS_MIN
    BY <1>3 DEF Accounted
  <2>2. p \in 1 .. presses
    BY <1>2, <2>1 DEF Moves
  <2>3. (fsm.pressed /\ fsm.id = p) \/ (p \in Over /\ press[p].up - press[p].down < SHORT_PRESS_MIN)
    BY <1>1, <1>2, <2>1, <2>2 DEF Traced, Accounted
  <2>4. QED  BY <1>2, <2>2, <2>3 DEF Moves
<1>7. LongOnes'
  BY MovesLong DEF Traced
<1>8. QED  BY <1>4, <1>5, <1>6, <1>7 DEF Traced

\* The event is read some time.
LEMMA AnswerAppended ==
  ASSUME PressInv, ShortInv, Timed, Traced, Recent, NEW e, NEW pr \in Presses, Push(e, pr), Moves(e, pr),
         fd = "open", buf' = Append(buf, e)
  PROVE  Traced' /\ Recent'
<1>1. /\ buf \in Seq(Event) /\ Len(buf') = Len(buf) + 1 /\ Len(buf) \in Nat /\ buf'[Len(buf) + 1] = e
      /\ \A i \in 1 .. Len(buf) : buf'[i] = buf[i]
  <2>1. buf \in Seq(Event) /\ e \in Event
    BY DEF PressInv, TypeOK, Moves
  <2>2. QED  BY <2>1
<1>2. /\ \A p \in 1 .. presses : press'[p].down = press[p].down /\ (press'[p].clear => press[p].clear)
      /\ \A p \in Over : press'[p].up = press[p].up
      /\ e.ev = "press" /\ press'[e.id].clear => ~blind
  BY MovesKeep
<1>3. UNCHANGED <<fsm, did, todo, fd, pc, now, late>> /\ (fsm.pressed => fsm.id \in 1 .. presses)
      /\ e.ev \in {"press", "release"} /\ e.at = now
  BY NamedNow DEF Moves, Named
<1>4. Then' = Then
  BY <1>3 DEF Then, AfterEvent, Reset
<1>5. \A i \in 1 .. Len(buf') : i \in 1 .. Len(buf) \/ (i = Len(buf) + 1 /\ buf'[i] = e)
  BY <1>1
<1>6. buf # <<>> => 1 \in 1 .. Len(buf)
  BY <1>1, EmptySeq
<1>7. LossFirst'
  <2>1. SUFFICES ASSUME NEW i \in 2 .. Len(buf') PROVE buf'[i].ev # "dropped"
    BY DEF LossFirst
  <2>2. CASE i \in 2 .. Len(buf)
    BY <1>1, <2>2 DEF Traced, LossFirst
  <2>3. CASE i = Len(buf) + 1
    BY <1>1, <1>3, <2>3
  <2>4. QED  BY <1>1, <2>2, <2>3
<1>8. Ready'
  <2>1. SUFFICES ASSUME NEW i \in 1 .. Len(buf'), buf'[i].ev = "press", press'[buf'[i].id].clear
                 PROVE  /\ i = 1 => Idle(Then)
                        /\ i = 2 => buf'[1].ev # "dropped"
    BY <1>4 DEF Ready, Idle
  <2>2. CASE i \in 1 .. Len(buf)
    <3>1. buf[i].ev = "press" /\ buf[i].id \in 1 .. presses /\ press[buf[i].id].clear
      BY <1>1, <1>2, <2>1, <2>2 DEF PressInv, Unread
    <3>2. (i = 1 => Idle(Then)) /\ (i = 2 => buf[1].ev # "dropped")
      BY <2>2, <3>1 DEF Traced, Ready
    <3>3. i = 2 => 1 \in 1 .. Len(buf)
      BY <1>1, <2>2
    <3>4. QED  BY <1>1, <3>2, <3>3
  <2>3. CASE i = Len(buf) + 1 /\ buf'[i] = e
    <3>1. ~key /\ ~blind
      BY <1>2, <2>1, <2>3 DEF Moves
    <3>2. IF buf = <<>> THEN Idle(Then) ELSE buf[Len(buf)].ev = "release"
      BY <3>1 DEF Traced, Rested
    <3>3. i = 1 => buf = <<>>
      BY <1>1, <2>3, EmptySeq
    <3>4. i = 2 => Len(buf) = 1 /\ 1 \in 1 .. Len(buf)
      <4>1. \A n \in Nat : n + 1 = 2 => n = 1 /\ 1 \in 1 .. n
        OBVIOUS
      <4>2. Len(buf) \in Nat /\ i = Len(buf) + 1
        BY <1>1, <2>3
      <4>3. QED  BY <4>1, <4>2
    <3>a. i = 2 => buf # <<>>
      BY <3>4, EmptySeq
    <3>5. i = 2 => buf'[1].ev = "release"
      <4>1. i = 2 => buf[1].ev = "release"
        BY <3>2, <3>4, <3>a
      <4>2. QED  BY <1>1, <3>4, <4>1
    <3>6. QED  BY <3>2, <3>3, <3>5
  <2>4. QED  BY <1>5, <2>2, <2>3
<1>9. Rested'
  <2>1. ~key' => e.ev = "release"
    BY <1>3 DEF Moves
  <2>2. buf' # <<>> /\ buf'[Len(buf')] = e
    BY <1>1
  <2>3. QED  BY <2>1, <2>2 DEF Rested
<1>10. Kept'
  <2>1. buf'[1] = e \/ (buf # <<>> /\ buf'[1] = buf[1])
    BY <1>1, <1>6
  <2>2. QED  BY <1>2, <1>3, <2>1 DEF Traced, Kept
<1>11. Accounted'
  <2>1. SUFFICES ASSUME NEW p \in 1 .. presses', press'[p].clear, did[p] = <<>>
                 PROVE  \/ \E i \in 1 .. Len(buf') : buf'[i].ev = "press" /\ buf'[i].id = p
                        \/ fsm.pressed /\ fsm.id = p
                        \/ p \in Over' /\ press'[p].up - press'[p].down < SHORT_PRESS_MIN
    BY <1>3 DEF Accounted
  <2>2. CASE p \in 1 .. presses
    <3>1. \/ \E i \in 1 .. Len(buf) : buf[i].ev = "press" /\ buf[i].id = p
          \/ fsm.pressed /\ fsm.id = p
          \/ p \in Over /\ press[p].up - press[p].down < SHORT_PRESS_MIN
      BY <1>2, <2>1, <2>2 DEF Traced, Accounted
    <3>2. ASSUME NEW i \in 1 .. Len(buf), buf[i].ev = "press" /\ buf[i].id = p
          PROVE  \E j \in 1 .. Len(buf') : buf'[j].ev = "press" /\ buf'[j].id = p
      <4>1. i \in 1 .. Len(buf') /\ buf'[i] = buf[i]
        BY <1>1
      <4>2. QED  BY <3>2, <4>1
    <3>3. p \in Over => p \in Over' /\ press'[p].up = press[p].up /\ press'[p].down = press[p].down
      BY <1>2, <2>2 DEF Moves
    <3>4. QED  BY <3>1, <3>2, <3>3
  <2>3. CASE p \notin 1 .. presses
    <3>1. e.ev = "press" /\ e.id = p
      BY <1>3, <2>1, <2>3 DEF Moves
    <3>2. Len(buf) + 1 \in 1 .. Len(buf')
      BY <1>1
    <3>3. QED  BY <1>1, <3>1, <3>2
  <2>4. QED  BY <2>2, <2>3
<1>12. LongOnes'
  BY MovesLong DEF Traced
<1>13. Recent'
  <2>1. now \in Nat /\ late \in Nat
    BY TickAssumption DEF PressInv, TypeOK, Time
  <2>2. now <= now + late
    BY <2>1
  <2>3. QED  BY <1>1, <1>3, <1>5, <2>2 DEF Recent
<1>14. QED  BY <1>7, <1>8, <1>9, <1>10, <1>11, <1>12, <1>13 DEF Traced

\* The kernel has no room: what was there is lost, and with it the presses.
LEMMA AnswerLost ==
  ASSUME PressInv, ShortInv, Timed, Traced, NEW e, NEW pr \in Presses, Push(e, pr), Moves(e, pr),
         fd = "open", press' = Losing(pr), NEW d \in Event, d.ev = "dropped", d.at = now,
         buf' = <<d, e>> \/ (buf' = <<d>> /\ blind')
  PROVE  Traced' /\ Recent'
<1>1. UNCHANGED <<fsm, did, todo, fd, pc, now, late>> /\ e.ev \in {"press", "release"} /\ e.at = now
  BY DEF Moves
<1>2. \A p \in Press : did[p] = <<>> => ~press'[p].clear
  BY LosingIs
<1>3. \A p \in 1 .. presses' : did[p] = <<>> => ~press'[p].clear
  BY <1>2 DEF Moves
<1>4. /\ buf' # <<>> /\ buf'[1] = d /\ (Len(buf') = 1 \/ (Len(buf') = 2 /\ buf'[2] = e))
      /\ Len(buf') = 1 => blind'
  <2>1. CASE buf' = <<d, e>>
    <3>1. Len(buf') = 2 /\ buf'[1] = d /\ buf'[2] = e
      BY <2>1
    <3>2. QED  BY <3>1
  <2>2. CASE buf' = <<d>> /\ blind'
    <3>1. Len(buf') = 1 /\ buf'[1] = d
      BY <2>2
    <3>2. QED  BY <2>2, <3>1
  <2>3. QED  BY <2>1, <2>2
<1>5. \A i \in 1 .. Len(buf') : i = 1 \/ (i = 2 /\ buf'[2] = e)
  <2>1. CASE Len(buf') = 1
    <3>1. \A i \in 1 .. 1 : i = 1
      OBVIOUS
    <3>2. QED  BY <2>1, <3>1
  <2>2. CASE Len(buf') = 2 /\ buf'[2] = e
    <3>1. \A i \in 1 .. 2 : i = 1 \/ i = 2
      OBVIOUS
    <3>2. QED  BY <2>2, <3>1
  <2>3. QED  BY <1>4, <2>1, <2>2
<1>6. LossFirst'
  <2>1. \A i \in 2 .. Len(buf') : i \in 1 .. Len(buf') /\ i # 1
    OBVIOUS
  <2>2. \A i \in 2 .. Len(buf') : buf'[i] = e
    BY <1>5, <2>1
  <2>3. QED  BY <1>1, <2>2 DEF LossFirst
<1>7. Ready'
  <2>1. SUFFICES ASSUME NEW i \in 1 .. Len(buf'), buf'[i].ev = "press", press'[buf'[i].id].clear
                 PROVE  FALSE
    BY DEF Ready
  <2>2. buf'[i] = e /\ e.ev = "press"
    BY <1>4, <1>5, <2>1
  <2>3. did[e.id] = <<>> /\ e.id \in Press
    BY <2>2 DEF Moves
  <2>4. QED  BY <1>2, <2>1, <2>2, <2>3
<1>8. Rested'
  <2>1. ~key' => e.ev = "release"
    BY <1>1 DEF Moves
  <2>2. ~blind' => buf'[Len(buf')] = e
    BY <1>4
  <2>3. QED  BY <1>4, <2>1, <2>2 DEF Rested
<1>9. Kept'
  <2>1. fsm.pressed /\ ~fsm.long_fired => did[fsm.id] = <<>> /\ fsm.id \in Press
    BY FollowedIs
  <2>2. QED  BY <1>1, <1>2, <2>1 DEF Kept
<1>10. Accounted'
  BY <1>1, <1>3 DEF Accounted
<1>11. LongOnes'
  BY MovesLong DEF Traced
<1>12. Recent'
  <2>1. now \in Nat /\ late \in Nat
    BY TickAssumption DEF PressInv, TypeOK, Time
  <2>2. now <= now + late
    BY <2>1
  <2>3. \A i \in 1 .. Len(buf') : buf'[i].at = now
    BY <1>1, <1>4, <1>5
  <2>4. QED  BY <1>1, <2>2, <2>3 DEF Recent
<1>13. QED  BY <1>6, <1>7, <1>8, <1>9, <1>10, <1>11, <1>12 DEF Traced

LEMMA AnswerMoves ==
  ASSUME PressInv, ShortInv, Timed, AnswerInv, NEW e, NEW pr \in Presses, Push(e, pr), Moves(e, pr)
  PROVE  AnswerInv'
<1>1. UNCHANGED <<now, fd, fsm, pc, wake, stopping>>
  BY DEF Moves
<1>2. SUFFICES ASSUME ~stopping PROVE Traced' /\ Recent' /\ InTime' /\ Gone'
  BY <1>1 DEF AnswerInv, Traced
<1>3. Traced /\ Recent /\ InTime /\ Gone
  BY <1>2 DEF AnswerInv, Traced
<1>4. InTime' /\ Gone'
  BY <1>1, <1>3 DEF InTime, Gone
<1>5. Traced' /\ Recent'
  BY <1>3, PushIs, AnswerUnseen, AnswerAppended, AnswerLost
<1>6. QED  BY <1>4, <1>5

LEMMA AnswerKeyDown == ASSUME PressInv, ShortInv, Timed, AnswerInv, KeyDown PROVE AnswerInv'
<1>1. /\ presses \in 0 .. MaxPresses /\ presses < MaxPresses /\ presses' = presses + 1 /\ ~key /\ key' = TRUE
      /\ now \in Time /\ press \in Presses /\ presses' \in Press /\ presses' \in 0 .. MaxPresses
  BY TickAssumption DEF KeyDown, PressInv, TypeOK, Press, Presses
<1> DEFINE e == [ev |-> "press", at |-> now, id |-> presses']
           c == (fd = "open" /\ ~blind)
           new == [down |-> now, up |-> Held, clear |-> c]
           pr == [press EXCEPT ![presses'] = new]
<1>2. Push(e, pr)
  BY Zenon DEF KeyDown
<1>3. UNCHANGED <<now, late, fd, fsm, pc, wake, todo, stopping, did>>
  BY DEF KeyDown, daemon
<1>4. c \in BOOLEAN /\ Held \in 0 .. Held /\ (c => fd = "open" /\ ~blind)
  BY TickAssumption DEF Held
<1>5. On = 0 /\ On' = presses' /\ Over = 1 .. presses /\ Over' = 1 .. presses
  BY <1>1 DEF On, Over
<1>6. e \in Event /\ e.ev = "press" /\ e.id = presses' /\ e.at = now
  BY <1>1 DEF Event
<1>7. new \in [down : Time, up : 0 .. Held, clear : BOOLEAN] /\ (new.clear => fd = "open" /\ ~blind)
  <2> HIDE DEF c
  <2>1. QED  BY <1>1, <1>4
<1> HIDE DEF new
<1>8. pr \in Presses /\ pr[presses'] = new /\ \A p \in 1 .. presses : pr[p] = press[p]
  BY <1>1, <1>7 DEF Presses
<1> HIDE DEF e, pr
<1>9. /\ presses' \in Nat /\ 1 .. presses' = (1 .. presses) \cup {presses'} /\ 1 .. presses' \subseteq Press
      /\ presses' > presses
  BY <1>1, TickAssumption DEF Press
<1>10. did[presses'] = <<>>
  BY <1>1, <1>9 DEF PressInv, Fresh
<1>11. Moves(e, pr)
  BY <1>1, <1>3, <1>5, <1>6, <1>7, <1>8, <1>9, <1>10 DEF Moves
<1>12. QED  BY <1>2, <1>8, <1>11, AnswerMoves

LEMMA AnswerKeyUp == ASSUME PressInv, ShortInv, Timed, AnswerInv, KeyUp PROVE AnswerInv'
<1>1. /\ presses \in 0 .. MaxPresses /\ presses' = presses /\ key /\ key' = FALSE
      /\ now \in Time /\ press \in Presses
  BY DEF KeyUp, PressInv, TypeOK, Presses
<1> DEFINE e == [ev |-> "release", at |-> now, id |-> presses]
           pr == [press EXCEPT ![presses].up = now]
<1>2. Push(e, pr)
  BY DEF KeyUp
<1>3. UNCHANGED <<now, late, fd, fsm, pc, wake, todo, stopping, did>>
  BY DEF KeyUp, daemon
<1>4. presses \in Press /\ now \in 0 .. Held
  BY <1>1, TickAssumption DEF ShortInv, Held, Time
<1>5. On = presses /\ On' = 0 /\ Over = (1 .. presses) \ {presses} /\ Over' = (1 .. presses) \ {0}
  BY <1>1 DEF On, Over
<1>6. e \in Event /\ e.ev = "release" /\ e.at = now
  BY <1>1 DEF Event
<1>7. /\ pr \in Presses /\ pr[presses].up = now
      /\ \A p \in Press : pr[p].down = press[p].down /\ pr[p].clear = press[p].clear /\ (p # presses => pr[p] = press[p])
  BY <1>1, <1>4 DEF Presses
<1>8. 1 .. presses \subseteq Press /\ presses \in Nat
  BY <1>1, NamedNow, TickAssumption
<1> HIDE DEF e, pr
<1>9. Over \subseteq Over' /\ \A p \in Over : pr[p] = press[p]
  <2>1. \A p \in Over : p \in Press /\ p # presses /\ p \in (1 .. presses) \ {0}
    BY <1>5, <1>8
  <2>2. QED  BY <1>5, <1>7, <2>1
<1>10. \A p \in 1 .. presses : pr[p].down = press[p].down /\ (pr[p].clear => press[p].clear)
  BY <1>7, <1>8
<1>11. Moves(e, pr)
  BY <1>1, <1>3, <1>5, <1>6, <1>7, <1>8, <1>9, <1>10 DEF Moves
<1>12. QED  BY <1>2, <1>7, <1>11, AnswerMoves

LEMMA AnswerGone ==
  ASSUME PressInv, Traced, InTime, Gone, UNCHANGED <<key, presses, now, did>>, press' = Losing(press),
         buf' = <<>>, fd' # "open",
         \/ UNCHANGED <<fsm, pc, wake>> /\ (fd = "gone" => fd' = "gone")
         \/ ~fsm'.pressed /\ pc' = "dead"
  PROVE  Traced' /\ Recent' /\ InTime' /\ Gone'
<1>1. \A p \in Press : /\ press'[p].down = press[p].down /\ press'[p].up = press[p].up
                       /\ press'[p].clear => press[p].clear
                       /\ did[p] = <<>> => ~press'[p].clear
  BY LosingIs
<1>2. 1 .. presses \subseteq Press /\ On' = On /\ Over' = Over
  BY NamedNow DEF On, Over
<1>3. LossFirst' /\ Ready' /\ Rested' /\ Recent'
  BY DEF LossFirst, Ready, Rested, Recent
<1>4. Kept'
  <2>1. fsm.pressed /\ ~fsm.long_fired => did[fsm.id] = <<>> /\ fsm.id \in Press
    BY FollowedIs
  <2>2. QED  BY <1>1, <2>1 DEF Kept
<1>5. Accounted'
  BY <1>1, <1>2 DEF Accounted
<1>6. LongOnes'
  <2>1. SUFFICES ASSUME NEW p \in 1 .. presses, press'[p].clear, did[p] = <<"long">>
                 PROVE  WasLong(p)'
    BY DEF LongOnes
  <2>2. p \in Press /\ WasLong(p)
    BY <1>1, <1>2, <2>1 DEF Traced, LongOnes
  <2>3. QED  BY <1>1, <1>2, <2>2 DEF WasLong
<1>7. InTime' /\ Gone'
  BY DEF InTime, Gone
<1>8. QED  BY <1>3, <1>4, <1>5, <1>6, <1>7 DEF Traced

LEMMA AnswerTick ==
  ASSUME PressInv, Traced, Recent, InTime, Gone, Tick
  PROVE  Traced' /\ Recent' /\ InTime' /\ Gone'
<1>1. /\ UNCHANGED <<key, presses, blind, buf, fd, fsm, pc, wake, todo, press, did, stopping>>
      /\ now' = now + 1 /\ late' = IF Runnable THEN late + 1 ELSE late
  BY DEF Tick, input, daemon
<1>2. now \in Nat /\ late \in Nat /\ wake \in Nat /\ LONG_PRESS \in Nat /\ buf \in Seq(Event) /\ press \in Presses
  BY TickAssumption DEF PressInv, TypeOK, Time, Presses
<1>3. On' = On /\ Over' = Over /\ Then' = Then
  BY <1>1 DEF On, Over, Then, AfterEvent, Reset
<1>4. LossFirst' /\ Ready' /\ Rested' /\ Kept' /\ Accounted'
  BY <1>1, <1>3 DEF Traced, LossFirst, Ready, Rested, Kept, Accounted, Idle
<1>5. LongOnes'
  <2>1. SUFFICES ASSUME NEW p \in 1 .. presses, press[p].clear, did[p] = <<"long">>
                 PROVE  WasLong(p)'
    BY <1>1 DEF LongOnes
  <2>2. p \in Press /\ WasLong(p)
    BY <2>1, NamedNow DEF Traced, LongOnes
  <2>3. press[p].down \in Nat
    BY <1>2, <2>2, TickAssumption DEF Presses, Time
  <2>4. QED  BY <1>1, <1>2, <1>3, <2>2, <2>3 DEF WasLong
<1>6. Recent'
  <2>1. SUFFICES ASSUME pc = "timeout", NEW i \in 1 .. Len(buf) PROVE now + 1 <= buf[i].at + late'
    BY <1>1 DEF Recent
  <2>2. Runnable
    BY <2>1 DEF Runnable
  <2>3. now <= buf[i].at + late
    BY <2>1 DEF Recent
  <2>a. buf[i] \in Event
    BY <1>2
  <2>b. buf[i].at \in Nat
    BY <2>a, TickAssumption DEF Event, Time
  <2>4. QED  BY <1>1, <1>2, <2>2, <2>3, <2>b
<1>7. InTime' /\ Gone'
  <2>1. wake <= now => wake <= now + 1
    BY <1>2
  <2>2. QED  BY <1>1, <2>1 DEF InTime, Gone
<1>8. QED  BY <1>4, <1>5, <1>6, <1>7 DEF Traced

LEMMA AnswerOther ==
  ASSUME PressInv, ShortInv, AnswerInv, Unplug \/ Plug \/ Signal \/ Die \/ Restart \/ Tick \/ UNCHANGED vars
  PROVE  AnswerInv'
<1>1. stopping' = stopping \/ stopping'
  BY DEF Unplug, Plug, Signal, Die, Restart, Tick, vars
<1>2. SUFFICES ASSUME ~stopping, ~stopping' PROVE Traced' /\ Recent' /\ InTime' /\ Gone'
  BY <1>1 DEF AnswerInv, Traced
<1>3. Traced /\ Recent /\ InTime /\ Gone
  BY <1>2 DEF AnswerInv, Traced
<1>4. CASE Unplug
  <2>1. /\ UNCHANGED <<key, presses, now, did, fsm, pc, wake>> /\ press' = Losing(press) /\ buf' = <<>>
        /\ fd' # "open" /\ (fd = "gone" => fd' = "gone")
    BY <1>4 DEF Unplug
  <2>2. QED  BY <1>3, <2>1, AnswerGone
<1>5. CASE Die
  <2>1. /\ UNCHANGED <<key, presses, now, did>> /\ press' = Losing(press) /\ buf' = <<>>
        /\ fd' # "open" /\ pc' = "dead" /\ ~fsm'.pressed
    BY <1>5, ResetType DEF Die
  <2>2. QED  BY <1>3, <2>1, AnswerGone
<1>6. CASE Plug \/ Restart \/ UNCHANGED vars
  <2>1. Still /\ UNCHANGED <<buf, fd, fsm, todo, did, late>> /\ (pc' = "loop" \/ UNCHANGED <<pc, wake>>)
    BY <1>6 DEF Plug, Restart, vars, input, daemon, Still
  <2>2. Recent' /\ InTime' /\ Gone'
    BY <1>3, <2>1 DEF Still, Recent, InTime, Gone
  <2>3. QED  BY <1>3, <2>1, <2>2, AnswerQuiet
<1>7. CASE Signal
  BY <1>2, <1>7 DEF Signal
<1>8. CASE Tick
  BY <1>3, <1>8, AnswerTick
<1>9. QED  BY <1>4, <1>5, <1>6, <1>7, <1>8

LEMMA AnswerNext == PressInv /\ ShortInv /\ Timed /\ AnswerInv /\ Prompt /\ [Next]_vars => AnswerInv'
  BY AnswerDaemon, AnswerKeyDown, AnswerKeyUp, AnswerOther DEF Next

LEMMA AnswerInit == Init => Timed /\ AnswerInv
<1>1. SUFFICES ASSUME Init PROVE Timed /\ AnswerInv
  OBVIOUS
<1>2. presses = 0 /\ buf = <<>> /\ fd = "closed" /\ pc = "loop" /\ fsm = Reset(FALSE)
  BY <1>1 DEF Init
<1>3. 1 .. presses = {} /\ Len(buf) = 0 /\ ~fsm.pressed
  <2>1. 1 .. 0 = {} /\ Len(<<>>) = 0
    OBVIOUS
  <2>2. ~fsm.pressed
    BY <1>2, ResetType
  <2>3. QED  BY <1>2, <2>1, <2>2
<1>4. Timed /\ Accounted /\ LongOnes
  BY <1>3 DEF Timed, Accounted, LongOnes
<1>5. LossFirst /\ Ready
  <2>1. 1 .. 0 = {} /\ 2 .. 0 = {}
    OBVIOUS
  <2>2. QED  BY <1>3, <2>1 DEF LossFirst, Ready
<1>a. Rested /\ Kept /\ Recent /\ InTime /\ Gone
  BY <1>2, <1>3 DEF Rested, Kept, Recent, InTime, Gone
<1>6. QED  BY <1>4, <1>5, <1>a DEF AnswerInv, Traced

LEMMA AnswersAre ==
  ASSUME PressInv, NEW p \in Press
  PROVE  did[p] \in {<<>>, <<"short">>, <<"long">>}
<1>1. did[p] \in Seq({"short", "long"}) /\ Len(did[p]) <= 1 /\ Len(did[p]) \in Nat
  BY DEF PressInv, TypeOK, OneActionPerPress
<1>2. CASE Len(did[p]) = 0
  <2>1. did[p] = <<>>
    BY <1>1, <1>2, EmptySeq
  <2>2. QED  BY <2>1
<1>3. CASE Len(did[p]) = 1
  <2>1. did[p][1] \in {"short", "long"} /\ did[p] = <<did[p][1]>>
    BY <1>1, <1>3
  <2>2. QED  BY <2>1
<1>4. Len(did[p]) = 0 \/ Len(did[p]) = 1
  <2>1. \A n \in Nat : n <= 1 => n = 0 \/ n = 1
    OBVIOUS
  <2>2. QED  BY <1>1, <2>1
<1>5. QED  BY <1>2, <1>3, <1>4

\* With nothing left to do, every press that could be followed has its answer.
LEMMA AnswersAreDue == PressInv /\ ShortInv /\ Timed /\ AnswerInv => Answered
<1>1. SUFFICES ASSUME PressInv, ShortInv, Timed, AnswerInv, pc = "wait", ~Runnable, ~stopping,
                      NEW p \in 1 .. presses, press[p].clear
               PROVE  did[p] \in Due(p)
  BY DEF Answered
<1>2. fd # "gone" /\ buf = <<>> /\ ~(now >= wake)
  BY <1>1 DEF Runnable, PollReady
<1>3. Kept /\ Accounted /\ LongOnes /\ InTime
  BY <1>1 DEF AnswerInv, Traced
<1>4. p \in Press /\ press \in Presses
  BY <1>1, NamedNow DEF PressInv, TypeOK, Presses
<1>5. /\ now \in 0 .. MaxTime /\ wake \in Nat /\ LONG_PRESS \in Nat /\ SHORT_PRESS_MIN \in Nat /\ Lag \in Nat
      /\ Held = MaxTime + 1 /\ MaxTime \in Nat /\ press[p].down \in Nat /\ press[p].up \in Nat
  BY <1>1, <1>4, TickAssumption DEF PressInv, TypeOK, Time, Presses, Held
<1> DEFINE held == (IF press[p].up = Held THEN now ELSE press[p].up) - press[p].down
           none == held < SHORT_PRESS_MIN \/ (press[p].up = Held /\ held < LONG_PRESS)
           short == press[p].up # Held /\ held \in SHORT_PRESS_MIN .. (LONG_PRESS - 1)
           long == held + (IF press[p].up = Held THEN 0 ELSE Lag) >= LONG_PRESS
<1>6. /\ none => <<>> \in Due(p)
      /\ short => <<"short">> \in Due(p)
      /\ long => <<"long">> \in Due(p)
  BY Zenon DEF Due
<1>7. /\ p \in Over => press[p].up # Held /\ held = press[p].up - press[p].down
      /\ p = On => press[p].up = Held /\ held = now - press[p].down
      /\ p \in Over \/ p = On
  <2>1. p \in Over \/ p = On
    BY DEF Over
  <2>2. p \in Over => press[p].up <= now
    BY <1>1 DEF Timed
  <2>3. p = On => press[p].up = Held
    BY <1>1 DEF Timed
  <2>4. QED  BY <1>5, <2>1, <2>2, <2>3
<1> HIDE DEF held
<1>8. CASE did[p] = <<>>
  <2>1. CASE fsm.pressed /\ fsm.id = p
    <3>1. ~fsm.long_fired
      BY <1>1, <1>8, <2>1, FollowedIs, AnswersDiffer
    <3>2. fd = "open"
      BY <1>1, <1>3, <2>1, <3>1 DEF Kept
    <3>3. fsm.at = press[p].down /\ Closes(buf, 1, p, On)
      BY <1>1, <2>1, <3>1, <3>2 DEF ShortInv, Awaited
    <3>4. 1 > Len(buf)
      BY <1>2
    <3>5. p = On
      BY <3>3, <3>4 DEF Closes
    <3>6. wake <= now \/ wake <= press[p].down + LONG_PRESS
      BY <1>1, <1>3, <2>1, <3>1, <3>3 DEF InTime
    <3>7. now - press[p].down < LONG_PRESS
      BY <1>2, <1>5, <3>6
    <3>8. none
      BY <1>7, <3>5, <3>7
    <3>9. QED  BY <1>6, <1>8, <3>8
  <2>2. CASE p \in Over /\ press[p].up - press[p].down < SHORT_PRESS_MIN
    <3>1. none
      BY <1>7, <2>2
    <3>2. QED  BY <1>6, <1>8, <3>1
  <2>3. QED
    BY <1>1, <1>2, <1>3, <1>8, <2>1, <2>2 DEF Accounted
<1>9. CASE did[p] = <<"short">>
  <2>1. p \in Over /\ press[p].up - press[p].down \in SHORT_PRESS_MIN .. (LONG_PRESS - 1)
    BY <1>1, <1>4, <1>9 DEF ShortInv, Short
  <2>2. short
    BY <1>7, <2>1
  <2>3. QED  BY <1>6, <1>9, <2>2
<1>10. CASE did[p] = <<"long">>
  <2>1. WasLong(p)
    BY <1>1, <1>3, <1>10 DEF LongOnes
  <2>2. CASE p = On
    <3>1. long
      BY <1>5, <1>7, <2>1, <2>2 DEF WasLong
    <3>2. QED  BY <1>6, <1>10, <3>1
  <2>3. CASE p \in Over
    <3>1. p # On
      BY <2>3 DEF Over
    <3>2. long
      BY <1>5, <1>7, <2>1, <2>3, <3>1 DEF WasLong
    <3>3. QED  BY <1>6, <1>10, <3>2
  <2>4. QED  BY <1>7, <2>2, <2>3
<1>11. QED  BY <1>1, <1>4, <1>8, <1>9, <1>10, AnswersAre

\* As long as no event stays unread for longer than its time stamp is believed:
\* whenever the daemon waits in poll with nothing left to do, every press it
\* could follow has been answered with what it asked for, whatever was lost,
\* unplugged or restarted round it, and however late the daemon ran.
THEOREM PressesAreAnswered == Spec /\ []Prompt => []Answered
<1>1. Init => ShortInv
  <2>1. ASSUME Init PROVE /\ buf = <<>> /\ fd = "closed" /\ ~key
                          /\ \A p \in Press : did[p] = <<>>
    BY <2>1 DEF Init
  <2>2. QED
    BY <2>1, AnswersDiffer DEF ShortInv
<1>2. QED
  BY <1>1, PressInit, PressNext, ShortNext, TimedNext, AnswerInit, AnswerNext, AnswersAreDue, PTL DEF Spec

=============================================================================
