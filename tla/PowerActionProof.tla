-------------------------- MODULE PowerActionProof ---------------------------
(* The press that wakes the machine does not suspend it again, and a press   *)
(* that nothing interferes with turns the display round.                     *)
EXTENDS PowerAction, TLAPS

\* While the machine sleeps, or is about to, because the helper asked for it,
\* display-state says so and no helper runs.
Recorded ==
  /\ own /\ power # "awake" => file = "suspend-requested" /\ step = "none"
  /\ step = "suspend" => file = "suspend-requested"

\* The helper of the press that woke the machine will find the record, has
\* found it, or has decided to light the display.
WakesUp ==
  began.asleep =>
     /\ step \in {"down", "policy", "state"} => file = "suspend-requested"
     /\ step \in {"shield", "dpms"} => saw.state = "suspend-requested"
     /\ step \notin {"lock", "activate", "blank", "suspend"}
     /\ step = "write" => saw.new = "on-locked"

WakeInv == TypeOK /\ Recorded /\ WakesUp

-----------------------------------------------------------------------------

\* What a press notes of the state it finds.
LEMMA BeganIs ==
  ASSUME TypeOK, KeyDown
  PROVE  began' \in Began /\ (began'.asleep => power = "asleep" /\ own)
<1> DEFINE a == (power = "asleep" /\ own)
           s == Stale
<1>1. began' = [dark |-> dark, asleep |-> a, idle |-> idle, stale |-> s]
  BY Zenon DEF KeyDown
<1>2. a \in BOOLEAN /\ s \in BOOLEAN /\ (a => power = "asleep" /\ own)
  BY Zenon DEF Stale
<1>3. dark \in BOOLEAN /\ idle \in BOOLEAN
  BY DEF TypeOK
<1> HIDE DEF a, s
<1>4. QED  BY <1>1, <1>2, <1>3 DEF Began

LEMMA KeyDownStep == ASSUME WakeInv, KeyDown PROVE WakeInv'
<1>1. began' \in Began /\ (began'.asleep => power = "asleep" /\ own)
  BY BeganIs DEF WakeInv
<1>2. /\ step' = "down" /\ power' = "awake" /\ calm' = TRUE
      /\ UNCHANGED <<file, policy, shield, locked, dark, menu, saw, faults, idle, own>>
  BY DEF KeyDown
<1>3. TypeOK'
  BY <1>1, <1>2 DEF WakeInv, TypeOK, Steps
<1>4. Recorded'
  BY <1>2 DEF Recorded
<1>5. WakesUp'
  BY <1>1, <1>2 DEF WakeInv, WakesUp, Recorded
<1>6. QED  BY <1>3, <1>4, <1>5 DEF WakeInv

\* A step that does not touch the helper, its record or the press.
LEMMA DesktopStep ==
  ASSUME WakeInv, file' = file, step' = step, saw' = saw, began' = began, own' = own \/ own' = FALSE,
         power' = power \/ power' = "awake" \/ own' = FALSE \/ (power = "falling" /\ power' = "asleep"), TypeOK'
  PROVE  WakeInv'
<1>1. Recorded' /\ WakesUp'
  BY DEF WakeInv, TypeOK, Recorded, WakesUp
<1>2. QED  BY <1>1 DEF WakeInv

LEMMA DesktopSteps ==
  ASSUME WakeInv, MutterSees \/ MenuCancel \/ MenuSuspend \/ Idle \/ Unlock \/ Sleep \/ OtherWake \/ ChoosePolicy
  PROVE  WakeInv'
<1>a. TypeOK
  BY DEF WakeInv
<1>1. CASE MutterSees
  <2>1. TypeOK'
    <3>1. UNCHANGED <<file, policy, power, menu, step, saw, faults, own, began>> /\ dark' = FALSE
      BY <1>1 DEF MutterSees
    <3>2. UNCHANGED <<shield, locked, idle, calm>>
          \/ (shield' = FALSE /\ locked' = FALSE /\ idle' = FALSE /\ calm' = FALSE)
      BY <1>1, Zenon DEF MutterSees
    <3>3. shield' \in BOOLEAN /\ locked' \in BOOLEAN /\ idle' \in BOOLEAN /\ calm' \in BOOLEAN
      <4>1. shield \in BOOLEAN /\ locked \in BOOLEAN /\ idle \in BOOLEAN /\ calm \in BOOLEAN
        BY <1>a DEF TypeOK
      <4>2. QED  BY <3>2, <4>1, Zenon
    <3>4. QED  BY <1>a, <3>1, <3>3 DEF TypeOK
  <2>2. QED  BY <1>1, <2>1, DesktopStep DEF MutterSees
<1>2. CASE MenuCancel
  <2>1. TypeOK'
    BY <1>2, <1>a DEF MenuCancel, desktop, TypeOK
  <2>2. QED  BY <1>2, <2>1, DesktopStep DEF MenuCancel, desktop
<1>3. CASE MenuSuspend
  <2>1. TypeOK'
    BY <1>3, <1>a DEF MenuSuspend, TypeOK
  <2>2. QED  BY <1>3, <2>1, DesktopStep DEF MenuSuspend
<1>4. CASE Idle
  <2>1. TypeOK'
    BY <1>4, <1>a DEF Idle, TypeOK
  <2>2. QED  BY <1>4, <2>1, DesktopStep DEF Idle
<1>5. CASE Unlock
  <2>1. TypeOK'
    BY <1>5, <1>a DEF Unlock, TypeOK
  <2>2. QED  BY <1>5, <2>1, DesktopStep DEF Unlock
<1>6. CASE Sleep
  <2>1. TypeOK'
    BY <1>6, <1>a DEF Sleep, TypeOK
  <2>2. QED  BY <1>6, <2>1, DesktopStep DEF Sleep
<1>7. CASE OtherWake
  <2>1. TypeOK'
    <3>1. UNCHANGED <<file, policy, shield, locked, menu, step, saw, faults, idle, own, began>>
          /\ power' = "awake" /\ calm' = FALSE
      BY <1>7 DEF OtherWake
    <3>2. dark \in BOOLEAN /\ dark' \in {dark, FALSE}
      BY <1>7, <1>a DEF OtherWake, TypeOK
    <3>3. dark' \in BOOLEAN
      BY <3>2, Zenon
    <3>4. QED  BY <1>a, <3>1, <3>3 DEF TypeOK
  <2>2. QED  BY <1>7, <2>1, DesktopStep DEF OtherWake
<1>8. CASE ChoosePolicy
  <2>1. TypeOK'
    BY <1>8, <1>a DEF ChoosePolicy, desktop, TypeOK
  <2>2. QED  BY <1>8, <2>1, DesktopStep DEF ChoosePolicy, desktop
<1>9. QED  BY <1>1, <1>2, <1>3, <1>4, <1>5, <1>6, <1>7, <1>8

\* A step of the helper: what it may do to the record and to what it has read.
LEMMA HelperStep ==
  ASSUME WakeInv, UNCHANGED <<policy, menu, own, began>>, idle' = idle,
         shield' \in BOOLEAN, locked' \in BOOLEAN, dark' \in BOOLEAN, calm' \in BOOLEAN,
         power' \in {"awake", "falling", "asleep"}, faults' \in 0 .. MaxFaults,
         step' \in Steps, saw' \in Saw, file' \in States, Recorded', WakesUp'
  PROVE  WakeInv'
<1>1. TypeOK'
  BY DEF WakeInv, TypeOK
<1>2. QED  BY <1>1 DEF WakeInv

LEMMA HelperSteps ==
  ASSUME WakeInv, Helper
  PROVE  WakeInv'
<1>a. /\ TypeOK /\ file \in States /\ policy \in {"blank", "suspend", "nothing"} /\ saw \in Saw
      /\ shield \in BOOLEAN /\ locked \in BOOLEAN /\ dark \in BOOLEAN /\ calm \in BOOLEAN
      /\ power \in {"awake", "falling", "asleep"} /\ step \in Steps /\ menu \in BOOLEAN
      /\ faults \in 0 .. MaxFaults /\ MaxFaults \in Nat /\ Recorded /\ WakesUp
  BY PowerAssumption DEF WakeInv, TypeOK
<1>b. own /\ power # "awake" => step = "none"
  BY <1>a DEF Recorded
<1>1. CASE Short
  <2>1. saw' \in Saw
    BY <1>1 DEF Short, Blank, Saw, States
  <2>2. Recorded' /\ WakesUp'
    BY <1>1, <1>a DEF Short, desktop, Recorded, WakesUp
  <2>3. QED  BY <1>1, <1>a, <2>1, <2>2, HelperStep DEF Short, desktop, Steps, Calls
<1>2. CASE ReadPolicy
  <2>1. saw' \in Saw /\ step' \in {"none", "state"}
    BY <1>2, <1>a DEF ReadPolicy, Saw
  <2>2. Recorded' /\ WakesUp'
    BY <1>2, <1>a, <2>1 DEF ReadPolicy, desktop, Recorded, WakesUp
  <2>3. QED  BY <1>2, <1>a, <2>1, <2>2, HelperStep DEF ReadPolicy, desktop, Steps, Calls
<1>3. CASE ReadState
  <2>1. saw' \in Saw /\ saw'.state = file
    BY <1>3, <1>a DEF ReadState, Saw
  <2>2. Recorded' /\ WakesUp'
    BY <1>3, <1>a, <2>1 DEF ReadState, desktop, Recorded, WakesUp
  <2>3. QED  BY <1>3, <1>a, <2>1, <2>2, HelperStep DEF ReadState, desktop, Steps, Calls
<1>4. CASE GetActive
  <2>1. PICK active \in {shield, FALSE} :
           /\ \/ active = shield /\ UNCHANGED <<faults, calm>>
              \/ active # shield /\ faults < MaxFaults /\ faults' = faults + 1 /\ calm' = FALSE
           /\ saw' = [saw EXCEPT !.shield = active]
    BY <1>4, Zenon DEF GetActive
  <2>2. active \in BOOLEAN
    BY <1>a, Zenon
  <2>3. saw' \in Saw /\ saw'.state = saw.state
    BY <1>a, <2>1, <2>2 DEF Saw
  <2>4. faults' \in 0 .. MaxFaults
    BY <1>a, <2>1
  <2>5. calm' \in BOOLEAN
    BY <1>a, <2>1
  <2>6. Recorded' /\ WakesUp'
    BY <1>4, <1>a, <2>3 DEF GetActive, desktop, Recorded, WakesUp
  <2>7. QED  BY <1>4, <1>a, <2>3, <2>4, <2>5, <2>6, HelperStep DEF GetActive, desktop, Steps, Calls
<1>5. CASE Decide
  <2>1. PICK off \in {dark, FALSE} :
           /\ \/ off = dark /\ UNCHANGED <<faults, calm>>
              \/ off # dark /\ faults < MaxFaults /\ faults' = faults + 1 /\ calm' = FALSE
           /\ step' = IF Wakes(saw.state, saw.shield, off) THEN "light" ELSE "lock"
    BY <1>5, Zenon DEF Decide
  <2>2. step' \in {"light", "lock"} /\ (saw.state = "suspend-requested" => step' = "light")
    BY <2>1, Zenon DEF Wakes
  <2>3. faults' \in 0 .. MaxFaults
    BY <1>a, <2>1
  <2>4. calm' \in BOOLEAN
    BY <1>a, <2>1
  <2>5. Recorded' /\ WakesUp'
    BY <1>5, <1>a, <2>2 DEF Decide, desktop, Recorded, WakesUp
  <2>6. QED  BY <1>5, <1>a, <2>2, <2>3, <2>4, <2>5, HelperStep DEF Decide, desktop, Steps, Calls
<1>6. CASE LockSessions
  <2>1. Recorded' /\ WakesUp'
    BY <1>6, <1>a DEF LockSessions, Recorded, WakesUp
  <2>2. QED  BY <1>6, <1>a, <2>1, HelperStep DEF LockSessions, Steps, Calls
<1>7. CASE SetActive
  <2>1. Recorded' /\ WakesUp'
    BY <1>7, <1>a DEF SetActive, Recorded, WakesUp
  <2>2. QED  BY <1>7, <1>a, <2>1, HelperStep DEF SetActive, Steps, Calls
<1>8. CASE BlankDisplay
  <2>1. saw' \in Saw
    BY <1>8, <1>a DEF BlankDisplay, Saw, States
  <2>2. Recorded' /\ WakesUp'
    BY <1>8, <1>a DEF BlankDisplay, Recorded, WakesUp
  <2>3. QED  BY <1>8, <1>a, <2>1, <2>2, HelperStep DEF BlankDisplay, Steps, Calls
<1>9. CASE LightDisplay
  <2>1. saw' \in Saw /\ saw'.new = "on-locked"
    BY <1>9, <1>a DEF LightDisplay, Saw, States
  <2>2. Recorded' /\ WakesUp'
    BY <1>9, <1>a, <2>1 DEF LightDisplay, Recorded, WakesUp
  <2>3. QED  BY <1>9, <1>a, <2>1, <2>2, HelperStep DEF LightDisplay, Steps, Calls
<1>10. CASE WriteState
  <2>1. saw.new \in States /\ step' \in {"suspend", "none"} /\ (step' = "suspend" => file' = "suspend-requested")
    BY <1>10, <1>a DEF WriteState, Saw
  <2>2. Recorded'
    BY <1>10, <1>b, <2>1 DEF WriteState, desktop, Recorded
  <2>3. WakesUp'
    BY <1>10, <1>a, <2>1 DEF WriteState, WakesUp
  <2>4. QED  BY <1>10, <1>a, <2>1, <2>2, <2>3, HelperStep DEF WriteState, desktop, Steps, Calls
<1>11. CASE Suspend
  <2>1. Recorded' /\ WakesUp'
    BY <1>11, <1>a DEF Suspend, Recorded, WakesUp
  <2>2. TypeOK'
    BY <1>11, <1>a DEF Suspend, TypeOK, Steps
  <2>3. QED  BY <2>1, <2>2 DEF WakeInv
<1>12. CASE OpenMenu
  <2>1. Recorded' /\ WakesUp'
    BY <1>12, <1>a DEF OpenMenu, desktop, Recorded, WakesUp
  <2>2. TypeOK'
    BY <1>12, <1>a DEF OpenMenu, desktop, TypeOK, Steps
  <2>3. QED  BY <2>1, <2>2 DEF WakeInv
<1>13. CASE HelperDies
  <2>1. faults' \in 0 .. MaxFaults
    BY <1>13, <1>a DEF HelperDies
  <2>2. Recorded' /\ WakesUp'
    BY <1>13, <1>a DEF HelperDies, desktop, Recorded, WakesUp
  <2>3. QED  BY <1>13, <1>a, <2>1, <2>2, HelperStep DEF HelperDies, desktop, Steps, Calls
<1>14. QED
  BY <1>1, <1>2, <1>3, <1>4, <1>5, <1>6, <1>7, <1>8, <1>9, <1>10, <1>11, <1>12, <1>13 DEF Helper

LEMMA OtherSteps ==
  ASSUME WakeInv, DaemonRestarts \/ LongPress
  PROVE  WakeInv'
<1>a. TypeOK /\ faults \in 0 .. MaxFaults /\ MaxFaults \in Nat
  BY PowerAssumption DEF WakeInv, TypeOK
<1>1. CASE DaemonRestarts
  <2>a. faults < MaxFaults /\ faults' = faults + 1
    BY <1>1 DEF DaemonRestarts
  <2>1. /\ file' = "" /\ own' = FALSE /\ step' = "none" /\ calm' = FALSE
        /\ UNCHANGED <<policy, shield, locked, dark, power, menu, saw, idle, began>>
    BY <1>1 DEF DaemonRestarts, desktop
  <2>2. faults' \in 0 .. MaxFaults
    BY <1>a, <2>a
  <2>3. file' \in States /\ step' \in Steps
    BY <2>1 DEF States, Steps
  <2>4. TypeOK'
    BY <1>a, <2>1, <2>2, <2>3 DEF TypeOK
  <2>5. Recorded' /\ WakesUp'
    BY <2>1 DEF Recorded, WakesUp
  <2>6. QED  BY <2>4, <2>5 DEF WakeInv
<1>2. CASE LongPress
  <2>1. /\ power = "awake" /\ step' = "long" /\ calm' = FALSE
        /\ UNCHANGED <<file, policy, shield, locked, dark, power, menu, saw, faults, idle, own, began>>
    BY <1>2 DEF LongPress, desktop
  <2>2. step' \in Steps
    BY <2>1 DEF Steps
  <2>3. TypeOK'
    BY <1>a, <2>1, <2>2 DEF TypeOK
  <2>4. Recorded' /\ WakesUp'
    BY <2>1 DEF Recorded, WakesUp
  <2>5. QED  BY <2>3, <2>4 DEF WakeInv
<1>3. QED  BY <1>1, <1>2

LEMMA WakeInit == Init => WakeInv
<1>1. SUFFICES ASSUME Init PROVE WakeInv
  OBVIOUS
<1>2. saw \in Saw /\ began \in Began /\ ~began.asleep
  BY <1>1 DEF Init, Blank, Saw, Began, States
<1>3. TypeOK
  <2>1. /\ policy \in Policies /\ shield = FALSE /\ locked = FALSE /\ dark = FALSE /\ power = "awake"
        /\ menu = FALSE /\ idle = FALSE /\ own = FALSE /\ calm = FALSE
    BY <1>1 DEF Init
  <2>2. file \in States /\ step \in Steps
    BY <1>1 DEF Init, States, Steps
  <2>3. faults \in 0 .. MaxFaults
    <3>1. faults = 0 /\ MaxFaults \in Nat
      BY <1>1, PowerAssumption DEF Init
    <3>2. QED  BY <3>1
  <2>4. QED  BY <1>2, <2>1, <2>2, <2>3 DEF TypeOK
<1>4. Recorded /\ WakesUp
  BY <1>1, <1>2 DEF Init, Recorded, WakesUp
<1>5. QED  BY <1>3, <1>4 DEF WakeInv

LEMMA WakeNext == WakeInv /\ [Next]_vars => WakeInv'
<1>1. SUFFICES ASSUME WakeInv, [Next]_vars PROVE WakeInv'
  OBVIOUS
<1>2. CASE UNCHANGED vars
  BY <1>1, <1>2 DEF vars, WakeInv, TypeOK, Recorded, WakesUp
<1>3. QED
  BY <1>1, <1>2, KeyDownStep, DesktopSteps, HelperSteps, OtherSteps DEF Next

\* The helper, display-state and the desktop keep their types.
THEOREM ActionTypes == Spec => []TypeOK
<1>1. WakeInv => TypeOK
  BY DEF WakeInv
<1>2. QED  BY <1>1, WakeInit, WakeNext, PTL DEF Spec

\* With any settings, with or without a password, and with any number of
\* failing calls, killed helpers and restarts of the daemon, the press that
\* wakes the machine from a suspend whose record is still there never asks for
\* another one.
THEOREM WakeDoesNotSuspend == Spec => []NoSecondSuspend
<1>1. WakeInv => NoSecondSuspend
  BY DEF WakeInv, WakesUp, NoSecondSuspend
<1>2. QED  BY <1>1, WakeInit, WakeNext, PTL DEF Spec

-----------------------------------------------------------------------------
(* An undisturbed press turns the display round. *)

\* What display-state and the shield say together agrees with the display the
\* press found: the helper will light a dark one, and lock a lit one.
Agrees(state, active) ==
  IF began.dark THEN state # "on-locked" /\ active
  ELSE state # "suspend-requested" /\ (active => state = "on-locked")

\* Where the helper of an undisturbed press is, and what it has seen or done by then.
Reading ==
  /\ step \in {"down", "policy", "state"} => Agrees(file, shield)
  /\ step = "shield" => Agrees(saw.state, shield)
  /\ step = "dpms" => Agrees(saw.state, saw.shield)
  /\ step \in {"down", "policy", "state", "shield", "dpms"} /\ ~began.dark => ~dark

Acting ==
  /\ step = "light" => began.dark
  /\ step \in {"lock", "activate", "blank"} => ~began.dark
  /\ step = "activate" => locked
  /\ step = "blank" => locked /\ shield
  /\ step = "write" => /\ dark <=> ~began.dark
                       /\ dark => locked /\ shield

Toggling == calm /\ ~began.stale => Reading /\ Acting

\* An interfered press, and a helper that is not running, owe nothing.
LEMMA NothingOwed ==
  ASSUME calm' = FALSE \/ step' \in {"none", "long", "suspend"}
  PROVE  Toggling'
<1>1. CASE calm' = FALSE
  BY <1>1 DEF Toggling
<1>2. CASE step' \in {"none", "long", "suspend"}
  BY <1>2 DEF Toggling, Reading, Acting
<1>3. QED  BY <1>1, <1>2

LEMMA ToggleKeyDown == ASSUME WakeInv, KeyDown PROVE Toggling'
<1> DEFINE a == (power = "asleep" /\ own)
           s == Stale
<1>1. began' = [dark |-> dark, asleep |-> a, idle |-> idle, stale |-> s]
  BY Zenon DEF KeyDown
<1>2. began'.dark = dark /\ began'.stale = s
  <2> HIDE DEF a, s
  <2>1. QED  BY <1>1
<1>3. step' = "down" /\ UNCHANGED <<file, shield, dark>>
  BY DEF KeyDown
<1>4. ASSUME ~s PROVE Reading' /\ Acting'
  <2>1. dark => file # "on-locked" /\ shield
    BY <1>4, Zenon DEF Stale
  <2>2. ~dark => file # "suspend-requested" /\ (shield => file = "on-locked")
    BY <1>4, Zenon DEF Stale
  <2> HIDE DEF a, s
  <2>3. Agrees(file, shield)'
    BY <1>2, <1>3, <2>1, <2>2 DEF Agrees
  <2>4. Reading'
    BY <1>2, <1>3, <2>3 DEF Reading
  <2>5. Acting'
    BY <1>3 DEF Acting
  <2>6. QED  BY <2>4, <2>5
<1>5. QED
  <2> HIDE DEF a, s
  <2>1. QED  BY <1>2, <1>4 DEF Toggling

\* What the desktop does of its own accord either interferes, or leaves what
\* the press found as it was.
LEMMA ToggleDesktop ==
  ASSUME WakeInv, Toggling,
         MutterSees \/ MenuCancel \/ MenuSuspend \/ Idle \/ Unlock \/ Sleep \/ OtherWake \/ ChoosePolicy
  PROVE  Toggling'
<1>1. CASE MutterSees
  <2>1. step' = "down" /\ dark' = FALSE /\ UNCHANGED <<file, saw, began>>
    BY <1>1 DEF MutterSees
  <2>2. (shield' = shield /\ calm' = calm) \/ calm' = FALSE
    BY <1>1, Zenon DEF MutterSees
  <2>3. step = "down"
    BY <1>1 DEF MutterSees
  <2>4. CASE shield' = shield /\ calm' = calm
    BY <2>1, <2>3, <2>4 DEF Toggling, Reading, Acting, Agrees
  <2>5. QED  BY <2>2, <2>4, NothingOwed
<1>2. CASE MenuCancel
  BY <1>2 DEF MenuCancel, desktop, Toggling, Reading, Acting, Agrees
<1>3. CASE MenuSuspend
  BY <1>3, NothingOwed DEF MenuSuspend
<1>4. CASE Idle
  BY <1>4, NothingOwed DEF Idle
<1>5. CASE Unlock
  BY <1>5, NothingOwed DEF Unlock
<1>6. CASE Sleep
  BY <1>6, NothingOwed DEF Sleep
<1>7. CASE OtherWake
  BY <1>7, NothingOwed DEF OtherWake
<1>8. CASE ChoosePolicy
  BY <1>8, NothingOwed DEF ChoosePolicy
<1>9. QED  BY <1>1, <1>2, <1>3, <1>4, <1>5, <1>6, <1>7, <1>8

\* The direction is decided right: agreeing readings wake a display that was
\* dark, and only such a one.
LEMMA WakesIfDark ==
  ASSUME NEW state, NEW active \in BOOLEAN, NEW off \in BOOLEAN,
         Agrees(state, active), ~began.dark => ~off
  PROVE  Wakes(state, active, off) <=> began.dark
<1>1. CASE began.dark
  BY <1>1, Zenon DEF Agrees, Wakes
<1>2. CASE ~began.dark
  <2>1. state # "suspend-requested" /\ (active => state = "on-locked") /\ ~off
    BY <1>2, Zenon DEF Agrees
  <2>2. ~(state = "off" /\ active)
    BY <2>1
  <2>3. QED  BY <1>2, <2>1, <2>2, Zenon DEF Wakes
<1>3. QED  BY <1>1, <1>2

LEMMA ToggleReads ==
  ASSUME WakeInv, Toggling, Short \/ ReadPolicy \/ ReadState \/ GetActive
  PROVE  Toggling'
<1>a. saw \in Saw /\ shield \in BOOLEAN
  BY DEF WakeInv, TypeOK
<1>1. CASE Short
  BY <1>1 DEF Short, desktop, Toggling, Reading, Acting, Agrees
<1>2. CASE ReadPolicy
  <2>1. step = "policy" /\ step' \in {"none", "state"}
    BY <1>2 DEF ReadPolicy
  <2>2. UNCHANGED <<file, shield, dark, began, calm>>
    BY <1>2 DEF ReadPolicy, desktop
  <2>3. CASE step' = "state"
    BY <2>1, <2>2, <2>3 DEF Toggling, Reading, Acting, Agrees
  <2>4. QED  BY <2>1, <2>3, NothingOwed
<1>3. CASE ReadState
  <2>1. saw'.state = file
    BY <1>3, <1>a DEF ReadState, Saw
  <2>2. step = "state" /\ step' = "shield" /\ UNCHANGED <<shield, dark, began, calm>>
    BY <1>3 DEF ReadState, desktop
  <2>3. QED  BY <2>1, <2>2 DEF Toggling, Reading, Acting, Agrees
<1>4. CASE GetActive
  <2>1. PICK active \in {shield, FALSE} :
           /\ \/ active = shield /\ UNCHANGED <<faults, calm>>
              \/ active # shield /\ faults < MaxFaults /\ faults' = faults + 1 /\ calm' = FALSE
           /\ saw' = [saw EXCEPT !.shield = active]
    BY <1>4, Zenon DEF GetActive
  <2>2. step = "shield" /\ step' = "dpms" /\ UNCHANGED <<dark, began>>
    BY <1>4 DEF GetActive, desktop
  <2>3. saw'.state = saw.state /\ saw'.shield = active
    BY <1>a, <2>1 DEF Saw
  <2>4. CASE active = shield /\ calm' = calm
    BY <2>2, <2>3, <2>4 DEF Toggling, Reading, Acting, Agrees
  <2>5. QED  BY <2>1, <2>4, NothingOwed
<1>5. QED  BY <1>1, <1>2, <1>3, <1>4

LEMMA ToggleDecide ==
  ASSUME WakeInv, Toggling, Decide
  PROVE  Toggling'
<1>a. saw \in Saw /\ dark \in BOOLEAN
  BY DEF WakeInv, TypeOK
<1>1. PICK off \in {dark, FALSE} :
         /\ \/ off = dark /\ UNCHANGED <<faults, calm>>
            \/ off # dark /\ faults < MaxFaults /\ faults' = faults + 1 /\ calm' = FALSE
         /\ step' = IF Wakes(saw.state, saw.shield, off) THEN "light" ELSE "lock"
  BY Zenon DEF Decide
<1>2. step = "dpms" /\ began' = began
  BY DEF Decide
<1>3. ASSUME off = dark, calm' = calm, calm, ~began.stale PROVE Reading' /\ Acting'
  <2>1. Agrees(saw.state, saw.shield) /\ (~began.dark => ~dark)
    BY <1>2, <1>3 DEF Toggling, Reading
  <2>2. saw.shield \in BOOLEAN
    BY <1>a DEF Saw
  <2>3. Wakes(saw.state, saw.shield, dark) <=> began.dark
    BY <1>a, <2>1, <2>2, WakesIfDark
  <2>4. (began.dark => step' = "light") /\ (~began.dark => step' = "lock")
    BY <1>1, <1>3, <2>3, Zenon
  <2>5. QED  BY <1>2, <2>4 DEF Reading, Acting
<1>4. QED
  BY <1>1, <1>2, <1>3, NothingOwed DEF Toggling

LEMMA ToggleActs ==
  ASSUME WakeInv, Toggling,
         LockSessions \/ SetActive \/ BlankDisplay \/ LightDisplay \/ WriteState \/ Suspend \/ OpenMenu \/ HelperDies
  PROVE  Toggling'
<1>1. CASE LockSessions
  BY <1>1 DEF LockSessions, Toggling, Reading, Acting
<1>2. CASE SetActive
  BY <1>2 DEF SetActive, Toggling, Reading, Acting
<1>3. CASE BlankDisplay
  BY <1>3 DEF BlankDisplay, Toggling, Reading, Acting
<1>4. CASE LightDisplay
  BY <1>4 DEF LightDisplay, Toggling, Reading, Acting
<1>5. CASE WriteState
  <2>1. step' \in {"none", "suspend"}
    BY <1>5 DEF WriteState
  <2>2. QED  BY <2>1, NothingOwed
<1>6. CASE Suspend
  BY <1>6, NothingOwed DEF Suspend
<1>7. CASE OpenMenu
  BY <1>7, NothingOwed DEF OpenMenu
<1>8. CASE HelperDies
  BY <1>8, NothingOwed DEF HelperDies
<1>9. QED  BY <1>1, <1>2, <1>3, <1>4, <1>5, <1>6, <1>7, <1>8

LEMMA ToggleNext == WakeInv /\ Toggling /\ [Next]_vars => Toggling'
<1>1. SUFFICES ASSUME WakeInv, Toggling, [Next]_vars PROVE Toggling'
  OBVIOUS
<1>2. CASE UNCHANGED vars
  BY <1>1, <1>2 DEF vars, Toggling, Reading, Acting, Agrees
<1>3. CASE Helper
  BY <1>1, <1>3, ToggleReads, ToggleDecide, ToggleActs DEF Helper
<1>4. CASE DaemonRestarts \/ LongPress
  <2>1. calm' = FALSE
    BY <1>4 DEF DaemonRestarts, LongPress
  <2>2. QED  BY <2>1, NothingOwed
<1>5. QED
  BY <1>1, <1>2, <1>3, <1>4, ToggleKeyDown, ToggleDesktop DEF Next

\* A helper leaves its last step by writing display-state, or because something
\* has interfered.
LEMMA TogglePays ==
  ASSUME WakeInv, Toggling, [Next]_vars,
         step = "write", step' \in {"none", "suspend"}, calm, ~began.stale
  PROVE  dark' = ~began.dark /\ (dark' => locked' /\ shield')
<1>a. dark \in BOOLEAN /\ began \in Began
  BY DEF WakeInv, TypeOK
<1>b. began.dark \in BOOLEAN
  BY <1>a DEF Began
<1>1. (dark <=> ~began.dark) /\ (dark => locked /\ shield)
  BY DEF Toggling, Acting
<1>2. dark = ~began.dark
  BY <1>a, <1>b, <1>1, Zenon
<1>3. dark' = dark /\ locked' = locked /\ shield' = shield
  BY DEF Next, Helper, vars, desktop, KeyDown, MutterSees, Short, ReadPolicy, ReadState, GetActive, Decide,
         LockSessions, SetActive, BlankDisplay, LightDisplay, WriteState, Suspend, OpenMenu, HelperDies,
         DaemonRestarts, LongPress, MenuCancel, MenuSuspend, Idle, Unlock, Sleep, OtherWake, ChoosePolicy
<1>4. QED  BY <1>1, <1>2, <1>3

\* With any settings and any number of failures, a short press that nothing
\* interferes with and that finds a true display-state lights a dark display,
\* and locks and darkens a lit one.
THEOREM PressesToggle == Spec => PressToggles
<1> DEFINE Inv == WakeInv /\ Toggling
<1>1. Init => Inv
  BY WakeInit DEF Init, Toggling
<1>2. Inv /\ [Next]_vars => Inv'
  BY WakeNext, ToggleNext
<1>3. Inv /\ [Next]_vars =>
        [ step = "write" /\ step' \in {"none", "suspend"} /\ calm /\ ~began.stale
            => dark' = ~began.dark /\ (dark' => locked' /\ shield') ]_vars
  BY TogglePays
<1> HIDE DEF Inv
<1>4. QED  BY <1>1, <1>2, <1>3, PTL DEF Spec, PressToggles


-----------------------------------------------------------------------------
(* A press under the shield of the idle timer: IdlePressWakes, as far as it  *)
(* holds.                                                                    *)

\* The shield the idle timer raised stays up until the session is unlocked.
IdleShielded == idle => shield

\* A press that finds that shield, and that nothing interferes with, sees it:
\* display-state alone decides.
Shown ==
  calm /\ began.idle =>
     /\ step \in {"down", "policy", "state", "shield"} => shield
     /\ step = "dpms" => saw.shield
     /\ step = "light" => saw.state # "on-locked"
     /\ step \in {"lock", "activate", "blank"} => saw.state = "on-locked"

ShownInv == IdleShielded /\ Shown

\* An interfered press, and a helper that has done what it does to the display,
\* owe nothing.
LEMMA ShownNothing ==
  ASSUME calm' = FALSE \/ step' \in {"none", "long", "suspend", "write"}
  PROVE  Shown'
<1>1. CASE calm' = FALSE
  BY <1>1 DEF Shown
<1>2. CASE step' \in {"none", "long", "suspend", "write"}
  BY <1>2 DEF Shown
<1>3. QED  BY <1>1, <1>2

\* A step that keeps the shield, the helper and what it has read.
LEMMA ShownKept ==
  ASSUME ShownInv, UNCHANGED <<shield, idle, step, saw, began, calm>>
  PROVE  ShownInv'
BY DEF ShownInv, IdleShielded, Shown

LEMMA ShownKeyDown == ASSUME WakeInv, ShownInv, KeyDown PROVE ShownInv'
<1> DEFINE a == (power = "asleep" /\ own)
           s == Stale
<1>1. began' = [dark |-> dark, asleep |-> a, idle |-> idle, stale |-> s]
  BY Zenon DEF KeyDown
<1>2. began'.idle = idle
  <2> HIDE DEF a, s
  <2>1. QED  BY <1>1
<1>3. step' = "down" /\ UNCHANGED <<shield, idle>>
  BY DEF KeyDown
<1>4. QED  BY <1>2, <1>3 DEF ShownInv, IdleShielded, Shown

LEMMA ShownDesktop ==
  ASSUME WakeInv, ShownInv,
         MutterSees \/ MenuCancel \/ MenuSuspend \/ Idle \/ Unlock \/ Sleep \/ OtherWake \/ ChoosePolicy
  PROVE  ShownInv'
<1>1. CASE MutterSees
  <2>1. UNCHANGED <<step, saw, began>>
    BY <1>1 DEF MutterSees
  <2>2. UNCHANGED <<shield, idle, calm>> \/ (idle' = FALSE /\ calm' = FALSE)
    BY <1>1, Zenon DEF MutterSees
  <2>3. CASE UNCHANGED <<shield, idle, calm>>
    BY <2>1, <2>3, ShownKept
  <2>4. CASE idle' = FALSE /\ calm' = FALSE
    BY <2>4, ShownNothing DEF ShownInv, IdleShielded
  <2>5. QED  BY <2>2, <2>3, <2>4
<1>2. CASE MenuCancel
  BY <1>2, ShownKept DEF MenuCancel, desktop
<1>3. CASE MenuSuspend
  BY <1>3, ShownNothing DEF MenuSuspend, ShownInv, IdleShielded
<1>4. CASE Idle
  BY <1>4, ShownNothing DEF Idle, ShownInv, IdleShielded
<1>5. CASE Unlock
  BY <1>5, ShownNothing DEF Unlock, ShownInv, IdleShielded
<1>6. CASE Sleep
  BY <1>6, ShownNothing DEF Sleep, ShownInv, IdleShielded
<1>7. CASE OtherWake
  BY <1>7, ShownNothing DEF OtherWake, ShownInv, IdleShielded
<1>8. CASE ChoosePolicy
  BY <1>8, ShownKept DEF ChoosePolicy, desktop
<1>9. QED  BY <1>1, <1>2, <1>3, <1>4, <1>5, <1>6, <1>7, <1>8

LEMMA ShownReads ==
  ASSUME WakeInv, ShownInv, Short \/ ReadPolicy \/ ReadState \/ GetActive
  PROVE  ShownInv'
<1>a. saw \in Saw
  BY DEF WakeInv, TypeOK
<1>b. UNCHANGED <<shield, idle, began>>
  BY DEF Short, ReadPolicy, ReadState, GetActive, desktop
<1>c. IdleShielded'
  BY <1>b DEF ShownInv, IdleShielded
<1>1. CASE Short
  BY <1>1, <1>b, <1>c DEF Short, ShownInv, Shown
<1>2. CASE ReadPolicy
  <2>1. step = "policy" /\ step' \in {"none", "state"} /\ calm' = calm
    BY <1>2 DEF ReadPolicy
  <2>2. CASE step' = "none"
    BY <1>c, <2>2, ShownNothing DEF ShownInv
  <2>3. CASE step' = "state"
    BY <1>b, <1>c, <2>1, <2>3 DEF ShownInv, Shown
  <2>4. QED  BY <2>1, <2>2, <2>3
<1>3. CASE ReadState
  BY <1>3, <1>b, <1>c DEF ReadState, ShownInv, Shown
<1>4. CASE GetActive
  <2>1. PICK active \in {shield, FALSE} :
           /\ \/ active = shield /\ UNCHANGED <<faults, calm>>
              \/ active # shield /\ faults < MaxFaults /\ faults' = faults + 1 /\ calm' = FALSE
           /\ saw' = [saw EXCEPT !.shield = active]
    BY <1>4, Zenon DEF GetActive
  <2>2. step = "shield" /\ step' = "dpms"
    BY <1>4 DEF GetActive
  <2>3. saw'.shield = active
    BY <1>a, <2>1 DEF Saw
  <2>4. CASE active = shield /\ calm' = calm
    BY <1>b, <1>c, <2>2, <2>3, <2>4 DEF ShownInv, Shown
  <2>5. CASE calm' = FALSE
    BY <1>c, <2>5, ShownNothing DEF ShownInv
  <2>6. QED  BY <2>1, <2>4, <2>5
<1>5. QED  BY <1>1, <1>2, <1>3, <1>4

\* Under the shield, the display is lit unless display-state says that the last
\* press lit it.
LEMMA WakesUnlessOn ==
  ASSUME NEW state, NEW off
  PROVE  Wakes(state, TRUE, off) <=> state # "on-locked"
<1>1. state = "on-locked" => state # "off" /\ state # "suspend-requested"
  OBVIOUS
<1>2. QED  BY <1>1, Zenon DEF Wakes

LEMMA ShownDecide ==
  ASSUME WakeInv, ShownInv, Decide
  PROVE  ShownInv'
<1>a. saw.shield \in BOOLEAN
  BY DEF WakeInv, TypeOK, Saw
<1>1. PICK off \in {dark, FALSE} :
         /\ \/ off = dark /\ UNCHANGED <<faults, calm>>
            \/ off # dark /\ faults < MaxFaults /\ faults' = faults + 1 /\ calm' = FALSE
         /\ step' = IF Wakes(saw.state, saw.shield, off) THEN "light" ELSE "lock"
  BY Zenon DEF Decide
<1>2. step = "dpms" /\ UNCHANGED <<shield, idle, began, saw>>
  BY DEF Decide, desktop
<1>3. IdleShielded'
  BY <1>2 DEF ShownInv, IdleShielded
<1>4. CASE calm' = FALSE
  BY <1>3, <1>4, ShownNothing DEF ShownInv
<1>5. CASE calm' = calm
  <2>1. ASSUME calm', began'.idle
        PROVE  (step' = "light" /\ saw.state # "on-locked") \/ (step' = "lock" /\ saw.state = "on-locked")
    <3>1. saw.shield = TRUE
      BY <1>a, <1>2, <1>5, <2>1 DEF ShownInv, Shown
    <3>2. Wakes(saw.state, saw.shield, off) <=> saw.state # "on-locked"
      BY <3>1, WakesUnlessOn
    <3>3. QED  BY <1>1, <3>2, Zenon
  <2>2. Shown'
    BY <1>2, <2>1 DEF Shown
  <2>3. QED  BY <1>3, <2>2 DEF ShownInv
<1>6. QED  BY <1>1, <1>4, <1>5

LEMMA ShownActs ==
  ASSUME WakeInv, ShownInv,
         LockSessions \/ SetActive \/ BlankDisplay \/ LightDisplay \/ WriteState \/ Suspend \/ OpenMenu \/ HelperDies
  PROVE  ShownInv'
<1>1. CASE LockSessions
  BY <1>1 DEF LockSessions, ShownInv, IdleShielded, Shown
<1>2. CASE SetActive
  BY <1>2 DEF SetActive, ShownInv, IdleShielded, Shown
<1>3. CASE BlankDisplay
  BY <1>3, ShownNothing DEF BlankDisplay, ShownInv, IdleShielded
<1>4. CASE LightDisplay
  BY <1>4, ShownNothing DEF LightDisplay, ShownInv, IdleShielded
<1>5. CASE WriteState
  <2>1. step' \in {"none", "suspend"} /\ UNCHANGED <<shield, idle>>
    BY <1>5 DEF WriteState, desktop
  <2>2. QED  BY <2>1, ShownNothing DEF ShownInv, IdleShielded
<1>6. CASE Suspend
  BY <1>6, ShownNothing DEF Suspend, ShownInv, IdleShielded
<1>7. CASE OpenMenu
  BY <1>7, ShownNothing DEF OpenMenu, desktop, ShownInv, IdleShielded
<1>8. CASE HelperDies
  BY <1>8, ShownNothing DEF HelperDies, desktop, ShownInv, IdleShielded
<1>9. QED  BY <1>1, <1>2, <1>3, <1>4, <1>5, <1>6, <1>7, <1>8

LEMMA ShownNext == WakeInv /\ ShownInv /\ [Next]_vars => ShownInv'
<1>1. SUFFICES ASSUME WakeInv, ShownInv, [Next]_vars PROVE ShownInv'
  OBVIOUS
<1>2. CASE UNCHANGED vars
  BY <1>1, <1>2, ShownKept DEF vars
<1>3. CASE Helper
  BY <1>1, <1>3, ShownReads, ShownDecide, ShownActs DEF Helper
<1>4. CASE DaemonRestarts \/ LongPress
  <2>1. calm' = FALSE /\ UNCHANGED <<shield, idle>>
    BY <1>4 DEF DaemonRestarts, LongPress, desktop
  <2>2. QED  BY <1>1, <2>1, ShownNothing DEF ShownInv, IdleShielded
<1>5. QED
  BY <1>1, <1>2, <1>3, <1>4, ShownKeyDown, ShownDesktop DEF Next

\* The direction of an undisturbed press under the idle timer's shield: the
\* display is darkened exactly when display-state says on-locked, which is what
\* the press that last lit it left there.
RecordDecides ==
  calm /\ began.idle =>
     /\ step = "light" => saw.state # "on-locked"
     /\ step = "lock" => saw.state = "on-locked"

\* IdlePressWakes, as far as it holds: with any settings and any number of
\* failures, a press that finds the idle timer's shield, and that nothing
\* interferes with, lights the display, unless it reads on-locked, the record
\* of a press before the timer ran out.
THEOREM OnlyTheRecordMisleads == Spec => []RecordDecides
<1> DEFINE Inv == WakeInv /\ ShownInv
<1>1. Init => Inv
  BY WakeInit DEF Init, ShownInv, IdleShielded, Shown
<1>2. Inv /\ [Next]_vars => Inv'
  BY WakeNext, ShownNext
<1>3. Inv => RecordDecides
  BY DEF ShownInv, Shown, RecordDecides
<1> HIDE DEF Inv
<1>4. QED  BY <1>1, <1>2, <1>3, PTL DEF Spec

=============================================================================
