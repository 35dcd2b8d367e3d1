---------------------------- MODULE PowerAction -----------------------------
(* liuqin-power-key-action, the helper of liuqin-power-keyd, and the desktop *)
(* it drives.  A short press locks and darkens the tablet, and suspends it   *)
(* if the user chose so, or lights it again; which of the two is decided     *)
(* from what the previous press left in display-state and from what the      *)
(* desktop says.  A long press opens liuqin-power-menu.  The daemon runs one *)
(* helper at a time (PowerKey) and kills it after five seconds.  Mutter, the *)
(* screen shield, the idle timer and the kernel's sleep are the environment: *)
(* they are modelled from how the helper and its comments use them.          *)
EXTENDS Naturals

CONSTANTS
  Policies,      \* the settings of short-press-action the user may choose
  Passwordless,  \* waking the display may remove the shield of an account without a password
  MaxFaults      \* bound on calls that fail, helpers that are killed and restarts of the daemon

ASSUME PowerAssumption ==
  /\ Policies \subseteq {"blank", "suspend", "nothing"} /\ Policies # {}
  /\ Passwordless \in BOOLEAN /\ MaxFaults \in Nat

VARIABLES
  file,     \* display-state: "" when it does not exist
  policy,   \* short-press-action
  shield,   \* org.gnome.ScreenSaver is active
  locked,   \* the sessions are locked
  dark,     \* PowerSaveMode is 3
  power,    \* the machine: "awake", "falling" (a suspend was asked for), "asleep"
  menu,     \* liuqin-power-menu is open
  step,     \* where the press or its helper is
  saw,      \* what the helper has read so far
  faults,   \* faults so far
  idle,     \* history: the shield was raised by the idle timer
  own,      \* history: the last suspend was asked for by the helper, and its record has not been lost
  began,    \* history: the state in which the key went down
  calm      \* history: nothing has interfered since

desktop == <<shield, locked, dark, power>>
vars == <<file, policy, shield, locked, dark, power, menu, step, saw, faults, idle, own, began, calm>>

States == {"", "off", "on-locked", "suspend-requested"}
Calls  == {"policy", "state", "shield", "dpms", "lock", "activate", "blank", "light", "write", "suspend"}
Steps  == {"none", "down", "long"} \cup Calls

Saw   == [policy : {"blank", "suspend", "nothing"}, state : States, shield : BOOLEAN, new : States]
Began == [dark : BOOLEAN, asleep : BOOLEAN, idle : BOOLEAN, stale : BOOLEAN]

Blank == [policy |-> "nothing", state |-> "", shield |-> FALSE, new |-> ""]

-----------------------------------------------------------------------------
(* A short press.                                                            *)

\* display-state no longer says what became of the display: something else has
\* darkened it, lit it, or unlocked it before it went dark.
Stale == \/ dark /\ (file = "on-locked" \/ ~shield)
         \/ ~dark /\ (file = "suspend-requested" \/ (shield /\ file # "on-locked"))

\* The key goes down.  It wakes the machine.
KeyDown ==
  /\ step = "none" /\ power # "falling"
  /\ step' = "down" /\ power' = "awake"
  /\ began' = [dark |-> dark, asleep |-> power = "asleep" /\ own, idle |-> idle, stale |-> Stale]
  /\ calm' = TRUE
  /\ UNCHANGED <<file, policy, shield, locked, dark, menu, saw, faults, idle, own>>

\* Mutter sees the key too, and lights a dark display before the release.
MutterSees ==
  /\ step = "down" /\ dark
  /\ dark' = FALSE
  /\ \/ UNCHANGED <<shield, locked, idle, calm>>
     \/ /\ Passwordless /\ shield
        /\ shield' = FALSE /\ locked' = FALSE /\ idle' = FALSE
        /\ calm' = FALSE
  /\ UNCHANGED <<file, policy, power, menu, step, saw, faults, own, began>>

\* The release starts the helper.
Short ==
  /\ step = "down"
  /\ step' = "policy" /\ saw' = Blank
  /\ UNCHANGED <<file, policy, desktop, menu, faults, idle, own, began, calm>>

ReadPolicy ==
  /\ step = "policy"
  /\ saw' = [saw EXCEPT !.policy = policy]
  /\ step' = IF policy = "nothing" THEN "none" ELSE "state"
  /\ UNCHANGED <<file, policy, desktop, menu, faults, idle, own, began, calm>>

ReadState ==
  /\ step = "state"
  /\ saw' = [saw EXCEPT !.state = file] /\ step' = "shield"
  /\ UNCHANGED <<file, policy, desktop, menu, faults, idle, own, began, calm>>

\* GetActive; an answer that does not come counts as "not active".
GetActive ==
  /\ step = "shield"
  /\ step' = "dpms"
  /\ \E active \in {shield, FALSE} :
        /\ \/ active = shield /\ UNCHANGED <<faults, calm>>
           \/ /\ active # shield /\ faults < MaxFaults
              /\ faults' = faults + 1 /\ calm' = FALSE
        /\ saw' = [saw EXCEPT !.shield = active]
  /\ UNCHANGED <<file, policy, desktop, menu, idle, own, began>>

\* Slips, for the runs that show what the properties catch.
WakesOnlyIfShielded(state, active, off) == state # "on-locked" /\ (active \/ off)
WakesWhenShielded(state, active, off) == state = "suspend-requested" \/ active \/ off

\* The press is a request to light the display.
Wakes(state, active, off) ==
  \/ state = "suspend-requested"
  \/ state = "off" /\ active
  \/ ~(state = "on-locked" /\ active) /\ (active \/ off)

\* PowerSaveMode is read, with the same reading of no answer; then the
\* direction is decided.
Decide ==
  /\ step = "dpms"
  /\ \E off \in {dark, FALSE} :
        /\ \/ off = dark /\ UNCHANGED <<faults, calm>>
           \/ /\ off # dark /\ faults < MaxFaults
              /\ faults' = faults + 1 /\ calm' = FALSE
        /\ step' = IF Wakes(saw.state, saw.shield, off) THEN "light" ELSE "lock"
  /\ UNCHANGED <<file, policy, desktop, menu, saw, idle, own, began>>

LockSessions ==
  /\ step = "lock"
  /\ locked' = TRUE /\ step' = "activate"
  /\ UNCHANGED <<file, policy, shield, dark, power, menu, saw, faults, idle, own, began, calm>>

SetActive ==
  /\ step = "activate"
  /\ shield' = TRUE /\ step' = "blank"
  /\ UNCHANGED <<file, policy, locked, dark, power, menu, saw, faults, idle, own, began, calm>>

BlankDisplay ==
  /\ step = "blank"
  /\ dark' = TRUE /\ step' = "write"
  /\ saw' = [saw EXCEPT !.new = IF saw.policy = "suspend" THEN "suspend-requested" ELSE "off"]
  /\ UNCHANGED <<file, policy, shield, locked, power, menu, faults, idle, own, began, calm>>

\* A slip: a name ReadState does not know.
LightUnnamed ==
  /\ step = "light"
  /\ dark' = FALSE /\ step' = "write"
  /\ saw' = [saw EXCEPT !.new = "on"]
  /\ UNCHANGED <<file, policy, shield, locked, power, menu, faults, idle, own, began, calm>>

LightDisplay ==
  /\ step = "light"
  /\ dark' = FALSE /\ step' = "write"
  /\ saw' = [saw EXCEPT !.new = "on-locked"]
  /\ UNCHANGED <<file, policy, shield, locked, power, menu, faults, idle, own, began, calm>>

\* display-state is written beside itself and renamed over the old one; the
\* suspend is asked for only then.
WriteState ==
  /\ step = "write"
  /\ file' = saw.new
  /\ step' = IF saw.new = "suspend-requested" THEN "suspend" ELSE "none"
  /\ UNCHANGED <<policy, desktop, menu, saw, faults, idle, own, began, calm>>

Suspend ==
  /\ step = "suspend"
  /\ power' = "falling" /\ own' = TRUE /\ step' = "none"
  /\ UNCHANGED <<file, policy, shield, locked, dark, menu, saw, faults, idle, began, calm>>

\* A call fails (set -e), or the daemon kills the helper.
HelperDies ==
  /\ step \in Calls \cup {"long"} /\ faults < MaxFaults
  /\ step' = "none" /\ faults' = faults + 1
  /\ calm' = FALSE
  /\ UNCHANGED <<file, policy, desktop, menu, saw, idle, own, began>>

\* The daemon is restarted: systemd kills the helper and empties the runtime directory.
DaemonRestarts ==
  /\ faults < MaxFaults /\ power # "asleep"
  /\ file' = "" /\ own' = FALSE /\ step' = "none" /\ faults' = faults + 1
  /\ calm' = FALSE
  /\ UNCHANGED <<policy, desktop, menu, saw, idle, began>>

-----------------------------------------------------------------------------
(* A long press and the menu.                                                *)

LongPress ==
  /\ step = "none" /\ power = "awake"
  /\ step' = "long" /\ calm' = FALSE
  /\ UNCHANGED <<file, policy, desktop, menu, saw, faults, idle, own, began>>

\* systemd-run: the named unit refuses a second chooser.
OpenMenu ==
  /\ step = "long"
  /\ step' = "none" /\ menu' = TRUE
  /\ UNCHANGED <<file, policy, desktop, saw, faults, idle, own, began, calm>>

\* The chooser is cancelled, or hands a restart or power-off over to GNOME,
\* which asks again.
MenuCancel ==
  /\ menu /\ power = "awake"
  /\ menu' = FALSE
  /\ UNCHANGED <<file, policy, desktop, step, saw, faults, idle, own, began, calm>>

\* The chooser asks for the suspend by itself and writes no display-state.
MenuSuspend ==
  /\ menu /\ power = "awake" /\ ~shield /\ ~dark
  /\ menu' = FALSE /\ power' = "falling" /\ own' = FALSE
  /\ calm' = FALSE
  /\ UNCHANGED <<file, policy, shield, locked, dark, step, saw, faults, idle, began>>

-----------------------------------------------------------------------------
(* The desktop and the machine.                                              *)

\* Time without input: the shield comes up, if it is not, and the display goes dark.
Idle ==
  /\ step = "none" /\ power = "awake" /\ ~dark
  /\ shield' = TRUE /\ dark' = TRUE /\ idle' = TRUE
  /\ locked' \in {locked, TRUE}
  /\ UNCHANGED <<file, policy, power, menu, step, saw, faults, own, began, calm>>

\* The user unlocks a lit display.  Nothing of this repository hears of it.
Unlock ==
  /\ power = "awake" /\ shield /\ ~dark
  /\ shield' = FALSE /\ locked' = FALSE /\ idle' = FALSE
  /\ calm' = FALSE
  /\ UNCHANGED <<file, policy, dark, power, menu, step, saw, faults, own, began>>

\* The shell raises the shield and the panel goes off before the machine
\* sleeps; a helper that is running is frozen.
Sleep ==
  /\ power = "falling"
  /\ power' = "asleep" /\ shield' = TRUE /\ locked' = TRUE /\ dark' = TRUE
  /\ calm' = FALSE
  /\ UNCHANGED <<file, policy, menu, step, saw, faults, idle, own, began>>

\* The suspend fails, or something else than the key wakes the machine.
OtherWake ==
  /\ power \in {"falling", "asleep"} /\ power' = "awake"
  /\ dark' \in {dark, FALSE}
  /\ calm' = FALSE
  /\ UNCHANGED <<file, policy, shield, locked, menu, step, saw, faults, idle, own, began>>

ChoosePolicy ==
  /\ power = "awake" /\ ~shield /\ ~dark /\ step = "none"
  /\ policy' \in Policies
  /\ UNCHANGED <<file, desktop, menu, step, saw, faults, idle, own, began, calm>>

Init ==
  /\ file = "" /\ policy \in Policies
  /\ shield = FALSE /\ locked = FALSE /\ dark = FALSE /\ power = "awake"
  /\ menu = FALSE /\ step = "none" /\ saw = Blank /\ faults = 0
  /\ idle = FALSE /\ own = FALSE
  /\ began = [dark |-> FALSE, asleep |-> FALSE, idle |-> FALSE, stale |-> FALSE]
  /\ calm = FALSE

Helper == /\ power # "asleep"
          /\ \/ Short \/ ReadPolicy \/ ReadState \/ GetActive \/ Decide
             \/ LockSessions \/ SetActive \/ BlankDisplay \/ LightDisplay
             \/ WriteState \/ Suspend \/ OpenMenu \/ HelperDies

Next == \/ KeyDown \/ MutterSees \/ Helper \/ DaemonRestarts
        \/ LongPress \/ MenuCancel \/ MenuSuspend
        \/ Idle \/ Unlock \/ Sleep \/ OtherWake \/ ChoosePolicy

Spec == Init /\ [][Next]_vars

-----------------------------------------------------------------------------
(* Properties.                                                               *)

\* The variables keep their types.
TypeOK ==
  /\ file \in States /\ policy \in Policies
  /\ shield \in BOOLEAN /\ locked \in BOOLEAN /\ dark \in BOOLEAN
  /\ power \in {"awake", "falling", "asleep"} /\ menu \in BOOLEAN /\ step \in Steps
  /\ saw \in Saw
  /\ faults \in 0 .. MaxFaults /\ idle \in BOOLEAN /\ own \in BOOLEAN
  /\ began \in Began /\ calm \in BOOLEAN

\* The press that wakes the machine from a suspend the helper asked for never
\* asks for another one, though the desktop has lit the display, or taken the
\* shield away, before the key is released, and though the helper that asked
\* was killed.
NoSecondSuspend == step = "suspend" => ~began.asleep

\* A short press that nothing interferes with leaves the display the other way
\* round: a dark one lit, a lit one dark and locked.  The exceptions are the
\* presses that find a display-state that is no longer true.
PressToggles ==
  [][ step = "write" /\ step' \in {"none", "suspend"} /\ calm /\ ~began.stale
        => dark' = ~began.dark /\ (dark' => locked' /\ shield') ]_vars

\* If the idle timer has already raised the shield and darkened the display, a
\* press is a request to wake it and not one to blank it again.
IdlePressWakes == step = "lock" /\ calm => ~(began.idle /\ began.dark)

=============================================================================
