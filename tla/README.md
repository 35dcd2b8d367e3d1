# A verification project for xiaomipad-6pro-mainline

The repository puts Ubuntu beside Android on the Xiaomi Pad 6 Pro ("liuqin"): a
kernel and an initramfs, an installer that repartitions the tablet from a host, a
switcher that rotates the boot images of the two systems through one partition,
and the device services of the desktop. Most of it is shell, Python and C that
runs as root, writes partitions, and has to survive being cut short. This
directory holds TLA+ models of the parts whose failures are hard to test, the
TLC configurations that check them, and the theorems TLAPS proves about them.

Source paths below are under `src/`. `PROJECT.json` names, for every definition,
the lines it stands for.

## 1. The system

### Components, state and operations

| Component | State it keeps | Operations | Modelled in |
|---|---|---|---|
| Boot switcher `device/gnome-overlay/usr/local/sbin/liuqin-switch` | `boot_a`; read-only flags of `boot_a` and its disk; the store (`ubuntu`, `android` sets, `.android.new`, `.android.old`, `state.json`); the lock directory | status, verify, stash-android, import-android, to-ubuntu, to-android | `BootSwitch` |
| KernelSU module `device/android/ksu-boot-ubuntu` | none | a root page that runs the switcher on Android | a `Start` on Android in `BootSwitch` |
| Slot marker `device/boot/liuqin-mark-slot-successful.c` | two copies of the partition table of `sde`; its read-only flag | check, mark | `SlotMark` |
| Initramfs `initramfs/init` | read-only flags of all UFS nodes, mounts, "fallback is safe", "UFS is safe" | lock all, identify, probe, unseal, mount, re-verify, hand over, abort, rescue shell | its release step in `SlotMark`; the rest not modelled |
| Storage guard `.../sbin/liuqin-gnome-storage-guard` | read-only flags again, after the root runs | seal every sibling of root and home | not modelled |
| Power key `device/power-key/liuqin-power-keyd.c`, `.../libexec/liuqin-power-key-action`, `liuqin-power-menu` | key state machine; display state file | press, release, timer, lost events, disconnect; lock, wake, suspend, menu | `PowerKey`, `PowerAction` |
| Host installer `tools/install-liuqin.py`, `tools/lib/liuqin_layout.py` | the plan, the backups, the fastboot session, the boot id of the RAM image | check, boot the RAM image, backup, classify, repartition, install, flash, set active, restore | `Layout`, `Installer` |
| RAM installer `tools/lib/install-{root,layout,switch-store}.sh` | the tablet's partitions while they are rebuilt | wipe-head, apply, restore-gpt, install root, fill the store | the effects of the commands in `Installer` |
| Fingerprint runtime `device/fingerprint/oem/src/fingerprint/oem/oem_runtime.py` | the operation lock, the kernel's firmware search path, the listener, the client, the sensor's power | run one client with a deadline, cancel, clean up and say so | `OemRuntime` |
| Fingerprint identity and enrolment `native_enrol.py`, `native_credentials.py`, `user_credentials.py`, `acceptance*.py`, `enrol_publish.py` | the account's directory (handle, candidate, previous handle, `create.requested`), its lock, the prepared input, pending and published templates, `acceptance.json` | create an identity, change its password, enrol, publish, verify, recover | `Enrolment` |
| Fingerprint driver (libfprint TOD) | the enrolment subprocess | start, cancel, save the template | its enrolment in `Enrolment` |
| Fast charge `.../libexec/liuqin-mipps-auth` | attach token, last notification, charge profile, VDM state of the firmware | authenticate once per attach | not modelled |
| Charger mode `device/charger-mode/*` | panel, CPU and UFS state; one power key press | hold, retry, leave to normal or bootloader | not modelled |
| Identity, sensor, snap and rescue services | marker files, one device attribute each | configure or restart once, with retries | not modelled |
| Builds `tools/build-*`, `tools/patch-android-boot-ksu.py`, CI | none on the device | deterministic host builds | not modelled |
| Vendored code (`third_party`), firmware, configuration | - | - | not modelled |

### How they interact

* The installer lays out the disk, fills the switch store, flashes `boot_a` and
  `boot_b`, and selects slot A. From then on the switcher owns `boot_a`.
* The bootloader (ABL) starts the image in `boot_a`, and the copy of the Ubuntu
  image in `boot_b` when `boot_a` does not load. It counts tries of a slot that is
  not marked successful.
* The initramfs locks every UFS node, identifies and opens the root, asks the slot
  marker, and hands over. The storage guard seals the siblings once more, so a
  running Ubuntu finds `boot_a` and its disk read-only.
* The key daemon reads one input device and runs the helper, one at a time; the
  helper drives GNOME and logind and leaves `display-state` for the next press.
* Every use of the fingerprint hardware is a chain of processes (a dialog or a
  terminal, a job, the credentials tool, the runtime, a client) that pass signals
  down and one line of cleanup up; the runtime's lock makes them take turns.
* The switcher opens exactly that pair for one write and seals it again. On
  Android it reads the store through a read-only mount.

### What is hard

* **Cut short anywhere.** Scripts die from failing I/O, HUP/INT/TERM, SIGKILL and
  power loss, between any two commands, with files renamed but not on the medium.
* **Two actors.** A second tap on the switch button; the bootloader editing the
  partition table between boots; subprocesses outliving what started them.
* **An unreliable channel.** The installer drives the RAM image over a USB network
  that may lose an answer or be plugged into another tablet.
* **Recovery that runs in a failed state**: exit traps, rollbacks, `storage_abort`.
* **Checked, then used**: a cached image hash, a device node, a key state.

### What makes each component correct

* Switcher: Android's image is archived, on the medium, before it is overwritten,
  and never given up; success means read back and equal; the seals return; one
  switch at a time; a dry run writes nothing; every command ends.
* Slot marker: one copy of the table valid at all times; nothing selected; the
  root handed over only from a slot verified successful, with the disk sealed.
* Initramfs: no writable node outside root and home at the hand-over, none at all
  when a rescue shell is offered. Guard: the same once the root runs.
* Power key: at most one action per press, the one it asked for; a release never
  ends another press; SIGTERM is obeyed in time; a press turns the display round,
  and the press that wakes the machine does not suspend it again.
* Installer: nothing is overwritten that a complete backup does not hold; only the
  chosen tablet is written; a used home survives what does not ask for its end;
  what is reported complete is whole; the plan is the least that fits, and what is
  applied is what was confirmed; every run ends.
* Fingerprint: one identity is asked for, and its handle is never lost; one job at
  the hardware, which is left as it was found; a template is published once and
  only when its enrolment was accepted.
* Charging: one authentication per attach.

## 2. Modules

### `BootSwitch` (liuqin-switch)

State: `bootA` (an image: its bytes up to zero fill), `ro` (the two flags),
`store` as processes see it, `durable` as a power loss would leave it, `soft`
(directories whose file data is still in the page cache), `note` (`installed` in
`state.json`), `lock`, `halting` (a reboot was asked for), the tablet (`up`, `os`,
`slot`), and per process its place `pc`, request `job`, and the shell variables
`held` (LOCKED), `live` (LIVE_FULL), `saved` (RW_*), `wrote`, `back` (the write is
the rollback) and `rc`.

One action is the stretch of the script between two points where it can be cut
short. `TakeLock` and `SetUp` are `mkdir` and `LOCKED=1`. `Status` to `ToAndroid`
are the subcommands up to their first write: all they do is read. `StageCopy`,
`SealCopy` are `stash_live` and `import-android`; `CommitSync/Aside/Place/Flush`
the four durable points of `commit_set`. `OpenRW`, `WriteBegin`, `WriteEnd`,
`CloseRW`, `ReadBack` are `install_set`, and with `back` set, `rollback`.
`WriteState`, `DoReboot`, `RequestReboot` are the end of a switch, `ExitCleanup`
and `Unlock` the exit trap. Every one that does I/O has a failing disjunct
(`Fault`). `Signal` is HUP/INT/TERM (not in critical sections or the trap),
`Kill` SIGKILL, `PowerLoss` the loss of unsynced renames or data.

`DualBoot` is the abstract promise: `boot_a` is overwritten only inside a switch, a
switch over an Android image begins only when the archive holds that image, and the
archive is not given up before the switch is over; a power loss that ends a switch
may only bring back an archive whose renaming away was never synced. `BootSwitch`
implements it (`KeepsPromise`), with the archive mapped to what a power loss would
leave.

Images are classified by header as `Ubuntu`, `Android` or `Other`; `Whole` images
boot. In the instances a torn image carries no header that is recognised; the
theorems hold for torn images with an Ubuntu header too. None carries an Android one: with it, a torn `boot_a` would be archived as Android
(hazard at line 744).

Left out, with the reason: the KernelSU manager patches `boot_a` only while no
switch runs (it does not take the lock; hazard at line 442); what a `dd` orphaned
by SIGKILL still writes, beyond a torn or whole image; a stale journal behind
Android's `ro,noload` mount; images larger than `boot_a` count as damaged; the log
and `meta.json`; `state.json` on power loss (it is written and synced whole).

### `SlotMark` (the slot marker and its caller)

State: `entries` and `header` per copy of the table (a copy is valid when they
match), `ro`, the slot in the command line, the `stage` of the boot (check, mark,
recheck, handover or refused), the place `at` in the tool, `want`, `rc`. `Load` is
everything up to the first write, `Unseal` the flag and the reopening, `WriteNext`
one of the four writes, `ReadBack` the verification, `Seal` the exit path,
`Return` the caller's `||` and `&&`. A write cut short, by an error or a power
loss, leaves nothing, all, or garbage that matches no checksum. `Boot` is the
bootloader (external): it counts a try in both arrays, may leave the backup's
checksum stale, and may repair the primary copy. CRC-32 is taken as free of
collisions; entries other than `boot_a`/`boot_b` are copied along with them.

### `PowerKey` (liuqin-power-keyd)

State: the clock `now` in ticks, the key and its device node, the unread events
`buf` of the descriptor `fd`, `fsm` (`struct power_fsm`), the place `pc` in
`run_daemon`, the time `wake` at which its poll, pause or helper runs out, `todo`
(what `fsm_handle` does once the helper it is blocked on has ended) and `stopping`.
`press`, `did`, `blind` and `stopAt` are history: when each press began and ended,
what was run for it, whether events are missing.

`Handle` is `fsm_advance` followed by the rest of `fsm_handle`: a press that is due
is marked, and its helper run, before the event itself is looked at. `Open`,
`NoDevice`, `Again`, `Poll`, `PollReturns`, `TimedOut`, `Disconnected`, `Read`,
`Drained` and `Stopped` are the stretches of the loop between two points where it
can be delayed; `RunEnds` ends the wait of `run_action`.

The environment is external: `KeyDown` and `KeyUp` at any tick, and the kernel's
buffer (`Push`), which drops what it holds when it is full and says so; `Unplug`
(the kernel releases the keys first, and what is unread is lost); `Signal`, `Die`
and `Restart`. `Tick` keeps the daemon waiting for at most `Lag` ticks in a row
until it blocks again: this is the one assumption about the scheduler.

Left out: the events of other keys and the reports that `SYN_REPORT` closes, which
the loop skips; autorepeat, which this key does not have, and which would do what
the timer does; the failure of `fork`, which the code
logs like a helper that fails. A time stamp older than `STALE` does not occur
within the bound of the clock of `key_presses`. It matters: `input_event_ms` takes
the present for the time of an event that has been unread for a minute, and with a
`STALE` of two ticks TLC finds both `ShortWasShort` and `Answered` violated. The
theorem about `ShortWasShort` says so in its hypothesis (`Prompt`). A helper may
take five seconds for each press in the buffer, so nothing in the daemon itself
rules such an event out.

### `PowerAction` (liuqin-power-key-action, liuqin-power-menu)

State: `file` (`display-state`), the setting `policy`, the desktop (`shield`,
`locked`, `dark`), the machine (`power`), the open menu, the place `step` and the
readings `saw` of the helper. One action is one call the helper makes to the
desktop or one access to its file: between any two it can be killed, or the user
can unlock. `Wakes` is the choice of direction. `began`, `calm`, `idle` and `own`
are history: how the press found things, and whether anything interfered with it.

Mutter (which lights a display at any key), the screen shield, the idle timer, the
sleep of the machine and other reasons to wake it are external, modelled from the
helper's comments and from the dconf defaults. `DaemonRestarts` empties the runtime
directory, as the unit's `RuntimeDirectory` does. The lookup of the session and of
the user is one more call that may fail (`HelperDies`).

The two are separate because the only thing that passes between them is the start
of the helper: `PowerKey` shows that there is one helper at a time and one per
press, `PowerAction` takes that from it.

### `Layout` (liuqin_layout.py and the layout commands)

Pure definitions. A table is its sector size, last usable sector, capacity and
partitions. `ParsePrint`, `ParseInfo`, `Classify`, `CheckStockDevice` are the
readings; `ParseSize`, `ResolveSizes`, `PlanLayout` and `PlanFor` compute the plan
in bytes with the code's alignment and its refusals (an empty sequence);
`ConfirmShape`, `ConfirmPlan` compare it with the plan of the reference table;
`SgdiskArguments` and `Sectors` are the conversion to inclusive sectors, `Moves`
its refusal, `VerifyApplied`, `VerifyPreserved` the reading back. `Sgdisk` and
`SgdiskAccepts` are external. The constants of the code are CONSTANTS, so that the
instance can have small disks with the same limits in the same order.

### `Installer` (install-liuqin.py and the RAM image)

State: each tablet (`tab`: the two copies of its table, the contents of userdata,
metadata, home, root, store, boot slots and firmware, its active slot, whether it is
in Fastboot, in the RAM image with a boot id, off or in use), the tablet the cable
reaches (`usb`), the local files that have `changed` since they were checked, the
complete `backups`, and the running program (`host`: place, arguments, boot id,
plan, open backup, result). `factory`, `restored`, `another` (a restore of a table
that is not the factory's) and `waived` are history.

`Begin` is the command line, the checks and the confirmed plan; `CheckFastboot` to
`CheckSerial` the way into the RAM image; `BackupBoots/Head/Tail` the backup, which
counts when its manifest is written; `Report` classifies the table and decides
(`Decide`); `WipeUserdata` to `Verify` are the partitioning, `InstallHome/Root/Store`
the RAM scripts, `Return`, the flashes and `Activate` the end in Fastboot,
`RestoreTable` the restore. `Remote` is `remote()`: the command is refused by its
own checks, is done and answered, or fails or loses its answer with any of its
partial effects (`Effects` lists them). Every command carries the boot id
(`Answers`). `PowerLoss`, `MoveCable`, `HostStops`, `FileChanges` happen anywhere;
`ToFastboot` and `Use` are what the owner does between two runs.

Assumed of what is external: `sgdisk` writes the tail copy before the head; the
kernel of the RAM image reads partitions from the head copy, so a torn head stops
every script that looks one up; a copy of a table that already holds the bytes
written to it does not tear; the confirmation prompt is answered.

Worth knowing from the reading: `apply_layout` says that it is restoring the saved
table and then only raises (line 823); the restore is the operator's next run, and
`Recoverable` says the backup for it exists. `restore-gpt` writes the tail copy and
then the head (`tools/lib/install-layout.sh:200`): a restore of one backup that is
cut short in the tail, and then a restore of *another* backup cut short in the head,
leave neither copy whole. Two restores of the same backup cannot: the tail already
holds its bytes when the head is written. `Recoverable` therefore excepts the tablets
in `another`; the backup still exists for those. Stock images that are not firmware are
flashed without a second digest, so `TypeOK` follows only what the digests guard.

### `OemRuntime` and `Enrolment` (device/fingerprint)

`OemRuntime` holds the hardware: the operation lock, the firmware search path, the
listener, the client (`stage`: begun, committed in the trusted application, handle
or template written), the sensor, and for each job its runtime `rt`: place,
operation, the search path it found, result, and the line it printed. `TakeLock`,
`Refused`, `NotReady`, `StartClient`, `ClientStep`, `ClientExits`, `StopClient` (a
cancellation or the deadline), `Cleanup`, `CleanupRaises` are its stretches;
`HungUp` is SIGHUP, which this program does not handle: its client goes on alone
(`OrphanStep`).

`Enrolment` extends it with the jobs. `at` and `job` are the place and variables of
each chain; `cred` is the account's directory and `safe` what a power loss leaves
of it; `ta` is the generation the trusted application holds; `pending`, `prints`,
`key` and `desk` are the export with its ready marker, the published templates, the
prepared input and the acceptance report. `asked`, `wrote`, `rough`, `hungup` and
`outlived` are history. A behaviour has one of the two interfaces, fprintd (native_enrol.py)
or the helper in a terminal (acceptance.py), as installed. One action is the stretch
between two durable changes or two calls of the runtime; `Cancel`, `CloseTerminal`,
`StopService`, `RuntimeFails`, `SerializeFails` and `PowerLoss` come between any
two. The trusted application is external: `Commits` and `Admitted` say what it does
to its generation, and that an input of an older one is refused.

Worth knowing from the reading, and allowed for in the properties:

* `enrol_publish.py:157` removes the export and then its ready marker. A power loss
  between the two leaves a marker that, once the template is deleted, vouches for
  the next export of that finger. `PrintIsAccepted` excepts what follows such a loss
  (`outlived`); without the exception TLC finds the behaviour with four jobs.
* `oem_runtime.py:105` does not handle SIGHUP, which the layers above treat as a
  cancellation: a closed terminal leaves the client alone at the sensor and the
  search path set, which the next run takes for the original one. `HardwareAlone`
  excepts such a terminal (`hungup`); `idle()` then refuses until the next boot.
* A crash before the rename of `acceptance.json` leaves its temporary file, and
  `O_EXCL` (`acceptance.py:186`) then fails every later acceptance at its last step.
* A `--sync-password` cancelled after the trusted application took the new input
  leaves a stale prepared input (`user_credentials.py:236`); it is refused and
  replaced at the next use.

## 3. Runs

| Run | Question | Bounds |
|---|---|---|
| `switch_faults` | archive before overwrite, safe replacement, seals, verified success, Android kept, honest state file, dry runs, and the refinement of `DualBoot` | 1 process, 2 Android images, 1 Ubuntu image, 1 torn one, every option, 2 errors, 1 crash |
| `switch_live` | types and the lock, interleaved; every command ends; an undisturbed to-ubuntu ends with Ubuntu running | 2 processes that reboot, 1 error, 1 crash, fairness |
| `switch_wayback` | violated: see findings | no errors needed |
| `switch_secondtap` | violated: see findings | 2 processes, no errors needed |
| `slot_boots` | one copy valid, no selection, verified hand-over; a chosen slot is marked when nothing fails | retries 0..2, 2 errors, 2 power losses, fairness |
| `key_presses` | one action per press, the right one, and an orderly end | long after 3 ticks, short after 1, poll 2, helper 5, delay 1; 3 presses in 7 ticks, buffer of 2, 1 fault |
| `key_display` | the waking press does not suspend; a press turns the display round | all settings, shield removed on waking, 1 fault |
| `key_idle` | violated: see findings | no faults needed |
| `installer` | what is overwritten is in a backup, only the chosen tablet is written, a used home survives, completion is whole | 2 tablets, 3 runs (fresh, kept, restored, both layouts), 1 failing or lost command or changed file, 2 power losses, moved cables or stops |
| `layout` | the plan is the least that fits, what is applied is what was confirmed, every run ends | tables with sizes on and beside each limit, 1 fault, 1 loss, fairness |
| `layout_capacity` | violated: see findings | no faults needed |
| `fingerprint` | one identity asked for, its handle kept, one accepted template, one job at the hardware, clean success, nothing left behind | 3 jobs, 2 at a time, 2 fingers, 2 cancellations, failures or power losses, 1 deletion, symmetry of the jobs |

Why the bounds are enough. Two errors are what it takes to fail a write and then
its rollback, or a write and the flag after it; one crash then hits every place
of that. Commands follow one another without bound, so a crash is followed by
every recovery. Two Android images tell the archived from the live one; two
processes are a switch and a second tap. Two power losses in `SlotMark` hit a mark
and the next mark. Errors and crashes are the only bounded counters, but for the
clock and the presses of `PowerKey`: seven ticks hold a long press with its helper
and two presses behind it, a buffer of two overflows with the third event, and a
helper that uses its five ticks outlives a whole press. `PowerKey` checks no
deadlock, because the clock ends and a stopped daemon does nothing more.

Three runs of the installer are an installation, one that fails on it and the one
that repairs it; a second tablet is what a moved cable reaches; with a fault and two
losses the repairing run can be cut short as well. It checks no deadlock, because
the number of runs ends. The tables of `layout` hold sizes one unit below, on and
above each minimum, and starts that are and are not aligned; two bytes to a sector
and four to an alignment are enough for every rounding to matter. The reference
`PlanIsLeast` compares with is the set of all feasible splits of the disk, not the
arithmetic of the code. Three fingerprint jobs are a first enrolment, one that is
interrupted and one that meets what it left, two of them at once; `Rest` is the
only step of a device without work, so a deadlock is a job that cannot go on.

What the properties leave out. `Answered` speaks of the presses the daemon could
follow: not of one whose events were dropped, or were lost with the device or the
daemon, or of one that began while no descriptor was open. `PressToggles` speaks of
presses nothing interfered with, and not of those that find a `display-state` that
is no longer true (`Stale`); the finding below is one of them.

Fairness: a script runs on (weak fairness of each process's next step), an orderly
shutdown that was requested happens, and a tablet that is off is started
(`Fairness`); the tool of `SlotMark` runs on; so does the installer, whose waits and
remote commands all have a deadline in the code and whose prompt is taken as
answered. Starting commands, errors, signals
and crashes have none.

### Findings

* `switch_wayback`: `liuqin-switch:32` says no switch starts without a verified way
  back. to-ubuntu over another Ubuntu build names the Android set as its way back
  without checking it (line 744); with that set missing or damaged, a write that
  does not verify has nothing to put back.
* `switch_secondtap`: `liuqin-switch:863` says a second tap must not interleave.
  `do_reboot` removes the lock before it asks for the reboot (line 615), so a
  second command may be writing `boot_a` when the machine goes down.
* `key_idle`: `liuqin-power-key-action:90` says that a press on a display the idle
  path has shielded is a request to wake it. A press that wakes it writes
  `on-locked`, which stays until the next press; when the display has gone dark by
  itself once more, that press takes the branch at line 101 and blanks it again.
* `layout_capacity`: `docs/FLASHING.md:14` admits the tablets of other capacities,
  and `install-liuqin.py:719` says only the sizes the operator chose are compared.
  `confirm_plan` exempts `linux_home` alone; the deleted userdata entry carries the
  size of the whole region, so the Linux-only layout is refused on every capacity
  but that of the reference table.

## 4. Proofs

| Theorem | Says |
|---|---|
| `BootSwitchProof!OneSwitchAtATime` | `LockExclusive`, for any number of processes, errors and crashes |
| `BootSwitchProof!FlagsRestored` | `SealsRestored`, likewise |
| `BootSwitchStoreProof!TypeCorrect`, `ReplacementIsReady`, `ArchivedFirst`, `SuccessMeansWritten` | `TypeOK`, `ReplacementReady`, `ArchivedBeforeOverwrite`, `SuccessIsVerified`, likewise |
| `BootSwitchStoreProof!WayBackUnlessUbuntu` | what holds of `WayBackVerified`: only one Ubuntu image replacing another may lack a way back |
| `BootSwitchProof!CommandsGoForward` | of `SwitchEnds`: no command turns round, and nobody takes one back; at most 24 steps |
| `BootSwitchStoreProof!SwitchGoesThrough` | of `SwitchArrives`: an undisturbed switch stays on its way until Ubuntu runs |
| `BootSwitchStoreProof!WayBackStays` | a way back that is there when `boot_a` is unsealed stays until the rollback is over |
| `BootSwitchPromiseProof!NoteIsHonest` | `NoteHonest`, an action property |
| `BootSwitchPromiseProof!PromiseKept` | `KeepsPromise`: `BootSwitch` implements `DualBoot` |
| `BootSwitchPromiseProof!LastAndroidKept` | `AndroidKept`, if `Android \subseteq Whole` |
| `BootSwitchPromiseProof!DryRunIsDry` | `DryRunWritesNothing`, an action property, whatever commands run beside it |
| `SlotMarkProof!MarkerTypes` | `TypeOK` |
| `SlotMarkProof!AlwaysOneCopy` | `OneCopyValid`, for any table and any number of errors and power losses |
| `SlotMarkProof!HandoverIsVerified` | `HandoverVerified` |
| `SlotMarkProof!SelectsNothing` | `NeverSelects`, an action property |
| `SlotMarkProof!MarkingGoesThrough` | of `SlotIsMarked`: check, mark and check again lead to the hand-over in at most 10 steps |
| `PowerKeyProof!KeyTypes`, `OneHelperPerPress` | `TypeOK`, `OneActionPerPress`, for any limits, delay, buffer and number of presses |
| `PowerKeyProof!StopsSoon` | `StopsInTime`, whatever the daemon is doing when SIGTERM arrives |
| `PowerKeyProof!ShortOnlyForShort` | `ShortWasShort`, while no event is unread for longer than its time stamp is believed |
| `PowerKeyProof!PressesAreAnswered` | `Answered`, under the same condition: every press the daemon can follow, for any losses, unplugging and restarts |
| `PowerActionProof!ActionTypes`, `WakeDoesNotSuspend`, `PressesToggle` | `TypeOK`, `NoSecondSuspend`, `PressToggles`, for any settings and any number of faults |
| `PowerActionProof!OnlyTheRecordMisleads` | what holds of `IdlePressWakes`: an undisturbed press under the idle timer's shield darkens the display exactly if it reads `on-locked` |
| `InstallerProof!TypeCorrect`, `WritesToTheChosen`, `HomeIsKept` | `TypeOK`, `OnlyTheChosen` and `HomeSurvives` (action properties), for any tablets, tables, requests and number of runs, faults and losses |
| `InstallerProof!AlwaysRecoverable` | `Recoverable`, if every tablet comes with a stock table (`FactoryTables`) |
| `InstallerProof!PlannedIsLeast` | `PlanIsLeast`, for any disk, sizes, minima and alignment |
| `InstallerProof!SplitAsConfirmed` | `AppliedIsConfirmed`, likewise, and for any number of runs, faults and losses |
| `InstallerProof!WholeWhenInstalled` | `InstalledIsWhole`, an action property, for any number of runs, faults and losses |
| `InstallerProof!OnlyDeletionRefuses` | what holds of `CapacityFollows`: with sizes in bytes that fit, only a deleted userdata of another size is refused, and always |
| `InstallerProof!RunGoesForward` | of `RunEnds`: no run turns round, and nothing outside moves it; at most 23 steps |
| `EnrolmentProof!TypesHold`, `TypeCorrect` | `TypeOK`, for any number of jobs, fingers, cancellations, failures and power losses |
| `EnrolmentProof!RunsAlone` | `HardwareAlone`, likewise |
| `EnrolmentProof!IdentityAskedOnce`, `HandleIsKept` | `AskedOnce`, `HandleKept`, likewise |
| `EnrolmentProof!ReportedIsClean` | `OkIsClean`, likewise |
| `EnrolmentProof!TemplateIsAccepted` | `PrintIsAccepted`, likewise |
| `EnrolmentProof!LeavesNothing` | `NothingLeft`, for any number of jobs in any order, and in GNOME Settings of cancellations |

Four of these theorems are about findings: they prove how much of the statement
that a run refutes is left, so that the finding is all there is to it.
`WayBackUnlessUbuntu` leaves the one branch of to-ubuntu that the finding names. The
branches that overwrite an Android image have it archived (`WriteOK`), to-android has
checked the Ubuntu set, and the rollback its own (`WayInv`); `WayBackStays` adds that
nobody else changes the store meanwhile, which is the lock's doing (`StoreHeld`).
`OnlyTheRecordMisleads` follows a press that finds the shield of the idle timer
(`Shown`): as long as nothing interferes it sees that shield, so `Wakes` depends on
`display-state` alone. `OnlyDeletionRefuses` compares the plan for a tablet with the
one that was previewed (`PreviewInv`): where userdata starts equally far from an
alignment boundary, `align_up` adds the same to both (`AlignShift`), so Android and
the root get the sizes that were confirmed on any capacity (`SameCuts`), and the
deleted userdata alone decides (`SameConfirmed`). Its hypothesis, `Plain`, is that the
reference table has one userdata, inside the disk. Of the fourth finding,
`NoWriteIntoReboot`, no useful half is left: after the early unlock any number of
commands may be started before the machine goes down.

`LockExclusive` is not inductive: that a process inside the lock excludes the
others says nothing of one that is inside without `LOCKED`. `LockInv` adds which
places hold the lock (`Working`), which do not (`Outside`), that only the exit path
may be either, and that nothing runs while the tablet is off, because a boot clears
the lock directory.

`SealsRestored` says nothing while a switch runs. `SealInv` adds that only the
holder of the lock is armed and where it may be, that what it recorded covers every
flag still set and equals the flags of the boot, and that with nobody armed the
flags themselves do. That no second process is armed comes from `LockInv`: without
the lock, a switch would record flags another has cleared.

The archive needs more (`StoreInv`). `StageOK` follows the copy from `stage` to
`flush`: what it is a copy of, and when it is on the medium. `WriteOK` says that
what is written is a usable set and, until the first byte, that the Android image
under it is archived; it also confines `back` to the write, without which the
exemption of the rollback would cover everything. `DoneOK` is success. They speak
of the store and of `boot_a`, which other processes could change: that a process
outside the lock changes neither (`OutsideStep`) comes from `LockInv` again. A
rename that is not synced yet (`Stale`) exists only while the lock does, even when
the process that made it is killed, and is gone once the tablet is down: so
whoever holds the lock next reads an archive that is on the medium.

`LastAndroidKept` adds `KeptInv`: with torn images never classified as Android,
what is in `boot_a` during the write is archived whenever it is Android's, in the
rollback too. Its hypothesis is the assumption the runs make; without it a torn
`boot_a` can be taken for Android and archived. `PromiseKept` maps the archive to
`SafeArchive` and a switch to the places from the opened `boot_a` to the read-back;
each step of the script is a step of `DualBoot` or none.

`SlotMark`'s invariant adds `PhaseInv`: until the backup copy is complete the
primary one is untouched and the new array is the primary's, marked; from then on
the backup copy is the new array. Each write disturbs one copy while the other
carries validity, and `Chosen` changes only from the one array to the other.

`OneActionPerPress` says nothing of what is still to come. `PressInv` adds that the
press the state machine follows has run the long helper exactly if it is marked
(`Followed`), that a press event still in the buffer belongs to a press nothing was
run for and that is not being followed (`Unread`), that numbers not used yet are
free (`Fresh`), and that an event waiting for a helper to end waits for the long
one (`Pending`): when `fsm_handle` goes on with it, it finds the mark.

`StopsInTime` needs `StopInv`: since the signal the daemon has been behind all the
time (`now <= stopAt + late`), until it polls; it polls at most once more, when the
signal came just before, and that poll ends within `RECONNECT`. `ShortWasShort`
needs what the buffer says (`Sound`): every event in it carries the time its press
began or ended, and a press event is followed by its own release, by a loss, or by
nothing while that press goes on (`Closes`). The same holds of the press that is
followed and not marked (`Awaited`), so the release that ends it is its own, and a
loss in between makes the daemon forget it. Once SIGTERM has arrived the events are
thrown away unread and none of this holds; nothing short is run any more either.

`Answered` is about what does not happen: no press the daemon could follow is
forgotten. `Accounted` says where such a press is while nothing was run for it: still
in the buffer, or followed, or over and too short. It lasts because an unread press
will find the state machine idle (`Ready`: what is read just before it is a release,
as a loss can only come first, `LossFirst`), because the next press of a key that is
up will find it so too (`Rested`), and because a press that is followed hears of its
own release before any loss (`Kept`); the state machine meant is the one that is left
when the helper it waits for has ended (`Then`). The rest is about time: poll does not
outlast the press (`InTime`), and what arrives after a poll has timed out is no older
than the daemon is late (`Recent`), so a press that is let go in between and taken for
a long one was long but for `Lag`, which is what `Due` allows (`LongOnes`).

`NoSecondSuspend` needs `WakeInv`: while the machine sleeps at the helper's request,
`display-state` says so and no helper runs (`Recorded`), which holds because the
file is renamed before the suspend is asked for; and the helper of the waking press
will find that record, has found it, or is lighting the display (`WakesUp`).

`PressToggles` needs `Toggling`: as long as nothing interferes with the press,
`display-state` and the shield `Agree` with the display the press found, first on the
desktop and then in what the helper has read (`Reading`), though Mutter may have lit
the display meanwhile; so `Wakes` decides for lighting exactly if the display was dark,
and each later call is of that branch and finds done what the calls before it do
(`Acting`).

The installer's invariants come in layers. `Shape` is `TypeOK` with what a place of
the program implies about its arguments, its backup and the tablet. `ChosenInv`
numbers the boots of the RAM image: once the serial number was checked, only the
chosen tablet answers to the boot id the program holds, wherever the cable goes.
`HomeInv` says that a used home lies behind a split or a torn head copy, and which
places of the program may still split a table: those that read the factory's.
`Recoverable` needs five more: what an open backup holds is still on the tablet
(`SavingInv`); a head copy is the factory's, torn, or split, on the tablet and in
every backup (`KnownInv`); a tablet is saved or untouched, and saved before the
program comes to a write (`BackupInv`); while the tail is torn the head is the
factory's (`TableInv`); firmware is replaced only after it was saved or the backup
waived (`FirmwareInv`). `FactoryTables` is needed because
only a table that is read as stock is split: the faults run has such tables
(`MCTables`), as have the tablets that are sold. That `TableInv` fails after the
restores of two different backups was found in this proof.

`PlanIsLeast` is arithmetic. `align_up` gives the least aligned offset that is not
below (`AlignIs`, `AlignLeast`), so each boundary is below that of every feasible
split (`CutsLeast`); what `plan_layout` refuses is what leaves no split (`PlanIs`,
`PlanLeast`). The invariant is needed for what it is applied to: a table read as
stock is the one the tablet came with (`StockIsFactory`, from `KnownInv`), and the
sizes are those of a command line (`RequestInv`). `AppliedIsConfirmed` follows the
plan (`PlanInv`): until the table is written the plan is that of the factory's table
and agrees with the one that was shown; the identity `sgdisk -i` read is the
factory's; and what sgdisk makes of the two is a table with all the property asks
(`SplitConfirmed`, from the places of the pieces, `PiecesAre`, and from what sgdisk
accepts, `SplitIs`). A power loss or a lost answer on the way ends the run, or
leaves the tablet off, where it does not answer to the boot id any more.

`InstalledIsWhole` speaks of the last step of a run; `ProgressInv` says of every step
before it what the run has done on the tablet so far (`Installing`: both tables
alike after the split, Android's data wiped before it, then a table read as split,
the home, the root, the module store, the firmware, the boot slots), and that the
boot image is still the one that was made. A step adds its own part when its command
was answered by the boot the serial number of which was checked (`WholeEffects`), and the
parts before it are kept because no later command, done in whole or torn, writes
them (`LeftParts`, `FlashParts`); this is where the order of `main` matters. The tablet
may be off while the run goes on: every claim is about what is on the disk. It has
not started a system, which would use the home or Android's data.

Those of `Enrolment` build on each other. `Types` are the types but for the
templates'. `RunInv` ties every place of a runtime to the lock, the client and the
search path it found: whoever is at the sensor holds the lock, and outside it the
path is empty unless a terminal was closed. `UserInv` is the lock of the account,
`IdentityInv` and `HandleInv` what is on the medium at each step under it: the
marker `create.requested` before the secure world is asked, a new generation in a
file before the old handle goes. `NativeInv` follows a job
of fprintd, of which there is one at a time, to the result it reports. `StoreInv`
says where the templates come from: a ready marker that nobody is removing vouches
for the export it lies beside, unless it outlived a power loss.

`NothingLeft` is a claim about the end of undisturbed jobs, and its invariant
(`NeatInv`) says of each step on the way how far it has come. `CalmInv`: a signal is
passed on only where the program forwards it, a run that has the lock has the only
listener, and the sensor has power only under a client that has committed.
`TidyInv`: at each step of a creation or change, what of handle, marker, candidate and
previous handle is on the disk, and whether the secure world is ahead of it; between
operations the account is tidy. `LaterInv`: who publishes, verifies or changes a
password has a handle, so that no creation ever finds the hardware busy.
`ExportInv`: an export is there from the enrolment of a job to its removal by that
job. Each follows from the locks of the layers above.

The assumptions are those of the modules: `ImageAssumption`, `AskAssumption`,
`BoundAssumption`, `TriesAssumption`, `TickAssumption`, `PowerAssumption`,
`RequestsAssumption`, `TablesAssumption`, `LayoutAssumption`, `BoundsAssumption` (of
`Installer` and of `Enrolment`), `NobodyAssumption` and `FingerAssumption`: types of
the constants, an
order on the time limits, values that are none of the others, that a request has no
table to restore before a backup is chosen and its sizes are numbers (`IsSize`), and
that the tablets come with tables that sgdisk would write (`IsTable`: numbers of
their own, partitions apart and inside the disk).

Only model-checked: the liveness properties (`SwitchEnds`, `SwitchArrives`,
`SlotIsMarked`, `RunEnds`), which need fairness and ENABLED and are beyond the
prover. What each of them rests on is proved, as an action property of every step.
`CommandsGoForward` and `RunGoesForward` order the places of a command (`Place`) and
of a run (`Stage`): each step, a failed one included, goes up or ends it, so nothing
can turn in a circle. `MarkingGoesThrough` and `SwitchGoesThrough` say what holds on
the way from the premise to the end (`Marking`, `OnItsWay`), that each step keeps it,
and so that no later check refuses what an earlier step made. A switch on its way has
the lock (`Switches`); after `do_reboot` has given it up, `boot_a` is the stored
Ubuntu image and nobody is about to write (`Switched`); then the tablet is off with
an Ubuntu image in `boot_a`. What is left to TLC is that the next step is enabled,
and that fairness then takes it.

The premise of `SwitchArrives` includes that no reboot is on its way (`NoReboot`): a
to-android with `--no-reboot`, done while the reboot of an earlier switch was pending,
leaves a tablet on which a to-ubuntu can begin and be cut off by that reboot.
`SwitchGoesThrough` covers every option; `switch_live` has only switches that
reboot, to stay small enough for fairness.

## 5. Not modelled

* `initramfs/init` but for its call of the slot marker, and the storage guard: a
  sequence of locks, checks and mounts with an abort path (hazard at line 784); the
  next candidate for a module.
* Fast charge and charger mode: one request and answer, one display loop.
* Of the fingerprint code: matching and the adaptive update of a template in the
  driver, the diagnostic preflights, `--prepare-acceptance`, `--enrol-existing`,
  the migration of legacy UIDs, several accounts, and the installation of the
  bundle. The lock of `native_credentials.py` is taken inside the account's lock and
  is not modelled apart; registering the listener is taken as exclusive. That an
  enrolment ends is not checked: the runtime's deadlines are in the model, and
  liveness would have to give up the symmetry that makes the instance small.
* Clients of the trusted applications: encodings for a closed program.
* Identity, sensor, snap and rescue services: each configures or restarts one thing.
* Host builds, `patch-android-boot-ksu.py` and CI: sequential and deterministic.
* Vendored code, firmware, configuration.

## 6. Plan

1. `BootSwitch`, `DualBoot`, `SlotMark`: modelled; safety and refinement proved (done).
2. `PowerKey`, `PowerAction` and their first theorems (done).
3. `Layout`, `Installer`, `OemRuntime`, `Enrolment` (done).
4. Their theorems: types, locks, identity and templates of `Enrolment`, recovery
   choice and plan of `Installer`, the end, the short press and the answers of
   `PowerKey`, the toggle of `PowerAction` (done).
5. That an installation is whole, on the layers of the plan; what is left of the
   statements the findings refute; the steps the liveness properties rest on (done).
6. Next, a module: `InitStorage` with the guard: nodes, flags, mounts and `storage_abort`; `SlotMark`
   is its release step.
