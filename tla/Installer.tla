------------------------------ MODULE Installer ------------------------------
(* install-liuqin.py: one program on the host takes a tablet from Fastboot   *)
(* through a RAM image, which it drives over the USB network, back to        *)
(* Fastboot.  It saves what it will overwrite, splits the tail of the disk,  *)
(* installs the root, and flashes the boot partitions last.  Around it: the  *)
(* cable may be moved to another tablet, a tablet may lose power, a command  *)
(* may fail or its answer may be lost, the host may be stopped, and a file   *)
(* may change after it was checked.                                          *)
EXTENDS Layout

CONSTANTS
  Tablets,             \* serial numbers
  Tables,              \* the partition tables a tablet may come with
  Requests,            \* command lines of an installation: see ValidArguments
  MaxRuns, MaxFaults, MaxLosses

ASSUME RequestsAssumption ==
  \A a \in Requests :
    /\ a.serial \in Tablets /\ a.layout \in Modes
    /\ a.keep \in BOOLEAN /\ a.nobackup \in BOOLEAN /\ a.restore = {}
    /\ a.android = <<>> \/ IsSize(a.android[1])
    /\ a.root = <<>> \/ IsSize(a.root[1])
ASSUME TablesAssumption == \A table \in Tables : IsTable(table)
ASSUME BoundsAssumption == MaxRuns \in Nat /\ MaxFaults \in Nat /\ MaxLosses \in Nat

VARIABLES
  tab,        \* the tablets: see TypeOK
  factory,    \* the table each tablet came with
  usb,        \* the tablet that answers at --device-address
  changed,    \* local files that changed since the program checked them
  backups,    \* the complete backup directories
  host,       \* the running installer: see TypeOK
  runs, faults, losses,
  restored,   \* tablets on which a restore of the table was asked for
  another,    \* those of them where it was not the factory's table
  waived      \* tablets on which --no-backup was asked for

history == <<restored, another, waived>>
vars == <<tab, factory, usb, changed, backups, host, runs, faults, losses, history>>

Torn == [sector |-> 0, last |-> 0, capacity |-> 0, parts |-> {}]
NoHome == [first |-> 0, kind |-> "none"]
NoInfo == [id |-> "", name |-> "", first |-> 0]
Files == {"boot.img", "rootfs", "rom"}

Nobody == [serial |-> CHOOSE t \in Tablets : TRUE, layout |-> "linux-only", android |-> <<>>,
           root |-> <<>>, keep |-> FALSE, nobackup |-> FALSE, restore |-> {}]
Idle(result) == [pc |-> "idle", args |-> Nobody, id |-> 0, planned |-> <<>>, plan |-> <<>>,
                 info |-> NoInfo, saving |-> {}, padded |-> "none", fw |-> "none", result |-> result]

\* A tablet as it comes: with its factory table, or with Ubuntu on a split one.
Comes(table) ==
  LET split == Classify(ParsePrint(table)) = "split" /\ Named(table, "linux_home") # {}
      boot  == IF split THEN "ubuntu" ELSE "stock"
  IN [head |-> table, tail |-> table, userdata |-> "old", metadata |-> "old",
      home |-> IF split THEN [first |-> ByName(table, "linux_home").first, kind |-> "user"] ELSE NoHome,
      root |-> IF split THEN "ubuntu" ELSE "none", store |-> "none", boot_a |-> boot, boot_b |-> boot,
      fw |-> "old", android |-> "old", active |-> "a", mode |-> "fastboot", id |-> 0]

Init ==
  /\ factory \in [Tablets -> Tables]
  /\ tab = [t \in Tablets |-> Comes(factory[t])]
  /\ usb \in Tablets
  /\ changed = {} /\ backups = {} /\ host = Idle("none")
  /\ runs = 0 /\ faults = 0 /\ losses = 0 /\ restored = {} /\ another = {} /\ waived = {}

-----------------------------------------------------------------------------
(* What each command that writes does to the tablet: the states it may be    *)
(* left in when the command is cut short, the whole effect first.            *)

\* restore-gpt writes head, then tail; a copy that already holds the bytes
\* cannot tear.
RestoreGpt(x, b) ==
  LET torn(old, new) == IF old = new THEN new ELSE Torn
  IN <<[x EXCEPT !.head = b.head, !.tail = b.tail], [x EXCEPT !.head = b.head, !.tail = torn(@, b.tail)],
       [x EXCEPT !.head = b.head], [x EXCEPT !.head = torn(@, b.head)], x>>

\* sgdisk writes the tail copy first, then the head (external).
WriteTable(x, table) ==
  <<[x EXCEPT !.head = table, !.tail = table], [x EXCEPT !.head = Torn, !.tail = table],
    [x EXCEPT !.tail = table], [x EXCEPT !.tail = Torn], x>>

HomePart(x) == ByName(x.head, "linux_home")
HomeFound(x) == x.home.kind # "none" /\ x.home.first = HomePart(x).first

\* A slip: the home is formatted whatever was asked.
FormatHome(x, keep) ==
  <<[x EXCEPT !.home = [first |-> HomePart(x).first, kind |-> "fresh"]], [x EXCEPT !.home = NoHome], x>>

\* prepare_home: mkfs, or with KEEP-HOME a check of the file system that is there.
PrepareHome(x, keep) ==
  IF keep THEN <<x>>
  ELSE <<[x EXCEPT !.home = [first |-> HomePart(x).first, kind |-> "fresh"]], [x EXCEPT !.home = NoHome], x>>

\* mkfs, the archive and the provisioning, into an empty file system.
ExtractRoot(x) ==
  <<[x EXCEPT !.root = "ubuntu", !.store = "none"], [x EXCEPT !.root = "partial", !.store = "none"], x>>

TheArgs == SgdiskArguments(host.plan, ParsePrint(tab[usb].head), host.info)
TheBackup == CHOOSE b \in host.args.restore : TRUE

Effects(pc, x) ==
  CASE pc = "wipe userdata" -> <<[x EXCEPT !.userdata = "wiped"], x>>
    [] pc = "wipe metadata" -> <<[x EXCEPT !.metadata = "wiped"], x>>
    [] pc = "apply"         -> WriteTable(x, Sgdisk(x.head, TheArgs))
    [] pc = "restore"       -> RestoreGpt(x, TheBackup)
    [] pc = "prepare home"  -> PrepareHome(x, host.args.keep)
    [] pc = "write root"    -> ExtractRoot(x)
    [] pc = "write store"   -> <<[x EXCEPT !.store = "both"], x>>
    [] pc = "reboot"        -> <<[x EXCEPT !.mode = "fastboot", !.id = 0], x>>
    [] OTHER                -> <<x>>

\* The kernel of the RAM image finds partitions through the head copy alone
\* (external), and every script looks its partition up first.
Readable(x) == x.head # Torn
Partitioned(x) == Readable(x) /\ \A n \in {"linux_root", "linux_home"} : Cardinality(Named(x.head, n)) = 1

\* What has to hold for the command to start, on the tablet that answers.
Allowed(pc, x) ==
  CASE pc = "serial"        -> TRUE
    [] pc = "wipe userdata" -> Readable(x) /\ Cardinality(Named(x.head, "userdata")) = 1
    [] pc = "apply"         -> /\ Readable(x) /\ ~Moves(host.plan, ParsePrint(x.head), host.info)
                               /\ SgdiskAccepts(x.head, TheArgs)
    [] pc = "restore"       -> /\ Readable(x) /\ TheBackup.serial = host.args.serial
                               /\ TheBackup.geometry = <<x.head.sector, x.head.last>>
    [] pc = "images"        -> Readable(x) /\ (x.fw # "stock" => "rom" \notin changed)
    [] pc = "prepare home"  -> /\ Partitioned(x) /\ "rootfs" \notin changed
                               /\ host.args.keep => HomeFound(x)
    [] pc = "write store"   -> {"boot.img", "rom"} \cap changed = {}
    [] pc = "reboot"        -> TRUE
    [] OTHER                -> Readable(x)

-----------------------------------------------------------------------------
(* One remote command.                                                       *)

Goto(pc) == host' = [host EXCEPT !.pc = pc]
Stop(result) == host' = Idle(result)     \* an exception; the finally clause frees the scratch
Fail == Stop("failed")
World == <<factory, usb, changed, runs, losses, history>>

\* A slip: whoever answers at the address is taken.
AnswersAny == tab[usb].mode = "ram"

\* remote: every command is guarded by the boot id of the RAM image that was chosen.
Answers == tab[usb].mode = "ram" /\ tab[usb].id = host.id

\* The command at step `pc`: it is done and answered; or it fails, or its answer
\* is lost, and any of its effects is all that happened; or nobody is there.
Remote(pc, next, saved) ==
  LET x == tab[usb] IN
  /\ host.pc = pc
  /\ \/ /\ Answers /\ Allowed(pc, x)
        /\ tab' = [tab EXCEPT ![usb] = Effects(pc, x)[1]]
        /\ host' = next /\ backups' = saved /\ UNCHANGED faults
     \/ /\ Answers /\ Allowed(pc, x) /\ faults < MaxFaults
        /\ \E i \in 1 .. Len(Effects(pc, x)) : tab' = [tab EXCEPT ![usb] = Effects(pc, x)[i]]
        /\ faults' = faults + 1 /\ Fail /\ UNCHANGED backups
     \/ /\ ~(Answers /\ Allowed(pc, x))
        /\ Fail /\ UNCHANGED <<tab, faults, backups>>
  /\ UNCHANGED World

At(pc) == [host EXCEPT !.pc = pc]

-----------------------------------------------------------------------------
(* Up to the RAM image.                                                      *)

ValidArguments(a) ==
  /\ a.nobackup => a.keep /\ a.restore = {}
  /\ a.keep => a.android = <<>> /\ a.root = <<>>

\* main, up to the device: the files are checked and the plan is previewed on
\* the reference table.  A restore takes one complete backup directory.
Begin(a) ==
  LET planned == IF a.keep \/ a.restore # {} THEN <<>> ELSE ReferencePlan(a.layout, a.android, a.root)
  IN /\ host.pc = "idle" /\ runs < MaxRuns
     /\ runs' = runs + 1 /\ changed' = {}
     /\ IF ValidArguments(a) /\ (a.keep \/ a.restore # {} \/ planned # <<>>)
        THEN /\ host' = [Idle("none") EXCEPT !.pc = "fastboot", !.args = a, !.planned = planned]
             /\ restored' = IF a.restore = {} THEN restored ELSE restored \cup {a.serial}
             /\ another' = IF \A b \in a.restore : {b.head, b.tail} = {factory[a.serial]} THEN another
                           ELSE another \cup {a.serial}
             /\ waived' = IF a.nobackup THEN waived \cup {a.serial} ELSE waived
        ELSE Stop("refused") /\ UNCHANGED history
     /\ UNCHANGED <<tab, factory, usb, backups, faults, losses>>

Install == \E a \in Requests : Begin(a)
Restore == \E t \in Tablets, b \in backups : Begin([Nobody EXCEPT !.serial = t, !.restore = {b}])

\* The Fastboot checks and the prompt: the tablet with this serial is there
\* and the user types YES, or not.
CheckFastboot ==
  /\ host.pc = "fastboot"
  /\ (tab[host.args.serial].mode = "fastboot" /\ Goto("boot")) \/ Stop("refused")
  /\ UNCHANGED <<tab, backups, faults, World>>

\* A slip: what was copied is not compared again.
PadUnchecked(file, good) == IF file \in changed THEN "other" ELSE good

\* pad_boot_image: the digest is taken of the bytes that are copied.
PadBootImage(file, good) == IF file \in changed THEN "none" ELSE good

\* The boot image is padded, then fastboot boot starts the RAM image.
BootRam ==
  LET t == host.args.serial
      padded == IF host.args.restore # {} THEN "none" ELSE PadBootImage("boot.img", "ubuntu")
  IN /\ host.pc = "boot"
     /\ IF tab[t].mode # "fastboot" \/ (host.args.restore = {} /\ padded = "none")
        THEN Fail /\ UNCHANGED tab
        ELSE /\ tab' = [tab EXCEPT ![t].mode = "ram", ![t].id = runs]
             /\ host' = [host EXCEPT !.pc = "wait", !.padded = padded]
     /\ UNCHANGED <<backups, faults, World>>

\* A slip: the loop has no deadline.
WaitForever ==
  /\ host.pc = "wait" /\ tab[usb].mode = "ram"
  /\ host' = [host EXCEPT !.pc = "serial", !.id = tab[usb].id]
  /\ UNCHANGED <<tab, backups, faults, World>>

\* For 120 seconds: whatever RAM installer answers at the address gives its id.
WaitForRam ==
  /\ host.pc = "wait"
  /\ IF tab[usb].mode = "ram" THEN host' = [host EXCEPT !.pc = "serial", !.id = tab[usb].id] ELSE Fail
  /\ UNCHANGED <<tab, backups, faults, World>>

AfterSerial == IF host.args.restore # {} THEN "restore"
               ELSE IF host.args.nobackup THEN "report" ELSE "backup boots"

CheckSerial ==
  Remote("serial", IF usb = host.args.serial THEN At(AfterSerial) ELSE Idle("failed"), backups)

-----------------------------------------------------------------------------
(* Saving.  A backup directory without gpt/manifest.json is not a backup.    *)

Saving == CHOOSE b \in host.saving : TRUE

BackupBoots ==
  LET x == tab[usb]
      b == [serial |-> host.args.serial, geometry |-> <<x.head.sector, x.head.last>>, boot_a |-> x.boot_a,
            boot_b |-> x.boot_b, head |-> Torn, tail |-> Torn, fw |-> {}]
  IN Remote("backup boots", [host EXCEPT !.pc = "backup head", !.saving = {b}], backups)

\* A slip: the manifest is there before the second copy is.
BackupHeadOnly ==
  LET b == [Saving EXCEPT !.head = tab[usb].head]
  IN Remote("backup head", [host EXCEPT !.pc = "report", !.saving = {b}], backups \cup {b})

BackupHead ==
  Remote("backup head",
         [host EXCEPT !.pc = "backup tail", !.saving = {[Saving EXCEPT !.head = tab[usb].head]}], backups)

BackupTail ==
  LET b == [Saving EXCEPT !.tail = tab[usb].tail]
  IN Remote("backup tail", [host EXCEPT !.pc = "report", !.saving = {b}], backups \cup {b})

-----------------------------------------------------------------------------
(* The partition table.                                                      *)

ImagesOrRoot == IF host.args.layout = "dual" THEN "images" ELSE "prepare home"
PlanOf(x, a) == PlanFor(ParsePrint(x.head), a.layout, a.android, a.root)

\* What to do with the table that was read: refuse it, keep it, or split it.
Decide(x, a) ==
  LET disk  == ParsePrint(x.head)
      state == Classify(disk)
  IN IF state = "unknown" \/ (state = "stock") = a.keep THEN "refuse"
     ELSE IF state = "split" THEN "keep"
     ELSE IF /\ CheckStockDevice(disk) /\ PlanOf(x, a) # <<>>
             /\ ConfirmPlan(host.planned, PlanOf(x, a)) THEN "split"
     ELSE "refuse"

Report ==
  LET choice == Decide(tab[usb], host.args)
  IN Remote("report",
            CASE choice = "refuse" -> Idle("refused")
              [] choice = "keep"   -> At(ImagesOrRoot)
              [] choice = "split"  -> [host EXCEPT !.pc = "wipe userdata", !.plan = PlanOf(tab[usb], host.args)],
            backups)

\* A slip: the keys in metadata are left.
WipeUserdataOnly ==
  Remote("wipe userdata",
         [host EXCEPT !.pc = "apply", !.info = ParseInfo(ParsePrint(tab[usb].head), "userdata")], backups)

\* apply_layout reads what userdata is, then wipes the heads, then writes once.
WipeUserdata ==
  Remote("wipe userdata",
         [host EXCEPT !.pc = IF host.args.layout = "dual" THEN "wipe metadata" ELSE "apply",
                      !.info = ParseInfo(ParsePrint(tab[usb].head), "userdata")], backups)
WipeMetadata == Remote("wipe metadata", At("apply"), backups)
Apply == Remote("apply", At("verify"), backups)

\* On a difference the program says that it restores the saved table; it stops.
Verify ==
  LET disk == ParsePrint(tab[usb].head)
  IN Remote("verify",
            IF /\ VerifyApplied(disk, host.plan)
               /\ host.plan[1].action # "delete" => VerifyPreserved(host.info, ParseInfo(disk, "userdata"))
            THEN At(ImagesOrRoot) ELSE Idle("failed"), backups)

\* restore_partition_table: after the write both copies have to agree.
RestoreTable ==
  Remote("restore", IF TheBackup.head = TheBackup.tail THEN At("reboot") ELSE Idle("failed"), backups)

-----------------------------------------------------------------------------
(* The root file system, in the RAM image.                                   *)

\* Stock images whose bytes are not on the tablet are to be flashed; firmware
\* is saved first, and padded from a copy that is compared again.
Images ==
  LET flash == tab[usb].fw # "stock"
      b     == [Saving EXCEPT !.fw = {tab[usb].fw}]
  IN Remote("images",
            [host EXCEPT !.pc = "prepare home", !.fw = IF flash THEN PadBootImage("rom", "stock") ELSE "none"],
            IF flash /\ ~host.args.nobackup THEN (backups \ host.saving) \cup {b} ELSE backups)

\* install-root.sh: checks and download, the home, the root, the switcher's store.
InstallHome == Remote("prepare home", At("write root"), backups)
InstallRoot == Remote("write root", At(IF host.args.layout = "dual" THEN "write store" ELSE "reboot"), backups)
InstallStore == Remote("write store", At("reboot"), backups)

-----------------------------------------------------------------------------
(* Back in Fastboot.                                                         *)

Reboot == Remote("reboot", IF host.args.restore # {} THEN Idle("restored") ELSE At("return"), backups)

BootSlots(mode) == IF mode = "dual" THEN <<"a", "b">> ELSE <<"b">>
BootField(slot) == IF slot = "a" THEN "boot_a" ELSE "boot_b"

\* For 90 seconds the program looks for the tablet in Fastboot.
Return ==
  /\ host.pc = "return"
  /\ IF tab[host.args.serial].mode # "fastboot" THEN Fail
     ELSE Goto(IF host.fw # "none" THEN "firmware"
               ELSE IF host.args.layout = "dual" THEN "android" ELSE "boot first")
  /\ UNCHANGED <<tab, backups, faults, World>>

\* What a flash at this step writes: the field and its content.
Target(pc) ==
  LET slots == BootSlots(host.args.layout)
  IN CASE pc = "firmware"    -> <<"fw", host.fw>>
       [] pc = "android"     -> <<"android", IF "rom" \in changed THEN "other" ELSE "stock">>
       [] pc = "boot first"  -> <<BootField(slots[1]), host.padded>>
       [] pc = "boot second" -> <<BootField(slots[2]), host.padded>>
FlashSteps == {"firmware", "android", "boot first", "boot second"}
Put(x, pc, content) == [x EXCEPT ![Target(pc)[1]] = content]

\* fastboot flash, to the tablet with this serial: all of it, or an error after
\* nothing, some or all of it.
Flash(pc, next) ==
  LET t == host.args.serial
      content == Target(pc)[2]
  IN /\ host.pc = pc
     /\ \/ /\ tab[t].mode = "fastboot" /\ tab' = [tab EXCEPT ![t] = Put(@, pc, content)]
           /\ Goto(next) /\ UNCHANGED faults
        \/ /\ tab[t].mode = "fastboot" /\ faults < MaxFaults /\ faults' = faults + 1
           /\ \E left \in {"torn", content, tab[t][Target(pc)[1]]} : tab' = [tab EXCEPT ![t] = Put(@, pc, left)]
           /\ Fail
        \/ tab[t].mode # "fastboot" /\ Fail /\ UNCHANGED <<tab, faults>>
     /\ UNCHANGED <<backups, World>>

FlashFirmware == Flash("firmware", "android")
FlashAndroid == Flash("android", "boot first")
FlashFirst == Flash("boot first", IF Len(BootSlots(host.args.layout)) = 2 THEN "boot second" ELSE "activate")
FlashSecond == Flash("boot second", "activate")

\* --set-active and reboot; that is the end of the run.
Activate ==
  LET t == host.args.serial IN
  /\ host.pc = "activate"
  /\ IF tab[t].mode = "fastboot"
     THEN /\ tab' = [tab EXCEPT ![t].active = BootSlots(host.args.layout)[1], ![t].mode = "system"]
          /\ Stop("installed")
     ELSE Fail /\ UNCHANGED tab
  /\ UNCHANGED <<backups, faults, World>>

-----------------------------------------------------------------------------
(* Around the installer.                                                     *)

\* What a command under way may leave of a tablet whose power goes.
Interrupted(t) ==
  IF host.pc \in FlashSteps /\ host.args.serial = t /\ tab[t].mode = "fastboot"
  THEN {tab[t], Put(tab[t], host.pc, "torn")}
  ELSE IF host.pc # "idle" /\ usb = t /\ Answers /\ Allowed(host.pc, tab[t])
  THEN {Effects(host.pc, tab[t])[i] : i \in 1 .. Len(Effects(host.pc, tab[t]))}
  ELSE {tab[t]}

PowerLoss(t) ==
  /\ tab[t].mode # "off" /\ losses < MaxLosses
  /\ losses' = losses + 1
  /\ \E left \in Interrupted(t) : tab' = [tab EXCEPT ![t] = [left EXCEPT !.mode = "off", !.id = 0]]
  /\ UNCHANGED <<factory, usb, changed, backups, host, runs, faults, history>>

\* The user brings a tablet to Fastboot with its keys.
ToFastboot(t) ==
  /\ tab[t].mode \in {"off", "system"} \/ (tab[t].mode = "ram" /\ host.pc = "idle")
  /\ tab' = [tab EXCEPT ![t].mode = "fastboot", ![t].id = 0]
  /\ UNCHANGED <<factory, usb, changed, backups, host, runs, faults, losses, history>>

\* The tablet is used: Ubuntu fills its home; Android on a whole userdata fills that.
Use(t) ==
  LET x       == tab[t]
      booting == x[BootField(x.active)]
  IN /\ x.mode = "system" \/ (x.mode = "fastboot" /\ host.pc = "idle")
     /\ \/ /\ booting = "ubuntu" /\ x.root = "ubuntu" /\ x.home.kind = "fresh"
           /\ tab' = [tab EXCEPT ![t] = [x EXCEPT !.home.kind = "user", !.mode = "system"]]
        \/ /\ booting = "stock" /\ Named(x.head, "userdata") # {} /\ Named(x.head, "linux_root") = {}
           /\ x.userdata = "wiped" \/ x.home # NoHome \/ x.root # "none"
           /\ tab' = [tab EXCEPT ![t] = [x EXCEPT !.userdata = "old", !.metadata = "old", !.home = NoHome,
                                                   !.root = "none", !.store = "none", !.mode = "system"]]
     /\ UNCHANGED <<factory, usb, changed, backups, host, runs, faults, losses, history>>

MoveCable ==
  /\ losses < MaxLosses /\ losses' = losses + 1
  /\ \E t \in Tablets \ {usb} : usb' = t
  /\ UNCHANGED <<tab, factory, changed, backups, host, runs, faults, history>>

HostStops ==
  /\ host.pc # "idle" /\ losses < MaxLosses /\ losses' = losses + 1
  /\ Stop("killed")
  /\ UNCHANGED <<tab, factory, usb, changed, backups, runs, faults, history>>

\* A file changes on the host after main has checked it.  The change is placed
\* just before one of the steps that read the files again.
FileChanges ==
  /\ host.pc \in {"boot", "images", "prepare home", "write store", "android"}
  /\ faults < MaxFaults /\ faults' = faults + 1
  /\ \E f \in Files \ changed : changed' = changed \cup {f}
  /\ UNCHANGED <<tab, factory, usb, backups, host, runs, losses, history>>

-----------------------------------------------------------------------------
HostNext ==
  \/ CheckFastboot \/ BootRam \/ WaitForRam \/ CheckSerial
  \/ BackupBoots \/ BackupHead \/ BackupTail
  \/ Report \/ WipeUserdata \/ WipeMetadata \/ Apply \/ Verify \/ RestoreTable
  \/ Images \/ InstallHome \/ InstallRoot \/ InstallStore
  \/ Reboot \/ Return \/ FlashFirmware \/ FlashAndroid \/ FlashFirst \/ FlashSecond \/ Activate

Next ==
  \/ Install \/ Restore \/ HostNext
  \/ \E t \in Tablets : PowerLoss(t) \/ ToFastboot(t) \/ Use(t)
  \/ MoveCable \/ HostStops \/ FileChanges

Spec == Init /\ [][Next]_vars

\* Every command the host waits for has a deadline, and so has every loop; the
\* prompt is taken to be answered.
FairSpec == Spec /\ WF_vars(HostNext)

-----------------------------------------------------------------------------
(* Properties.                                                               *)

Contents == {"none", "old", "stock", "ubuntu", "partial", "both", "wiped", "torn"}

\* The shape of the state.  No field of a tablet ever holds the bytes of a file
\* that changed after it was checked, but for the stock images other than
\* firmware, which fastboot is given by name.
TypeOK ==
  /\ \A t \in Tablets :
       /\ \A f \in {"userdata", "metadata", "root", "store", "boot_a", "boot_b", "fw"} : tab[t][f] \in Contents
       /\ tab[t].android \in Contents \cup {"other"}
       /\ tab[t].home.kind \in {"none", "fresh", "user"} /\ tab[t].active \in {"a", "b"}
       /\ tab[t].mode \in {"fastboot", "ram", "system", "off"} /\ tab[t].id \in 0 .. MaxRuns
  /\ usb \in Tablets /\ changed \subseteq Files
  /\ host.id \in 0 .. MaxRuns /\ host.args.serial \in Tablets
  /\ host.result \in {"none", "refused", "failed", "killed", "installed", "restored"}
  /\ runs \in 0 .. MaxRuns /\ faults \in 0 .. MaxFaults /\ losses \in 0 .. MaxLosses
  /\ restored \subseteq Tablets /\ another \subseteq restored /\ waived \subseteq Tablets

\* Whatever was interrupted, and however often: a table that is not the
\* factory's, a boot partition that is not the one it came with, or replaced
\* firmware is in a complete backup of this tablet (firmware unless the backup
\* was waived), and one copy of the table is whole.  The last fails only after a
\* restore of another table than the factory's: cut short in the tail copy, and
\* followed by the restore of a different one, cut short in the head copy.
Recoverable ==
  \A t \in Tablets :
    /\ tab[t].head # Torn \/ tab[t].tail # Torn \/ t \in another
    /\ {tab[t].head, tab[t].tail} # {factory[t]} =>
         \E b \in backups : b.serial = t /\ b.head = factory[t] /\ b.tail = factory[t]
    /\ \A f \in {"boot_a", "boot_b"} :
         tab[t][f] # "stock" => \E b \in backups : b.serial = t /\ b[f] = "stock"
    /\ tab[t].fw = "old" \/ t \in waived \/ \E b \in backups : b.serial = t /\ b.fw = {"old"}

Storage(x) == <<x.head, x.tail, x.userdata, x.metadata, x.home, x.root, x.store, x.boot_a, x.boot_b,
                x.fw, x.android, x.active>>

\* While the installer runs, only the tablet whose serial number was given is
\* written to, wherever the cable goes.
OnlyTheChosen ==
  [][\A t \in Tablets :
       host.pc # "idle" /\ tab[t].mode # "system" /\ Storage(tab'[t]) # Storage(tab[t]) => t = host.args.serial]_vars

\* A home somebody has used is given up only on a tablet whose owner asked for
\* the factory table back; no failed, repeated or interrupted install loses it.
HomeSurvives ==
  [][\A t \in Tablets :
       tab[t].home.kind = "user" /\ tab'[t].home # tab[t].home => t \in restored]_vars

\* A run that reports completion leaves a tablet with every part of the
\* installation: a split table in both copies, the root, a home where the table
\* has it, the boot image in every slot that should have it, the booting slot
\* selected, and for the dual layout the switcher's store, stock firmware and
\* no keys or file system of the Android that was there.
Whole(x, a) ==
  LET home == Named(x.head, "linux_home")
  IN /\ x.root = "ubuntu" /\ Classify(ParsePrint(x.head)) = "split"
     /\ \E p \in home : x.home.first = p.first /\ x.home.kind # "none"
     /\ ~a.keep => x.head = x.tail
     /\ \A i \in 1 .. Len(BootSlots(a.layout)) : x[BootField(BootSlots(a.layout)[i])] = "ubuntu"
     /\ x.active = BootSlots(a.layout)[1]
     /\ a.layout = "dual" => /\ x.store = "both" /\ x.fw = "stock"
                             /\ ~a.keep => x.userdata = "wiped" /\ x.metadata = "wiped"
InstalledIsWhole ==
  [][host'.result = "installed" /\ host.result # "installed" => Whole(tab'[host.args.serial], host.args)]_vars

\* Every run ends, by itself, whatever happens to the tablet or the cable.
RunEnds == host.pc # "idle" ~> host.pc = "idle"

\* The plan for a factory table is the least feasible one: of all pairs of
\* aligned boundaries that give Android and the root at least what was asked
\* and leave the minimum for the home, it takes the lowest; it is refused only
\* when there is none.
PlanIsLeast ==
  host.pc = "report" /\ Classify(ParsePrint(tab[usb].head)) = "stock" /\ ~host.args.keep =>
    LET disk  == ParsePrint(tab[usb].head)
        a     == host.args
        sizes == ResolveSizes(a.layout, a.android, a.root, Region(disk))
        start == Start(disk, ByName(disk, "userdata"))
        cuts  == {n \in start .. UsableEnd(disk) : n % ALIGNMENT = 0}
        fits  == {c \in cuts \X cuts : /\ c[1] >= start + sizes.android /\ c[2] >= c[1] + sizes.root
                                       /\ c[2] + MIN_HOME <= UsableEnd(disk)}
        legal == sizes.root >= MIN_ROOT /\ (sizes.android = 0 => a.layout # "dual")
                 /\ (sizes.android # 0 => sizes.android >= MIN_ANDROID)
        plan  == PlanOf(tab[usb], a)
    IN IF plan = <<>> THEN ~legal \/ fits = {} \/ ALIGNMENT % disk.sector # 0 \/ Malformed \in {sizes.android, sizes.root}
       ELSE LET c == <<plan[2].start, plan[3].start>>
            IN legal /\ c \in fits /\ \A d \in fits : c[1] <= d[1] /\ c[2] <= d[2]

\* Once the new table is verified, it is the one that was confirmed: Android
\* and the root have the sizes the user saw, every other partition is where it
\* was, nothing overlaps, all is inside the disk, userdata has its identity,
\* and the next run will recognise the table as split.
AppliedIsConfirmed ==
  host.pc \in {"images", "prepare home"} /\ ~host.args.keep =>
    LET t     == host.args.serial
        table == tab[t].head
        mine(p) == p.name \in {"userdata", "linux_root", "linux_home"}
        size(p) == (p.last + 1 - p.first) * table.sector
    IN /\ {p \in table.parts : ~mine(p)} = {p \in factory[t].parts : ~mine(p)}
       /\ \A p, q \in table.parts : p # q => p.number # q.number /\ ~Overlap(p, q)
       /\ \A p \in table.parts : p.last <= table.last
       /\ \A p \in table.parts : p.name = "linux_root" => size(p) = Size(host.planned[2])
       /\ \A p \in Named(table, "userdata") :
            /\ size(p) = Size(host.planned[1])
            /\ \E q \in Named(factory[t], "userdata") :
                 p.id = q.id /\ p.first = q.first /\ p.number = q.number /\ p.last < q.last
       /\ Classify(ParsePrint(table)) = "split"

\* What the documentation says of the other capacity variants: a factory table
\* whose sizes were given in bytes and fit is not refused.
CapacityFollows ==
  host.pc = "report" /\ Answers /\ Readable(tab[usb]) /\ ~host.args.keep =>
    LET disk == ParsePrint(tab[usb].head)
    IN CheckStockDevice(disk) /\ PlanOf(tab[usb], host.args) # <<>> => Decide(tab[usb], host.args) # "refuse"

=============================================================================
