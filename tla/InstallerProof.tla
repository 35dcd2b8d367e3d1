--------------------------- MODULE InstallerProof ---------------------------
(* One tablet is written to, nothing is written that cannot be put back, a  *)
(* home in use is kept, and a run that says it has installed has, for any    *)
(* tablets, tables, requests, runs, faults and losses.                       *)
EXTENDS Installer, FiniteSetTheorems, WellFoundedInduction, TLAPS

-----------------------------------------------------------------------------
(* The shape of the records.                                                 *)

Fields == {"head", "tail", "userdata", "metadata", "home", "root", "store", "boot_a", "boot_b", "fw",
           "android", "active", "mode", "id"}
HostFields == {"pc", "args", "id", "planned", "plan", "info", "saving", "padded", "fw", "result"}
BackupFields == {"serial", "geometry", "boot_a", "boot_b", "head", "tail", "fw"}
TableFields == {"sector", "last", "capacity", "parts"}
HomeFields == {"first", "kind"}

Early == {"idle", "fastboot", "boot", "wait", "serial"}
SavingSteps == {"backup boots", "backup head", "backup tail"}
SplitSteps == {"wipe userdata", "wipe metadata", "apply"}
RemoteSteps == {"restore", "report", "verify", "images", "prepare home", "write root", "write store", "reboot"}
               \cup SavingSteps \cup SplitSteps
LastSteps == {"return", "firmware", "android", "boot first", "boot second", "activate"}
Steps == Early \cup RemoteSteps \cup LastSteps

-----------------------------------------------------------------------------
(* What a remote command may leave of a tablet, field by field.              *)

\* The effects of a command, as a set.
Left(pc, x) == {Effects(pc, x)[i] : i \in 1 .. Len(Effects(pc, x))}

\* The parts of a tablet no remote command writes.
Flashed(x) == <<x.boot_a, x.boot_b, x.fw, x.android, x.active>>

LEMMA One == ASSUME NEW a, NEW s, s = <<a>>, NEW i \in 1 .. Len(s) PROVE s[i] = a
  OBVIOUS
LEMMA Two == ASSUME NEW a, NEW b, NEW s, s = <<a, b>>, NEW i \in 1 .. Len(s) PROVE s[i] \in {a, b}
  OBVIOUS
LEMMA Three == ASSUME NEW a, NEW b, NEW c, NEW s, s = <<a, b, c>>, NEW i \in 1 .. Len(s) PROVE s[i] \in {a, b, c}
  OBVIOUS
LEMMA Five ==
  ASSUME NEW a, NEW b, NEW c, NEW d, NEW e, NEW s, s = <<a, b, c, d, e>>, NEW i \in 1 .. Len(s)
  PROVE  s[i] \in {a, b, c, d, e}
  OBVIOUS

\* sgdisk: the old tables, the new ones, or the new tail and a torn head, or a torn tail alone.
LEMMA ApplyLeft ==
  ASSUME NEW x, DOMAIN x = Fields, NEW e \in Left("apply", x)
  PROVE  /\ DOMAIN e = Fields /\ Flashed(e) = Flashed(x)
         /\ e.home = x.home /\ e.root = x.root /\ e.store = x.store
         /\ e.userdata = x.userdata /\ e.metadata = x.metadata /\ e.mode = x.mode /\ e.id = x.id
         /\ LET table == Sgdisk(x.head, TheArgs)
            IN \/ e.head = table /\ e.tail = table
               \/ e.head = Torn /\ e.tail = table
               \/ e.head = x.head /\ e.tail \in {table, Torn, x.tail}
<1> DEFINE table == Sgdisk(x.head, TheArgs)
<1>1. Effects("apply", x) = WriteTable(x, table)
  BY DEF Effects
<1> HIDE DEF table
<1>2. e \in {[x EXCEPT !.head = table, !.tail = table], [x EXCEPT !.head = Torn, !.tail = table],
             [x EXCEPT !.tail = table], [x EXCEPT !.tail = Torn], x}
  BY <1>1, Five DEF WriteTable, Left
<1>3. DOMAIN e = Fields /\ Flashed(e) = Flashed(x)
  BY <1>2 DEF Fields, Flashed
<1>4. /\ e.home = x.home /\ e.root = x.root /\ e.store = x.store
      /\ e.userdata = x.userdata /\ e.metadata = x.metadata /\ e.mode = x.mode /\ e.id = x.id
  BY <1>2 DEF Fields
<1>5. \/ e.head = table /\ e.tail = table
      \/ e.head = Torn /\ e.tail = table
      \/ e.head = x.head /\ e.tail \in {table, Torn, x.tail}
  BY <1>2 DEF Fields
<1>6. QED
  BY <1>3, <1>4, <1>5 DEF table

\* restore-gpt: head first, then tail; a copy that holds the bytes already cannot tear.
LEMMA RestoreLeft ==
  ASSUME NEW x, DOMAIN x = Fields, NEW e \in Left("restore", x)
  PROVE  /\ DOMAIN e = Fields /\ Flashed(e) = Flashed(x)
         /\ e.home = x.home /\ e.root = x.root /\ e.store = x.store
         /\ e.userdata = x.userdata /\ e.metadata = x.metadata /\ e.mode = x.mode /\ e.id = x.id
         /\ LET b == TheBackup
            IN \/ e.head = b.head /\ e.tail \in {b.tail, Torn, x.tail} /\ (x.tail = b.tail => e.tail = b.tail)
               \/ e.head \in {Torn, x.head} /\ e.tail = x.tail /\ (x.head = b.head => e.head = b.head)
<1> DEFINE b == TheBackup
           head == IF x.head = b.head THEN b.head ELSE Torn
           tail == IF x.tail = b.tail THEN b.tail ELSE Torn
<1>1. Effects("restore", x) = RestoreGpt(x, b)
  BY DEF Effects
<1>2. RestoreGpt(x, b) = <<[x EXCEPT !.head = b.head, !.tail = b.tail], [x EXCEPT !.head = b.head, !.tail = tail],
                           [x EXCEPT !.head = b.head], [x EXCEPT !.head = head], x>>
  BY DEF RestoreGpt, Fields
<1> HIDE DEF b
<1>3. e \in {[x EXCEPT !.head = b.head, !.tail = b.tail], [x EXCEPT !.head = b.head, !.tail = tail],
             [x EXCEPT !.head = b.head], [x EXCEPT !.head = head], x}
  <2> HIDE DEF head, tail
  <2> QED BY <1>1, <1>2, Five DEF Left
<1>4. DOMAIN e = Fields /\ Flashed(e) = Flashed(x)
  <2> HIDE DEF head, tail
  <2> QED BY <1>3 DEF Fields, Flashed
<1>5. /\ e.home = x.home /\ e.root = x.root /\ e.store = x.store
      /\ e.userdata = x.userdata /\ e.metadata = x.metadata /\ e.mode = x.mode /\ e.id = x.id
  <2> HIDE DEF head, tail
  <2> QED BY <1>3 DEF Fields
<1>6. \/ e.head = b.head /\ e.tail \in {b.tail, Torn, x.tail} /\ (x.tail = b.tail => e.tail = b.tail)
      \/ e.head \in {Torn, x.head} /\ e.tail = x.tail /\ (x.head = b.head => e.head = b.head)
  BY <1>3 DEF Fields
<1>7. QED
  BY <1>4, <1>5, <1>6 DEF b

\* mkfs on the home, unless it is kept.
LEMMA HomeLeft ==
  ASSUME NEW x, DOMAIN x = Fields, NEW e \in Left("prepare home", x)
  PROVE  /\ DOMAIN e = Fields /\ Flashed(e) = Flashed(x)
         /\ e.head = x.head /\ e.tail = x.tail /\ e.root = x.root /\ e.store = x.store
         /\ e.userdata = x.userdata /\ e.metadata = x.metadata /\ e.mode = x.mode /\ e.id = x.id
         /\ \/ e.home = x.home
            \/ ~host.args.keep /\ DOMAIN e.home = HomeFields /\ e.home.kind \in {"none", "fresh"}
<1>1. Effects("prepare home", x) = PrepareHome(x, host.args.keep)
  BY DEF Effects
<1> DEFINE fresh == [first |-> HomePart(x).first, kind |-> "fresh"]
<1>2. CASE host.args.keep
  <2>1. e = x
    <3>1. Effects("prepare home", x) = <<x>>
      BY <1>1, <1>2 DEF PrepareHome
    <3>2. QED
      BY <3>1, One DEF Left
  <2>2. QED
    BY <2>1
<1>3. CASE ~host.args.keep
  <2>1. DOMAIN fresh = HomeFields /\ fresh.kind = "fresh" /\ DOMAIN NoHome = HomeFields /\ NoHome.kind = "none"
    BY DEF HomeFields, NoHome
  <2>2. e \in {[x EXCEPT !.home = fresh], [x EXCEPT !.home = NoHome], x}
    <3>1. Effects("prepare home", x) = <<[x EXCEPT !.home = fresh], [x EXCEPT !.home = NoHome], x>>
      BY <1>1, <1>3 DEF PrepareHome
    <3> HIDE DEF fresh
    <3>2. PICK i \in 1 .. Len(Effects("prepare home", x)) : e = Effects("prepare home", x)[i]
      BY DEF Left
    <3>3. QED
      BY <3>1, <3>2, Three
  <2> HIDE DEF fresh
  <2>3. /\ DOMAIN e = Fields /\ Flashed(e) = Flashed(x)
        /\ e.head = x.head /\ e.tail = x.tail /\ e.root = x.root /\ e.store = x.store
        /\ e.userdata = x.userdata /\ e.metadata = x.metadata /\ e.mode = x.mode /\ e.id = x.id
    BY <2>2 DEF Fields, Flashed
  <2>4. e.home \in {fresh, NoHome, x.home}
    BY <2>2 DEF Fields
  <2>5. QED
    BY <1>3, <2>1, <2>3, <2>4
<1>4. QED
  BY <1>2, <1>3

OtherKept(x, e) ==
  /\ DOMAIN e = Fields /\ Flashed(e) = Flashed(x)
  /\ e.head = x.head /\ e.tail = x.tail /\ e.home = x.home
  /\ e.root \in {x.root, "ubuntu", "partial"} /\ e.store \in {x.store, "none", "both"}
  /\ e.userdata \in {x.userdata, "wiped"} /\ e.metadata \in {x.metadata, "wiped"}
  /\ (e.mode = x.mode /\ e.id = x.id) \/ (e.mode = "fastboot" /\ e.id = 0)

\* The other commands write neither the table nor the home.
LEMMA OtherLeft ==
  ASSUME NEW pc, NEW x, NEW e \in Left(pc, x),
         pc \notin {"apply", "restore", "prepare home"}, DOMAIN x = Fields
  PROVE  OtherKept(x, e)
<1>1. e \in {[x EXCEPT !.userdata = "wiped"], [x EXCEPT !.metadata = "wiped"],
             [x EXCEPT !.root = "ubuntu", !.store = "none"], [x EXCEPT !.root = "partial", !.store = "none"],
             [x EXCEPT !.store = "both"], [x EXCEPT !.mode = "fastboot", !.id = 0], x}
  <2>1. Effects(pc, x) \in {<<[x EXCEPT !.userdata = "wiped"], x>>, <<[x EXCEPT !.metadata = "wiped"], x>>,
                            <<[x EXCEPT !.root = "ubuntu", !.store = "none"],
                              [x EXCEPT !.root = "partial", !.store = "none"], x>>,
                            <<[x EXCEPT !.store = "both"], x>>, <<[x EXCEPT !.mode = "fastboot", !.id = 0], x>>, <<x>>}
    BY DEF Effects, ExtractRoot
  <2>2. PICK i \in 1 .. Len(Effects(pc, x)) : e = Effects(pc, x)[i]
    BY DEF Left
  <2>3. QED
    <3> DEFINE a == [x EXCEPT !.userdata = "wiped"]
               b == [x EXCEPT !.metadata = "wiped"]
               c == [x EXCEPT !.root = "ubuntu", !.store = "none"]
               d == [x EXCEPT !.root = "partial", !.store = "none"]
               f == [x EXCEPT !.store = "both"]
               g == [x EXCEPT !.mode = "fastboot", !.id = 0]
    <3>1. Effects(pc, x) \in {<<a, x>>, <<b, x>>, <<c, d, x>>, <<f, x>>, <<g, x>>, <<x>>}
      BY <2>1
    <3> HIDE DEF a, b, c, d, f, g
    <3>2. Effects(pc, x) = <<c, d, x>> => e \in {c, d, x}
      BY <2>2, Three
    <3>3. \A y \in {a, b, f, g} : Effects(pc, x) = <<y, x>> => e \in {y, x}
      BY <2>2, Two
    <3>4. Effects(pc, x) = <<x>> => e = x
      BY <2>2, One
    <3>5. e \in {a, b, c, d, f, g, x}
      BY <3>1, <3>2, <3>3, <3>4
    <3>6. QED
      BY <3>5 DEF a, b, c, d, f, g
<1>2. QED
  BY <1>1 DEF OtherKept, Fields, Flashed

\* There is always an effect, the whole one.
LEMMA WholeLeft == ASSUME NEW pc, NEW x PROVE Effects(pc, x)[1] \in Left(pc, x)
<1>1. Len(Effects(pc, x)) \in Nat \ {0}
  BY DEF Effects, WriteTable, RestoreGpt, PrepareHome, ExtractRoot
<1>2. QED
  BY <1>1 DEF Left

\* At the steps that are no remote command that writes, nothing is written.
LEMMA NoneLeft ==
  ASSUME NEW pc, pc \notin RemoteSteps, NEW x, NEW e \in Left(pc, x)
  PROVE  e = x
<1>1. Effects(pc, x) = <<x>>
  BY DEF Effects, RemoteSteps, SavingSteps, SplitSteps
<1>2. QED
  BY <1>1, One DEF Left

-----------------------------------------------------------------------------
(* The shape of the state, and what one step does to one tablet.             *)

TabletShape ==
  /\ DOMAIN tab = Tablets
  /\ \A t \in Tablets : /\ DOMAIN tab[t] = Fields /\ DOMAIN tab[t].home = HomeFields
                        /\ DOMAIN tab[t].head = TableFields /\ DOMAIN tab[t].tail = TableFields

HostShape ==
  /\ DOMAIN host = HostFields /\ host.pc \in Steps
  /\ host.padded \in {"none", "ubuntu"} /\ host.fw \in {"none", "stock"}
  /\ host.args.keep \in BOOLEAN /\ host.args.nobackup \in BOOLEAN /\ host.args.layout \in Modes
  /\ host.pc # "idle" => runs >= 1

BackupShape ==
  /\ \A b \in backups \cup host.saving :
       DOMAIN b = BackupFields /\ DOMAIN b.head = TableFields /\ DOMAIN b.tail = TableFields
  /\ host.args.restore \subseteq backups
  /\ host.pc = "restore" => host.args.restore # {}
  /\ host.pc \notin Early \cup {"restore", "reboot"} => host.args.restore = {}
  /\ host.pc \in SavingSteps => ~host.args.nobackup
  /\ host.pc \in RemoteSteps \ {"restore", "reboot", "backup boots"} /\ ~host.args.nobackup => host.saving # {}
  /\ factory \in [Tablets -> Tables]

Shape == TypeOK /\ TabletShape /\ HostShape /\ BackupShape

\* The RAM image that was chosen runs on t, and a remote command may write to it.
Here(t) == tab[t].mode = "ram" /\ tab[t].id = host.id
Writing(t) == host.pc \in RemoteSteps /\ t = usb /\ Here(t) /\ Allowed(host.pc, tab[t])

Off(x) == [x EXCEPT !.mode = "off", !.id = 0]
InFastboot(x) == [x EXCEPT !.mode = "fastboot", !.id = 0]

Wrote(t) == Writing(t) /\ \E e \in Left(host.pc, tab[t]) : tab'[t] \in {e, Off(e)}
FlashedTo(t) ==
  /\ host.pc \in FlashSteps /\ t = host.args.serial /\ tab[t].mode = "fastboot"
  /\ \E content \in {"torn", Target(host.pc)[2], tab[t][Target(host.pc)[1]]} :
       tab'[t] \in {Put(tab[t], host.pc, content), Off(Put(tab[t], host.pc, content))}
Started(t) ==
  /\ host.pc = "boot" /\ host'.pc = "wait" /\ t = host.args.serial /\ tab[t].mode = "fastboot"
  /\ tab'[t] = [tab[t] EXCEPT !.mode = "ram", !.id = runs]
Activated(t) ==
  /\ host.pc = "activate" /\ host'.pc = "idle" /\ t = host.args.serial /\ tab[t].mode = "fastboot"
  /\ tab'[t] = [tab[t] EXCEPT !.active = BootSlots(host.args.layout)[1], !.mode = "system"]
Filled(t) ==
  /\ tab[t].mode = "system" \/ host.pc = "idle"
  /\ tab[t].home.kind = "fresh" /\ tab'[t] = [tab[t] EXCEPT !.home.kind = "user", !.mode = "system"]
TakenBack(t) ==
  /\ tab[t].mode = "system" \/ host.pc = "idle"
  /\ Named(tab[t].head, "userdata") # {} /\ Named(tab[t].head, "linux_root") = {}
  /\ tab'[t] = [tab[t] EXCEPT !.userdata = "old", !.metadata = "old", !.home = NoHome, !.root = "none",
                              !.store = "none", !.mode = "system"]

\* All that one step may do to a tablet.
Change(t) ==
  \/ tab'[t] \in {tab[t], Off(tab[t]), InFastboot(tab[t])}
  \/ Wrote(t) \/ FlashedTo(t) \/ Started(t) \/ Activated(t) \/ Filled(t) \/ TakenBack(t)

WroteSome == Answers /\ Allowed(host.pc, tab[usb])
             /\ \E e \in Left(host.pc, tab[usb]) : tab' = [tab EXCEPT ![usb] = e]

\* A remote command: it is done, it fails after any of its effects, or nothing happens.
LEMMA RemoteCases ==
  ASSUME NEW pc, NEW next, NEW saved, Remote(pc, next, saved)
  PROVE  /\ host.pc = pc /\ UNCHANGED World
         /\ \/ WroteSome /\ host' = next /\ backups' = saved /\ UNCHANGED faults
            \/ WroteSome /\ host' = Idle("failed") /\ UNCHANGED backups /\ faults < MaxFaults /\ faults' = faults + 1
            \/ host' = Idle("failed") /\ UNCHANGED <<tab, backups, faults>>
<1>1. host.pc = pc /\ UNCHANGED World
  BY DEF Remote
<1>2. CASE /\ Answers /\ Allowed(pc, tab[usb])
           /\ tab' = [tab EXCEPT ![usb] = Effects(pc, tab[usb])[1]]
           /\ host' = next /\ backups' = saved /\ UNCHANGED faults
  <2>1. WroteSome
    BY <1>1, <1>2, WholeLeft DEF WroteSome
  <2>2. QED
    BY <1>1, <1>2, <2>1
<1>3. CASE /\ Answers /\ Allowed(pc, tab[usb]) /\ faults < MaxFaults
           /\ \E i \in 1 .. Len(Effects(pc, tab[usb])) : tab' = [tab EXCEPT ![usb] = Effects(pc, tab[usb])[i]]
           /\ faults' = faults + 1 /\ Fail /\ UNCHANGED backups
  <2>1. WroteSome
    BY <1>1, <1>3 DEF WroteSome, Left
  <2>2. QED
    BY <1>1, <1>3, <2>1 DEF Fail, Stop
<1>4. CASE ~(Answers /\ Allowed(pc, tab[usb])) /\ Fail /\ UNCHANGED <<tab, faults, backups>>
  BY <1>1, <1>4 DEF Fail, Stop
<1>5. QED
  BY <1>2, <1>3, <1>4 DEF Remote

\* The remote commands, with what follows each.
RemoteNext ==
  \E pc \in RemoteSteps \cup {"serial"} : \E next, saved : Remote(pc, next, saved)

LEMMA RemoteActions ==
  ASSUME \/ CheckSerial \/ BackupBoots \/ BackupHead \/ BackupTail \/ Report \/ WipeUserdata \/ WipeMetadata
         \/ Apply \/ Verify \/ RestoreTable \/ Images \/ InstallHome \/ InstallRoot \/ InstallStore \/ Reboot
  PROVE  RemoteNext
<1> DEFINE R(pc) == \E next, saved : Remote(pc, next, saved)
<1>1. CheckSerial => R("serial")
  BY Zenon DEF CheckSerial
<1>2. (BackupBoots => R("backup boots")) /\ (BackupHead => R("backup head")) /\ (BackupTail => R("backup tail"))
  BY Zenon DEF BackupBoots, BackupHead, BackupTail
<1>3. (Report => R("report")) /\ (WipeUserdata => R("wipe userdata")) /\ (WipeMetadata => R("wipe metadata"))
  BY Zenon DEF Report, WipeUserdata, WipeMetadata
<1>4. (Apply => R("apply")) /\ (Verify => R("verify")) /\ (RestoreTable => R("restore"))
  BY Zenon DEF Apply, Verify, RestoreTable
<1>5. (Images => R("images")) /\ (InstallHome => R("prepare home")) /\ (InstallRoot => R("write root"))
  BY Zenon DEF Images, InstallHome, InstallRoot
<1>6. (InstallStore => R("write store")) /\ (Reboot => R("reboot"))
  BY Zenon DEF InstallStore, Reboot
<1> HIDE DEF R
<1>7. \E pc \in RemoteSteps \cup {"serial"} : R(pc)
  BY <1>1, <1>2, <1>3, <1>4, <1>5, <1>6 DEF RemoteSteps, SavingSteps, SplitSteps
<1>8. QED
  BY <1>7 DEF RemoteNext, R

\* One flash, to the tablet with the serial number that was given.
LEMMA FlashCases ==
  ASSUME NEW pc, NEW next, Flash(pc, next), TabletShape
  PROVE  /\ host.pc = pc /\ UNCHANGED <<backups, World>>
         /\ \/ host' = [host EXCEPT !.pc = next] /\ faults' = faults
               /\ tab[host.args.serial].mode = "fastboot"
               /\ tab' = [tab EXCEPT ![host.args.serial] =
                                Put(tab[host.args.serial], host.pc, Target(host.pc)[2])]
            \/ host' = Idle("failed") /\ faults < MaxFaults /\ faults' = faults + 1
               /\ tab[host.args.serial].mode = "fastboot"
               /\ \E content \in {"torn", Target(host.pc)[2], tab[host.args.serial][Target(host.pc)[1]]} :
                    tab' = [tab EXCEPT ![host.args.serial] = Put(tab[host.args.serial], host.pc, content)]
            \/ host' = Idle("failed") /\ UNCHANGED <<tab, faults>>
<1> DEFINE t == host.args.serial
<1>1. host.pc = pc /\ UNCHANGED <<backups, World>>
  BY DEF Flash
<1>2. \/ /\ tab[t].mode = "fastboot" /\ tab' = [tab EXCEPT ![t] = Put(@, pc, Target(pc)[2])]
         /\ Goto(next) /\ UNCHANGED faults
      \/ /\ tab[t].mode = "fastboot" /\ faults < MaxFaults /\ faults' = faults + 1
         /\ \E left \in {"torn", Target(pc)[2], tab[t][Target(pc)[1]]} : tab' = [tab EXCEPT ![t] = Put(@, pc, left)]
         /\ Fail
      \/ tab[t].mode # "fastboot" /\ Fail /\ UNCHANGED <<tab, faults>>
  BY DEF Flash
<1>3. QED
  BY <1>1, <1>2, Zenon DEF Fail, Stop, Goto

LEMMA PowerCases ==
  ASSUME NEW t \in Tablets, PowerLoss(t), TabletShape
  PROVE  /\ UNCHANGED <<factory, usb, changed, backups, host, runs, faults, history>>
         /\ losses < MaxLosses /\ losses' = losses + 1
         /\ \A u \in Tablets : tab'[u] = tab[u] \/ (u = t /\ Change(u))
         /\ DOMAIN tab' = Tablets
<1>1. /\ UNCHANGED <<factory, usb, changed, backups, host, runs, faults, history>>
      /\ losses < MaxLosses /\ losses' = losses + 1
  BY DEF PowerLoss
<1>2. PICK left \in Interrupted(t) : tab' = [tab EXCEPT ![t] = Off(left)]
  BY DEF PowerLoss, Off
<1>3. DOMAIN tab' = Tablets /\ tab'[t] = Off(left) /\ \A u \in Tablets : u # t => tab'[u] = tab[u]
  BY <1>2 DEF TabletShape
<1>4. CASE left = tab[t]
  BY <1>1, <1>3, <1>4 DEF Change
<1>5. CASE /\ host.pc \in FlashSteps /\ host.args.serial = t /\ tab[t].mode = "fastboot"
           /\ left = Put(tab[t], host.pc, "torn")
  <2>1. FlashedTo(t)
    BY <1>3, <1>5 DEF FlashedTo
  <2>2. QED
    BY <1>1, <1>3, <2>1 DEF Change
<1>6. CASE host.pc # "idle" /\ usb = t /\ Answers /\ Allowed(host.pc, tab[t]) /\ left \in Left(host.pc, tab[t])
  <2>1. CASE host.pc \in RemoteSteps
    <3>1. Writing(t)
      BY <1>6, <2>1 DEF Writing, Here, Answers
    <3>2. Wrote(t)
      BY <1>3, <1>6, <3>1 DEF Wrote
    <3>3. QED
      BY <1>1, <1>3, <3>2 DEF Change
  <2>2. CASE host.pc \notin RemoteSteps
    <3>1. left = tab[t]
      BY <1>6, <2>2, NoneLeft
    <3>2. QED
      BY <1>4, <3>1
  <2>3. QED
    BY <2>1, <2>2
<1>7. QED
  BY <1>2, <1>4, <1>5, <1>6 DEF Interrupted, Left

\* What one step may do to the tablets.
LEMMA TabletSteps ==
  ASSUME TabletShape, HostShape, usb \in Tablets, host.args.serial \in Tablets, [Next]_vars
  PROVE  DOMAIN tab' = Tablets /\ \A t \in Tablets : Change(t)
<1> DEFINE Goal == DOMAIN tab' = Tablets /\ \A t \in Tablets : Change(t)
<1>1. ASSUME tab' = tab PROVE Goal
  BY <1>1 DEF TabletShape, Change
<1>2. ASSUME NEW t \in Tablets, NEW x, tab' = [tab EXCEPT ![t] = x], tab'[t] = x => Change(t) PROVE Goal
  <2>1. DOMAIN tab' = Tablets /\ tab'[t] = x /\ \A u \in Tablets : u # t => tab'[u] = tab[u]
    BY <1>2 DEF TabletShape
  <2>2. QED
    BY <1>2, <2>1 DEF Change
<1> HIDE DEF Goal
<1>3. ASSUME NEW pc \in RemoteSteps \cup {"serial"}, NEW next, NEW saved, Remote(pc, next, saved) PROVE Goal
  <2>1. CASE tab' = tab
    BY <1>1, <2>1
  <2>2. CASE WroteSome
    <3>1. PICK e \in Left(host.pc, tab[usb]) : tab' = [tab EXCEPT ![usb] = e]
      BY <2>2 DEF WroteSome
    <3>2. host.pc = pc /\ Here(usb) /\ Allowed(host.pc, tab[usb])
      BY <1>3, <2>2, RemoteCases DEF WroteSome, Answers, Here
    <3>3. CASE pc \in RemoteSteps
      <4>1. tab'[usb] = e => Wrote(usb)
        BY <3>2, <3>3 DEF Wrote, Writing
      <4>2. QED
        BY <1>2, <3>1, <4>1 DEF Change
    <3>4. CASE pc \notin RemoteSteps
      <4>1. e = tab[usb]
        BY <3>2, <3>4, NoneLeft
      <4>2. QED
        BY <1>2, <3>1, <4>1 DEF Change
    <3>5. QED
      BY <3>3, <3>4
  <2>3. QED
    BY <1>3, <2>1, <2>2, RemoteCases
<1>4. ASSUME NEW pc \in FlashSteps, NEW next, Flash(pc, next) PROVE Goal
  <2> DEFINE t == host.args.serial
  <2>1. CASE tab' = tab
    BY <1>1, <2>1
  <2>2. CASE tab[t].mode = "fastboot" /\ \E content \in {"torn", Target(host.pc)[2], tab[t][Target(host.pc)[1]]} :
                tab' = [tab EXCEPT ![t] = Put(tab[t], host.pc, content)]
    <3>1. PICK content \in {"torn", Target(host.pc)[2], tab[t][Target(host.pc)[1]]} :
                tab' = [tab EXCEPT ![t] = Put(tab[t], host.pc, content)]
      BY <2>2
    <3>2. tab'[t] = Put(tab[t], host.pc, content) => FlashedTo(t)
      BY <1>4, <2>2, FlashCases DEF FlashedTo
    <3>3. QED
      BY <1>2, <3>1, <3>2 DEF Change
  <2>3. QED
    BY <1>4, <2>1, <2>2, FlashCases
<1>5. ASSUME BootRam PROVE Goal
  <2> DEFINE t == host.args.serial
  <2>1. CASE tab' = tab
    BY <1>1, <2>1
  <2>2. CASE /\ tab[t].mode = "fastboot" /\ host.pc = "boot" /\ host'.pc = "wait"
             /\ tab' = [tab EXCEPT ![t] = [tab[t] EXCEPT !.mode = "ram", !.id = runs]]
    <3>1. tab'[t] = [tab[t] EXCEPT !.mode = "ram", !.id = runs] => Started(t)
      BY <2>2 DEF Started
    <3>2. QED
      BY <1>2, <2>2, <3>1 DEF Change
  <2>3. QED
    <3>1. CASE tab[t].mode # "fastboot"
      BY <1>5, <2>1, <3>1 DEF BootRam
    <3>2. CASE tab' = [tab EXCEPT ![t].mode = "ram", ![t].id = runs] /\ tab[t].mode = "fastboot"
      <4>1. tab' = [tab EXCEPT ![t] = [tab[t] EXCEPT !.mode = "ram", !.id = runs]]
        BY <3>2 DEF TabletShape
      <4>2. host.pc = "boot" /\ host'.pc = "wait"
        <5>1. host.pc = "boot" /\ (host'.pc = "wait" \/ tab' = tab)
          BY <1>5 DEF BootRam, HostShape, HostFields
        <5>2. tab'[t].mode = "ram"
          BY <3>2 DEF TabletShape, Fields
        <5>3. QED
          BY <3>2, <5>1, <5>2
      <4>3. QED
        BY <2>2, <3>2, <4>1, <4>2
    <3>3. QED
      BY <1>5, <2>1, <3>1, <3>2 DEF BootRam
<1>6. ASSUME Activate PROVE Goal
  <2> DEFINE t == host.args.serial
  <2>1. CASE tab' = tab
    BY <1>1, <2>1
  <2>2. CASE /\ tab[t].mode = "fastboot" /\ host.pc = "activate" /\ host'.pc = "idle"
             /\ tab' = [tab EXCEPT ![t] = [tab[t] EXCEPT !.active = BootSlots(host.args.layout)[1],
                                                         !.mode = "system"]]
    <3> DEFINE x == [tab[t] EXCEPT !.active = BootSlots(host.args.layout)[1], !.mode = "system"]
    <3>1. tab'[t] = x => Activated(t)
      BY <2>2 DEF Activated
    <3> HIDE DEF x
    <3>2. tab' = [tab EXCEPT ![t] = x]
      BY <2>2 DEF x
    <3>3. QED
      BY <1>2, <3>1, <3>2 DEF Change
  <2>3. Idle("installed").pc = "idle"
    BY DEF Idle
  <2>4. QED
    BY <1>6, <2>1, <2>2, <2>3 DEF Activate, Stop, TabletShape
<1>7. ASSUME NEW t \in Tablets, PowerLoss(t) PROVE Goal
  BY <1>7, PowerCases DEF Goal, Change
<1>8. ASSUME NEW t \in Tablets, ToFastboot(t) PROVE Goal
  <2>1. tab' = [tab EXCEPT ![t] = InFastboot(tab[t])]
    BY <1>8 DEF ToFastboot, InFastboot, TabletShape
  <2>2. QED
    BY <1>2, <2>1 DEF Change
<1>9. ASSUME NEW t \in Tablets, Use(t) PROVE Goal
  <2>0. tab[t].mode = "system" \/ (tab[t].mode = "fastboot" /\ host.pc = "idle")
    BY <1>9, Zenon DEF Use
  <2>1. CASE /\ tab[t].home.kind = "fresh"
             /\ tab' = [tab EXCEPT ![t] = [tab[t] EXCEPT !.home.kind = "user", !.mode = "system"]]
    <3> DEFINE x == [tab[t] EXCEPT !.home.kind = "user", !.mode = "system"]
    <3>1. tab'[t] = x => Filled(t)
      BY <2>0, <2>1 DEF Filled
    <3>2. QED
      BY <1>2, <2>1, <3>1 DEF Change
  <2>2. CASE /\ Named(tab[t].head, "userdata") # {} /\ Named(tab[t].head, "linux_root") = {}
             /\ tab' = [tab EXCEPT ![t] = [tab[t] EXCEPT !.userdata = "old", !.metadata = "old", !.home = NoHome,
                                                         !.root = "none", !.store = "none", !.mode = "system"]]
    <3> DEFINE x == [tab[t] EXCEPT !.userdata = "old", !.metadata = "old", !.home = NoHome,
                                   !.root = "none", !.store = "none", !.mode = "system"]
    <3>1. tab'[t] = x => TakenBack(t)
      BY <2>0, <2>2 DEF TakenBack
    <3>2. QED
      BY <1>2, <2>2, <3>1 DEF Change
  <2>3. \/ /\ tab[t].home.kind = "fresh"
           /\ tab' = [tab EXCEPT ![t] = [tab[t] EXCEPT !.home.kind = "user", !.mode = "system"]]
        \/ /\ Named(tab[t].head, "userdata") # {} /\ Named(tab[t].head, "linux_root") = {}
           /\ tab' = [tab EXCEPT ![t] = [tab[t] EXCEPT !.userdata = "old", !.metadata = "old", !.home = NoHome,
                                                       !.root = "none", !.store = "none", !.mode = "system"]]
    BY <1>9, Zenon DEF Use
  <2>4. QED
    BY <2>1, <2>2, <2>3, Zenon
<1>10. ASSUME Install \/ Restore PROVE tab' = tab
  BY <1>10 DEF Install, Restore, Begin
<1>11. ASSUME CheckFastboot \/ WaitForRam \/ Return \/ MoveCable \/ HostStops \/ FileChanges PROVE tab' = tab
  BY <1>11 DEF CheckFastboot, WaitForRam, Return, MoveCable, HostStops, FileChanges
<1>12. ASSUME FlashFirmware \/ FlashAndroid \/ FlashFirst \/ FlashSecond PROVE Goal
  <2>1. \E pc \in FlashSteps : \E next : Flash(pc, next)
    BY <1>12 DEF FlashFirmware, FlashAndroid, FlashFirst, FlashSecond, FlashSteps
  <2>2. QED
    BY <1>4, <2>1
<1>13. ASSUME RemoteNext PROVE Goal
  BY <1>3, <1>13 DEF RemoteNext
<1>14. ASSUME UNCHANGED vars PROVE tab' = tab
  BY <1>14 DEF vars
<1>15. Goal
  BY <1>1, <1>5, <1>6, <1>7, <1>8, <1>9, <1>10, <1>11, <1>12, <1>13, <1>14, RemoteActions DEF Next, HostNext
<1>16. QED
  BY <1>15 DEF Goal

-----------------------------------------------------------------------------
(* The same, field by field.                                                 *)

TableKept(t) == tab'[t].head = tab[t].head /\ tab'[t].tail = tab[t].tail

\* sgdisk ran on t, or was cut short.
Applied(t) ==
  /\ Writing(t) /\ host.pc = "apply"
  /\ LET table == Sgdisk(tab[t].head, TheArgs)
     IN \/ tab'[t].head = table /\ tab'[t].tail = table
        \/ tab'[t].head = Torn /\ tab'[t].tail = table
        \/ tab'[t].head = tab[t].head /\ tab'[t].tail \in {table, Torn, tab[t].tail}

\* restore-gpt ran on t, or was cut short.
RestoredTo(t) ==
  /\ Writing(t) /\ host.pc = "restore"
  /\ LET b == TheBackup
     IN \/ /\ tab'[t].head = b.head /\ tab'[t].tail \in {b.tail, Torn, tab[t].tail}
           /\ tab[t].tail = b.tail => tab'[t].tail = b.tail
        \/ /\ tab'[t].head \in {Torn, tab[t].head} /\ tab'[t].tail = tab[t].tail
           /\ tab[t].head = b.head => tab'[t].head = b.head

HomeKept(t) == tab'[t].home = tab[t].home
HomeMade(t) ==
  /\ Writing(t) /\ host.pc = "prepare home" /\ ~host.args.keep
  /\ DOMAIN tab'[t].home = HomeFields /\ tab'[t].home.kind \in {"none", "fresh"}
  /\ TableKept(t)
HomeFilled(t) ==
  tab[t].home.kind = "fresh" /\ tab'[t].home.kind = "user" /\ DOMAIN tab'[t].home = HomeFields /\ TableKept(t)
HomeGone(t) ==
  /\ tab'[t].home = NoHome /\ TableKept(t)
  /\ Named(tab[t].head, "userdata") # {} /\ Named(tab[t].head, "linux_root") = {}

FlashKept(t) ==
  tab'[t].boot_a = tab[t].boot_a /\ tab'[t].boot_b = tab[t].boot_b /\ tab'[t].fw = tab[t].fw
FlashDone(t) ==
  /\ host.pc \in FlashSteps /\ t = host.args.serial /\ tab[t].mode = "fastboot"
  /\ host.pc # "firmware" => tab'[t].fw = tab[t].fw
  /\ host.pc \notin {"boot first", "boot second"} =>
       tab'[t].boot_a = tab[t].boot_a /\ tab'[t].boot_b = tab[t].boot_b

ModeKept(t) == tab'[t].mode = tab[t].mode /\ tab'[t].id = tab[t].id
ModeNew(t) ==
  \/ tab'[t].mode \in {"fastboot", "system", "off"} /\ tab'[t].id \in {0, tab[t].id}
  \/ /\ tab'[t].mode = "ram" /\ tab'[t].id = runs
     /\ host.pc = "boot" /\ host'.pc = "wait" /\ t = host.args.serial

TabletOK(x) ==
  /\ \A f \in {"userdata", "metadata", "root", "store", "boot_a", "boot_b", "fw"} : x[f] \in Contents
  /\ x.android \in Contents \cup {"other"}
  /\ x.home.kind \in {"none", "fresh", "user"} /\ x.active \in {"a", "b"}
  /\ x.mode \in {"fastboot", "ram", "system", "off"} /\ x.id \in 0 .. MaxRuns

Row(t) ==
  /\ DOMAIN tab'[t] = Fields
  /\ TableKept(t) \/ Applied(t) \/ RestoredTo(t)
  /\ HomeKept(t) \/ HomeMade(t) \/ HomeFilled(t) \/ HomeGone(t)
  /\ FlashKept(t) \/ FlashDone(t)
  /\ ModeKept(t) \/ ModeNew(t)
  /\ TabletOK(tab'[t])

\* Changes of the mode and the boot id leave the rest.
LEMMA ModeFields ==
  ASSUME NEW x, DOMAIN x = Fields
  PROVE  /\ DOMAIN Off(x) = Fields /\ Storage(Off(x)) = Storage(x) /\ Off(x).mode = "off" /\ Off(x).id = 0
         /\ DOMAIN InFastboot(x) = Fields /\ Storage(InFastboot(x)) = Storage(x)
         /\ InFastboot(x).mode = "fastboot" /\ InFastboot(x).id = 0
  BY DEF Off, InFastboot, Storage, Fields

LEMMA StorageFields ==
  ASSUME NEW x, NEW y, Storage(x) = Storage(y)
  PROVE  /\ x.head = y.head /\ x.tail = y.tail /\ x.userdata = y.userdata /\ x.metadata = y.metadata
         /\ x.home = y.home /\ x.root = y.root /\ x.store = y.store
         /\ x.boot_a = y.boot_a /\ x.boot_b = y.boot_b /\ x.fw = y.fw
         /\ x.android = y.android /\ x.active = y.active
  BY DEF Storage

LEMMA SameStorage ==
  ASSUME NEW t, TabletOK(tab[t]), DOMAIN tab'[t] = Fields, Storage(tab'[t]) = Storage(tab[t]),
         ModeKept(t) \/ ModeNew(t), runs \in 0 .. MaxRuns
  PROVE  Row(t)
<1>1. TableKept(t) /\ HomeKept(t) /\ FlashKept(t)
  BY StorageFields DEF TableKept, HomeKept, FlashKept
<1>2. tab'[t].mode \in {"fastboot", "ram", "system", "off"} /\ tab'[t].id \in 0 .. MaxRuns
  BY BoundsAssumption DEF ModeKept, ModeNew, TabletOK
<1>3. TabletOK(tab'[t])
  BY <1>2, StorageFields DEF TabletOK
<1>4. QED
  BY <1>1, <1>3 DEF Row

LEMMA TargetCases ==
  ASSUME HostShape, host.pc \in FlashSteps
  PROVE  /\ host.pc = "firmware" => Target(host.pc)[1] = "fw" /\ Target(host.pc)[2] = host.fw
         /\ host.pc = "android" => Target(host.pc)[1] = "android" /\ Target(host.pc)[2] \in {"stock", "other"}
         /\ host.pc \in {"boot first", "boot second"} =>
              Target(host.pc)[1] \in {"boot_a", "boot_b"} /\ Target(host.pc)[2] = host.padded
<1>1. host.pc = "firmware" => Target(host.pc) = <<"fw", host.fw>>
  BY DEF Target
<1>2. host.pc = "android" => Target(host.pc) \in {<<"android", "stock">>, <<"android", "other">>}
  BY DEF Target
<1>3. host.pc \in {"boot first", "boot second"} =>
        Target(host.pc) \in {<<"boot_a", host.padded>>, <<"boot_b", host.padded>>}
  BY DEF Target, BootField
<1> DEFINE target == Target(host.pc)
<1> HIDE DEF target
<1>4. host.pc = "firmware" => target[1] = "fw" /\ target[2] = host.fw
  BY <1>1 DEF target
<1>5. host.pc = "android" => target[1] = "android" /\ target[2] \in {"stock", "other"}
  BY <1>2 DEF target
<1>6. host.pc \in {"boot first", "boot second"} => target[1] \in {"boot_a", "boot_b"} /\ target[2] = host.padded
  <2>1. host.pc \in {"boot first", "boot second"} =>
          target = <<"boot_a", host.padded>> \/ target = <<"boot_b", host.padded>>
    BY <1>3 DEF target
  <2>2. target = <<"boot_a", host.padded>> => target[1] = "boot_a" /\ target[2] = host.padded
    OBVIOUS
  <2>3. target = <<"boot_b", host.padded>> => target[1] = "boot_b" /\ target[2] = host.padded
    OBVIOUS
  <2>4. QED
    BY <2>1, <2>2, <2>3
<1>7. QED
  BY <1>4, <1>5, <1>6 DEF target

\* A remote command changes only what it is there for.
LEMMA WroteRow ==
  ASSUME NEW t \in Tablets, TabletShape, HostShape, TabletOK(tab[t]), runs \in 0 .. MaxRuns, Wrote(t)
  PROVE  Row(t)
<1> DEFINE x == tab[t]
           y == tab'[t]
<1>1. PICK e \in Left(host.pc, x) : y \in {e, Off(e)}
  BY DEF Wrote
<1>2. DOMAIN x = Fields /\ Writing(t)
  BY DEF TabletShape, Wrote
<1>3. DOMAIN e = Fields => /\ DOMAIN y = Fields /\ Storage(y) = Storage(e)
                           /\ (y.mode = e.mode /\ y.id = e.id) \/ (y.mode = "off" /\ y.id = 0)
  BY <1>1, ModeFields
<1> DEFINE Typed == TabletOK(y)
<1>4. ASSUME /\ DOMAIN e = Fields /\ Flashed(e) = Flashed(x)
             /\ e.root \in {x.root, "ubuntu", "partial"} /\ e.store \in {x.store, "none", "both"}
             /\ e.userdata \in {x.userdata, "wiped"} /\ e.metadata \in {x.metadata, "wiped"}
             /\ (e.mode = x.mode /\ e.id = x.id) \/ (e.mode = "fastboot" /\ e.id = 0)
             /\ e.home.kind \in {x.home.kind, "none", "fresh"}
      PROVE  /\ DOMAIN y = Fields /\ FlashKept(t) /\ TabletOK(y) /\ (ModeKept(t) \/ ModeNew(t))
             /\ y.head = e.head /\ y.tail = e.tail /\ y.home = e.home
  <2>1. DOMAIN y = Fields /\ y.head = e.head /\ y.tail = e.tail /\ y.home = e.home
    BY <1>3, <1>4, StorageFields
  <2>2. ModeKept(t) \/ ModeNew(t)
    BY <1>3, <1>4 DEF ModeKept, ModeNew
  <2>3. Flashed(y) = Flashed(x)
    BY <1>3, <1>4, StorageFields DEF Flashed
  <2>4. y.boot_a = x.boot_a /\ y.boot_b = x.boot_b /\ y.fw = x.fw /\ y.android = x.android /\ y.active = x.active
    BY <2>3 DEF Flashed
  <2>5. y.root = e.root /\ y.store = e.store /\ y.userdata = e.userdata /\ y.metadata = e.metadata
    BY <1>3, <1>4, StorageFields
  <2>6. \A f \in {"userdata", "metadata", "root", "store", "boot_a", "boot_b", "fw"} : y[f] \in Contents
    BY <1>4, <2>4, <2>5 DEF TabletOK, Contents
  <2>7. y.mode \in {"fastboot", "ram", "system", "off"} /\ y.id \in 0 .. MaxRuns
    BY <1>3, <1>4, BoundsAssumption DEF TabletOK
  <2>8. y.android \in Contents \cup {"other"} /\ y.active \in {"a", "b"} /\ y.home.kind \in {"none", "fresh", "user"}
    BY <1>4, <2>1, <2>4 DEF TabletOK
  <2>9. TabletOK(y)
    BY <2>6, <2>7, <2>8 DEF TabletOK
  <2>10. QED
    BY <2>1, <2>2, <2>4, <2>9 DEF FlashKept
<1> HIDE DEF x, y
<1>5. CASE host.pc = "apply"
  <2>1. /\ DOMAIN e = Fields /\ Flashed(e) = Flashed(x)
        /\ e.home = x.home /\ e.root = x.root /\ e.store = x.store
        /\ e.userdata = x.userdata /\ e.metadata = x.metadata /\ e.mode = x.mode /\ e.id = x.id
        /\ LET table == Sgdisk(x.head, TheArgs)
           IN \/ e.head = table /\ e.tail = table
              \/ e.head = Torn /\ e.tail = table
              \/ e.head = x.head /\ e.tail \in {table, Torn, x.tail}
    BY <1>1, <1>2, <1>5, ApplyLeft
  <2>2. /\ DOMAIN y = Fields /\ FlashKept(t) /\ TabletOK(y) /\ (ModeKept(t) \/ ModeNew(t))
        /\ y.head = e.head /\ y.tail = e.tail /\ y.home = e.home
    BY <1>4, <2>1
  <2>3. Applied(t)
    BY <1>2, <1>5, <2>1, <2>2 DEF Applied, x, y
  <2>4. QED
    BY <2>1, <2>2, <2>3 DEF Row, HomeKept, x, y
<1>6. CASE host.pc = "restore"
  <2>1. /\ DOMAIN e = Fields /\ Flashed(e) = Flashed(x)
        /\ e.home = x.home /\ e.root = x.root /\ e.store = x.store
        /\ e.userdata = x.userdata /\ e.metadata = x.metadata /\ e.mode = x.mode /\ e.id = x.id
        /\ LET b == TheBackup
           IN \/ e.head = b.head /\ e.tail \in {b.tail, Torn, x.tail} /\ (x.tail = b.tail => e.tail = b.tail)
              \/ e.head \in {Torn, x.head} /\ e.tail = x.tail /\ (x.head = b.head => e.head = b.head)
    BY <1>1, <1>2, <1>6, RestoreLeft
  <2>2. /\ DOMAIN y = Fields /\ FlashKept(t) /\ TabletOK(y) /\ (ModeKept(t) \/ ModeNew(t))
        /\ y.head = e.head /\ y.tail = e.tail /\ y.home = e.home
    BY <1>4, <2>1
  <2>3. RestoredTo(t)
    BY <1>2, <1>6, <2>1, <2>2 DEF RestoredTo, x, y
  <2>4. QED
    BY <2>1, <2>2, <2>3 DEF Row, HomeKept, x, y
<1>7. CASE host.pc = "prepare home"
  <2>1. /\ DOMAIN e = Fields /\ Flashed(e) = Flashed(x)
        /\ e.head = x.head /\ e.tail = x.tail /\ e.root = x.root /\ e.store = x.store
        /\ e.userdata = x.userdata /\ e.metadata = x.metadata /\ e.mode = x.mode /\ e.id = x.id
        /\ \/ e.home = x.home
           \/ ~host.args.keep /\ DOMAIN e.home = HomeFields /\ e.home.kind \in {"none", "fresh"}
    BY <1>1, <1>2, <1>7, HomeLeft
  <2>2. /\ DOMAIN y = Fields /\ FlashKept(t) /\ TabletOK(y) /\ (ModeKept(t) \/ ModeNew(t))
        /\ y.head = e.head /\ y.tail = e.tail /\ y.home = e.home
    BY <1>4, <2>1
  <2>3. TableKept(t) /\ (HomeKept(t) \/ HomeMade(t))
    BY <1>2, <1>7, <2>1, <2>2 DEF TableKept, HomeKept, HomeMade, x, y
  <2>4. QED
    BY <2>2, <2>3 DEF Row, x, y
<1>8. CASE host.pc \notin {"apply", "restore", "prepare home"}
  <2>1. /\ DOMAIN e = Fields /\ Flashed(e) = Flashed(x)
        /\ e.head = x.head /\ e.tail = x.tail /\ e.home = x.home
        /\ e.root \in {x.root, "ubuntu", "partial"} /\ e.store \in {x.store, "none", "both"}
        /\ e.userdata \in {x.userdata, "wiped"} /\ e.metadata \in {x.metadata, "wiped"}
        /\ (e.mode = x.mode /\ e.id = x.id) \/ (e.mode = "fastboot" /\ e.id = 0)
    <3>1. OtherKept(x, e)
      BY <1>1, <1>2, <1>8, OtherLeft
    <3>2. QED
      BY <3>1 DEF OtherKept
  <2>2. /\ DOMAIN y = Fields /\ FlashKept(t) /\ TabletOK(y) /\ (ModeKept(t) \/ ModeNew(t))
        /\ y.head = e.head /\ y.tail = e.tail /\ y.home = e.home
    BY <1>4, <2>1
  <2>3. TableKept(t) /\ HomeKept(t)
    BY <2>1, <2>2 DEF TableKept, HomeKept, x, y
  <2>4. QED
    BY <2>2, <2>3 DEF Row, x, y
<1>9. QED
  BY <1>5, <1>6, <1>7, <1>8

\* A flash writes one field.
LEMMA FlashRow ==
  ASSUME NEW t \in Tablets, TabletShape, HostShape, TabletOK(tab[t]), runs \in 0 .. MaxRuns, FlashedTo(t)
  PROVE  Row(t)
<1> DEFINE x == tab[t]
           y == tab'[t]
           f == Target(host.pc)[1]
<1>1. PICK content \in {"torn", Target(host.pc)[2], x[f]} :
        y \in {Put(x, host.pc, content), Off(Put(x, host.pc, content))}
  BY DEF FlashedTo
<1>2. DOMAIN x = Fields /\ host.pc \in FlashSteps
  BY DEF TabletShape, FlashedTo
<1> DEFINE z == [x EXCEPT ![f] = content]
<1>3. Put(x, host.pc, content) = z
  BY DEF Put
<1>4. f \in {"fw", "android", "boot_a", "boot_b"}
  BY <1>2, TargetCases DEF FlashSteps
<1>5. content \in {"torn", "stock", "none", "ubuntu", x[f]} \/ (f = "android" /\ content = "other")
  BY <1>1, <1>2, TargetCases DEF FlashSteps, HostShape
<1> HIDE DEF x, y, f
<1>6. /\ DOMAIN z = Fields /\ z[f] = content
      /\ z.head = x.head /\ z.tail = x.tail /\ z.home = x.home /\ z.root = x.root /\ z.store = x.store
      /\ z.userdata = x.userdata /\ z.metadata = x.metadata /\ z.active = x.active
      /\ z.mode = x.mode /\ z.id = x.id
      /\ f # "fw" => z.fw = x.fw
      /\ f # "boot_a" => z.boot_a = x.boot_a
      /\ f # "boot_b" => z.boot_b = x.boot_b
      /\ f # "android" => z.android = x.android
  BY <1>2, <1>4 DEF Fields
<1> HIDE DEF z
<1>7. DOMAIN y = Fields /\ Storage(y) = Storage(z) /\ ((y.mode = x.mode /\ y.id = x.id) \/ (y.mode = "off" /\ y.id = 0))
  BY <1>1, <1>3, <1>6, ModeFields
<1>8. /\ y.head = z.head /\ y.tail = z.tail /\ y.userdata = z.userdata /\ y.metadata = z.metadata
      /\ y.home = z.home /\ y.root = z.root /\ y.store = z.store
      /\ y.boot_a = z.boot_a /\ y.boot_b = z.boot_b /\ y.fw = z.fw
      /\ y.android = z.android /\ y.active = z.active
  BY <1>7, StorageFields
<1>9. TableKept(t) /\ HomeKept(t) /\ (ModeKept(t) \/ ModeNew(t))
  BY <1>6, <1>7, <1>8 DEF TableKept, HomeKept, ModeKept, ModeNew, x, y
<1>10. FlashDone(t)
  <2>1. host.pc # "firmware" => f # "fw"
    BY <1>2, TargetCases DEF FlashSteps, f
  <2>2. host.pc \notin {"boot first", "boot second"} => f # "boot_a" /\ f # "boot_b"
    BY <1>2, TargetCases DEF FlashSteps, f
  <2>3. /\ host.pc # "firmware" => y.fw = x.fw
        /\ host.pc \notin {"boot first", "boot second"} => y.boot_a = x.boot_a /\ y.boot_b = x.boot_b
    BY <1>6, <1>8, <2>1, <2>2
  <2>4. QED
    BY <2>3 DEF FlashDone, FlashedTo, x, y
<1>11. TabletOK(y)
  <2>1. y.mode \in {"fastboot", "ram", "system", "off"} /\ y.id \in 0 .. MaxRuns
    BY <1>7, BoundsAssumption DEF TabletOK, x
  <2>2. y.home.kind \in {"none", "fresh", "user"} /\ y.active \in {"a", "b"}
    BY <1>6, <1>8 DEF TabletOK, x
  <2>3. /\ x.userdata \in Contents /\ x.metadata \in Contents /\ x.root \in Contents /\ x.store \in Contents
        /\ x.boot_a \in Contents /\ x.boot_b \in Contents /\ x.fw \in Contents /\ x.android \in Contents \cup {"other"}
    BY DEF TabletOK, x
  <2>4. f # "android" => content \in Contents
    BY <1>4, <1>5, <2>3 DEF Contents
  <2>5. f = "android" => content \in Contents \cup {"other"}
    BY <1>5, <2>3 DEF Contents
  <2>6. z.fw \in Contents /\ z.boot_a \in Contents /\ z.boot_b \in Contents /\ z.android \in Contents \cup {"other"}
    BY <1>4, <1>6, <2>3, <2>4, <2>5
  <2>7. QED
    BY <1>6, <1>8, <2>1, <2>2, <2>3, <2>6 DEF TabletOK
<1>12. QED
  BY <1>7, <1>9, <1>10, <1>11 DEF Row, y

LEMMA RowOf ==
  ASSUME NEW t \in Tablets, TabletShape, HostShape, TabletOK(tab[t]), runs \in 0 .. MaxRuns, Change(t)
  PROVE  Row(t)
<1> DEFINE x == tab[t]
           y == tab'[t]
<1>1. DOMAIN x = Fields
  BY DEF TabletShape
<1>2. CASE y \in {x, Off(x), InFastboot(x)}
  BY <1>1, <1>2, ModeFields, SameStorage DEF ModeKept, ModeNew
<1>3. CASE Started(t)
  <2>1. DOMAIN y = Fields /\ Storage(y) = Storage(x)
    BY <1>1, <1>3 DEF Started, Storage, Fields
  <2>2. ModeNew(t)
    BY <1>1, <1>3 DEF Started, ModeNew, Fields
  <2>3. QED
    BY <2>1, <2>2, SameStorage
<1>4. CASE Activated(t)
  <2> DEFINE slot == BootSlots(host.args.layout)[1]
  <2>1. slot \in {"a", "b"}
    <3>1. BootSlots(host.args.layout) = <<"a", "b">> \/ BootSlots(host.args.layout) = <<"b">>
      BY DEF BootSlots
    <3>2. BootSlots(host.args.layout) = <<"a", "b">> => slot = "a"
      OBVIOUS
    <3>3. BootSlots(host.args.layout) = <<"b">> => slot = "b"
      OBVIOUS
    <3>4. QED
      BY <3>1, <3>2, <3>3
  <2>2. y = [x EXCEPT !.active = slot, !.mode = "system"]
    BY <1>4 DEF Activated
  <2>3. t = host.args.serial /\ host.pc = "activate"
    BY <1>4 DEF Activated
  <2> HIDE DEF slot, x, y
  <2>4. /\ DOMAIN y = Fields /\ y.head = x.head /\ y.tail = x.tail /\ y.userdata = x.userdata
        /\ y.metadata = x.metadata /\ y.home = x.home /\ y.root = x.root /\ y.store = x.store
        /\ y.boot_a = x.boot_a /\ y.boot_b = x.boot_b /\ y.fw = x.fw /\ y.android = x.android
        /\ y.active = slot /\ y.mode = "system" /\ y.id = x.id
    BY <1>1, <2>2 DEF Fields
  <2>5. TabletOK(y)
    BY <2>1, <2>4 DEF TabletOK, x
  <2>6. FlashKept(t)
    BY <2>4 DEF FlashKept, x, y
  <2>7. QED
    BY <2>4, <2>5, <2>6 DEF Row, TableKept, HomeKept, ModeNew, x, y
<1>5. CASE Filled(t)
  <2>1. /\ DOMAIN y = Fields /\ y.head = x.head /\ y.tail = x.tail /\ y.userdata = x.userdata
        /\ y.metadata = x.metadata /\ y.home = [x.home EXCEPT !.kind = "user"] /\ y.root = x.root /\ y.store = x.store
        /\ y.boot_a = x.boot_a /\ y.boot_b = x.boot_b /\ y.fw = x.fw /\ y.android = x.android
        /\ y.active = x.active /\ y.mode = "system" /\ y.id = x.id
    BY <1>1, <1>5 DEF Fields, Filled
  <2>2. DOMAIN y.home = HomeFields /\ y.home.kind = "user"
    BY <2>1 DEF TabletShape, HomeFields
  <2>3. HomeFilled(t) /\ TableKept(t)
    BY <1>5, <2>1, <2>2 DEF HomeFilled, TableKept, Filled
  <2>4. TabletOK(y)
    BY <2>1, <2>2 DEF TabletOK
  <2>5. QED
    BY <2>1, <2>3, <2>4 DEF Row, FlashKept, ModeNew
<1>6. CASE TakenBack(t)
  <2>1. /\ DOMAIN y = Fields /\ y.head = x.head /\ y.tail = x.tail /\ y.userdata = "old"
        /\ y.metadata = "old" /\ y.home = NoHome /\ y.root = "none" /\ y.store = "none"
        /\ y.boot_a = x.boot_a /\ y.boot_b = x.boot_b /\ y.fw = x.fw /\ y.android = x.android
        /\ y.active = x.active /\ y.mode = "system" /\ y.id = x.id
    BY <1>1, <1>6 DEF Fields, TakenBack
  <2>2. HomeGone(t) /\ TableKept(t)
    BY <1>6, <2>1 DEF HomeGone, TableKept, TakenBack
  <2>3. NoHome.kind = "none"
    BY DEF NoHome
  <2>4. TabletOK(y)
    BY <2>1, <2>3 DEF TabletOK, Contents
  <2>5. QED
    BY <2>1, <2>2, <2>4 DEF Row, FlashKept, ModeNew
<1>7. QED
  BY <1>2, <1>3, <1>4, <1>5, <1>6, WroteRow, FlashRow DEF Change

LEMMA TabletRows ==
  ASSUME Shape, [Next]_vars
  PROVE  DOMAIN tab' = Tablets /\ \A t \in Tablets : Row(t)
<1>1. DOMAIN tab' = Tablets /\ \A t \in Tablets : Change(t)
  BY TabletSteps DEF Shape, TypeOK
<1>2. \A t \in Tablets : TabletOK(tab[t])
  BY DEF Shape, TypeOK, TabletOK
<1>3. QED
  BY <1>1, <1>2, RowOf DEF Shape, TypeOK

-----------------------------------------------------------------------------
(* What one step does to the installer.                                      *)

Results == {"none", "refused", "failed", "killed", "installed", "restored"}

LEMMA IdleFields ==
  ASSUME NEW result
  PROVE  /\ DOMAIN Idle(result) = HostFields /\ Idle(result).pc = "idle" /\ Idle(result).args = Nobody
         /\ Idle(result).id = 0 /\ Idle(result).saving = {} /\ Idle(result).planned = <<>>
         /\ Idle(result).plan = <<>>
         /\ Idle(result).padded = "none" /\ Idle(result).fw = "none" /\ Idle(result).result = result
  BY DEF Idle, HostFields

LEMMA NobodyFields ==
  ASSUME usb \in Tablets
  PROVE  /\ Nobody.serial \in Tablets /\ Nobody.layout \in Modes /\ Nobody.keep = FALSE
         /\ Nobody.nobackup = FALSE /\ Nobody.restore = {}
<1>1. (CHOOSE t \in Tablets : TRUE) \in Tablets
  OBVIOUS
<1>2. QED
  BY <1>1 DEF Nobody, Modes

\* The steps in their order.
Follow(p, q) ==
  \/ p = "fastboot" /\ q = "boot"
  \/ p = "boot" /\ q = "wait"
  \/ p = "wait" /\ q = "serial"
  \/ p = "serial" /\ q = AfterSerial
  \/ p = "backup boots" /\ q = "backup head"
  \/ p = "backup head" /\ q = "backup tail"
  \/ p = "backup tail" /\ q = "report"
  \/ p = "report" /\ q \in {"wipe userdata", "images", "prepare home"}
  \/ p = "wipe userdata" /\ q \in {"wipe metadata", "apply"}
  \/ p = "wipe metadata" /\ q = "apply"
  \/ p = "apply" /\ q = "verify"
  \/ p = "verify" /\ q \in {"images", "prepare home"}
  \/ p = "restore" /\ q = "reboot"
  \/ p = "images" /\ q = "prepare home"
  \/ p = "prepare home" /\ q = "write root"
  \/ p = "write root" /\ q \in {"write store", "reboot"}
  \/ p = "write store" /\ q = "reboot"
  \/ p = "reboot" /\ q = "return" /\ host.args.restore = {}
  \/ p = "return" /\ (q \in {"android", "boot first"} \/ (q = "firmware" /\ host.fw # "none"))
  \/ p = "firmware" /\ q = "android"
  \/ p = "android" /\ q = "boot first"
  \/ p = "boot first" /\ q \in {"boot second", "activate"}
  \/ p = "boot second" /\ q = "activate"

\* A step on the way, and what it changes besides the place.
AdvancedFields ==
  /\ DOMAIN host' = HostFields /\ host'.args = host.args /\ host'.result = host.result
  /\ host.pc # "wait" => host'.id = host.id
  /\ host'.planned = host.planned
  /\ host.pc # "report" => host'.plan = host.plan
  /\ host.pc # "wipe userdata" => host'.info = host.info
  /\ host.pc \notin SavingSteps => host'.saving = host.saving
  /\ host.pc # "boot" => host'.padded = host.padded
  /\ host.pc # "images" => host'.fw = host.fw
  /\ host.pc \notin {"backup tail", "images"} => backups' = backups

ReportDone ==
  \/ /\ Decide(tab[usb], host.args) = "split" /\ host'.pc = "wipe userdata"
     /\ host'.plan = PlanOf(tab[usb], host.args)
  \/ /\ Decide(tab[usb], host.args) = "keep" /\ host'.pc \in {"images", "prepare home"}
     /\ host'.plan = host.plan
ImagesDone ==
  /\ host'.fw \in {"none", "stock"}
  /\ host'.fw # "none" => tab[usb].fw # "stock"
  /\ backups' = IF tab[usb].fw # "stock" /\ ~host.args.nobackup
                THEN (backups \ host.saving) \cup {[Saving EXCEPT !.fw = {tab[usb].fw}]} ELSE backups
FirstSaving ==
  [serial |-> host.args.serial, geometry |-> <<tab[usb].head.sector, tab[usb].head.last>>,
   boot_a |-> tab[usb].boot_a, boot_b |-> tab[usb].boot_b, head |-> Torn, tail |-> Torn, fw |-> {}]

AdvancedData ==
  /\ host.pc = "wait" => tab[usb].mode = "ram" /\ host'.id = tab[usb].id
  /\ host.pc \in RemoteSteps \cup {"serial"} => Here(usb) /\ Allowed(host.pc, tab[usb])
  /\ host.pc = "serial" => usb = host.args.serial
  /\ host.pc = "backup boots" => host'.saving = {FirstSaving}
  /\ host.pc = "backup head" => host'.saving = {[Saving EXCEPT !.head = tab[usb].head]}
  /\ host.pc = "backup tail" => /\ host'.saving = {[Saving EXCEPT !.tail = tab[usb].tail]}
                                /\ backups' = backups \cup {[Saving EXCEPT !.tail = tab[usb].tail]}
  /\ host.pc = "report" => ReportDone
  /\ host.pc = "wipe userdata" => host'.info = ParseInfo(ParsePrint(tab[usb].head), "userdata")
  /\ host.pc = "images" => ImagesDone
  /\ host.pc = "boot" => host'.padded \in {"none", "ubuntu"}

Advanced ==
  /\ Follow(host.pc, host'.pc) /\ AdvancedFields /\ AdvancedData
  /\ UNCHANGED <<factory, usb, changed, runs, losses, history>> /\ faults' = faults

\* The installer stops; what was saved stays.
Ended ==
  /\ host.pc # "idle" /\ (\E result \in Results \ {"none"} : host' = Idle(result))
  /\ UNCHANGED <<factory, changed, backups, runs, history>> /\ usb' \in Tablets
  /\ losses' \in 0 .. MaxLosses /\ faults' \in 0 .. MaxFaults

\* Something else happens; it writes to no tablet that stays in its RAM image.
Held ==
  /\ \A t \in Tablets : tab'[t].mode = "ram" => tab'[t] = tab[t]
  /\ host' = host /\ UNCHANGED <<factory, backups, runs, history>>
  /\ usb' \in Tablets /\ changed' \subseteq Files /\ losses' \in 0 .. MaxLosses /\ faults' \in 0 .. MaxFaults

\* The installer is started.
Asked(a) ==
  a \in Requests \/ \E t \in Tablets, b \in backups : a = [Nobody EXCEPT !.serial = t, !.restore = {b}]
Begun == \E a : Asked(a) /\ Begin(a)

LEMMA MovedFields ==
  ASSUME DOMAIN host = HostFields, NEW pc, host' = [host EXCEPT !.pc = pc]
  PROVE  /\ DOMAIN host' = HostFields /\ host'.pc = pc /\ host'.args = host.args /\ host'.id = host.id
         /\ host'.plan = host.plan /\ host'.info = host.info /\ host'.saving = host.saving
         /\ host'.padded = host.padded /\ host'.fw = host.fw /\ host'.result = host.result
         /\ host'.planned = host.planned
  BY DEF HostFields

\* A move that changes only the place.
LEMMA MovedOn ==
  ASSUME DOMAIN host = HostFields, NEW pc, host' = [host EXCEPT !.pc = pc], Follow(host.pc, pc),
         UNCHANGED <<factory, usb, changed, backups, runs, losses, history>>, faults' = faults,
         host.pc \in RemoteSteps \cup {"serial"} => Here(usb) /\ Allowed(host.pc, tab[usb]),
         host.pc = "serial" => usb = host.args.serial,
         host.pc \notin {"wait", "report", "wipe userdata", "images", "boot"} \cup SavingSteps
  PROVE  Advanced
<1>1. AdvancedFields
  BY MovedFields DEF AdvancedFields
<1>2. AdvancedData
  BY DEF AdvancedData, SavingSteps
<1>3. host'.pc = pc
  BY MovedFields
<1>4. QED
  BY <1>1, <1>2, <1>3 DEF Advanced

\* A remote command either takes the installer on or stops it.
LEMMA RemoteHost ==
  ASSUME TypeOK, NEW pc \in RemoteSteps \cup {"serial"}, NEW next, NEW saved, Remote(pc, next, saved)
  PROVE  /\ host.pc = pc /\ UNCHANGED <<factory, usb, changed, runs, losses, history>>
         /\ \/ Ended
            \/ /\ Here(usb) /\ Allowed(host.pc, tab[usb]) /\ host' = next /\ backups' = saved /\ faults' = faults
<1>1. host.pc = pc /\ UNCHANGED <<factory, usb, changed, runs, losses, history>>
  BY RemoteCases DEF World
<1>2. ASSUME host' = Idle("failed"), UNCHANGED backups, faults' = faults \/ (faults < MaxFaults /\ faults' = faults + 1)
      PROVE  Ended
  <2>1. pc # "idle"
    BY DEF RemoteSteps, SavingSteps, SplitSteps
  <2>2. usb' \in Tablets /\ losses' \in 0 .. MaxLosses /\ faults' \in 0 .. MaxFaults
    BY <1>1, <1>2, BoundsAssumption DEF TypeOK
  <2>3. \E result \in Results \ {"none"} : host' = Idle(result)
    BY <1>2 DEF Results
  <2>4. QED
    BY <1>1, <1>2, <2>1, <2>2, <2>3 DEF Ended
<1>3. QED
  BY <1>1, <1>2, RemoteCases DEF WroteSome, Answers, Here

\* The remote commands that only move on or stop.
LEMMA RemoteMoves ==
  ASSUME TypeOK, HostShape, NEW pc \in RemoteSteps \cup {"serial"}, NEW next,
         Remote(pc, next, backups),
         pc \notin {"report", "wipe userdata", "images"} \cup SavingSteps,
         \/ \E q : next = At(q) /\ Follow(pc, q) /\ (pc = "serial" => usb = host.args.serial)
         \/ \E result \in Results \ {"none"} : next = Idle(result)
  PROVE  Ended \/ Advanced
<1>1. /\ host.pc = pc /\ UNCHANGED <<factory, usb, changed, runs, losses, history>>
      /\ \/ Ended
         \/ /\ Here(usb) /\ Allowed(host.pc, tab[usb]) /\ host' = next /\ backups' = backups /\ faults' = faults
  BY RemoteHost
<1>2. CASE Ended
  BY <1>2
<1>3. CASE Here(usb) /\ Allowed(host.pc, tab[usb]) /\ host' = next /\ backups' = backups /\ faults' = faults
  <2>1. ASSUME NEW q, next = At(q), Follow(pc, q), pc = "serial" => usb = host.args.serial
        PROVE  Advanced
    <3>1. pc \notin {"wait", "boot"}
      BY DEF RemoteSteps, SavingSteps, SplitSteps
    <3>2. QED
      BY <1>1, <1>3, <2>1, <3>1, MovedOn DEF HostShape, At
  <2>2. ASSUME NEW result \in Results \ {"none"}, next = Idle(result)
        PROVE  Ended
    <3>1. pc # "idle"
      BY DEF RemoteSteps, SavingSteps, SplitSteps
    <3>2. QED
      BY <1>1, <1>3, <2>2, <3>1 DEF Ended, TypeOK
  <2>3. QED
    BY <2>1, <2>2
<1>4. QED
  BY <1>1, <1>2, <1>3

LEMMA SavingHost ==
  ASSUME TypeOK, HostShape, BackupBoots \/ BackupHead \/ BackupTail
  PROVE  Ended \/ Advanced
<1>1. ASSUME NEW pc \in SavingSteps, NEW q, NEW b, NEW saved, Follow(pc, q),
             Remote(pc, [host EXCEPT !.pc = q, !.saving = {b}], saved),
             pc = "backup boots" => b = FirstSaving,
             pc = "backup head" => b = [Saving EXCEPT !.head = tab[usb].head],
             pc = "backup tail" => b = [Saving EXCEPT !.tail = tab[usb].tail],
             saved = IF pc = "backup tail" THEN backups \cup {b} ELSE backups
      PROVE  Ended \/ Advanced
  <2>1. pc \in RemoteSteps \cup {"serial"}
    BY DEF RemoteSteps
  <2>2. CASE Ended
    BY <2>2
  <2>3. CASE /\ Here(usb) /\ Allowed(host.pc, tab[usb]) /\ host' = [host EXCEPT !.pc = q, !.saving = {b}]
             /\ backups' = saved /\ faults' = faults
    <3>1. host.pc = pc /\ UNCHANGED <<factory, usb, changed, runs, losses, history>>
      BY <1>1, <2>1, RemoteHost
    <3>2. /\ DOMAIN host' = HostFields /\ host'.pc = q /\ host'.args = host.args /\ host'.id = host.id
          /\ host'.planned = host.planned /\ host'.plan = host.plan /\ host'.info = host.info /\ host'.saving = {b}
          /\ host'.padded = host.padded /\ host'.fw = host.fw /\ host'.result = host.result
      BY <2>3 DEF HostShape, HostFields
    <3>3. AdvancedFields
      BY <1>1, <2>3, <3>1, <3>2 DEF AdvancedFields
    <3>4. AdvancedData
      BY <1>1, <2>3, <3>1, <3>2 DEF AdvancedData, SavingSteps
    <3>5. QED
      BY <1>1, <2>3, <3>1, <3>2, <3>3, <3>4 DEF Advanced
  <2>4. QED
    BY <1>1, <2>1, <2>2, <2>3, RemoteHost
<1>2. CASE BackupBoots
  <2>1. Remote("backup boots", [host EXCEPT !.pc = "backup head", !.saving = {FirstSaving}], backups)
    BY <1>2, Zenon DEF BackupBoots, FirstSaving
  <2>2. QED
    BY <1>1, <2>1 DEF SavingSteps, Follow
<1>3. CASE BackupHead
  <2>1. Remote("backup head", [host EXCEPT !.pc = "backup tail", !.saving = {[Saving EXCEPT !.head = tab[usb].head]}],
               backups)
    BY <1>3, Zenon DEF BackupHead
  <2>2. QED
    BY <1>1, <2>1 DEF SavingSteps, Follow
<1>4. CASE BackupTail
  <2> DEFINE b == [Saving EXCEPT !.tail = tab[usb].tail]
  <2>1. Remote("backup tail", [host EXCEPT !.pc = "report", !.saving = {b}], backups \cup {b})
    BY <1>4, Zenon DEF BackupTail
  <2> HIDE DEF b
  <2>2. b = [Saving EXCEPT !.tail = tab[usb].tail]
    BY DEF b
  <2>3. QED
    BY <1>1, <2>1, <2>2 DEF SavingSteps, Follow
<1>5. QED
  BY <1>2, <1>3, <1>4

LEMMA ReportHost ==
  ASSUME TypeOK, HostShape, Report
  PROVE  Ended \/ Advanced
<1> DEFINE choice == Decide(tab[usb], host.args)
           split == [host EXCEPT !.pc = "wipe userdata", !.plan = PlanOf(tab[usb], host.args)]
           next == CASE choice = "refuse" -> Idle("refused") [] choice = "keep" -> At(ImagesOrRoot)
                     [] choice = "split" -> split
<1>1. Remote("report", next, backups)
  BY Zenon DEF Report
<1>2. choice \in {"refuse", "keep", "split"}
  BY DEF Decide
<1>3. /\ choice = "refuse" => next = Idle("refused")
      /\ choice = "keep" => next = At(ImagesOrRoot)
      /\ choice = "split" => next = split
  BY <1>2
<1> HIDE DEF choice, next
<1>4. /\ host.pc = "report" /\ UNCHANGED <<factory, usb, changed, runs, losses, history>>
      /\ \/ Ended
         \/ /\ Here(usb) /\ Allowed(host.pc, tab[usb]) /\ host' = next /\ backups' = backups /\ faults' = faults
  BY <1>1, RemoteHost DEF RemoteSteps
<1>5. ASSUME choice = "refuse", host' = next, backups' = backups, faults' = faults PROVE Ended
  BY <1>3, <1>4, <1>5 DEF Ended, Results, TypeOK
<1>6. ASSUME choice = "keep", host' = next, backups' = backups, faults' = faults,
             Here(usb), Allowed(host.pc, tab[usb])
      PROVE  Advanced
  <2>1. host' = [host EXCEPT !.pc = ImagesOrRoot] /\ ImagesOrRoot \in {"images", "prepare home"}
    BY <1>3, <1>6 DEF At, ImagesOrRoot
  <2>2. /\ DOMAIN host' = HostFields /\ host'.pc = ImagesOrRoot /\ host'.args = host.args /\ host'.id = host.id
        /\ host'.planned = host.planned /\ host'.plan = host.plan /\ host'.info = host.info
        /\ host'.saving = host.saving
        /\ host'.padded = host.padded /\ host'.fw = host.fw /\ host'.result = host.result
    BY <2>1, MovedFields DEF HostShape
  <2>3. AdvancedFields
    BY <1>4, <1>6, <2>2 DEF AdvancedFields
  <2>4. AdvancedData
    BY <1>4, <1>6, <2>1, <2>2 DEF AdvancedData, SavingSteps, ReportDone, choice
  <2>5. QED
    BY <1>4, <1>6, <2>1, <2>2, <2>3, <2>4 DEF Advanced, Follow
<1>7. ASSUME choice = "split", host' = next, backups' = backups, faults' = faults,
             Here(usb), Allowed(host.pc, tab[usb])
      PROVE  Advanced
  <2>1. host' = [host EXCEPT !.pc = "wipe userdata", !.plan = PlanOf(tab[usb], host.args)]
    BY <1>3, <1>7
  <2>2. /\ DOMAIN host' = HostFields /\ host'.pc = "wipe userdata" /\ host'.args = host.args /\ host'.id = host.id
        /\ host'.planned = host.planned /\ host'.plan = PlanOf(tab[usb], host.args) /\ host'.info = host.info
        /\ host'.saving = host.saving
        /\ host'.padded = host.padded /\ host'.fw = host.fw /\ host'.result = host.result
    BY <2>1 DEF HostShape, HostFields
  <2>3. AdvancedFields
    BY <1>4, <1>7, <2>2 DEF AdvancedFields
  <2>4. AdvancedData
    BY <1>4, <1>7, <2>1, <2>2 DEF AdvancedData, SavingSteps, ReportDone, choice
  <2>5. QED
    BY <1>4, <1>7, <2>1, <2>2, <2>3, <2>4 DEF Advanced, Follow
<1>8. QED
  BY <1>2, <1>4, <1>5, <1>6, <1>7 DEF choice

LEMMA ImagesHost ==
  ASSUME TypeOK, HostShape, Images
  PROVE  Ended \/ Advanced
<1> DEFINE flash == tab[usb].fw # "stock"
           b == [Saving EXCEPT !.fw = {tab[usb].fw}]
           fw == IF flash THEN PadBootImage("rom", "stock") ELSE "none"
           saved == IF flash /\ ~host.args.nobackup THEN (backups \ host.saving) \cup {b} ELSE backups
<1>1. Remote("images", [host EXCEPT !.pc = "prepare home", !.fw = fw], saved)
  BY Zenon DEF Images
<1>2. fw \in {"none", "stock"} /\ (fw # "none" => flash)
  BY DEF PadBootImage
<1> HIDE DEF flash, b, fw, saved
<1>3. /\ host.pc = "images" /\ UNCHANGED <<factory, usb, changed, runs, losses, history>>
      /\ \/ Ended
         \/ /\ Here(usb) /\ Allowed(host.pc, tab[usb]) /\ host' = [host EXCEPT !.pc = "prepare home", !.fw = fw]
            /\ backups' = saved /\ faults' = faults
  BY <1>1, RemoteHost DEF RemoteSteps
<1>4. ASSUME host' = [host EXCEPT !.pc = "prepare home", !.fw = fw], backups' = saved, faults' = faults,
             Here(usb), Allowed(host.pc, tab[usb])
      PROVE  Advanced
  <2>1. /\ DOMAIN host' = HostFields /\ host'.pc = "prepare home" /\ host'.args = host.args /\ host'.id = host.id
        /\ host'.planned = host.planned /\ host'.plan = host.plan /\ host'.info = host.info /\ host'.saving = host.saving
        /\ host'.padded = host.padded /\ host'.fw = fw /\ host'.result = host.result
    BY <1>4 DEF HostShape, HostFields
  <2>2. AdvancedFields
    BY <1>3, <1>4, <2>1 DEF AdvancedFields
  <2>3. ImagesDone
    <3>1. backups' = IF tab[usb].fw # "stock" /\ ~host.args.nobackup
                     THEN (backups \ host.saving) \cup {[Saving EXCEPT !.fw = {tab[usb].fw}]} ELSE backups
      BY <1>4, Zenon DEF saved, flash, b
    <3>2. QED
      BY <1>2, <2>1, <3>1, Zenon DEF ImagesDone, flash
  <2>4. AdvancedData
    BY <1>3, <1>4, <2>1, <2>3 DEF AdvancedData, SavingSteps
  <2>5. QED
    BY <1>3, <1>4, <2>1, <2>2, <2>4 DEF Advanced, Follow
<1>5. QED
  BY <1>3, <1>4

LEMMA OtherRemoteHost ==
  ASSUME TypeOK, HostShape,
         \/ CheckSerial \/ WipeUserdata \/ WipeMetadata \/ Apply \/ Verify \/ RestoreTable
         \/ InstallHome \/ InstallRoot \/ InstallStore \/ Reboot
  PROVE  Ended \/ Advanced
<1> DEFINE On(pc, q, next) == next = At(q) /\ Follow(pc, q) /\ (pc = "serial" => usb = host.args.serial)
           Out(next) == \E result \in Results \ {"none"} : next = Idle(result)
<1>1. ASSUME NEW pc \in {"serial", "wipe metadata", "apply", "verify", "restore", "prepare home",
                         "write root", "write store", "reboot"},
             NEW next, Remote(pc, next, backups), (\E q : On(pc, q, next)) \/ Out(next)
      PROVE  Ended \/ Advanced
  <2>1. pc \in RemoteSteps \cup {"serial"} /\ pc \notin {"report", "wipe userdata", "images"} \cup SavingSteps
    BY DEF RemoteSteps, SavingSteps, SplitSteps
  <2>2. QED
    BY <1>1, <2>1, RemoteMoves
<1> DEFINE Good == Ended \/ Advanced
<1>2. "failed" \in Results \ {"none"} /\ "restored" \in Results \ {"none"}
  BY DEF Results
<1>3. ASSUME CheckSerial PROVE Good
  <2> DEFINE next == IF usb = host.args.serial THEN At(AfterSerial) ELSE Idle("failed")
  <2>1. Remote("serial", next, backups)
    BY <1>3, Zenon DEF CheckSerial
  <2>2. usb = host.args.serial => On("serial", AfterSerial, next)
    BY DEF Follow
  <2>3. usb # host.args.serial => Out(next)
    BY <1>2
  <2> HIDE DEF next, On, Out
  <2>4. QED
    BY <1>1, <2>1, <2>2, <2>3
<1>4. ASSUME Verify PROVE Good
  <2> DEFINE disk == ParsePrint(tab[usb].head)
             ok == /\ VerifyApplied(disk, host.plan)
                   /\ host.plan[1].action # "delete" => VerifyPreserved(host.info, ParseInfo(disk, "userdata"))
             next == IF ok THEN At(ImagesOrRoot) ELSE Idle("failed")
  <2>1. Remote("verify", next, backups)
    BY <1>4, Zenon DEF Verify
  <2> HIDE DEF ok
  <2>2. ok => On("verify", ImagesOrRoot, next)
    BY DEF Follow, ImagesOrRoot
  <2>3. ~ok => Out(next)
    BY <1>2
  <2> HIDE DEF next, On, Out
  <2>4. QED
    BY <1>1, <2>1, <2>2, <2>3
<1>5. ASSUME RestoreTable PROVE Good
  <2> DEFINE next == IF TheBackup.head = TheBackup.tail THEN At("reboot") ELSE Idle("failed")
  <2>1. Remote("restore", next, backups)
    BY <1>5, Zenon DEF RestoreTable
  <2>2. TheBackup.head = TheBackup.tail => On("restore", "reboot", next)
    BY DEF Follow
  <2>3. TheBackup.head # TheBackup.tail => Out(next)
    BY <1>2
  <2> HIDE DEF next, On, Out
  <2>4. QED
    BY <1>1, <2>1, <2>2, <2>3
<1>6. ASSUME Reboot PROVE Good
  <2> DEFINE next == IF host.args.restore # {} THEN Idle("restored") ELSE At("return")
  <2>1. Remote("reboot", next, backups)
    BY <1>6, Zenon DEF Reboot
  <2>2. host.args.restore = {} => On("reboot", "return", next)
    BY DEF Follow
  <2>3. host.args.restore # {} => Out(next)
    BY <1>2
  <2> HIDE DEF next, On, Out
  <2>4. QED
    BY <1>1, <2>1, <2>2, <2>3
<1>7. ASSUME InstallRoot PROVE Good
  <2> DEFINE q == IF host.args.layout = "dual" THEN "write store" ELSE "reboot"
  <2>1. Remote("write root", At(q), backups)
    BY <1>7, Zenon DEF InstallRoot
  <2>2. On("write root", q, At(q))
    BY DEF Follow
  <2> HIDE DEF q, On, Out
  <2>3. QED
    BY <1>1, <2>1, <2>2
<1>8. ASSUME WipeMetadata \/ Apply \/ InstallHome \/ InstallStore PROVE Good
  <2>1. \/ Remote("wipe metadata", At("apply"), backups)
        \/ Remote("apply", At("verify"), backups)
        \/ Remote("prepare home", At("write root"), backups)
        \/ Remote("write store", At("reboot"), backups)
    BY <1>8, Zenon DEF WipeMetadata, Apply, InstallHome, InstallStore
  <2>2. /\ On("wipe metadata", "apply", At("apply"))
        /\ On("apply", "verify", At("verify"))
        /\ On("prepare home", "write root", At("write root"))
        /\ On("write store", "reboot", At("reboot"))
    BY DEF Follow
  <2> HIDE DEF On, Out
  <2>3. QED
    BY <1>1, <2>1, <2>2
<1>9. ASSUME WipeUserdata PROVE Good
  <2> DEFINE q == IF host.args.layout = "dual" THEN "wipe metadata" ELSE "apply"
             info == ParseInfo(ParsePrint(tab[usb].head), "userdata")
  <2>1. Remote("wipe userdata", [host EXCEPT !.pc = q, !.info = info], backups)
    BY <1>9, Zenon DEF WipeUserdata
  <2>2. q \in {"wipe metadata", "apply"}
    OBVIOUS
  <2> HIDE DEF q, info
  <2>3. /\ host.pc = "wipe userdata" /\ UNCHANGED <<factory, usb, changed, runs, losses, history>>
        /\ \/ Ended
           \/ /\ Here(usb) /\ Allowed(host.pc, tab[usb]) /\ host' = [host EXCEPT !.pc = q, !.info = info]
              /\ backups' = backups /\ faults' = faults
    BY <2>1, RemoteHost DEF RemoteSteps, SplitSteps
  <2>4. ASSUME Here(usb), Allowed(host.pc, tab[usb]), host' = [host EXCEPT !.pc = q, !.info = info],
               backups' = backups, faults' = faults
        PROVE  Advanced
    <3>1. /\ DOMAIN host' = HostFields /\ host'.pc = q /\ host'.args = host.args /\ host'.id = host.id
          /\ host'.planned = host.planned /\ host'.plan = host.plan /\ host'.info = info /\ host'.saving = host.saving
          /\ host'.padded = host.padded /\ host'.fw = host.fw /\ host'.result = host.result
      BY <2>4 DEF HostShape, HostFields
    <3>2. AdvancedFields
      BY <2>3, <2>4, <3>1 DEF AdvancedFields
    <3>3. AdvancedData
      BY <2>3, <2>4, <3>1 DEF AdvancedData, SavingSteps, info
    <3>4. QED
      BY <2>2, <2>3, <2>4, <3>1, <3>2, <3>3 DEF Advanced, Follow
  <2>5. QED
    BY <2>3, <2>4
<1>10. QED
  BY <1>3, <1>4, <1>5, <1>6, <1>7, <1>8, <1>9

\* The steps in Fastboot.
LEMMA FastbootHost ==
  ASSUME TypeOK, HostShape, TabletShape,
         \/ CheckFastboot \/ BootRam \/ WaitForRam \/ Return
         \/ FlashFirmware \/ FlashAndroid \/ FlashFirst \/ FlashSecond \/ Activate
  PROVE  Ended \/ Advanced
<1> DEFINE Good == Ended \/ Advanced
<1>1. ASSUME NEW result \in Results \ {"none"}, host' = Idle(result), host.pc # "idle", UNCHANGED <<backups, World>>,
             faults' = faults \/ (faults < MaxFaults /\ faults' = faults + 1)
      PROVE  Ended
  <2>1. usb' \in Tablets /\ losses' \in 0 .. MaxLosses /\ faults' \in 0 .. MaxFaults
    BY <1>1, BoundsAssumption DEF TypeOK, World
  <2>2. QED
    BY <1>1, <2>1 DEF Ended, World
<1>2. ASSUME NEW q, host' = [host EXCEPT !.pc = q], Follow(host.pc, q), UNCHANGED <<backups, faults, World>>,
             host.pc \in {"fastboot", "return", "firmware", "android", "boot first", "boot second"}
      PROVE  Advanced
  <2>1. host.pc \notin RemoteSteps \cup {"serial"} /\ host.pc \notin {"wait", "report", "wipe userdata", "images", "boot"} \cup SavingSteps
    BY <1>2 DEF RemoteSteps, SavingSteps, SplitSteps
  <2>2. UNCHANGED <<factory, usb, changed, backups, runs, losses, history>> /\ faults' = faults
    BY <1>2 DEF World
  <2>3. QED
    BY <1>2, <2>1, <2>2, MovedOn DEF HostShape
<1>3. "failed" \in Results \ {"none"} /\ "refused" \in Results \ {"none"} /\ "installed" \in Results \ {"none"}
  BY DEF Results
<1>4. ASSUME CheckFastboot PROVE Good
  <2>1. host.pc = "fastboot" /\ UNCHANGED <<backups, faults, World>> /\ (Goto("boot") \/ Stop("refused"))
    BY <1>4 DEF CheckFastboot
  <2>2. QED
    BY <1>1, <1>2, <1>3, <2>1 DEF Goto, Stop, Follow
<1>5. ASSUME BootRam PROVE Good
  <2> DEFINE padded == IF host.args.restore # {} THEN "none" ELSE PadBootImage("boot.img", "ubuntu")
  <2>1. /\ host.pc = "boot" /\ UNCHANGED <<backups, faults, World>>
        /\ Fail \/ host' = [host EXCEPT !.pc = "wait", !.padded = padded]
    BY <1>5, Zenon DEF BootRam
  <2>2. padded \in {"none", "ubuntu"}
    BY DEF PadBootImage
  <2> HIDE DEF padded
  <2>3. ASSUME host' = [host EXCEPT !.pc = "wait", !.padded = padded] PROVE Advanced
    <3>1. /\ DOMAIN host' = HostFields /\ host'.pc = "wait" /\ host'.args = host.args /\ host'.id = host.id
          /\ host'.planned = host.planned /\ host'.plan = host.plan /\ host'.info = host.info /\ host'.saving = host.saving
          /\ host'.padded = padded /\ host'.fw = host.fw /\ host'.result = host.result
      BY <2>3 DEF HostShape, HostFields
    <3>2. AdvancedFields
      BY <2>1, <3>1 DEF AdvancedFields
    <3>3. AdvancedData
      BY <2>1, <2>2, <3>1 DEF AdvancedData, SavingSteps, RemoteSteps, SplitSteps
    <3>4. QED
      BY <2>1, <3>1, <3>2, <3>3 DEF Advanced, Follow, World
  <2>4. QED
    BY <1>1, <1>3, <2>1, <2>3 DEF Fail, Stop
<1>6. ASSUME WaitForRam PROVE Good
  <2>1. /\ host.pc = "wait" /\ UNCHANGED <<backups, faults, World>>
        /\ Fail \/ (tab[usb].mode = "ram" /\ host' = [host EXCEPT !.pc = "serial", !.id = tab[usb].id])
    BY <1>6 DEF WaitForRam
  <2>2. ASSUME tab[usb].mode = "ram", host' = [host EXCEPT !.pc = "serial", !.id = tab[usb].id] PROVE Advanced
    <3>1. /\ DOMAIN host' = HostFields /\ host'.pc = "serial" /\ host'.args = host.args /\ host'.id = tab[usb].id
          /\ host'.planned = host.planned /\ host'.plan = host.plan /\ host'.info = host.info /\ host'.saving = host.saving
          /\ host'.padded = host.padded /\ host'.fw = host.fw /\ host'.result = host.result
      BY <2>2 DEF HostShape, HostFields
    <3>2. AdvancedFields
      BY <2>1, <3>1 DEF AdvancedFields
    <3>3. AdvancedData
      BY <2>1, <2>2, <3>1 DEF AdvancedData, SavingSteps, RemoteSteps, SplitSteps
    <3>4. QED
      BY <2>1, <3>1, <3>2, <3>3 DEF Advanced, Follow, World
  <2>3. QED
    BY <1>1, <1>3, <2>1, <2>2 DEF Fail, Stop
<1>7. ASSUME Return PROVE Good
  <2>1. /\ host.pc = "return" /\ UNCHANGED <<backups, faults, World>>
        /\ Fail \/ \E q : Goto(q) /\ (q \in {"android", "boot first"} \/ (q = "firmware" /\ host.fw # "none"))
    BY <1>7 DEF Return
  <2>2. QED
    BY <1>1, <1>2, <1>3, <2>1 DEF Goto, Fail, Stop, Follow
<1>8. ASSUME NEW pc \in FlashSteps, NEW next, Flash(pc, next), Follow(pc, next) PROVE Good
  <2>1. /\ host.pc = pc /\ UNCHANGED <<backups, World>>
        /\ \/ host' = [host EXCEPT !.pc = next] /\ faults' = faults
           \/ host' = Idle("failed") /\ (faults' = faults \/ (faults < MaxFaults /\ faults' = faults + 1))
    BY <1>8, FlashCases
  <2>2. QED
    BY <1>1, <1>2, <1>3, <1>8, <2>1 DEF FlashSteps
<1>9. ASSUME FlashFirmware \/ FlashAndroid \/ FlashFirst \/ FlashSecond PROVE Good
  <2>1. \/ Flash("firmware", "android") \/ Flash("android", "boot first")
        \/ Flash("boot first", "boot second") \/ Flash("boot first", "activate") \/ Flash("boot second", "activate")
    BY <1>9 DEF FlashFirmware, FlashAndroid, FlashFirst, FlashSecond
  <2>2. QED
    BY <1>8, <2>1 DEF FlashSteps, Follow
<1>10. ASSUME Activate PROVE Good
  <2>1. host.pc = "activate" /\ UNCHANGED <<backups, faults, World>> /\ (Stop("installed") \/ Fail)
    BY <1>10 DEF Activate
  <2>2. QED
    BY <1>1, <1>3, <2>1 DEF Fail, Stop
<1>11. QED
  BY <1>4, <1>5, <1>6, <1>7, <1>9, <1>10

LEMMA HostSteps ==
  ASSUME Shape, [Next]_vars
  PROVE  Held \/ Ended \/ Advanced \/ Begun
<1> USE DEF Shape
<1>1. ASSUME Install \/ Restore PROVE Begun
  BY <1>1, Zenon DEF Install, Restore, Begun, Asked
<1>2. ASSUME NEW t \in Tablets, PowerLoss(t) \/ ToFastboot(t) \/ Use(t) PROVE Held
  <2>1. UNCHANGED <<factory, usb, changed, backups, host, runs, faults, history>>
        /\ (losses' = losses \/ (losses < MaxLosses /\ losses' = losses + 1))
    BY <1>2 DEF PowerLoss, ToFastboot, Use
  <2>2. \E x : tab' = [tab EXCEPT ![t] = [x EXCEPT !.mode = "off", !.id = 0]]
        \/ tab' = [tab EXCEPT ![t] = [x EXCEPT !.mode = "fastboot", !.id = 0]]
        \/ tab' = [tab EXCEPT ![t] = [x EXCEPT !.mode = "system"]]
    <3>1. CASE PowerLoss(t)
      BY <3>1 DEF PowerLoss
    <3>2. CASE ToFastboot(t)
      BY <3>2 DEF ToFastboot, TabletShape
    <3>3. CASE Use(t)
      BY <3>3 DEF Use
    <3>4. QED
      BY <1>2, <3>1, <3>2, <3>3
  <2>3. \A u \in Tablets : tab'[u].mode = "ram" => tab'[u] = tab[u]
    <3>1. DOMAIN tab'[t] = Fields /\ DOMAIN tab = Tablets
      BY TabletRows DEF Row, TabletShape
    <3>2. tab'[t].mode # "ram"
      BY <2>2, <3>1 DEF Fields
    <3>3. \A u \in Tablets : u # t => tab'[u] = tab[u]
      BY <2>2, <3>1
    <3>4. QED
      BY <3>2, <3>3
  <2>4. QED
    BY <2>1, <2>3, BoundsAssumption DEF Held, TypeOK
<1>3. ASSUME MoveCable \/ FileChanges \/ UNCHANGED vars PROVE Held
  <2>1. CASE MoveCable
    BY <2>1, BoundsAssumption DEF MoveCable, Held, TypeOK
  <2>2. CASE FileChanges
    <3>1. /\ UNCHANGED <<tab, factory, usb, backups, host, runs, losses, history>>
          /\ faults < MaxFaults /\ faults' = faults + 1
          /\ \E f \in Files : changed' = changed \cup {f}
      BY <2>2 DEF FileChanges
    <3>2. faults' \in 0 .. MaxFaults /\ changed' \subseteq Files
      BY <3>1, BoundsAssumption DEF TypeOK
    <3>3. QED
      BY <3>1, <3>2 DEF Held, TypeOK
  <2>3. CASE UNCHANGED vars
    BY <2>3 DEF vars, Held, TypeOK
  <2>4. QED
    BY <1>3, <2>1, <2>2, <2>3
<1>4. ASSUME HostStops PROVE Ended
  <2>1. "killed" \in Results \ {"none"}
    BY DEF Results
  <2>2. QED
    BY <1>4, <2>1, BoundsAssumption DEF HostStops, Stop, Ended, TypeOK
<1>5. QED
  BY <1>1, <1>2, <1>3, <1>4, SavingHost, ReportHost, ImagesHost, OtherRemoteHost, FastbootHost DEF Next, HostNext

-----------------------------------------------------------------------------
(* The shape of the state is kept.                                           *)

LEMMA TornFields == DOMAIN Torn = TableFields
  BY DEF Torn, TableFields

LEMMA ComesShape ==
  ASSUME NEW table \in Tables
  PROVE  LET x == Comes(table)
         IN /\ DOMAIN x = Fields /\ DOMAIN x.home = HomeFields /\ x.head = table /\ x.tail = table
            /\ TabletOK(x) /\ x.mode = "fastboot" /\ x.fw = "old" /\ x.boot_a = x.boot_b
            /\ x.home.kind # "none" => Classify(ParsePrint(table)) = "split"
            /\ x.boot_a = IF Classify(ParsePrint(table)) = "split" /\ Named(table, "linux_home") # {}
                          THEN "ubuntu" ELSE "stock"
<1> DEFINE split == Classify(ParsePrint(table)) = "split" /\ Named(table, "linux_home") # {}
           boot == IF split THEN "ubuntu" ELSE "stock"
           home == IF split THEN [first |-> ByName(table, "linux_home").first, kind |-> "user"] ELSE NoHome
           root == IF split THEN "ubuntu" ELSE "none"
           x == [head |-> table, tail |-> table, userdata |-> "old", metadata |-> "old",
                 home |-> home, root |-> root, store |-> "none", boot_a |-> boot, boot_b |-> boot,
                 fw |-> "old", android |-> "old", active |-> "a", mode |-> "fastboot", id |-> 0]
<1>1. Comes(table) = x
  BY Zenon DEF Comes
<1>2. DOMAIN home = HomeFields /\ home.kind \in {"none", "user"} /\ (home.kind # "none" => split)
  BY DEF HomeFields, NoHome
<1>3. boot = (IF split THEN "ubuntu" ELSE "stock") /\ boot \in {"stock", "ubuntu"} /\ root \in {"ubuntu", "none"}
  OBVIOUS
<1>4. 0 \in 0 .. MaxRuns
  BY BoundsAssumption
<1> HIDE DEF home, root, boot, split
<1>5. /\ DOMAIN x = Fields /\ x.head = table /\ x.tail = table /\ x.home = home /\ x.root = root
      /\ x.boot_a = boot /\ x.boot_b = boot /\ x.fw = "old" /\ x.mode = "fastboot" /\ x.id = 0
      /\ x.userdata = "old" /\ x.metadata = "old" /\ x.store = "none" /\ x.android = "old" /\ x.active = "a"
  BY DEF Fields
<1> HIDE DEF x
<1>6. TabletOK(x)
  BY <1>2, <1>3, <1>4, <1>5 DEF TabletOK, Contents
<1>7. boot = (IF Classify(ParsePrint(table)) = "split" /\ Named(table, "linux_home") # {} THEN "ubuntu" ELSE "stock")
  BY <1>3 DEF split
<1>8. split => Classify(ParsePrint(table)) = "split"
  BY DEF split
<1>9. QED
  BY <1>1, <1>2, <1>5, <1>6, <1>7, <1>8

LEMMA InitShape == Init => Shape
<1> SUFFICES ASSUME Init PROVE Shape
  OBVIOUS
<1>1. /\ factory \in [Tablets -> Tables] /\ tab = [t \in Tablets |-> Comes(factory[t])]
      /\ usb \in Tablets /\ changed = {} /\ backups = {} /\ host = Idle("none")
      /\ runs = 0 /\ faults = 0 /\ losses = 0 /\ restored = {} /\ another = {} /\ waived = {}
  BY DEF Init
<1>2. /\ DOMAIN host = HostFields /\ host.pc = "idle" /\ host.args = Nobody
      /\ host.id = 0 /\ host.saving = {} /\ host.padded = "none" /\ host.fw = "none" /\ host.result = "none"
  BY <1>1, IdleFields
<1>3. \A t \in Tablets : tab[t] = Comes(factory[t]) /\ factory[t] \in Tables
  BY <1>1
<1>4. TabletShape /\ \A t \in Tablets : TabletOK(tab[t])
  BY <1>1, <1>3, ComesShape, TablesAssumption DEF IsTable, TabletShape, TableFields
<1>5. HostShape
  BY <1>1, <1>2, NobodyFields DEF HostShape, Steps, Early
<1>6. BackupShape
  BY <1>1, <1>2, NobodyFields DEF BackupShape, Early, RemoteSteps, SavingSteps, SplitSteps
<1>7. TypeOK
  BY <1>1, <1>2, <1>4, NobodyFields, BoundsAssumption DEF TypeOK, TabletOK
<1>8. QED
  BY <1>4, <1>5, <1>6, <1>7 DEF Shape

\* The start of a run.
BegunOn(a) ==
  /\ runs' = runs + 1 /\ runs < MaxRuns /\ changed' = {} /\ host.pc = "idle"
  /\ UNCHANGED <<tab, factory, usb, backups, faults, losses>>
  /\ a.serial \in Tablets /\ a.layout \in Modes /\ a.keep \in BOOLEAN /\ a.nobackup \in BOOLEAN
  /\ a.restore \subseteq backups
  /\ \/ host' = Idle("refused") /\ UNCHANGED history
     \/ /\ DOMAIN host' = HostFields /\ host'.pc = "fastboot" /\ host'.args = a /\ host'.id = 0
        /\ host'.saving = {} /\ host'.padded = "none" /\ host'.fw = "none" /\ host'.result = "none"
        /\ a.nobackup => a.keep /\ a.restore = {}
        /\ restored' = IF a.restore = {} THEN restored ELSE restored \cup {a.serial}
        /\ another' = IF \A b \in a.restore : {b.head, b.tail} = {factory[a.serial]} THEN another
                      ELSE another \cup {a.serial}
        /\ waived' = IF a.nobackup THEN waived \cup {a.serial} ELSE waived

LEMMA BegunCases ==
  ASSUME usb \in Tablets, Begun
  PROVE  \E a : BegunOn(a)
<1>1. PICK a : Asked(a) /\ Begin(a)
  BY DEF Begun
<1>2. a.serial \in Tablets /\ a.layout \in Modes /\ a.keep \in BOOLEAN /\ a.nobackup \in BOOLEAN
      /\ a.restore \subseteq backups
  <2>1. CASE a \in Requests
    BY <2>1, RequestsAssumption
  <2>2. ASSUME NEW t \in Tablets, NEW b \in backups, a = [Nobody EXCEPT !.serial = t, !.restore = {b}]
        PROVE  a.serial \in Tablets /\ a.layout \in Modes /\ a.keep \in BOOLEAN /\ a.nobackup \in BOOLEAN
               /\ a.restore \subseteq backups
    <3>1. DOMAIN Nobody = {"serial", "layout", "android", "root", "keep", "nobackup", "restore"}
      BY DEF Nobody
    <3>2. /\ a.serial = t /\ a.layout = Nobody.layout /\ a.keep = Nobody.keep /\ a.nobackup = Nobody.nobackup
          /\ a.restore = {b}
      BY <2>2, <3>1
    <3>3. QED
      BY <3>2, NobodyFields
  <2>3. QED
    BY <1>1, <2>1, <2>2 DEF Asked
<1> DEFINE planned == IF a.keep \/ a.restore # {} THEN <<>> ELSE ReferencePlan(a.layout, a.android, a.root)
           next == [Idle("none") EXCEPT !.pc = "fastboot", !.args = a, !.planned = planned]
<1>3. /\ runs' = runs + 1 /\ runs < MaxRuns /\ changed' = {} /\ host.pc = "idle"
      /\ UNCHANGED <<tab, factory, usb, backups, faults, losses>>
      /\ \/ Stop("refused") /\ UNCHANGED history
         \/ /\ host' = next /\ ValidArguments(a)
            /\ restored' = IF a.restore = {} THEN restored ELSE restored \cup {a.serial}
            /\ another' = IF \A b \in a.restore : {b.head, b.tail} = {factory[a.serial]} THEN another
                          ELSE another \cup {a.serial}
            /\ waived' = IF a.nobackup THEN waived \cup {a.serial} ELSE waived
  BY <1>1, Zenon DEF Begin
<1> HIDE DEF planned
<1>4. /\ DOMAIN next = HostFields /\ next.pc = "fastboot" /\ next.args = a /\ next.id = 0
      /\ next.saving = {} /\ next.padded = "none" /\ next.fw = "none" /\ next.result = "none"
  BY IdleFields DEF HostFields
<1> HIDE DEF next
<1>5. ValidArguments(a) => (a.nobackup => a.keep /\ a.restore = {})
  BY DEF ValidArguments
<1>6. BegunOn(a)
  BY <1>2, <1>3, <1>4, <1>5, Zenon DEF BegunOn, Stop
<1>7. QED
  BY <1>6

LEMMA FollowSteps ==
  ASSUME NEW p, NEW q, Follow(p, q)
  PROVE  q \in Steps /\ q # "idle"
<1>1. AfterSerial \in {"restore", "report", "backup boots"}
  BY DEF AfterSerial
<1>2. QED
  BY <1>1 DEF Follow, Steps, Early, RemoteSteps, SavingSteps, SplitSteps, LastSteps

LEMMA HostShapeKept ==
  ASSUME Shape, [Next]_vars
  PROVE  HostShape'
<1> USE DEF Shape
<1>1. CASE Held
  BY <1>1 DEF Held, HostShape
<1>2. ASSUME NEW result, host' = Idle(result) PROVE HostShape'
  <2>1. /\ DOMAIN host' = HostFields /\ host'.pc = "idle" /\ host'.args = Nobody
        /\ host'.padded = "none" /\ host'.fw = "none"
    BY <1>2, IdleFields
  <2>2. Nobody.layout \in Modes /\ Nobody.keep = FALSE /\ Nobody.nobackup = FALSE
    BY NobodyFields DEF TypeOK
  <2>3. QED
    BY <2>1, <2>2 DEF HostShape, Steps, Early
<1>3. CASE Advanced
  <2>1. host'.padded \in {"none", "ubuntu"} /\ host'.fw \in {"none", "stock"}
    BY <1>3 DEF Advanced, AdvancedFields, AdvancedData, ImagesDone, HostShape
  <2>2. host'.pc \in Steps /\ DOMAIN host' = HostFields /\ host'.args = host.args
    BY <1>3, FollowSteps DEF Advanced, AdvancedFields
  <2>3. runs' = runs /\ host.pc # "idle"
    BY <1>3 DEF Advanced, Follow
  <2>4. QED
    BY <2>1, <2>2, <2>3 DEF HostShape
<1>4. CASE Begun
  <2>1. PICK a : BegunOn(a)
    BY <1>4, BegunCases DEF TypeOK
  <2>2. CASE host' = Idle("refused")
    BY <1>2, <2>2
  <2>3. CASE host' # Idle("refused")
    <3>1. runs' >= 1
      BY <2>1, BoundsAssumption DEF BegunOn, TypeOK
    <3>2. QED
      BY <2>1, <2>3, <3>1 DEF BegunOn, HostShape, Steps, Early
  <2>4. QED
    BY <2>2, <2>3
<1>5. QED
  BY <1>1, <1>2, <1>3, <1>4, HostSteps DEF Ended

\* What sgdisk makes of a table is a table, with a linux_root that was asked for.
LEMMA SgdiskTable ==
  ASSUME NEW table, DOMAIN table = TableFields, NEW arguments
  PROVE  /\ DOMAIN Sgdisk(table, arguments) = TableFields
         /\ arguments.new \subseteq Sgdisk(table, arguments).parts
  BY DEF Sgdisk, TableFields

LEMMA TheBackupIs ==
  ASSUME host.pc = "restore", BackupShape
  PROVE  /\ TheBackup \in host.args.restore /\ TheBackup \in backups
         /\ DOMAIN TheBackup.head = TableFields /\ DOMAIN TheBackup.tail = TableFields
<1>1. host.args.restore # {} /\ host.args.restore \subseteq backups
  BY DEF BackupShape
<1>2. TheBackup \in host.args.restore
  BY <1>1 DEF TheBackup
<1>3. QED
  BY <1>1, <1>2 DEF BackupShape

LEMMA TabletShapeKept ==
  ASSUME Shape, [Next]_vars
  PROVE  TabletShape'
<1>1. DOMAIN tab' = Tablets /\ \A t \in Tablets : Row(t)
  BY TabletRows
<1>2. SUFFICES ASSUME NEW t \in Tablets
               PROVE  /\ DOMAIN tab'[t] = Fields /\ DOMAIN tab'[t].home = HomeFields
                      /\ DOMAIN tab'[t].head = TableFields /\ DOMAIN tab'[t].tail = TableFields
  BY <1>1 DEF TabletShape
<1>3. /\ DOMAIN tab[t].home = HomeFields
      /\ DOMAIN tab[t].head = TableFields /\ DOMAIN tab[t].tail = TableFields
  BY DEF Shape, TabletShape
<1>4. DOMAIN tab'[t] = Fields
  BY <1>1 DEF Row
<1>5. DOMAIN tab'[t].home = HomeFields
  <2>1. DOMAIN NoHome = HomeFields
    BY DEF NoHome, HomeFields
  <2>2. QED
    BY <1>1, <1>3, <2>1 DEF Row, HomeKept, HomeMade, HomeFilled, HomeGone
<1>6. DOMAIN tab'[t].head = TableFields /\ DOMAIN tab'[t].tail = TableFields
  <2>1. CASE TableKept(t)
    BY <1>3, <2>1 DEF TableKept
  <2>2. CASE Applied(t)
    <3>1. DOMAIN Sgdisk(tab[t].head, TheArgs) = TableFields
      BY <1>3, SgdiskTable
    <3>2. QED
      BY <1>3, <2>2, <3>1, TornFields DEF Applied
  <2>3. CASE RestoredTo(t)
    <3>1. DOMAIN TheBackup.head = TableFields /\ DOMAIN TheBackup.tail = TableFields
      BY <2>3, TheBackupIs DEF RestoredTo, Shape
    <3>2. QED
      BY <1>3, <2>3, <3>1, TornFields DEF RestoredTo
  <2>4. QED
    BY <1>1, <2>1, <2>2, <2>3 DEF Row
<1>7. QED
  BY <1>4, <1>5, <1>6

\* The rest of what follows a step, for the saved copies.
LEMMA FollowSaving ==
  ASSUME NEW p, NEW q, Follow(p, q)
  PROVE  /\ q = "restore" => p = "serial" /\ host.args.restore # {}
         /\ q \notin Early \cup {"restore", "reboot"} =>
              \/ p = "serial" /\ host.args.restore = {}
              \/ p \notin Early \cup {"restore", "reboot"} \/ (p = "reboot" /\ host.args.restore = {})
         /\ q \in SavingSteps => p \in SavingSteps \/ (p = "serial" /\ ~host.args.nobackup)
         /\ q \in RemoteSteps \ {"restore", "reboot", "backup boots"} =>
              \/ p \in RemoteSteps \ {"restore", "reboot"}
              \/ p = "serial" /\ host.args.nobackup
         /\ q \notin Early /\ p \in Early => p = "serial" /\ q = AfterSerial
<1>1. /\ host.args.restore # {} => AfterSerial = "restore"
      /\ host.args.restore = {} /\ host.args.nobackup => AfterSerial = "report"
      /\ host.args.restore = {} /\ ~host.args.nobackup => AfterSerial = "backup boots"
  BY DEF AfterSerial
<1>2. CASE p = "serial"
  <2>1. q = AfterSerial
    BY <1>2 DEF Follow
  <2>2. QED
    BY <1>1, <1>2, <2>1 DEF Early, RemoteSteps, SavingSteps, SplitSteps
<1>3. CASE p # "serial"
  <2>1. q # "restore" /\ (q \in SavingSteps => p \in SavingSteps)
    BY <1>3 DEF Follow, SavingSteps
  <2>2. q \notin Early => (p \notin Early /\ p # "restore") \/ q = "reboot"
    BY <1>3 DEF Follow, Early
  <2>3. p = "reboot" => host.args.restore = {} /\ q \notin RemoteSteps
    BY DEF Follow, RemoteSteps, SavingSteps, SplitSteps
  <2>4. q \in RemoteSteps /\ q # "reboot" => p \in RemoteSteps \ {"restore", "reboot"}
    BY <1>3 DEF Follow, RemoteSteps, SavingSteps, SplitSteps
  <2>5. q \notin Early => p \notin Early
    BY <1>3 DEF Follow, Early
  <2>6. QED
    BY <1>3, <2>1, <2>2, <2>3, <2>4, <2>5
<1>4. QED
  BY <1>2, <1>3

LEMMA SavingIs == ASSUME host.saving # {} PROVE Saving \in host.saving
  BY DEF Saving

BackupFieldsOK(b) == DOMAIN b = BackupFields /\ DOMAIN b.head = TableFields /\ DOMAIN b.tail = TableFields

\* What the steps of the saving add to a backup is well formed.
LEMMA HeadSaved ==
  ASSUME NEW b, BackupFieldsOK(b), NEW table, DOMAIN table = TableFields
  PROVE  LET c == [b EXCEPT !.head = table]
         IN /\ BackupFieldsOK(c) /\ c.head = table /\ c.serial = b.serial
            /\ c.boot_a = b.boot_a /\ c.boot_b = b.boot_b /\ c.fw = b.fw
  BY DEF BackupFieldsOK, BackupFields

LEMMA TailSaved ==
  ASSUME NEW b, BackupFieldsOK(b), NEW table, DOMAIN table = TableFields
  PROVE  LET c == [b EXCEPT !.tail = table]
         IN /\ BackupFieldsOK(c) /\ c.head = b.head /\ c.tail = table /\ c.serial = b.serial
            /\ c.boot_a = b.boot_a /\ c.boot_b = b.boot_b /\ c.fw = b.fw
  BY DEF BackupFieldsOK, BackupFields

LEMMA FirmwareSaved ==
  ASSUME NEW b, BackupFieldsOK(b), NEW fw
  PROVE  LET c == [b EXCEPT !.fw = fw]
         IN /\ BackupFieldsOK(c) /\ c.head = b.head /\ c.tail = b.tail /\ c.serial = b.serial
            /\ c.boot_a = b.boot_a /\ c.boot_b = b.boot_b /\ c.fw = fw
  BY DEF BackupFieldsOK, BackupFields

LEMMA FirstSavingOK == BackupFieldsOK(FirstSaving)
  BY TornFields DEF BackupFieldsOK, FirstSaving, BackupFields

LEMMA BackupShapeKept ==
  ASSUME Shape, [Next]_vars
  PROVE  BackupShape'
<1>1. BackupShape /\ usb \in Tablets /\ \A b \in backups \cup host.saving : BackupFieldsOK(b)
  BY DEF Shape, BackupShape, TypeOK, BackupFieldsOK
<1> DEFINE Kinds == \A b \in backups' \cup host'.saving : BackupFieldsOK(b)
           Control == /\ host'.pc \in SavingSteps => ~host'.args.nobackup
                      /\ host'.pc = "restore" => host'.args.restore # {}
                      /\ host'.pc \notin Early \cup {"restore", "reboot"} => host'.args.restore = {}
           Kept == /\ host'.args.restore \subseteq backups'
                   /\ host'.pc \in RemoteSteps \ {"restore", "reboot", "backup boots"} /\ ~host'.args.nobackup =>
                        host'.saving # {}
           Good == Kinds /\ Control /\ Kept /\ factory' \in [Tablets -> Tables]
<1>2. Good => BackupShape'
  BY DEF BackupShape, BackupFieldsOK
<1>3. ASSUME Held PROVE Good
  BY <1>1, <1>3 DEF Held, BackupShape
<1>4. ASSUME NEW result, host' = Idle(result), backups' = backups, factory' = factory PROVE Good
  <2>1. host'.saving = {} /\ host'.pc = "idle" /\ host'.args.restore = {}
    BY <1>1, <1>4, IdleFields, NobodyFields
  <2>2. "idle" \in Early /\ "idle" \notin RemoteSteps /\ "idle" \notin SavingSteps
    BY DEF Early, RemoteSteps, SavingSteps, SplitSteps
  <2>3. QED
    BY <1>1, <1>4, <2>1, <2>2 DEF BackupShape
<1>5. ASSUME Begun PROVE Good
  <2>1. PICK a : BegunOn(a)
    BY <1>1, <1>5, BegunCases
  <2>2. CASE host' = Idle("refused")
    BY <1>4, <2>1, <2>2 DEF BegunOn
  <2>3. CASE host' # Idle("refused")
    <3>1. host'.saving = {} /\ host'.pc = "fastboot" /\ host'.args.restore \subseteq backups
          /\ backups' = backups /\ factory' = factory
      BY <2>1, <2>3 DEF BegunOn
    <3>2. "fastboot" \in Early /\ "fastboot" \notin RemoteSteps /\ "fastboot" \notin SavingSteps
      BY DEF Early, RemoteSteps, SavingSteps, SplitSteps
    <3>3. QED
      BY <1>1, <3>1, <3>2 DEF BackupShape
  <2>4. QED
    BY <2>2, <2>3
<1>6. ASSUME Advanced PROVE Good
  <2>1. /\ host'.args = host.args /\ Follow(host.pc, host'.pc) /\ factory' = factory
        /\ host.pc \notin SavingSteps => host'.saving = host.saving
        /\ host.pc \notin {"backup tail", "images"} => backups' = backups
    BY <1>6 DEF Advanced, AdvancedFields
  <2>2. Control
    BY <1>1, <2>1, FollowSaving DEF BackupShape
  <2>3. host.pc \in {"backup head", "backup tail"} \/ (host.pc = "images" /\ ~host.args.nobackup) => host.saving # {}
    BY <1>1 DEF BackupShape, RemoteSteps, SavingSteps
  <2>4. CASE host.pc \in SavingSteps
    <3>1. PICK b : /\ host'.saving = {b} /\ BackupFieldsOK(b)
                   /\ backups' = backups \/ backups' = backups \cup {b}
      <4>1. host.pc # "backup boots" => BackupFieldsOK(Saving)
        BY <1>1, <2>3, <2>4, SavingIs DEF SavingSteps
      <4>2. DOMAIN tab[usb].head = TableFields /\ DOMAIN tab[usb].tail = TableFields
        BY <1>1 DEF Shape, TabletShape
      <4>3. CASE host.pc = "backup boots"
        BY <1>6, <2>1, <4>3, FirstSavingOK DEF Advanced, AdvancedData
      <4>4. CASE host.pc = "backup head"
        <5>1. BackupFieldsOK([Saving EXCEPT !.head = tab[usb].head])
          BY <4>1, <4>2, <4>4, HeadSaved
        <5>2. QED
          BY <1>6, <2>1, <4>4, <5>1 DEF Advanced, AdvancedData
      <4>5. CASE host.pc = "backup tail"
        <5>1. BackupFieldsOK([Saving EXCEPT !.tail = tab[usb].tail])
          BY <4>1, <4>2, <4>5, TailSaved
        <5>2. QED
          BY <1>6, <4>5, <5>1 DEF Advanced, AdvancedData
      <4>6. QED
        BY <2>4, <4>3, <4>4, <4>5 DEF SavingSteps
    <3>2. Kinds
      BY <1>1, <3>1
    <3>3. Kept
      BY <1>1, <2>1, <3>1 DEF BackupShape
    <3>4. QED
      BY <1>1, <2>1, <2>2, <3>2, <3>3 DEF BackupShape
  <2>5. CASE host.pc \notin SavingSteps
    <3>1. host'.pc \in RemoteSteps \ {"restore", "reboot", "backup boots"} /\ ~host'.args.nobackup => host'.saving # {}
      <4>1. host'.pc \in RemoteSteps \ {"restore", "reboot", "backup boots"} /\ ~host.args.nobackup =>
              host.pc \in RemoteSteps \ {"restore", "reboot"}
        BY <2>1, FollowSaving
      <4>2. host.pc \in RemoteSteps \ {"restore", "reboot"} /\ ~host.args.nobackup => host.saving # {}
        BY <1>1, <2>5 DEF BackupShape, SavingSteps
      <4>3. QED
        BY <2>1, <2>5, <4>1, <4>2
    <3>2. Kinds /\ host.args.restore \subseteq backups'
      <4>1. CASE host.pc # "images"
        BY <1>1, <2>1, <2>5, <4>1 DEF BackupShape, SavingSteps
      <4>2. CASE host.pc = "images"
        <5>1. host.args.restore = {}
          BY <1>1, <4>2 DEF BackupShape, Early
        <5>2. ~host.args.nobackup => BackupFieldsOK([Saving EXCEPT !.fw = {tab[usb].fw}])
          <6> SUFFICES ASSUME ~host.args.nobackup PROVE BackupFieldsOK([Saving EXCEPT !.fw = {tab[usb].fw}])
            OBVIOUS
          <6>1. BackupFieldsOK(Saving)
            BY <1>1, <2>3, <4>2, SavingIs
          <6>2. QED
            BY <6>1, FirmwareSaved
        <5>3. backups' = backups \/ (~host.args.nobackup /\ backups' =
                (backups \ host.saving) \cup {[Saving EXCEPT !.fw = {tab[usb].fw}]})
          BY <1>6, <4>2 DEF Advanced, AdvancedData, ImagesDone
        <5>4. QED
          BY <1>1, <2>1, <2>5, <5>1, <5>2, <5>3
      <4>3. QED
        BY <4>1, <4>2
    <3>3. QED
      BY <1>1, <2>1, <2>2, <3>1, <3>2 DEF BackupShape
  <2>6. QED
    BY <2>4, <2>5
<1> HIDE DEF Good
<1>7. QED
  BY <1>2, <1>3, <1>4, <1>5, <1>6, HostSteps DEF Ended, Shape

LEMMA TypeKept ==
  ASSUME Shape, [Next]_vars
  PROVE  TypeOK'
<1>1. \A t \in Tablets : TabletOK(tab'[t])
  BY TabletRows DEF Row
<1> DEFINE Host == host'.id \in 0 .. MaxRuns /\ host'.args.serial \in Tablets /\ host'.result \in Results
           Around == /\ usb' \in Tablets /\ changed' \subseteq Files /\ runs' \in 0 .. MaxRuns
                     /\ faults' \in 0 .. MaxFaults /\ losses' \in 0 .. MaxLosses
                     /\ restored' \subseteq Tablets /\ another' \subseteq restored' /\ waived' \subseteq Tablets
           Good == Host /\ Around
<1>2. /\ host.id \in 0 .. MaxRuns /\ host.args.serial \in Tablets /\ host.result \in Results
      /\ usb \in Tablets /\ changed \subseteq Files /\ runs \in 0 .. MaxRuns
      /\ faults \in 0 .. MaxFaults /\ losses \in 0 .. MaxLosses
      /\ restored \subseteq Tablets /\ another \subseteq restored /\ waived \subseteq Tablets
  BY DEF Shape, TypeOK, Results
<1>3. 0 \in 0 .. MaxRuns
  BY BoundsAssumption
<1>4. ASSUME NEW result \in Results, host' = Idle(result) PROVE Host
  BY <1>2, <1>3, <1>4, IdleFields, NobodyFields
<1>5. ASSUME Held PROVE Good
  BY <1>2, <1>5 DEF Held, history
<1>6. ASSUME Ended PROVE Good
  <2>1. Host
    BY <1>4, <1>6 DEF Ended
  <2>2. Around
    BY <1>2, <1>6 DEF Ended, history
  <2>3. QED
    BY <2>1, <2>2
<1>7. ASSUME Advanced PROVE Good
  <2>1. host'.id = host.id \/ host'.id = tab[usb].id
    BY <1>7 DEF Advanced, AdvancedFields, AdvancedData
  <2>2. tab[usb].id \in 0 .. MaxRuns
    BY <1>2 DEF Shape, TypeOK
  <2>3. Host
    BY <1>2, <1>7, <2>1, <2>2 DEF Advanced, AdvancedFields
  <2>4. Around
    BY <1>2, <1>7 DEF Advanced, history
  <2>5. QED
    BY <2>3, <2>4
<1>8. ASSUME Begun PROVE Good
  <2>1. PICK a : BegunOn(a)
    BY <1>2, <1>8, BegunCases
  <2>2. Host
    <3>1. host' = Idle("refused") => Host
      BY <1>4 DEF Results
    <3>2. host' # Idle("refused") => Host
      BY <1>3, <2>1 DEF BegunOn, Results
    <3>3. QED
      BY <3>1, <3>2
  <2>3. /\ usb' \in Tablets /\ changed' \subseteq Files
        /\ faults' \in 0 .. MaxFaults /\ losses' \in 0 .. MaxLosses
    BY <1>2, <2>1 DEF BegunOn
  <2>4. runs' \in 0 .. MaxRuns
    BY <1>2, <2>1, BoundsAssumption DEF BegunOn
  <2>5. restored' \subseteq Tablets /\ another' \subseteq restored' /\ waived' \subseteq Tablets
    <3>1. CASE UNCHANGED history
      BY <1>2, <3>1 DEF history
    <3>2. CASE ~UNCHANGED history
      <4>1. /\ a.serial \in Tablets
            /\ restored' = IF a.restore = {} THEN restored ELSE restored \cup {a.serial}
            /\ another' = IF \A b \in a.restore : {b.head, b.tail} = {factory[a.serial]} THEN another
                          ELSE another \cup {a.serial}
            /\ waived' = IF a.nobackup THEN waived \cup {a.serial} ELSE waived
        BY <2>1, <3>2 DEF BegunOn
      <4>2. restored' \subseteq Tablets /\ waived' \subseteq Tablets /\ restored \subseteq restored'
        BY <1>2, <4>1
      <4>3. a.restore = {} => another' = another
        BY <4>1
      <4>4. a.restore # {} => another' \subseteq restored \cup {a.serial} /\ restored' = restored \cup {a.serial}
        BY <1>2, <4>1
      <4>5. QED
        BY <1>2, <4>2, <4>3, <4>4
    <3>3. QED
      BY <3>1, <3>2
  <2>6. QED
    BY <2>2, <2>3, <2>4, <2>5
<1>9. Good
  BY <1>5, <1>6, <1>7, <1>8, HostSteps DEF Shape
<1>10. QED
  BY <1>1, <1>9 DEF TypeOK, TabletOK, Results

LEMMA ShapeKept ==
  ASSUME Shape, [Next]_vars
  PROVE  Shape'
  BY TypeKept, TabletShapeKept, HostShapeKept, BackupShapeKept DEF Shape

\* Every field holds what it may, and no field of a tablet ever holds the bytes
\* of a file that changed on the host after it was checked (pad_boot_image
\* takes its digest of the bytes it copies), but for the stock images other than
\* firmware, which fastboot is given by name.
THEOREM TypeCorrect == Spec => []TypeOK
<1>1. Init => Shape
  BY InitShape
<1>2. Shape /\ [Next]_vars => Shape'
  BY ShapeKept
<1>3. Shape => TypeOK
  BY DEF Shape
<1>4. QED
  BY <1>1, <1>2, <1>3, PTL DEF Spec

-----------------------------------------------------------------------------
(* Only the tablet that was chosen is written to.                            *)

\* Every boot of a RAM image has an id of its own, the number of the run that
\* started it; once the serial number was checked, the one that answers to the
\* id the installer has is the tablet that was chosen.
ChosenInv ==
  /\ \A t \in Tablets : tab[t].mode = "ram" => tab[t].id \in 1 .. runs
  /\ \A t, u \in Tablets : tab[t].mode = "ram" /\ tab[u].mode = "ram" /\ tab[t].id = tab[u].id => t = u
  /\ host.pc \in {"fastboot", "boot"} => \A t \in Tablets : tab[t].mode = "ram" => tab[t].id # runs
  /\ host.pc \notin Early => \A t \in Tablets : Here(t) => t = host.args.serial

\* A tablet is in a RAM image because it was, or because this step started it.
LEMMA RamRow ==
  ASSUME NEW t, Row(t), tab'[t].mode = "ram"
  PROVE  \/ tab[t].mode = "ram" /\ tab'[t].id = tab[t].id
         \/ tab'[t].id = runs /\ host.pc = "boot" /\ host'.pc = "wait" /\ t = host.args.serial
  BY DEF Row, ModeKept, ModeNew

\* On the way, the tablet that answers stays the one that did.
LEMMA HereKept ==
  ASSUME NEW t, Row(t), Advanced, host'.pc \notin Early, Here(t)'
  PROVE  Here(t) /\ host'.args = host.args
<1>1. Follow(host.pc, host'.pc) /\ host'.args = host.args /\ (host.pc # "wait" => host'.id = host.id)
  BY DEF Advanced, AdvancedFields
<1>2. host.pc \notin {"wait", "boot"}
  BY <1>1 DEF Follow, Early
<1>3. QED
  BY <1>1, <1>2, RamRow DEF Here

LEMMA ChosenKept ==
  ASSUME Shape, ChosenInv, [Next]_vars
  PROVE  ChosenInv'
<1>1. \A t \in Tablets : Row(t)
  BY TabletRows
<1>2. runs \in Nat /\ runs' \in Nat /\ (runs' = runs \/ (runs' = runs + 1 /\ host.pc = "idle"))
  <2>1. runs \in Nat
    BY BoundsAssumption DEF Shape, TypeOK
  <2>2. Begun => runs' = runs + 1 /\ host.pc = "idle"
    BY BegunCases DEF BegunOn, Shape, TypeOK
  <2>3. QED
    BY <2>1, <2>2, HostSteps DEF Held, Ended, Advanced, Shape
<1>3. host.pc # "idle" => runs >= 1
  BY DEF Shape, HostShape
<1>4. \A t \in Tablets : tab'[t].mode = "ram" =>
         \/ tab[t].mode = "ram" /\ tab'[t].id = tab[t].id
         \/ tab'[t].id = runs /\ host.pc = "boot" /\ host'.pc = "wait" /\ t = host.args.serial
  BY <1>1, RamRow
<1>5. \A t \in Tablets : tab'[t].mode = "ram" => tab'[t].id \in 1 .. runs'
  BY <1>2, <1>3, <1>4 DEF ChosenInv
<1>6. \A t, u \in Tablets : tab'[t].mode = "ram" /\ tab'[u].mode = "ram" /\ tab'[t].id = tab'[u].id => t = u
  BY <1>4 DEF ChosenInv
<1>7. host'.pc \in {"fastboot", "boot"} => \A t \in Tablets : tab'[t].mode = "ram" => tab'[t].id # runs'
  <2> SUFFICES ASSUME host'.pc \in {"fastboot", "boot"}
               PROVE  \A t \in Tablets : tab'[t].mode = "ram" => tab'[t].id # runs'
    OBVIOUS
  <2>1. \A t \in Tablets : tab'[t].mode = "ram" => tab[t].mode = "ram" /\ tab'[t].id = tab[t].id
    BY <1>4
  <2>2. CASE runs' = runs + 1
    BY <1>2, <2>1, <2>2 DEF ChosenInv
  <2>3. CASE runs' = runs
    <3>1. host.pc \in {"fastboot", "boot"}
      <4>1. Held => host.pc \in {"fastboot", "boot"}
        BY DEF Held
      <4>2. ~Ended
        BY IdleFields DEF Ended
      <4>3. Advanced => host.pc = "fastboot"
        BY DEF Advanced, Follow, AfterSerial
      <4>4. ~Begun
        BY <1>2, <2>3, BegunCases DEF BegunOn, Shape, TypeOK
      <4>5. QED
        BY <4>1, <4>2, <4>3, <4>4, HostSteps DEF Shape
    <3>2. QED
      BY <2>1, <2>3, <3>1 DEF ChosenInv
  <2>4. QED
    BY <1>2, <2>2, <2>3
<1>8. host'.pc \notin Early => \A t \in Tablets : Here(t)' => t = host'.args.serial
  <2> SUFFICES ASSUME host'.pc \notin Early, NEW t \in Tablets, Here(t)' PROVE t = host'.args.serial
    OBVIOUS
  <2>1. CASE Held
    <3>1. Here(t) /\ host'.args = host.args /\ host.pc \notin Early
      BY <1>4, <2>1 DEF Held, Here, Early
    <3>2. QED
      BY <3>1 DEF ChosenInv
  <2>2. CASE Advanced
    <3>1. Here(t) /\ host'.args = host.args
      BY <1>1, <2>2, HereKept
    <3>2. CASE host.pc \notin Early
      BY <3>1, <3>2 DEF ChosenInv
    <3>3. CASE host.pc \in Early
      <4>1. host.pc = "serial"
        BY <2>2, <3>3, FollowSaving DEF Advanced
      <4>2. Here(usb) /\ usb = host.args.serial /\ usb \in Tablets
        BY <2>2, <4>1 DEF Advanced, AdvancedData, Shape, TypeOK
      <4>3. QED
        BY <3>1, <4>2 DEF ChosenInv, Here
    <3>4. QED
      BY <3>2, <3>3
  <2>3. ~Ended
    BY IdleFields DEF Ended, Early
  <2>4. ~Begun
    <3>1. SUFFICES ASSUME Begun PROVE FALSE
      OBVIOUS
    <3>2. PICK a : BegunOn(a)
      BY <3>1, BegunCases DEF Shape, TypeOK
    <3>3. QED
      BY <3>2, IdleFields DEF BegunOn, Early
  <2>5. QED
    BY <2>1, <2>2, <2>3, <2>4, HostSteps DEF Shape
<1>9. QED
  BY <1>5, <1>6, <1>7, <1>8 DEF ChosenInv

LEMMA InitChosen == Init => ChosenInv
<1> SUFFICES ASSUME Init PROVE ChosenInv
  OBVIOUS
<1>1. \A t \in Tablets : tab[t].mode = "fastboot"
  BY ComesShape DEF Init
<1>2. host.pc = "idle"
  BY IdleFields DEF Init
<1>3. QED
  BY <1>1, <1>2 DEF ChosenInv, Early

\* What a step of the installer writes to is the tablet that was chosen.
LEMMA ChosenStep ==
  ASSUME Shape, ChosenInv, [Next]_vars, NEW t \in Tablets,
         host.pc # "idle", tab[t].mode # "system", Storage(tab'[t]) # Storage(tab[t])
  PROVE  t = host.args.serial
<1>1. Change(t)
  BY TabletSteps DEF Shape, TypeOK
<1>2. DOMAIN tab[t] = Fields
  BY DEF Shape, TabletShape
<1>3. tab'[t] \notin {tab[t], Off(tab[t]), InFastboot(tab[t])}
  BY <1>2, ModeFields
<1>4. CASE Wrote(t)
  <2>1. Here(t) /\ host.pc \notin Early
    BY <1>4 DEF Wrote, Writing, RemoteSteps, SavingSteps, SplitSteps, Early
  <2>2. QED
    BY <2>1 DEF ChosenInv
<1>5. CASE FlashedTo(t) \/ Started(t) \/ Activated(t)
  BY <1>5 DEF FlashedTo, Started, Activated
<1>6. ~Filled(t) /\ ~TakenBack(t)
  BY DEF Filled, TakenBack
<1>7. QED
  BY <1>1, <1>3, <1>4, <1>5, <1>6 DEF Change

\* While the installer runs, only the tablet whose serial number was given is
\* written to, wherever the cable goes: every command is guarded by the id of
\* the boot whose serial number was checked (remote), and every flash names the
\* serial number.
THEOREM WritesToTheChosen == Spec => OnlyTheChosen
<1>1. Init => Shape /\ ChosenInv
  BY InitShape, InitChosen
<1>2. Shape /\ ChosenInv /\ [Next]_vars => (Shape /\ ChosenInv)'
  BY ShapeKept, ChosenKept
<1>3. Shape /\ ChosenInv /\ [Next]_vars =>
        [\A t \in Tablets : host.pc # "idle" /\ tab[t].mode # "system" /\ Storage(tab'[t]) # Storage(tab[t])
                              => t = host.args.serial]_vars
  BY ChosenStep
<1>4. QED
  BY <1>1, <1>2, <1>3, PTL DEF Spec, OnlyTheChosen

-----------------------------------------------------------------------------
(* What is read from a table.                                                *)

\* The table names a linux_root.
Marked(table) == Named(table, "linux_root") # {}
StockHead(t) == Classify(ParsePrint(tab[t].head)) = "stock"

LEMMA NamedRead ==
  ASSUME NEW table, DOMAIN table = TableFields, NEW name, name # ""
  PROVE  Named(ParsePrint(table), name) = Named(table, name)
<1>1. ParsePrint(table).parts = {p \in table.parts : p.name # ""}
  BY DEF ParsePrint, TableFields
<1>2. QED
  BY <1>1 DEF Named

LEMMA ClassifyCases ==
  ASSUME NEW disk
  PROVE  /\ Classify(disk) \in {"unknown", "split", "stock"}
         /\ Classify(disk) = "stock" => Named(disk, "linux_root") = {} /\ Named(disk, "userdata") # {}
         /\ Classify(disk) = "split" => Named(disk, "linux_root") # {}
  BY DEF Classify, IsStock

LEMMA StockTables ==
  ASSUME NEW table, DOMAIN table = TableFields, Classify(ParsePrint(table)) = "stock"
  PROVE  ~Marked(table) /\ table # Torn
<1>1. Named(table, "linux_root") = {} /\ Named(table, "userdata") # {}
  BY ClassifyCases, NamedRead
<1>2. Named(Torn, "userdata") = {}
  BY DEF Named, Torn
<1>3. QED
  BY <1>1, <1>2 DEF Marked

LEMMA SplitTables ==
  ASSUME NEW table, DOMAIN table = TableFields, Classify(ParsePrint(table)) = "split"
  PROVE  Marked(table)
  BY ClassifyCases, NamedRead DEF Marked

LEMMA PlanNames ==
  ASSUME NEW disk, NEW mode, NEW android, NEW root, PlanFor(disk, mode, android, root) # <<>>
  PROVE  PlanFor(disk, mode, android, root)[2].name = "linux_root"
<1>1. ASSUME NEW m, NEW a, NEW r, PlanLayout(disk, m, a, r) # <<>>
      PROVE  PlanLayout(disk, m, a, r)[2].name = "linux_root"
  <2>1. \E x, y, s, e : PlanLayout(disk, m, a, r) = <<x, Entry(ROOT_NUMBER, "linux_root", s, e, "create"), y>>
    BY <1>1, Zenon DEF PlanLayout
  <2>2. PICK x, y, s, e : PlanLayout(disk, m, a, r) = <<x, Entry(ROOT_NUMBER, "linux_root", s, e, "create"), y>>
    BY <2>1
  <2> DEFINE z == Entry(ROOT_NUMBER, "linux_root", s, e, "create")
  <2>3. z.name = "linux_root"
    BY DEF Entry
  <2> HIDE DEF z
  <2>4. <<x, z, y>>[2] = z
    OBVIOUS
  <2>5. QED
    BY <2>2, <2>3, <2>4 DEF z
<1>2. QED
  BY <1>1 DEF PlanFor

\* The table is split only where it is the factory's kind and the home is not kept.
DecideOK(x, a) ==
  /\ Decide(x, a) = "split" => /\ Classify(ParsePrint(x.head)) = "stock" /\ a.keep = FALSE
                               /\ PlanOf(x, a)[2].name = "linux_root"
  /\ Decide(x, a) = "keep" => Classify(ParsePrint(x.head)) = "split" /\ a.keep = TRUE

LEMMA DecideCases ==
  ASSUME NEW x, NEW a, a.keep \in BOOLEAN
  PROVE  DecideOK(x, a)
<1>1. Decide(x, a) = "split" => /\ Classify(ParsePrint(x.head)) = "stock" /\ a.keep = FALSE
                                /\ PlanOf(x, a) # <<>>
  BY ClassifyCases DEF Decide
<1>2. Decide(x, a) = "keep" => Classify(ParsePrint(x.head)) = "split" /\ a.keep = TRUE
  BY ClassifyCases DEF Decide
<1>3. PlanOf(x, a) # <<>> => PlanOf(x, a)[2].name = "linux_root"
  BY PlanNames DEF PlanOf
<1>4. QED
  BY <1>1, <1>2, <1>3 DEF DecideOK

\* The table that sgdisk writes names a linux_root.
LEMMA AppliedMarked ==
  ASSUME NEW table, DOMAIN table = TableFields, host.plan[2].name = "linux_root"
  PROVE  Marked(Sgdisk(table, TheArgs))
<1> DEFINE disk == ParsePrint(tab[usb].head)
           p == Sectors(disk, host.plan[2], "8300")
<1>1. p \in TheArgs.new
  BY DEF TheArgs, SgdiskArguments
<1>2. p.name = "linux_root"
  BY DEF Sectors
<1> HIDE DEF p
<1>3. p \in Sgdisk(table, TheArgs).parts
  BY <1>1, SgdiskTable
<1>4. QED
  BY <1>2, <1>3 DEF Marked, Named

-----------------------------------------------------------------------------
(* A home that is in use survives.                                           *)

\* A tablet with a home has a table that names a linux_root, or a torn head
\* copy, or a restore was asked for.
HomeOf(t) ==
  \/ tab[t].home.kind = "none" \/ t \in restored
  \/ Marked(tab[t].head) \/ tab[t].head = Torn

HomeInv ==
  /\ \A t \in Tablets : HomeOf(t)
  /\ host.pc # "idle" /\ host.args.restore # {} => host.args.serial \in restored
  /\ host.pc \in SplitSteps => /\ host.args.keep = FALSE /\ host.plan[2].name = "linux_root"
                               /\ \A t \in Tablets : Here(t) => StockHead(t)
  /\ host.pc \in {"verify", "images", "prepare home"} /\ ~host.args.keep =>
       \A t \in Tablets : Here(t) => tab[t].home.kind = "none" \/ t \in restored

\* mkfs of the home runs only where there is nothing to lose.
LEMMA HomeMadeSafe ==
  ASSUME HomeInv, NEW t \in Tablets, HomeMade(t)
  PROVE  tab[t].home.kind = "none" \/ t \in restored
  BY DEF HomeMade, Writing, HomeInv

LEMMA HomeStep ==
  ASSUME HomeInv, NEW t \in Tablets, Row(t), tab[t].home.kind = "user", tab'[t].home # tab[t].home
  PROVE  t \in restored
<1>1. CASE HomeMade(t)
  BY <1>1, HomeMadeSafe
<1>2. CASE HomeGone(t)
  <2>1. Named(Torn, "userdata") = {}
    BY DEF Named, Torn
  <2>2. QED
    BY <1>2, <2>1 DEF HomeGone, HomeInv, HomeOf, Marked
<1>3. QED
  BY <1>1, <1>2 DEF Row, HomeKept, HomeFilled

LEMMA NoneStays ==
  ASSUME NEW t, Row(t), host.pc # "prepare home", tab[t].home.kind = "none"
  PROVE  tab'[t].home.kind = "none"
<1>1. NoHome.kind = "none"
  BY DEF NoHome
<1>2. HomeKept(t) \/ HomeGone(t)
  BY DEF Row, HomeMade, HomeFilled
<1>3. QED
  BY <1>1, <1>2 DEF HomeKept, HomeGone

LEMMA RestoredGrows ==
  ASSUME Shape, [Next]_vars
  PROVE  restored \subseteq restored' /\ (~Begun => restored' = restored /\ another' = another /\ waived' = waived)
<1>1. CASE Begun
  <2>1. PICK a : BegunOn(a)
    BY <1>1, BegunCases DEF Shape, TypeOK
  <2>2. QED
    BY <1>1, <2>1 DEF BegunOn, history
<1>2. CASE ~Begun
  BY <1>2, HostSteps DEF Held, Ended, Advanced, history
<1>3. QED
  BY <1>1, <1>2

LEMMA HomeOfKept ==
  ASSUME Shape, ChosenInv, HomeInv, [Next]_vars, NEW t \in Tablets
  PROVE  HomeOf(t)'
<1>1. Row(t) /\ restored \subseteq restored' /\ HomeOf(t)
  BY TabletRows, RestoredGrows DEF HomeInv
<1>2. DOMAIN tab[t].head = TableFields
  BY DEF Shape, TabletShape
<1>3. CASE TableKept(t)
  <2>1. CASE HomeKept(t)
    BY <1>1, <1>3, <2>1 DEF HomeOf, TableKept, HomeKept
  <2>2. CASE HomeMade(t)
    <3>1. Partitioned(tab[t])
      BY <2>2 DEF HomeMade, Writing, Allowed
    <3>2. Cardinality(Named(tab[t].head, "linux_root")) = 1
      BY <3>1 DEF Partitioned
    <3>3. Marked(tab[t].head)
      BY <3>2, FS_EmptySet DEF Marked
    <3>4. QED
      BY <1>3, <3>3 DEF HomeOf, TableKept
  <2>3. CASE HomeFilled(t)
    BY <1>1, <1>3, <2>3 DEF HomeOf, TableKept, HomeFilled
  <2>4. CASE HomeGone(t)
    BY <2>4 DEF HomeOf, HomeGone, NoHome
  <2>5. QED
    BY <1>1, <2>1, <2>2, <2>3, <2>4 DEF Row
<1>4. CASE Applied(t) /\ ~TableKept(t)
  <2>1. tab'[t].home = tab[t].home
    BY <1>1, <1>4 DEF Row, HomeKept, HomeMade, HomeFilled, HomeGone, Applied
  <2>2. host.plan[2].name = "linux_root"
    BY <1>4 DEF Applied, HomeInv, SplitSteps
  <2>3. Marked(Sgdisk(tab[t].head, TheArgs))
    BY <1>2, <2>2, AppliedMarked
  <2>4. tab'[t].head \in {Sgdisk(tab[t].head, TheArgs), Torn, tab[t].head}
    BY <1>4 DEF Applied
  <2>5. QED
    BY <1>1, <2>1, <2>3, <2>4 DEF HomeOf
<1>5. CASE RestoredTo(t)
  <2>1. t = host.args.serial /\ host.pc = "restore"
    BY <1>5 DEF RestoredTo, Writing, ChosenInv, Early
  <2>2. host.args.restore # {}
    BY <2>1 DEF Shape, BackupShape
  <2>3. t \in restored
    BY <2>1, <2>2 DEF HomeInv
  <2>4. QED
    BY <1>1, <2>3 DEF HomeOf
<1>6. QED
  BY <1>1, <1>3, <1>4, <1>5 DEF Row

LEMMA HomeKeptInv ==
  ASSUME Shape, ChosenInv, HomeInv, [Next]_vars
  PROVE  HomeInv'
<1>1. /\ \A t \in Tablets : Row(t)
      /\ restored \subseteq restored'
  BY TabletRows, RestoredGrows
<1> DEFINE Split == host'.pc \in SplitSteps => /\ host'.args.keep = FALSE /\ host'.plan[2].name = "linux_root"
                                               /\ \A t \in Tablets : Here(t)' => StockHead(t)'
           Home == host'.pc \in {"verify", "images", "prepare home"} /\ ~host'.args.keep =>
                     \A t \in Tablets : Here(t)' => tab'[t].home.kind = "none" \/ t \in restored'
           Restore1 == host'.pc # "idle" /\ host'.args.restore # {} => host'.args.serial \in restored'
           Good == Split /\ Home /\ Restore1
<1>2. ASSUME host'.pc = "idle" PROVE Good
  BY <1>2 DEF SplitSteps
<1>3. ASSUME Ended PROVE Good
  <2>1. host'.pc = "idle"
    BY <1>3, IdleFields DEF Ended
  <2>2. QED
    BY <1>2, <2>1
<1>4. ASSUME Held PROVE Good
  <2>1. host' = host /\ \A t \in Tablets : Here(t)' => tab'[t] = tab[t] /\ Here(t)
    BY <1>4 DEF Held, Here
  <2>2. Split
    BY <2>1 DEF HomeInv, StockHead
  <2>3. Home
    BY <1>1, <2>1 DEF HomeInv
  <2>4. Restore1
    BY <1>1, <2>1 DEF HomeInv
  <2>5. QED
    BY <2>2, <2>3, <2>4
<1>5. ASSUME Begun PROVE Good
  <2>1. PICK a : BegunOn(a)
    BY <1>5, BegunCases DEF Shape, TypeOK
  <2>2. CASE host'.pc = "idle"
    BY <1>2, <2>2
  <2>3. CASE host'.pc # "idle"
    <3>1. /\ host'.pc = "fastboot" /\ host'.args = a
          /\ restored' = IF a.restore = {} THEN restored ELSE restored \cup {a.serial}
      BY <2>1, <2>3, IdleFields DEF BegunOn
    <3>2. Restore1
      BY <3>1
    <3>3. QED
      BY <3>1, <3>2 DEF SplitSteps
  <2>4. QED
    BY <2>2, <2>3
<1>6. ASSUME Advanced PROVE Good
  <2>1. /\ Follow(host.pc, host'.pc) /\ host'.args = host.args
        /\ host.pc # "report" => host'.plan = host.plan
    BY <1>6 DEF Advanced, AdvancedFields
  <2>2. host.pc # "idle" /\ (host'.pc \notin Early => \A t \in Tablets : Here(t)' => Here(t))
    BY <1>1, <1>6, <2>1, HereKept DEF Follow
  <2>3. \A t \in Tablets : host.pc \notin {"apply", "restore"} => tab'[t].head = tab[t].head
    BY <1>1 DEF Row, TableKept, Applied, RestoredTo
  <2>4. \A t \in Tablets : host.pc # "prepare home" /\ tab[t].home.kind = "none" => tab'[t].home.kind = "none"
    BY <1>1, NoneStays
  <2>5. Restore1
    BY <1>1, <2>1, <2>2 DEF HomeInv
  <2>6. host.args.keep \in BOOLEAN
    BY DEF Shape, HostShape
  <2>7. host.pc = "report" =>
          \/ /\ host'.pc = "wipe userdata" /\ StockHead(usb) /\ host.args.keep = FALSE
             /\ host'.plan[2].name = "linux_root" /\ Here(usb)
          \/ host.args.keep = TRUE /\ host'.pc \notin SplitSteps
    <3>1. host.pc = "report" => ReportDone /\ Here(usb)
      BY <1>6 DEF Advanced, AdvancedData, RemoteSteps
    <3>2. DecideOK(tab[usb], host.args)
      BY <2>6, DecideCases
    <3>3. QED
      BY <3>1, <3>2 DEF DecideOK, ReportDone, StockHead, SplitSteps
  <2>8. Split
    <3> SUFFICES ASSUME host'.pc \in SplitSteps
                 PROVE  /\ host'.args.keep = FALSE /\ host'.plan[2].name = "linux_root"
                        /\ \A t \in Tablets : Here(t)' => StockHead(t)'
      OBVIOUS
    <3>1. host.pc = "report" \/ (host.pc \in SplitSteps /\ host.pc # "apply")
      BY <2>1 DEF Follow, SplitSteps, AfterSerial
    <3>2. host'.pc \notin Early
      BY DEF SplitSteps, Early
    <3>3. host.pc \notin {"apply", "restore"} /\ host.pc \notin Early
      BY <3>1 DEF SplitSteps, Early
    <3>4. CASE host.pc = "report"
      <4>1. \A t \in Tablets : Here(t) => t = usb
        <5>1. Here(usb) /\ usb \in Tablets
          BY <2>7, <3>4 DEF Shape, TypeOK
        <5>2. QED
          BY <3>3, <5>1 DEF ChosenInv
      <4>2. QED
        BY <2>1, <2>2, <2>3, <2>7, <3>2, <3>3, <3>4, <4>1 DEF StockHead
    <3>5. CASE host.pc # "report"
      BY <2>1, <2>2, <2>3, <3>1, <3>2, <3>3, <3>5 DEF HomeInv, StockHead
    <3>6. QED
      BY <3>4, <3>5
  <2>9. Home
    <3> SUFFICES ASSUME host'.pc \in {"verify", "images", "prepare home"}, ~host.args.keep,
                        NEW t \in Tablets, Here(t)'
                 PROVE  tab'[t].home.kind = "none" \/ t \in restored'
      BY <2>1
    <3>1. host'.pc \notin Early /\ Here(t)
      BY <2>2 DEF Early
    <3>2. host.pc \in {"apply", "verify", "images"}
      <4>1. host.pc \in {"apply", "report", "verify", "images"}
        BY <2>1 DEF Follow, AfterSerial
      <4>2. host.pc # "report"
        BY <2>7
      <4>3. QED
        BY <4>1, <4>2
    <3>3. tab[t].home.kind = "none" \/ t \in restored
      <4>1. CASE host.pc = "apply"
        <5>1. StockHead(t) /\ HomeOf(t) /\ DOMAIN tab[t].head = TableFields
          BY <3>1, <4>1 DEF HomeInv, SplitSteps, Shape, TabletShape
        <5>2. ~Marked(tab[t].head) /\ tab[t].head # Torn
          BY <5>1, StockTables DEF StockHead
        <5>3. QED
          BY <5>1, <5>2 DEF HomeOf
      <4>2. CASE host.pc # "apply"
        BY <3>1, <3>2, <4>2 DEF HomeInv
      <4>3. QED
        BY <4>1, <4>2
    <3>4. QED
      BY <1>1, <2>4, <3>2, <3>3
  <2>10. QED
    BY <2>5, <2>8, <2>9
<1>7. Good
  BY <1>3, <1>4, <1>5, <1>6, HostSteps
<1>8. \A t \in Tablets : HomeOf(t)'
  BY HomeOfKept
<1>9. QED
  BY <1>7, <1>8 DEF HomeInv

LEMMA InitHome == Init => HomeInv
<1> SUFFICES ASSUME Init PROVE HomeInv
  OBVIOUS
<1>1. host.pc = "idle"
  BY IdleFields DEF Init
<1>2. ASSUME NEW t \in Tablets PROVE HomeOf(t)
  <2>1. tab[t] = Comes(factory[t]) /\ factory[t] \in Tables
    BY DEF Init
  <2>2. tab[t].head = factory[t] /\ DOMAIN tab[t].head = TableFields
        /\ (tab[t].home.kind # "none" => Classify(ParsePrint(tab[t].head)) = "split")
    BY <2>1, ComesShape, TablesAssumption DEF IsTable, TableFields
  <2>3. QED
    BY <2>2, SplitTables DEF HomeOf
<1>3. QED
  BY <1>1, <1>2 DEF HomeInv, SplitSteps

\* A home somebody has used is given up only on a tablet whose owner asked for
\* the factory table back: mkfs on the home runs only after the table was split
\* in the same run (prepare_home), and the table is split only where it is the
\* factory's (main, the state of the table that was read).
THEOREM HomeIsKept == Spec => HomeSurvives
<1>1. Init => Shape /\ ChosenInv /\ HomeInv
  BY InitShape, InitChosen, InitHome
<1>2. Shape /\ ChosenInv /\ HomeInv /\ [Next]_vars => (Shape /\ ChosenInv /\ HomeInv)'
  BY ShapeKept, ChosenKept, HomeKeptInv
<1>3. Shape /\ HomeInv /\ [Next]_vars =>
        [\A t \in Tablets : tab[t].home.kind = "user" /\ tab'[t].home # tab[t].home => t \in restored]_vars
  BY TabletRows, HomeStep
<1>4. QED
  BY <1>1, <1>2, <1>3, PTL DEF Spec, HomeSurvives

-----------------------------------------------------------------------------
(* What was overwritten can be put back.                                     *)

\* The tablets come as the factory made them.
FactoryTables == \A table \in Tables : Classify(ParsePrint(table)) = "stock"

FactoryBackup(t) == \E b \in backups : b.serial = t /\ b.head = factory[t] /\ b.tail = factory[t]
FirmwareBackup(t) == \E b \in backups : b.serial = t /\ b.fw = {"old"}
Saved(t) ==
  /\ FactoryBackup(t)
  /\ \E b \in backups : b.serial = t /\ b.boot_a = "stock"
  /\ \E b \in backups : b.serial = t /\ b.boot_b = "stock"
Untouched(t) ==
  tab[t].head = factory[t] /\ tab[t].tail = factory[t] /\ tab[t].boot_a = "stock" /\ tab[t].boot_b = "stock"

\* The backup under way: of this tablet, without firmware, and as far as it
\* goes what is still on the tablet.
SavingInv ==
  /\ host.pc \in Early \cup {"backup boots"} => host.saving = {}
  /\ host.pc \in SplitSteps \cup {"report", "verify", "images"} => host.saving \subseteq backups
  /\ \A b \in host.saving :
       /\ host.saving = {b} /\ b.serial = host.args.serial /\ b.fw = {}
       /\ \A t \in Tablets : Here(t) /\ host.pc \in SavingSteps =>
            /\ b.boot_a = tab[t].boot_a /\ b.boot_b = tab[t].boot_b
            /\ host.pc = "backup tail" => b.head = tab[t].head

\* A tablet is saved, or nothing was written to it; and before anything is, it
\* is saved, or it does not come to that.
BackupInv ==
  /\ \A t \in Tablets : Saved(t) \/ (Untouched(t) /\ \A b \in backups : b.serial # t)
  /\ host.pc \notin Early \cup SavingSteps =>
       Saved(host.args.serial) \/ (host.pc = "report" /\ host.args.nobackup) \/ host.args.restore # {}
  /\ host.pc # "idle" /\ host.args.nobackup => host.args.keep

\* A head copy is the factory's, torn, or names a linux_root, on the tablet and in
\* every complete backup, where it is not torn.
KnownInv ==
  /\ \A t \in Tablets : tab[t].head \in {factory[t], Torn} \/ Marked(tab[t].head)
  /\ \A b \in backups : b.head = factory[b.serial] \/ Marked(b.head)

\* A torn tail copy has the factory's table before it, but after the restore of another.
TableInv ==
  /\ \A t \in Tablets : t \in another \/ tab[t].tail # Torn \/ tab[t].head = factory[t]
  /\ host.pc # "idle" => \A b \in host.args.restore :
       host.args.serial \in another \/ {b.head, b.tail} = {factory[host.args.serial]}

\* Firmware is replaced only after it was saved, or the backup was waived.
FirmwareInv ==
  /\ \A t \in Tablets : tab[t].fw = "old" \/ t \in waived \/ FirmwareBackup(t)
  /\ host.fw # "none" => host.args.serial \in waived \/ FirmwareBackup(host.args.serial)
  /\ host.pc = "firmware" => host.fw # "none"
  /\ host.pc # "idle" /\ host.args.nobackup => host.args.serial \in waived

Safe == Shape /\ ChosenInv /\ HomeInv
Store == SavingInv /\ KnownInv /\ BackupInv /\ TableInv /\ FirmwareInv

\* c keeps what b has.
Keeps(b, c) ==
  /\ c.serial = b.serial /\ c.head = b.head /\ c.tail = b.tail /\ c.boot_a = b.boot_a /\ c.boot_b = b.boot_b
  /\ b.fw = {} \/ c.fw = b.fw

\* A new backup: the one that is complete now, or the same with its firmware.
Complete(c) ==
  /\ host.pc = "backup tail" /\ Here(usb) /\ usb = host.args.serial /\ c.serial = usb
  /\ c.head = tab[usb].head /\ c.tail = tab[usb].tail /\ tab[usb].head # Torn
  /\ c.boot_a = tab[usb].boot_a /\ c.boot_b = tab[usb].boot_b
Extended(c) ==
  /\ host.pc = "images" /\ usb = host.args.serial
  /\ \E b \in host.saving : b \in backups /\ Keeps(b, c) /\ c.fw = {tab[usb].fw}

LEMMA HereIsUsb ==
  ASSUME Shape, ChosenInv, Here(usb), host.pc \notin Early
  PROVE  usb \in Tablets /\ usb = host.args.serial /\ \A t \in Tablets : Here(t) => t = usb
  BY DEF Shape, TypeOK, ChosenInv

LEMMA BackupSteps ==
  ASSUME Shape, ChosenInv, SavingInv, [Next]_vars
  PROVE  \/ backups' = backups
         \/ Advanced /\ \E c : backups' = backups \cup {c} /\ Complete(c)
         \/ Advanced /\ \E c : backups' = (backups \ host.saving) \cup {c} /\ Extended(c)
            /\ tab[usb].fw # "stock" /\ ~host.args.nobackup
<1>1. CASE Held \/ Ended
  BY <1>1 DEF Held, Ended
<1>2. CASE Begun
  BY <1>2, BegunCases DEF BegunOn, Shape, TypeOK
<1>3. CASE Advanced /\ host.pc = "backup tail"
  <2> DEFINE c == [Saving EXCEPT !.tail = tab[usb].tail]
  <2>1. backups' = backups \cup {c} /\ Here(usb) /\ Allowed(host.pc, tab[usb])
    BY <1>3 DEF Advanced, AdvancedData, RemoteSteps, SavingSteps
  <2>2. usb \in Tablets /\ usb = host.args.serial
    BY <1>3, <2>1, HereIsUsb DEF Early
  <2>3. host.saving # {}
    BY <1>3 DEF Shape, BackupShape, RemoteSteps, SavingSteps
  <2>4. /\ Saving.serial = usb /\ Saving.boot_a = tab[usb].boot_a /\ Saving.boot_b = tab[usb].boot_b
        /\ Saving.head = tab[usb].head
    BY <1>3, <2>1, <2>2, <2>3, SavingIs DEF SavingInv, SavingSteps
  <2>5. BackupFieldsOK(Saving) /\ DOMAIN tab[usb].tail = TableFields
    BY <2>2, <2>3, SavingIs DEF Shape, BackupShape, BackupFieldsOK, TabletShape
  <2>6. c.head = Saving.head /\ c.tail = tab[usb].tail /\ c.serial = Saving.serial /\ c.boot_a = Saving.boot_a
        /\ c.boot_b = Saving.boot_b
    BY <2>5, TailSaved
  <2>7. tab[usb].head # Torn
    BY <1>3, <2>1 DEF Allowed, Readable
  <2> HIDE DEF c
  <2>8. Complete(c)
    BY <1>3, <2>1, <2>2, <2>4, <2>6, <2>7 DEF Complete
  <2>9. QED
    BY <1>3, <2>1, <2>8
<1>4. CASE Advanced /\ host.pc = "images"
  <2>1. ImagesDone /\ Here(usb)
    BY <1>4 DEF Advanced, AdvancedData, RemoteSteps
  <2>2. CASE backups' = backups
    BY <2>2
  <2>3. CASE backups' # backups
    <3> DEFINE c == [Saving EXCEPT !.fw = {tab[usb].fw}]
    <3>1. backups' = (backups \ host.saving) \cup {c} /\ tab[usb].fw # "stock" /\ ~host.args.nobackup
      BY <2>1, <2>3 DEF ImagesDone
    <3>2. host.saving # {}
      BY <1>4, <3>1 DEF Shape, BackupShape, RemoteSteps
    <3>3. Saving \in host.saving /\ Saving \in backups /\ Saving.fw = {} /\ BackupFieldsOK(Saving)
      BY <1>4, <3>2, SavingIs DEF SavingInv, Shape, BackupShape, BackupFieldsOK
    <3>4. /\ c.head = Saving.head /\ c.tail = Saving.tail /\ c.serial = Saving.serial /\ c.boot_a = Saving.boot_a
          /\ c.boot_b = Saving.boot_b /\ c.fw = {tab[usb].fw}
      BY <3>3, FirmwareSaved
    <3>5. usb = host.args.serial
      BY <1>4, <2>1, HereIsUsb DEF Early
    <3> HIDE DEF c
    <3>6. Extended(c)
      BY <1>4, <3>3, <3>4, <3>5 DEF Extended, Keeps
    <3>7. QED
      BY <1>4, <3>1, <3>6
  <2>4. QED
    BY <2>2, <2>3
<1>5. CASE Advanced /\ host.pc \notin {"backup tail", "images"}
  BY <1>5 DEF Advanced, AdvancedFields
<1>6. QED
  BY <1>1, <1>2, <1>3, <1>4, <1>5, HostSteps

\* No complete backup is lost, whatever happens.
LEMMA BackupsKept ==
  ASSUME Shape, ChosenInv, SavingInv, [Next]_vars
  PROVE  \A b \in backups : \E c \in backups' : Keeps(b, c)
<1>1. \A b : Keeps(b, b)
  BY DEF Keeps
<1>2. ASSUME NEW c, backups' = (backups \ host.saving) \cup {c}, Extended(c)
      PROVE  \A b \in backups : \E d \in backups' : Keeps(b, d)
  <2>1. \A b \in host.saving : Keeps(b, c)
    BY <1>2 DEF Extended, SavingInv
  <2>2. QED
    BY <1>1, <1>2, <2>1
<1>3. QED
  BY <1>1, <1>2, BackupSteps

LEMMA SavedKept ==
  ASSUME Shape, ChosenInv, SavingInv, [Next]_vars, NEW t
  PROVE  /\ Saved(t) => Saved(t)'
         /\ FirmwareBackup(t) => FirmwareBackup(t)'
<1>1. \A b \in backups : \E c \in backups' : Keeps(b, c)
  BY BackupsKept
<1>2. factory' = factory
  BY HostSteps, BegunCases DEF Held, Ended, Advanced, BegunOn, Shape, TypeOK
<1>3. {"old"} # {}
  OBVIOUS
<1>4. QED
  BY <1>1, <1>2, <1>3 DEF Saved, FactoryBackup, FirmwareBackup, Keeps

LEMMA SavingKept ==
  ASSUME Shape, ChosenInv, SavingInv, [Next]_vars
  PROVE  SavingInv'
<1>1. \A t \in Tablets : Row(t)
  BY TabletRows
<1> DEFINE Empty == host'.pc \in Early \cup {"backup boots"} => host'.saving = {}
           Stored == host'.pc \in SplitSteps \cup {"report", "verify", "images"} => host'.saving \subseteq backups'
           One1 == \A b \in host'.saving :
                     /\ host'.saving = {b} /\ b.serial = host'.args.serial /\ b.fw = {}
                     /\ \A t \in Tablets : Here(t)' /\ host'.pc \in SavingSteps =>
                          /\ b.boot_a = tab'[t].boot_a /\ b.boot_b = tab'[t].boot_b
                          /\ host'.pc = "backup tail" => b.head = tab'[t].head
           Good == Empty /\ Stored /\ One1
<1>2. ASSUME host'.saving = {} PROVE Good
  BY <1>2
<1>3. CASE Held
  <2>1. host' = host /\ backups' = backups /\ \A t \in Tablets : Here(t)' => tab'[t] = tab[t] /\ Here(t)
    BY <1>3 DEF Held, Here
  <2>2. Empty /\ Stored
    BY <2>1 DEF SavingInv
  <2>3. \A b \in host'.saving : host'.saving = {b} /\ b.serial = host'.args.serial /\ b.fw = {}
    BY <2>1 DEF SavingInv
  <2>4. \A b \in host'.saving : \A t \in Tablets : Here(t)' /\ host'.pc \in SavingSteps =>
          /\ b.boot_a = tab'[t].boot_a /\ b.boot_b = tab'[t].boot_b
          /\ host'.pc = "backup tail" => b.head = tab'[t].head
    <3> SUFFICES ASSUME NEW b \in host'.saving, NEW t \in Tablets, Here(t)', host'.pc \in SavingSteps
                 PROVE  /\ b.boot_a = tab'[t].boot_a /\ b.boot_b = tab'[t].boot_b
                        /\ host'.pc = "backup tail" => b.head = tab'[t].head
      OBVIOUS
    <3>1. Here(t) /\ tab'[t] = tab[t] /\ b \in host.saving /\ host.pc \in SavingSteps
      BY <2>1
    <3>2. /\ b.boot_a = tab[t].boot_a /\ b.boot_b = tab[t].boot_b
          /\ host.pc = "backup tail" => b.head = tab[t].head
      BY <3>1 DEF SavingInv
    <3>3. host'.pc = host.pc
      BY <2>1
    <3>4. QED
      BY <3>1, <3>2, <3>3
  <2>5. QED
    BY <2>2, <2>3, <2>4 DEF SavingInv
<1>4. CASE Ended \/ Begun
  <2>1. host'.saving = {}
    BY <1>4, IdleFields, BegunCases DEF Ended, BegunOn, Shape, TypeOK
  <2>2. QED
    BY <1>2, <2>1 DEF SavingInv
<1>5. CASE Advanced
  <2>1. /\ Follow(host.pc, host'.pc) /\ host'.args = host.args
        /\ host.pc \notin SavingSteps => host'.saving = host.saving
    BY <1>5 DEF Advanced, AdvancedFields
  <2>2. Empty
    <3>1. host'.pc \in Early \cup {"backup boots"} => host.pc \in Early /\ host.pc \notin SavingSteps
      BY <2>1 DEF Follow, Early, SavingSteps
    <3>2. QED
      BY <2>1, <3>1 DEF SavingInv
  <2>3. \A t \in Tablets : Here(t)' /\ host'.pc \in SavingSteps =>
          /\ Here(t) /\ tab'[t].head = tab[t].head /\ tab'[t].boot_a = tab[t].boot_a /\ tab'[t].boot_b = tab[t].boot_b
    <3> SUFFICES ASSUME NEW t \in Tablets, Here(t)', host'.pc \in SavingSteps
                 PROVE  /\ Here(t) /\ tab'[t].head = tab[t].head
                        /\ tab'[t].boot_a = tab[t].boot_a /\ tab'[t].boot_b = tab[t].boot_b
      OBVIOUS
    <3>1. Here(t)
      BY <1>1, <1>5, HereKept DEF SavingSteps, Early
    <3>2. host.pc \in {"serial", "backup boots", "backup head"}
      BY <2>1 DEF Follow, SavingSteps
    <3>3. TableKept(t) /\ FlashKept(t)
      BY <1>1, <3>2 DEF Row, Applied, RestoredTo, FlashDone, FlashSteps
    <3>4. QED
      BY <3>1, <3>3 DEF TableKept, FlashKept
  <2>4. CASE host.pc \in SavingSteps
    <3>1. Here(usb) /\ usb \in Tablets /\ usb = host.args.serial /\ \A t \in Tablets : Here(t) => t = usb
      <4>1. Here(usb) /\ host.pc \notin Early
        BY <1>5, <2>4 DEF Advanced, AdvancedData, RemoteSteps, SavingSteps, Early
      <4>2. QED
        BY <4>1, HereIsUsb
    <3>2. host.pc # "backup boots" =>
            /\ Saving \in host.saving /\ BackupFieldsOK(Saving) /\ Saving.serial = usb /\ Saving.fw = {}
            /\ Saving.boot_a = tab[usb].boot_a /\ Saving.boot_b = tab[usb].boot_b
            /\ host.pc = "backup tail" => Saving.head = tab[usb].head
      <4>1. host.pc # "backup boots" => host.saving # {}
        BY <2>4 DEF Shape, BackupShape, RemoteSteps, SavingSteps
      <4>2. QED
        BY <2>4, <3>1, <4>1, SavingIs DEF SavingInv, Shape, BackupShape, BackupFieldsOK
    <3>3. DOMAIN tab[usb].head = TableFields /\ DOMAIN tab[usb].tail = TableFields
      BY <3>1 DEF Shape, TabletShape
    <3>4. PICK c : /\ host'.saving = {c} /\ c.serial = usb /\ c.fw = {}
                   /\ c.boot_a = tab[usb].boot_a /\ c.boot_b = tab[usb].boot_b
                   /\ host.pc = "backup head" => c.head = tab[usb].head
                   /\ host.pc = "backup tail" => c \in backups'
      <4>1. CASE host.pc = "backup boots"
        <5>1. host'.saving = {FirstSaving}
          BY <1>5, <4>1 DEF Advanced, AdvancedData
        <5>2. FirstSaving.serial = host.args.serial /\ FirstSaving.fw = {}
              /\ FirstSaving.boot_a = tab[usb].boot_a /\ FirstSaving.boot_b = tab[usb].boot_b
          BY DEF FirstSaving
        <5>3. QED
          BY <3>1, <4>1, <5>1, <5>2
      <4>2. CASE host.pc = "backup head"
        <5> DEFINE c == [Saving EXCEPT !.head = tab[usb].head]
        <5>1. host'.saving = {c}
          BY <1>5, <4>2 DEF Advanced, AdvancedData
        <5>2. c.head = tab[usb].head /\ c.serial = Saving.serial /\ c.boot_a = Saving.boot_a
              /\ c.boot_b = Saving.boot_b /\ c.fw = Saving.fw
          <6>1. BackupFieldsOK(Saving)
            BY <3>2, <4>2
          <6>2. QED
            BY <3>3, <6>1, HeadSaved
        <5> HIDE DEF c
        <5>3. QED
          BY <3>2, <4>2, <5>1, <5>2
      <4>3. CASE host.pc = "backup tail"
        <5> DEFINE c == [Saving EXCEPT !.tail = tab[usb].tail]
        <5>1. host'.saving = {c} /\ c \in backups'
          BY <1>5, <4>3 DEF Advanced, AdvancedData
        <5>2. c.serial = Saving.serial /\ c.boot_a = Saving.boot_a
              /\ c.boot_b = Saving.boot_b /\ c.fw = Saving.fw
          <6>1. BackupFieldsOK(Saving)
            BY <3>2, <4>3
          <6>2. QED
            BY <3>3, <6>1, TailSaved
        <5> HIDE DEF c
        <5>3. QED
          BY <3>2, <4>3, <5>1, <5>2
      <4>4. QED
        BY <2>4, <4>1, <4>2, <4>3 DEF SavingSteps
    <3>5. One1
      <4>1. host'.pc = "backup tail" => host.pc = "backup head"
        BY <2>1, <2>4 DEF Follow, SavingSteps
      <4>2. \A t \in Tablets : Here(t)' /\ host'.pc \in SavingSteps =>
              /\ c.boot_a = tab'[t].boot_a /\ c.boot_b = tab'[t].boot_b
              /\ host'.pc = "backup tail" => c.head = tab'[t].head
        BY <2>3, <3>1, <3>4, <4>1
      <4>3. QED
        BY <2>1, <3>1, <3>4, <4>2
    <3>6. Stored
      <4>1. host'.pc \in SplitSteps \cup {"report", "verify", "images"} => host.pc = "backup tail"
        BY <2>1, <2>4 DEF Follow, SavingSteps, SplitSteps
      <4>2. QED
        BY <3>4, <4>1
    <3>7. QED
      BY <2>2, <3>5, <3>6 DEF SavingInv
  <2>5. CASE host.pc \notin SavingSteps
    <3>1. host'.saving = host.saving
      BY <2>1, <2>5
    <3>2. host'.pc \in SavingSteps => host.saving = {}
      <4>1. host'.pc \in SavingSteps => host.pc = "serial"
        BY <2>1, <2>5 DEF Follow, SavingSteps
      <4>2. QED
        BY <4>1 DEF SavingInv, Early
    <3>3. One1
      BY <2>1, <3>1, <3>2 DEF SavingInv
    <3>4. Stored
      <4> SUFFICES ASSUME host'.pc \in SplitSteps \cup {"report", "verify", "images"} PROVE Stored
        OBVIOUS
      <4>1. host.pc \in SplitSteps \cup {"report", "verify"} \/ host.pc = "serial"
        BY <2>1, <2>5 DEF Follow, SplitSteps, SavingSteps
      <4>2. host.saving \subseteq backups
        BY <4>1 DEF SavingInv, Early
      <4>3. backups' = backups
        BY <1>5, <4>1 DEF Advanced, AdvancedFields, SplitSteps
      <4>4. QED
        BY <3>1, <4>2, <4>3
    <3>5. QED
      BY <2>2, <3>3, <3>4 DEF SavingInv
  <2>6. QED
    BY <2>4, <2>5
<1>6. QED
  BY <1>3, <1>4, <1>5, HostSteps

LEMMA Constants ==
  ASSUME Shape, [Next]_vars
  PROVE  factory' = factory
  BY HostSteps, BegunCases DEF Held, Ended, Advanced, BegunOn, Shape, TypeOK

LEMMA FactoryIs ==
  ASSUME FactoryTables, Shape, NEW t \in Tablets
  PROVE  /\ DOMAIN factory[t] = TableFields /\ ~Marked(factory[t]) /\ factory[t] # Torn
<1>1. factory[t] \in Tables
  BY DEF Shape, BackupShape
<1>2. DOMAIN factory[t] = TableFields
  BY <1>1, TablesAssumption DEF IsTable, TableFields
<1>3. QED
  BY <1>1, <1>2, StockTables DEF FactoryTables

\* A tablet whose table or whose boot partitions a step writes to is saved.
LEMMA WriteSaved ==
  ASSUME Safe, Store, NEW t \in Tablets, Row(t),
         ~TableKept(t) \/ tab'[t].boot_a # tab[t].boot_a \/ tab'[t].boot_b # tab[t].boot_b
  PROVE  Saved(t)
<1>1. CASE Applied(t)
  <2>1. t = host.args.serial /\ host.pc = "apply"
    BY <1>1 DEF Applied, Writing, Safe, ChosenInv, Early
  <2>2. host.args.restore = {}
    BY <2>1 DEF Safe, Shape, BackupShape, Early
  <2>3. QED
    BY <2>1, <2>2 DEF Store, BackupInv, Early, SavingSteps
<1>2. CASE RestoredTo(t)
  <2>1. t = host.args.serial /\ host.pc = "restore" /\ Allowed(host.pc, tab[t])
    BY <1>2 DEF RestoredTo, Writing, Safe, ChosenInv, Early
  <2>2. TheBackup.serial = t
    BY <2>1 DEF Allowed
  <2>3. TheBackup \in backups
    BY <2>1, TheBackupIs DEF Safe, Shape
  <2>4. QED
    BY <2>2, <2>3 DEF Store, BackupInv
<1>3. CASE FlashDone(t)
  <2>1. t = host.args.serial /\ host.pc \in FlashSteps
    BY <1>3 DEF FlashDone
  <2>2. host.pc \notin Early \cup SavingSteps /\ host.pc \notin {"restore", "reboot", "report"}
    BY <2>1 DEF FlashSteps, Early, SavingSteps
  <2>3. host.args.restore = {}
    BY <2>2 DEF Safe, Shape, BackupShape
  <2>4. QED
    BY <2>1, <2>2, <2>3 DEF Store, BackupInv
<1>4. QED
  BY <1>1, <1>2, <1>3 DEF Row, FlashKept

LEMMA BackupKept ==
  ASSUME FactoryTables, Safe, Store, [Next]_vars
  PROVE  BackupInv'
<1> USE DEF Safe
<1>1. (\A t \in Tablets : Row(t)) /\ factory' = factory /\ usb \in Tablets
  BY TabletRows, Constants DEF Shape, TypeOK
<1>2. \A t : (Saved(t) => Saved(t)')
  BY SavedKept DEF Store
<1>3. ASSUME NEW t \in Tablets
      PROVE  Saved(t)' \/ (Untouched(t)' /\ \A b \in backups' : b.serial # t)
  <2>1. CASE Saved(t)
    BY <1>2, <2>1
  <2>2. CASE ~Saved(t)
    <3>1. Untouched(t) /\ \A b \in backups : b.serial # t
      BY <2>2 DEF Store, BackupInv
    <3>2. TableKept(t) /\ tab'[t].boot_a = tab[t].boot_a /\ tab'[t].boot_b = tab[t].boot_b
      BY <1>1, <2>2, WriteSaved
    <3>3. Untouched(t)'
      BY <1>1, <3>1, <3>2 DEF Untouched, TableKept
    <3>4. ASSUME NEW c, Complete(c), c \in backups', c.serial = t PROVE Saved(t)'
      <4>1. c.head = factory'[t] /\ c.tail = factory'[t] /\ c.boot_a = "stock" /\ c.boot_b = "stock"
        BY <1>1, <3>1, <3>4 DEF Complete, Untouched
      <4>2. QED
        BY <3>4, <4>1 DEF Saved, FactoryBackup
    <3>5. ASSUME NEW c, Extended(c) PROVE c.serial # t
      BY <3>1, <3>5 DEF Extended, Keeps
    <3>6. QED
      BY <3>1, <3>3, <3>4, <3>5, BackupSteps DEF Store
  <2>3. QED
    BY <2>1, <2>2
<1> DEFINE Before == host'.pc \notin Early \cup SavingSteps =>
                       \/ Saved(host.args.serial)' /\ host'.args = host.args
                       \/ (host'.pc = "report" /\ host'.args.nobackup) \/ host'.args.restore # {}
           Waives == host'.pc # "idle" /\ host'.args.nobackup => host'.args.keep
           Good == Before /\ Waives
<1>4. ASSUME Held PROVE Good
  BY <1>2, <1>4 DEF Held, Store, BackupInv
<1>5. ASSUME host'.pc = "idle" PROVE Good
  BY <1>5 DEF Early
<1>6. ASSUME Ended PROVE Good
  <2>1. host'.pc = "idle"
    BY <1>6, IdleFields DEF Ended
  <2>2. QED
    BY <1>5, <2>1
<1>7. ASSUME Begun PROVE Good
  <2>1. PICK a : BegunOn(a)
    BY <1>1, <1>7, BegunCases
  <2>2. host'.pc = "idle" \/ (host'.pc = "fastboot" /\ (host'.args.nobackup => host'.args.keep))
    BY <2>1, IdleFields DEF BegunOn
  <2>3. QED
    BY <1>5, <2>2 DEF Early
<1>8. ASSUME Advanced PROVE Good
  <2>1. Follow(host.pc, host'.pc) /\ host'.args = host.args /\ host.pc # "idle"
    BY <1>8 DEF Advanced, AdvancedFields, Follow
  <2>2. Waives
    BY <2>1 DEF Store, BackupInv
  <2>3. ASSUME host'.pc \notin Early \cup SavingSteps, host.pc \in Early
        PROVE  (host'.pc = "report" /\ host'.args.nobackup) \/ host'.args.restore # {}
    <3>1. host'.pc = AfterSerial
      BY <2>1, <2>3, FollowSaving
    <3>2. QED
      BY <2>1, <2>3, <3>1 DEF AfterSerial, SavingSteps
  <2>4. ASSUME host'.pc \notin Early \cup SavingSteps, host.pc \in SavingSteps
        PROVE  Saved(host.args.serial)'
    <3>1. host.pc = "backup tail"
      BY <2>1, <2>4 DEF Follow, SavingSteps
    <3>2. PICK c \in backups' : c.serial = host.args.serial
      <4>1. host'.saving = {[Saving EXCEPT !.tail = tab[usb].tail]}
            /\ backups' = backups \cup {[Saving EXCEPT !.tail = tab[usb].tail]}
        BY <1>8, <3>1 DEF Advanced, AdvancedData
      <4>2. SavingInv'
        BY SavingKept DEF Store
      <4>3. [Saving EXCEPT !.tail = tab[usb].tail].serial = host.args.serial
        BY <2>1, <4>1, <4>2 DEF SavingInv
      <4>4. QED
        BY <4>1, <4>3
    <3>3. host.args.serial \in Tablets
      BY DEF Shape, TypeOK
    <3>4. QED
      BY <1>3, <2>1, <3>2, <3>3
  <2>5. ASSUME host.pc = "report", host.args.nobackup
        PROVE  Saved(host.args.serial)'
    <3>1. Here(usb) /\ ReportDone
      BY <1>8, <2>5 DEF Advanced, AdvancedData, RemoteSteps
    <3>2. usb = host.args.serial
      BY <2>5, <3>1, HereIsUsb DEF Early
    <3>3. host.args.keep
      BY <2>1, <2>5 DEF Store, BackupInv
    <3>4. DecideOK(tab[usb], host.args)
      <4>1. host.args.keep \in BOOLEAN
        BY DEF Shape, HostShape
      <4>2. QED
        BY <4>1, DecideCases
    <3>5. Classify(ParsePrint(tab[usb].head)) = "split"
      BY <3>1, <3>3, <3>4 DEF ReportDone, DecideOK
    <3>6. Marked(tab[usb].head)
      BY <1>1, <3>5, SplitTables DEF Shape, TabletShape
    <3>7. Saved(usb)
      BY <1>1, <3>6, FactoryIs DEF Store, BackupInv, Untouched
    <3>8. QED
      BY <1>2, <2>1, <3>2, <3>7
  <2>6. Before
    <3>1. CASE host.pc \in Early
      BY <2>3, <3>1
    <3>2. CASE host.pc \in SavingSteps
      BY <2>1, <2>4, <3>2
    <3>3. CASE host.pc \notin Early \cup SavingSteps
      <4>1. Saved(host.args.serial) \/ (host.pc = "report" /\ host.args.nobackup) \/ host.args.restore # {}
        BY <3>3 DEF Store, BackupInv
      <4>2. QED
        BY <1>2, <2>1, <2>5, <4>1
    <3>4. QED
      BY <3>1, <3>2, <3>3
  <2>7. QED
    BY <2>2, <2>6
<1>9. Good
  BY <1>4, <1>6, <1>7, <1>8, HostSteps
<1>10. QED
  BY <1>3, <1>9 DEF BackupInv, Saved, FactoryBackup

\* The heads.
LEMMA KnownRow ==
  ASSUME Safe, KnownInv, [Next]_vars, NEW t \in Tablets
  PROVE  tab'[t].head \in {factory[t], Torn} \/ Marked(tab'[t].head)
<1>1. Row(t)
  BY TabletRows DEF Safe
<1>2. tab[t].head \in {factory[t], Torn} \/ Marked(tab[t].head)
  BY DEF KnownInv
<1>3. CASE TableKept(t)
  BY <1>2, <1>3 DEF TableKept
<1>4. CASE Applied(t)
  <2>1. host.pc = "apply" /\ DOMAIN tab[t].head = TableFields
    BY <1>4 DEF Applied, Writing, Safe, Shape, TabletShape
  <2>2. Marked(Sgdisk(tab[t].head, TheArgs))
    BY <2>1, AppliedMarked DEF Safe, HomeInv, SplitSteps
  <2>3. tab'[t].head \in {Sgdisk(tab[t].head, TheArgs), Torn, tab[t].head}
    BY <1>4 DEF Applied
  <2>4. QED
    BY <1>2, <2>2, <2>3
<1>5. CASE RestoredTo(t)
  <2>1. t = host.args.serial /\ host.pc = "restore" /\ Allowed(host.pc, tab[t])
    BY <1>5 DEF RestoredTo, Writing, Safe, ChosenInv, Early
  <2>2. TheBackup.serial = t /\ TheBackup \in backups
    BY <2>1, TheBackupIs DEF Allowed, Safe, Shape
  <2>3. TheBackup.head = factory[t] \/ Marked(TheBackup.head)
    BY <2>2 DEF KnownInv
  <2>4. tab'[t].head \in {TheBackup.head, Torn, tab[t].head}
    BY <1>5 DEF RestoredTo
  <2>5. QED
    BY <1>2, <2>3, <2>4
<1>6. QED
  BY <1>1, <1>3, <1>4, <1>5 DEF Row

LEMMA KnownKept ==
  ASSUME Safe, SavingInv, KnownInv, [Next]_vars
  PROVE  KnownInv'
<1>1. factory' = factory
  BY Constants DEF Safe
<1>2. \A t \in Tablets : tab'[t].head \in {factory'[t], Torn} \/ Marked(tab'[t].head)
  BY <1>1, KnownRow
<1>3. \A b \in backups' : b.head = factory'[b.serial] \/ Marked(b.head)
  <2>1. \A b \in backups : b.head = factory[b.serial] \/ Marked(b.head)
    BY DEF KnownInv
  <2>2. ASSUME NEW c, Complete(c) PROVE c.head = factory[c.serial] \/ Marked(c.head)
    BY <2>2 DEF Complete, KnownInv, Safe, Shape, TypeOK
  <2>3. ASSUME NEW c, Extended(c) PROVE c.head = factory[c.serial] \/ Marked(c.head)
    BY <2>1, <2>3 DEF Extended, Keeps
  <2>4. QED
    BY <1>1, <2>1, <2>2, <2>3, BackupSteps DEF Safe
<1>4. QED
  BY <1>2, <1>3 DEF KnownInv, Marked, Named

\* A stock table on a tablet is the one it came with.
LEMMA StockIsFactory ==
  ASSUME Shape, KnownInv, NEW t \in Tablets, StockHead(t)
  PROVE  tab[t].head = factory[t] /\ factory[t] \in Tables
<1>1. DOMAIN tab[t].head = TableFields /\ factory[t] \in Tables
  BY DEF Shape, TabletShape, BackupShape
<1>2. QED
  BY <1>1, StockTables DEF StockHead, KnownInv

\* A torn tail comes under a head of the factory's, which is written after it.
LEMMA TableRow ==
  ASSUME FactoryTables, Safe, Store, [Next]_vars, NEW t \in Tablets
  PROVE  t \in another \/ tab'[t].tail # Torn \/ tab'[t].head = factory[t]
<1>1. Row(t)
  BY TabletRows DEF Safe
<1>2. t \in another \/ tab[t].tail # Torn \/ tab[t].head = factory[t]
  BY DEF Store, TableInv
<1>3. DOMAIN tab[t].head = TableFields
  BY DEF Safe, Shape, TabletShape
<1>4. CASE TableKept(t)
  BY <1>2, <1>4 DEF TableKept
<1>5. CASE Applied(t)
  <2> DEFINE new == Sgdisk(tab[t].head, TheArgs)
  <2>1. host.pc = "apply" /\ Here(t)
    BY <1>5 DEF Applied, Writing
  <2>2. Marked(new)
    BY <1>3, <2>1, AppliedMarked DEF Safe, HomeInv, SplitSteps
  <2>3. ~Marked(Torn)
    BY DEF Marked, Named, Torn
  <2>4. tab[t].head = factory[t]
    <3>1. StockHead(t)
      BY <2>1 DEF Safe, HomeInv, SplitSteps
    <3>2. QED
      BY <3>1, StockIsFactory DEF Safe, Store
  <2>5. \/ tab'[t].head = new /\ tab'[t].tail = new
        \/ tab'[t].head = Torn /\ tab'[t].tail = new
        \/ tab'[t].head = tab[t].head
    BY <1>5 DEF Applied
  <2> HIDE DEF new
  <2>6. QED
    BY <2>2, <2>3, <2>4, <2>5
<1>6. CASE RestoredTo(t)
  <2> DEFINE b == TheBackup
  <2>1. t = host.args.serial /\ host.pc = "restore"
    BY <1>6 DEF RestoredTo, Writing, Safe, ChosenInv, Early
  <2>2. b \in host.args.restore
    BY <2>1, TheBackupIs DEF Safe, Shape
  <2>3. t \in another \/ (b.head = factory[t] /\ b.tail = factory[t])
    <3>1. t \in another \/ {b.head, b.tail} = {factory[t]}
      BY <2>1, <2>2 DEF Store, TableInv
    <3>2. QED
      BY <3>1
  <2>4. \/ tab'[t].head = b.head
        \/ /\ tab'[t].head \in {Torn, tab[t].head} /\ tab'[t].tail = tab[t].tail
           /\ tab[t].head = b.head => tab'[t].head = b.head
    BY <1>6 DEF RestoredTo
  <2> HIDE DEF b
  <2>5. QED
    BY <1>2, <2>3, <2>4
<1>7. QED
  BY <1>1, <1>4, <1>5, <1>6 DEF Row

LEMMA TableKeptInv ==
  ASSUME FactoryTables, Safe, Store, [Next]_vars
  PROVE  TableInv'
<1> USE DEF Safe
<1>1. factory' = factory /\ usb \in Tablets
  BY Constants DEF Shape, TypeOK
<1>2. another \subseteq another'
  <2>1. CASE Begun
    BY <1>1, <2>1, BegunCases DEF BegunOn, history
  <2>2. QED
    BY <2>1, RestoredGrows
<1>3. \A t \in Tablets : t \in another' \/ tab'[t].tail # Torn \/ tab'[t].head = factory'[t]
  BY <1>1, <1>2, TableRow
<1>4. host'.pc # "idle" => \A b \in host'.args.restore :
        host'.args.serial \in another' \/ {b.head, b.tail} = {factory'[host'.args.serial]}
  <2> DEFINE Good == host'.pc # "idle" => \A b \in host'.args.restore :
                       host'.args.serial \in another' \/ {b.head, b.tail} = {factory[host'.args.serial]}
  <2>1. host'.args = host.args /\ host.pc # "idle" => Good
    BY <1>2 DEF Store, TableInv
  <2>2. Held => Good
    BY <1>2 DEF Held, Store, TableInv
  <2>3. Ended => Good
    BY IdleFields DEF Ended
  <2>4. Advanced => Good
    BY <2>1 DEF Advanced, AdvancedFields, Follow
  <2>5. ASSUME Begun PROVE Good
    <3>1. PICK a : BegunOn(a)
      BY <1>1, <2>5, BegunCases
    <3>2. \/ host' = Idle("refused")
          \/ /\ host'.args = a
             /\ another' = IF \A b \in a.restore : {b.head, b.tail} = {factory[a.serial]} THEN another
                           ELSE another \cup {a.serial}
      BY <3>1 DEF BegunOn
    <3>3. QED
      BY <3>2, IdleFields
  <2> HIDE DEF Good
  <2>6. Good
    BY <2>2, <2>3, <2>4, <2>5, HostSteps
  <2>7. QED
    BY <1>1, <2>6 DEF Good
<1>5. QED
  BY <1>3, <1>4 DEF TableInv

\* The firmware.
LEMMA FirmwareKept ==
  ASSUME Safe, Store, [Next]_vars
  PROVE  FirmwareInv'
<1> USE DEF Safe
<1> DEFINE Waived(t) == t \in waived' \/ \E b \in backups' : b.serial = t /\ b.fw = {"old"}
<1>1. (\A t \in Tablets : Row(t)) /\ usb \in Tablets /\ host.args.serial \in Tablets
  BY TabletRows DEF Shape, TypeOK
<1>2. waived \subseteq waived'
  <2>1. CASE Begun
    BY <1>1, <2>1, BegunCases DEF BegunOn, history
  <2>2. QED
    BY <2>1, RestoredGrows
<1>3. \A t : t \in waived \/ FirmwareBackup(t) => Waived(t)
  BY <1>2, SavedKept DEF Store, FirmwareBackup
<1> HIDE DEF Waived
<1>4. ASSUME NEW t \in Tablets PROVE tab'[t].fw = "old" \/ Waived(t)
  <2>1. CASE tab'[t].fw = tab[t].fw
    BY <1>3, <2>1 DEF Store, FirmwareInv
  <2>2. CASE tab'[t].fw # tab[t].fw
    <3>1. FlashDone(t) /\ host.pc = "firmware"
      BY <1>1, <2>2 DEF Row, FlashKept, FlashDone
    <3>2. QED
      BY <1>3, <3>1 DEF FlashDone, Store, FirmwareInv
  <2>3. QED
    BY <2>1, <2>2
<1> DEFINE Good == /\ host'.fw # "none" => Waived(host'.args.serial)
                   /\ host'.pc = "firmware" => host'.fw # "none"
                   /\ host'.pc # "idle" /\ host'.args.nobackup => host'.args.serial \in waived'
<1>5. ASSUME Held PROVE Good
  BY <1>2, <1>3, <1>5 DEF Held, Store, FirmwareInv
<1>6. ASSUME host'.pc = "idle", host'.fw = "none" PROVE Good
  BY <1>6
<1>7. ASSUME Ended PROVE Good
  BY <1>6, <1>7, IdleFields DEF Ended
<1>8. ASSUME Begun PROVE Good
  <2>1. PICK a : BegunOn(a)
    BY <1>1, <1>8, BegunCases
  <2>2. CASE host' = Idle("refused")
    BY <1>6, <2>2, IdleFields
  <2>3. CASE host'.pc = "fastboot" /\ host'.args = a /\ host'.fw = "none"
             /\ waived' = IF a.nobackup THEN waived \cup {a.serial} ELSE waived
    BY <2>3
  <2>4. QED
    BY <2>1, <2>2, <2>3 DEF BegunOn
<1>9. ASSUME Advanced PROVE Good
  <2>1. Follow(host.pc, host'.pc) /\ host'.args = host.args /\ host.pc # "idle"
        /\ (host.pc # "images" => host'.fw = host.fw)
    BY <1>9 DEF Advanced, AdvancedFields, Follow
  <2>2. host'.args.nobackup => host'.args.serial \in waived'
    BY <1>2, <2>1 DEF Store, FirmwareInv
  <2>3. host'.pc = "firmware" => host'.fw # "none"
    <3>1. AfterSerial # "firmware"
      BY DEF AfterSerial
    <3>2. host'.pc = "firmware" => host.pc = "return" /\ host.fw # "none"
      BY <2>1, <3>1 DEF Follow
    <3>3. QED
      BY <2>1, <3>2
  <2>4. host'.fw # "none" => Waived(host.args.serial)
    <3>1. CASE host.pc # "images"
      BY <1>3, <2>1, <3>1 DEF Store, FirmwareInv
    <3>2. CASE host.pc = "images"
      <4>1. SUFFICES ASSUME host'.fw # "none", ~host.args.nobackup PROVE Waived(host.args.serial)
        BY <1>3, <2>1 DEF Store, FirmwareInv
      <4>2. Here(usb) /\ ImagesDone
        BY <1>9, <3>2 DEF Advanced, AdvancedData, RemoteSteps
      <4>3. usb = host.args.serial
        BY <3>2, <4>2, HereIsUsb DEF Early
      <4>4. CASE tab[usb].fw # "old"
        BY <1>1, <1>3, <4>3, <4>4 DEF Store, FirmwareInv
      <4>5. CASE tab[usb].fw = "old"
        <5> DEFINE c == [Saving EXCEPT !.fw = {tab[usb].fw}]
        <5>1. c \in backups'
          BY <4>1, <4>2 DEF ImagesDone
        <5>2. host.saving # {}
          BY <3>2, <4>1 DEF Shape, BackupShape, RemoteSteps
        <5>3. Saving.serial = host.args.serial /\ BackupFieldsOK(Saving)
          BY <5>2, SavingIs DEF Store, SavingInv, Shape, BackupShape, BackupFieldsOK
        <5>4. c.serial = Saving.serial /\ c.fw = {tab[usb].fw}
          BY <5>3, FirmwareSaved
        <5> HIDE DEF c
        <5>5. QED
          BY <4>5, <5>1, <5>3, <5>4 DEF Waived
      <4>6. QED
        BY <4>4, <4>5
    <3>3. QED
      BY <3>1, <3>2
  <2>5. QED
    BY <2>1, <2>2, <2>3, <2>4
<1>10. Good
  BY <1>5, <1>7, <1>8, <1>9, HostSteps
<1>11. QED
  BY <1>4, <1>10 DEF FirmwareInv, FirmwareBackup, Waived

LEMMA InitStore ==
  ASSUME FactoryTables, Init
  PROVE  Store
<1>1. /\ host.pc = "idle" /\ host.saving = {} /\ host.fw = "none" /\ backups = {}
  BY IdleFields DEF Init
<1>2. ASSUME NEW t \in Tablets PROVE Untouched(t) /\ tab[t].fw = "old" /\ tab[t].tail # Torn
  <2>1. tab[t] = Comes(factory[t]) /\ factory[t] \in Tables
    BY DEF Init
  <2>2. DOMAIN factory[t] = TableFields /\ Classify(ParsePrint(factory[t])) = "stock"
    BY <2>1, TablesAssumption DEF IsTable, TableFields, FactoryTables
  <2>3. factory[t] # Torn
    BY <2>2, StockTables
  <2>4. /\ tab[t].head = factory[t] /\ tab[t].tail = factory[t] /\ tab[t].fw = "old"
        /\ tab[t].boot_a = "stock" /\ tab[t].boot_b = tab[t].boot_a
    BY <2>1, <2>2, ComesShape
  <2>5. QED
    BY <2>3, <2>4 DEF Untouched
<1>3. SavingInv
  BY <1>1 DEF SavingInv
<1>4. BackupInv
  BY <1>1, <1>2 DEF BackupInv, Early
<1>5. KnownInv
  BY <1>1, <1>2 DEF KnownInv, Untouched
<1>6. TableInv
  BY <1>1, <1>2 DEF TableInv, Untouched
<1>7. FirmwareInv
  BY <1>1, <1>2 DEF FirmwareInv
<1>8. QED
  BY <1>3, <1>4, <1>5, <1>6, <1>7 DEF Store

\* The five parts of the invariant are all that Recoverable needs.
LEMMA StoreRecovers ==
  ASSUME FactoryTables, Safe, Store
  PROVE  Recoverable
<1> SUFFICES ASSUME NEW t \in Tablets
             PROVE  /\ tab[t].head # Torn \/ tab[t].tail # Torn \/ t \in another
                    /\ {tab[t].head, tab[t].tail} # {factory[t]} =>
                         \E b \in backups : b.serial = t /\ b.head = factory[t] /\ b.tail = factory[t]
                    /\ \A f \in {"boot_a", "boot_b"} :
                         tab[t][f] # "stock" => \E b \in backups : b.serial = t /\ b[f] = "stock"
                    /\ tab[t].fw = "old" \/ t \in waived \/ \E b \in backups : b.serial = t /\ b.fw = {"old"}
  BY DEF Recoverable
<1>1. tab[t].head # Torn \/ tab[t].tail # Torn \/ t \in another
  <2>1. factory[t] # Torn
    BY FactoryIs DEF Safe
  <2>2. QED
    BY <2>1 DEF Store, TableInv
<1>2. Saved(t) \/ Untouched(t)
  BY DEF Store, BackupInv
<1>3. {tab[t].head, tab[t].tail} # {factory[t]} =>
        \E b \in backups : b.serial = t /\ b.head = factory[t] /\ b.tail = factory[t]
  BY <1>2 DEF Saved, Untouched, FactoryBackup
<1>4. tab[t].boot_a # "stock" => \E b \in backups : b.serial = t /\ b.boot_a = "stock"
  BY <1>2 DEF Saved, Untouched
<1>5. tab[t].boot_b # "stock" => \E b \in backups : b.serial = t /\ b.boot_b = "stock"
  BY <1>2 DEF Saved, Untouched
<1>6. tab[t].fw = "old" \/ t \in waived \/ \E b \in backups : b.serial = t /\ b.fw = {"old"}
  BY DEF Store, FirmwareInv, FirmwareBackup
<1>7. QED
  BY <1>1, <1>3, <1>4, <1>5, <1>6

\* Whatever is interrupted, and however often, on a tablet that came with its
\* factory table: what was overwritten (the table, a boot partition, firmware
\* unless --no-backup waived it) is in a complete backup of this tablet, and one
\* copy of the table is whole.  The manifest is written when a backup is
\* complete, and main comes to no write before that; restore-gpt writes one
\* copy after the other.
THEOREM AlwaysRecoverable == FactoryTables => (Spec => []Recoverable)
<1>1. FactoryTables /\ Init => Safe /\ Store
  BY InitShape, InitChosen, InitHome, InitStore DEF Safe
<1>2. FactoryTables /\ Safe /\ Store /\ [Next]_vars => (Safe /\ Store)'
  <2> SUFFICES ASSUME FactoryTables, Safe, Store, [Next]_vars PROVE (Safe /\ Store)'
    OBVIOUS
  <2>1. Safe'
    BY ShapeKept, ChosenKept, HomeKeptInv DEF Safe
  <2>2. SavingInv'
    BY SavingKept DEF Safe, Store
  <2>3. Store'
    BY <2>2, KnownKept, BackupKept, TableKeptInv, FirmwareKept DEF Store
  <2>4. QED
    BY <2>1, <2>3
<1>3. FactoryTables /\ Safe /\ Store => Recoverable
  BY StoreRecovers
<1>4. SUFFICES ASSUME FactoryTables PROVE Spec => []Recoverable
  OBVIOUS
<1>5. Init => Safe /\ Store
  BY <1>1, <1>4
<1>6. Safe /\ Store /\ [Next]_vars => (Safe /\ Store)'
  BY <1>2, <1>4
<1>7. Safe /\ Store => Recoverable
  BY <1>3, <1>4
<1>8. QED
  BY <1>5, <1>6, <1>7, PTL DEF Spec

-----------------------------------------------------------------------------
(* The arithmetic of the layout.                                             *)

LEMMA Division ==
  ASSUME NEW x \in Int, NEW a \in Nat \ {0}
  PROVE  /\ x \div a \in Int /\ (x % a) \in 0 .. (a - 1) /\ x = (a * (x \div a)) + (x % a)
  OBVIOUS

LEMMA DivisionGrows ==
  ASSUME NEW x \in Int, NEW y \in Int, NEW a \in Nat \ {0}, x <= y
  PROVE  x \div a <= y \div a
  OBVIOUS

LEMMA Multiple ==
  ASSUME NEW k \in Int, NEW a \in Nat \ {0}
  PROVE  (k * a) % a = 0 /\ (k * a) \div a = k /\ k * a \in Int
  OBVIOUS

LEMMA MultipleGrows ==
  ASSUME NEW k \in Int, NEW l \in Int, NEW a \in Nat, k <= l
  PROVE  k * a <= l * a /\ k * a \in Int
  OBVIOUS

LEMMA Divides ==
  ASSUME NEW x \in Int, NEW a \in Nat \ {0}, NEW s \in Nat \ {0}, x % a = 0, a % s = 0
  PROVE  x % s = 0
<1>1. x = (x \div a) * a /\ a = (a \div s) * s /\ x \div a \in Int /\ a \div s \in Int
  BY Division
<1>2. (((x \div a) * (a \div s)) * s) % s = 0
  BY <1>1, Multiple
<1>3. QED
  BY <1>1, <1>2

\* align_up gives the least aligned offset that is not below.
LEMMA AlignIs ==
  ASSUME NEW x \in Int
  PROVE  AlignUp(x) \in Int /\ AlignUp(x) >= x /\ AlignUp(x) % ALIGNMENT = 0
<1> DEFINE q == (x + ALIGNMENT - 1) \div ALIGNMENT
           r == (x + ALIGNMENT - 1) % ALIGNMENT
<1>1. ALIGNMENT \in Nat \ {0}
  BY LayoutAssumption
<1>2. q \in Int /\ r \in 0 .. (ALIGNMENT - 1) /\ x + ALIGNMENT - 1 = (ALIGNMENT * q) + r
  BY <1>1, Division
<1>3. AlignUp(x) = q * ALIGNMENT
  BY DEF AlignUp
<1> HIDE DEF q, r
<1> DEFINE m == q * ALIGNMENT
<1>4. m \in Int /\ m % ALIGNMENT = 0
  BY <1>1, <1>2, Multiple
<1>5. x + ALIGNMENT - 1 = m + r
  BY <1>1, <1>2
<1>6. AlignUp(x) = m
  BY <1>3
<1> HIDE DEF m
<1>7. m >= x
  BY <1>1, <1>2, <1>4, <1>5
<1>8. QED
  BY <1>4, <1>6, <1>7

LEMMA AlignLeast ==
  ASSUME NEW x \in Int, NEW z \in Int, z >= x, z % ALIGNMENT = 0
  PROVE  AlignUp(x) <= z
<1> DEFINE q == (x + ALIGNMENT - 1) \div ALIGNMENT
           k == z \div ALIGNMENT
<1>1. ALIGNMENT \in Nat \ {0}
  BY LayoutAssumption
<1>2. k \in Int /\ z = k * ALIGNMENT
  BY <1>1, Division
<1>3. (z + ALIGNMENT - 1) \div ALIGNMENT = k
  BY <1>1, <1>2
<1>4. q \in Int /\ q <= (z + ALIGNMENT - 1) \div ALIGNMENT
  <2>1. /\ x + ALIGNMENT - 1 \in Int /\ z + ALIGNMENT - 1 \in Int
        /\ x + ALIGNMENT - 1 <= z + ALIGNMENT - 1
    BY <1>1
  <2>2. QED
    BY <1>1, <2>1, DivisionGrows, Division
<1>5. AlignUp(x) = q * ALIGNMENT
  BY DEF AlignUp
<1> HIDE DEF q, k
<1>6. QED
  BY <1>1, <1>2, <1>3, <1>4, <1>5, MultipleGrows

\* A size is a number of bytes, or refused.
LEMMA ParseSizeIs ==
  ASSUME NEW size, IsSize(size), NEW region \in Nat
  PROVE  ParseSize(size, region) \in Nat \cup {Malformed}
<1>1. CASE size.unit = "%" /\ size.n \in 0 .. 100
  <2>1. size.n \in Nat /\ region * size.n \in Nat
    BY <1>1
  <2>2. (region * size.n) \div 100 \in Nat
    BY <2>1
  <2>3. QED
    BY <1>1, <2>2 DEF ParseSize
<1>2. QED
  BY <1>1 DEF ParseSize, IsSize

-----------------------------------------------------------------------------
(* The plan of a table that was read.                                        *)

\* What the plan needs of a table: a userdata, once, in the usable sectors.
Plain(disk) ==
  /\ disk.sector \in Nat \ {0} /\ disk.last \in Nat
  /\ Named(disk, "userdata") # {} /\ ~Twice(disk, "userdata")
  /\ \A p \in Named(disk, "userdata") : p.first \in Nat /\ p.last \in p.first .. disk.last

LEMMA ReadPlain ==
  ASSUME NEW table, IsTable(table), Classify(ParsePrint(table)) = "stock"
  PROVE  Plain(ParsePrint(table)) /\ ParsePrint(table).sector = table.sector
<1> DEFINE disk == ParsePrint(table)
<1>1. /\ disk.sector = table.sector /\ disk.last = table.last /\ disk.parts \subseteq table.parts
  BY DEF ParsePrint, IsTable
<1>2. Named(disk, "userdata") \subseteq table.parts
  BY <1>1 DEF Named
<1>3. Named(disk, "userdata") # {} /\ ~Twice(disk, "userdata")
  BY DEF Classify, IsStock
<1> HIDE DEF disk
<1>4. Plain(disk) /\ disk.sector = table.sector
  BY <1>1, <1>2, <1>3 DEF Plain, IsTable
<1>5. QED
  BY <1>4 DEF disk

\* Where the tail starts and where it ends, in bytes.
TailStart(disk) == Start(disk, ByName(disk, "userdata"))

LEMMA TailIs ==
  ASSUME NEW disk, Plain(disk)
  PROVE  /\ ByName(disk, "userdata") \in Named(disk, "userdata")
         /\ TailStart(disk) \in Nat /\ UsableEnd(disk) \in Nat /\ Region(disk) \in Nat
         /\ TailStart(disk) % disk.sector = 0 /\ UsableEnd(disk) % disk.sector = 0
<1> DEFINE p == ByName(disk, "userdata")
<1>1. p \in Named(disk, "userdata")
  BY DEF Plain, ByName
<1>2. p.first \in Nat /\ p.last \in p.first .. disk.last /\ disk.last \in Nat /\ disk.sector \in Nat \ {0}
  BY <1>1 DEF Plain
<1>3. TailStart(disk) = p.first * disk.sector /\ UsableEnd(disk) = (disk.last + 1) * disk.sector
  BY DEF TailStart, Start, UsableEnd
<1> HIDE DEF p
<1>4. 0 * disk.sector = 0
  BY <1>2
<1>5. p.first \in Int /\ disk.last + 1 \in Int /\ 0 <= p.first /\ p.first <= disk.last + 1
  BY <1>2
<1>6. 0 <= p.first * disk.sector /\ p.first * disk.sector <= (disk.last + 1) * disk.sector
  BY <1>2, <1>4, <1>5, MultipleGrows
<1>7. p.first * disk.sector \in Int /\ (disk.last + 1) * disk.sector \in Int
  BY <1>2, <1>5, Multiple
<1>8. TailStart(disk) % disk.sector = 0 /\ UsableEnd(disk) % disk.sector = 0
  BY <1>2, <1>3, <1>5, Multiple
<1>9. Region(disk) = UsableEnd(disk) - TailStart(disk)
  BY DEF Region, TailStart
<1>10. QED
  BY <1>1, <1>3, <1>6, <1>7, <1>8, <1>9 DEF p

\* The two boundaries that are computed, and the three entries.
Cursor(disk, android) == AlignUp(TailStart(disk) + android)
RootEnd(disk, android, root) == AlignUp(Cursor(disk, android) + root)
First(disk, android) ==
  LET userdata == ByName(disk, "userdata")
  IN IF android > 0 THEN Entry(userdata.number, "userdata", TailStart(disk), Cursor(disk, android), "shrink")
     ELSE Entry(userdata.number, "userdata", TailStart(disk), UsableEnd(disk), "delete")
Second(disk, android, root) ==
  Entry(ROOT_NUMBER, "linux_root", Cursor(disk, android), RootEnd(disk, android, root), "create")
Third(disk, android, root) ==
  Entry(HOME_NUMBER, "linux_home", RootEnd(disk, android, root), UsableEnd(disk), "create")

\* The sizes are allowed, and the plan leaves room for the home.
Legal(mode, android, root) ==
  root >= MIN_ROOT /\ (android = 0 => mode # "dual") /\ (android # 0 => android >= MIN_ANDROID)
Room(disk, android, root) == RootEnd(disk, android, root) + MIN_HOME <= UsableEnd(disk)

LEMMA CutsAre ==
  ASSUME NEW disk, Plain(disk), NEW android \in Nat, NEW root \in Nat
  PROVE  /\ Cursor(disk, android) \in Int /\ Cursor(disk, android) >= TailStart(disk) + android
         /\ Cursor(disk, android) % ALIGNMENT = 0
         /\ RootEnd(disk, android, root) \in Int /\ RootEnd(disk, android, root) >= Cursor(disk, android) + root
         /\ RootEnd(disk, android, root) % ALIGNMENT = 0
<1>1. TailStart(disk) + android \in Int
  BY TailIs
<1>2. /\ Cursor(disk, android) \in Int /\ Cursor(disk, android) >= TailStart(disk) + android
      /\ Cursor(disk, android) % ALIGNMENT = 0
  BY <1>1, AlignIs DEF Cursor
<1>3. Cursor(disk, android) + root \in Int
  BY <1>2
<1>4. /\ RootEnd(disk, android, root) \in Int /\ RootEnd(disk, android, root) >= Cursor(disk, android) + root
      /\ RootEnd(disk, android, root) % ALIGNMENT = 0
  BY <1>3, AlignIs DEF RootEnd
<1>5. QED
  BY <1>2, <1>4

LEMMA CutsLeast ==
  ASSUME NEW disk, Plain(disk), NEW android \in Nat, NEW root \in Nat, NEW y \in Int, NEW z \in Int,
         y >= TailStart(disk) + android, y % ALIGNMENT = 0, z >= y + root, z % ALIGNMENT = 0
  PROVE  Cursor(disk, android) <= y /\ RootEnd(disk, android, root) <= z
<1>1. TailStart(disk) + android \in Int
  BY TailIs
<1>2. Cursor(disk, android) \in Int /\ Cursor(disk, android) <= y
  BY <1>1, AlignIs, AlignLeast DEF Cursor
<1>3. Cursor(disk, android) + root \in Int /\ Cursor(disk, android) + root <= z
  BY <1>2
<1>4. RootEnd(disk, android, root) <= z
  BY <1>3, AlignLeast DEF RootEnd
<1>5. QED
  BY <1>2, <1>4

\* The whole sectors follow from the alignment.
LEMMA CutsWhole ==
  ASSUME NEW disk, Plain(disk), NEW android \in Nat, NEW root \in Nat, ALIGNMENT % disk.sector = 0
  PROVE  /\ WholeSectors(disk, First(disk, android))
         /\ WholeSectors(disk, Second(disk, android, root)) /\ WholeSectors(disk, Third(disk, android, root))
<1>1. ALIGNMENT \in Nat \ {0} /\ disk.sector \in Nat \ {0}
  BY LayoutAssumption DEF Plain
<1>2. Cursor(disk, android) % disk.sector = 0 /\ RootEnd(disk, android, root) % disk.sector = 0
  <2>1. /\ Cursor(disk, android) \in Int /\ Cursor(disk, android) % ALIGNMENT = 0
        /\ RootEnd(disk, android, root) \in Int /\ RootEnd(disk, android, root) % ALIGNMENT = 0
    BY CutsAre
  <2>2. QED
    BY <1>1, <2>1, Divides
<1>3. TailStart(disk) % disk.sector = 0 /\ UsableEnd(disk) % disk.sector = 0
  BY TailIs
<1>4. QED
  BY <1>2, <1>3 DEF WholeSectors, First, Second, Third, Entry

Refused(disk, mode, android, root) ==
  \/ Malformed \in {android, root} \/ ~Legal(mode, android, root) \/ ~Room(disk, android, root)
  \/ ~WholeSectors(disk, Second(disk, android, root)) \/ ~WholeSectors(disk, Third(disk, android, root))
  \/ android > 0 /\ ~WholeSectors(disk, First(disk, android))

LEMMA PlanIs ==
  ASSUME NEW disk, Plain(disk), NEW mode, NEW android \in Nat \cup {Malformed}, NEW root \in Nat \cup {Malformed}
  PROVE  PlanLayout(disk, mode, android, root) =
           IF Refused(disk, mode, android, root) THEN <<>>
           ELSE <<First(disk, android), Second(disk, android, root), Third(disk, android, root)>>
<1> DEFINE cursor  == IF android > 0 THEN AlignUp(TailStart(disk) + android) ELSE AlignUp(TailStart(disk))
           rootEnd == AlignUp(cursor + root)
           userdata == ByName(disk, "userdata")
           one == IF android > 0 THEN Entry(userdata.number, "userdata", TailStart(disk), cursor, "shrink")
                  ELSE Entry(userdata.number, "userdata", TailStart(disk), UsableEnd(disk), "delete")
           two == Entry(ROOT_NUMBER, "linux_root", cursor, rootEnd, "create")
           three == Entry(HOME_NUMBER, "linux_home", rootEnd, UsableEnd(disk), "create")
           entries == <<one, two, three>>
           bad == \/ Named(disk, "userdata") = {} \/ Twice(disk, "userdata")
                  \/ Malformed \in {android, root}
                  \/ (mode = "dual" /\ android = 0) \/ android \in 1 .. MIN_ANDROID - 1
                  \/ root < MIN_ROOT \/ rootEnd + MIN_HOME > UsableEnd(disk)
                  \/ \E i \in 1 .. 3 : entries[i].action # "delete" /\ ~WholeSectors(disk, entries[i])
<1>1. PlanLayout(disk, mode, android, root) = IF bad THEN <<>> ELSE entries
  BY Zenon DEF PlanLayout, TailStart
<1>2. CASE Malformed \in {android, root}
  BY <1>1, <1>2 DEF Refused
<1>3. CASE Malformed \notin {android, root}
  <2>1. android \in Nat /\ root \in Nat
    BY <1>3
  <2>2. cursor = Cursor(disk, android) /\ rootEnd = RootEnd(disk, android, root)
    BY <2>1, TailIs DEF Cursor, RootEnd
  <2>3. one = First(disk, android) /\ two = Second(disk, android, root) /\ three = Third(disk, android, root)
    BY <2>2 DEF First, Second, Third, Cursor
  <2>4. entries[1].action # "delete" <=> android > 0
    BY DEF Entry
  <2>5. entries[2].action # "delete" /\ entries[3].action # "delete"
    BY DEF Entry
  <2>6. entries[1] = one /\ entries[2] = two /\ entries[3] = three
    OBVIOUS
  <2> HIDE DEF one, two, three
  <2>7. (\E i \in 1 .. 3 : entries[i].action # "delete" /\ ~WholeSectors(disk, entries[i])) <=>
          \/ ~WholeSectors(disk, two) \/ ~WholeSectors(disk, three) \/ (android > 0 /\ ~WholeSectors(disk, one))
    <3>1. \A i \in 1 .. 3 : i \in {1, 2, 3}
      OBVIOUS
    <3> HIDE DEF entries
    <3>2. QED
      BY <3>1, <2>4, <2>5, <2>6
  <2>8. UsableEnd(disk) \in Nat /\ rootEnd \in Int /\ MIN_HOME \in Nat /\ MIN_ROOT \in Nat /\ MIN_ANDROID \in Nat \ {0}
    BY <2>1, <2>2, TailIs, CutsAre, LayoutAssumption
  <2>9. ~Legal(mode, android, root) <=>
          (mode = "dual" /\ android = 0) \/ android \in 1 .. MIN_ANDROID - 1 \/ root < MIN_ROOT
    BY <2>1, <2>8 DEF Legal
  <2> HIDE DEF cursor, rootEnd, entries
  <2>10. ~Room(disk, android, root) <=> rootEnd + MIN_HOME > UsableEnd(disk)
    BY <2>2, <2>8 DEF Room
  <2>11. Named(disk, "userdata") # {} /\ ~Twice(disk, "userdata")
    BY DEF Plain
  <2>12. bad <=> Refused(disk, mode, android, root)
    BY <1>3, <2>3, <2>7, <2>9, <2>10, <2>11 DEF Refused
  <2>13. entries = <<First(disk, android), Second(disk, android, root), Third(disk, android, root)>>
    BY <2>3 DEF entries
  <2>14. QED
    BY <1>1, <2>12, <2>13
<1>4. QED
  BY <1>2, <1>3

\* The aligned boundaries there are, and the pairs of them that give what was asked.
Cuts(disk) == {n \in TailStart(disk) .. UsableEnd(disk) : n % ALIGNMENT = 0}
Fits(disk, android, root) ==
  {c \in Cuts(disk) \X Cuts(disk) : /\ c[1] >= TailStart(disk) + android /\ c[2] >= c[1] + root
                                    /\ c[2] + MIN_HOME <= UsableEnd(disk)}
LeastOf(disk, mode, android, root, plan) ==
  IF plan = <<>>
  THEN \/ ~Legal(mode, android, root) \/ Fits(disk, android, root) = {}
       \/ ALIGNMENT % disk.sector # 0 \/ Malformed \in {android, root}
  ELSE /\ Legal(mode, android, root) /\ <<plan[2].start, plan[3].start>> \in Fits(disk, android, root)
       /\ \A d \in Fits(disk, android, root) : plan[2].start <= d[1] /\ plan[3].start <= d[2]

LEMMA FitsLeast ==
  ASSUME NEW disk, Plain(disk), NEW android \in Nat, NEW root \in Nat, NEW d \in Fits(disk, android, root)
  PROVE  /\ Cursor(disk, android) <= d[1] /\ RootEnd(disk, android, root) <= d[2]
         /\ Room(disk, android, root)
<1>1. /\ d[1] \in Int /\ d[2] \in Int /\ d[1] % ALIGNMENT = 0 /\ d[2] % ALIGNMENT = 0
      /\ d[1] >= TailStart(disk) + android /\ d[2] >= d[1] + root /\ d[2] + MIN_HOME <= UsableEnd(disk)
  <2>1. TailStart(disk) \in Int /\ UsableEnd(disk) \in Int
    BY TailIs
  <2>2. d \in Cuts(disk) \X Cuts(disk) /\ d[1] >= TailStart(disk) + android /\ d[2] >= d[1] + root
        /\ d[2] + MIN_HOME <= UsableEnd(disk)
    BY DEF Fits
  <2>3. d[1] \in Cuts(disk) /\ d[2] \in Cuts(disk)
    BY <2>2
  <2>4. QED
    BY <2>1, <2>2, <2>3 DEF Cuts
<1>2. Cursor(disk, android) <= d[1] /\ RootEnd(disk, android, root) <= d[2]
  BY <1>1, CutsLeast
<1>3. RootEnd(disk, android, root) \in Int /\ MIN_HOME \in Nat /\ UsableEnd(disk) \in Nat
  BY CutsAre, TailIs, LayoutAssumption
<1>4. Room(disk, android, root)
  BY <1>1, <1>2, <1>3 DEF Room
<1>5. QED
  BY <1>2, <1>4

LEMMA PlanFits ==
  ASSUME NEW disk, Plain(disk), NEW android \in Nat, NEW root \in Nat, Room(disk, android, root)
  PROVE  <<Cursor(disk, android), RootEnd(disk, android, root)>> \in Fits(disk, android, root)
<1> DEFINE c == Cursor(disk, android)
           e == RootEnd(disk, android, root)
           start == TailStart(disk)
           end == UsableEnd(disk)
<1>1. /\ c \in Int /\ c >= start + android /\ c % ALIGNMENT = 0
      /\ e \in Int /\ e >= c + root /\ e % ALIGNMENT = 0
  BY CutsAre
<1>2. start \in Nat /\ end \in Nat /\ MIN_HOME \in Nat
  BY TailIs, LayoutAssumption
<1>3. e + MIN_HOME <= end
  BY DEF Room
<1>4. c \in start .. end /\ e \in start .. end
  <2> HIDE DEF c, e, start, end
  <2>1. QED
    BY <1>1, <1>2, <1>3
<1>5. c \in Cuts(disk) /\ e \in Cuts(disk)
  BY <1>1, <1>4 DEF Cuts
<1> HIDE DEF c, e
<1>6. <<c, e>>[1] = c /\ <<c, e>>[2] = e /\ <<c, e>> \in Cuts(disk) \X Cuts(disk)
  BY <1>5
<1>7. <<c, e>> \in Fits(disk, android, root)
  BY <1>1, <1>3, <1>6 DEF Fits
<1>8. QED
  BY <1>7 DEF c, e

LEMMA PlanLeast ==
  ASSUME NEW disk, Plain(disk), NEW mode, NEW android \in Nat \cup {Malformed}, NEW root \in Nat \cup {Malformed}
  PROVE  LeastOf(disk, mode, android, root, PlanLayout(disk, mode, android, root))
<1> DEFINE plan == PlanLayout(disk, mode, android, root)
           one == First(disk, android)
           two == Second(disk, android, root)
           three == Third(disk, android, root)
<1>1. plan = IF Refused(disk, mode, android, root) THEN <<>> ELSE <<one, two, three>>
  BY PlanIs
<1>2. two.start = Cursor(disk, android) /\ three.start = RootEnd(disk, android, root)
  BY DEF Second, Third, Entry
<1> HIDE DEF plan, one, two, three
<1>3. <<one, two, three>> # <<>> /\ <<one, two, three>>[2] = two /\ <<one, two, three>>[3] = three
  OBVIOUS
<1>4. CASE Refused(disk, mode, android, root)
  <2>1. SUFFICES ASSUME Legal(mode, android, root), Fits(disk, android, root) # {}, ALIGNMENT % disk.sector = 0,
                        Malformed \notin {android, root}
                 PROVE  FALSE
    BY <1>1, <1>4 DEF LeastOf, plan
  <2>2. android \in Nat /\ root \in Nat
    BY <2>1
  <2>3. Room(disk, android, root)
    BY <2>1, <2>2, FitsLeast
  <2>4. WholeSectors(disk, one) /\ WholeSectors(disk, two) /\ WholeSectors(disk, three)
    BY <2>1, <2>2, CutsWhole DEF one, two, three
  <2>5. QED
    BY <1>4, <2>1, <2>3, <2>4 DEF Refused, one, two, three
<1>5. CASE ~Refused(disk, mode, android, root)
  <2>1. Malformed \notin {android, root} /\ Legal(mode, android, root) /\ Room(disk, android, root)
    BY <1>5 DEF Refused
  <2>2. android \in Nat /\ root \in Nat
    BY <2>1
  <2>3. plan # <<>> /\ plan[2].start = Cursor(disk, android) /\ plan[3].start = RootEnd(disk, android, root)
    BY <1>1, <1>2, <1>3, <1>5
  <2>4. <<plan[2].start, plan[3].start>> \in Fits(disk, android, root)
    BY <2>1, <2>2, <2>3, PlanFits
  <2>5. \A d \in Fits(disk, android, root) : plan[2].start <= d[1] /\ plan[3].start <= d[2]
    BY <2>2, <2>3, FitsLeast
  <2>6. LeastOf(disk, mode, android, root, plan)
    BY <2>1, <2>3, <2>4, <2>5 DEF LeastOf
  <2>7. QED
    BY <2>6 DEF plan
<1>6. QED
  BY <1>4, <1>5

-----------------------------------------------------------------------------
(* The plan of a run is the least one.                                       *)

\* A run that installs was asked for on a command line.
RequestInv == host.pc # "idle" /\ host.args.restore = {} => host.args \in Requests

LEMMA RequestKept ==
  ASSUME Shape, RequestInv, [Next]_vars
  PROVE  RequestInv'
<1>1. CASE Held
  BY <1>1 DEF Held, RequestInv
<1>2. CASE Ended
  BY <1>2, IdleFields DEF Ended, RequestInv
<1>3. CASE Advanced
  BY <1>3 DEF Advanced, AdvancedFields, Follow, RequestInv
<1>4. CASE Begun
  <2>1. PICK a : Asked(a) /\ Begin(a)
    BY <1>4 DEF Begun
  <2>2. host' = Idle("refused") \/ host'.args = a
    <3> DEFINE planned == IF a.keep \/ a.restore # {} THEN <<>> ELSE ReferencePlan(a.layout, a.android, a.root)
    <3>1. \/ host' = [Idle("none") EXCEPT !.pc = "fastboot", !.args = a, !.planned = planned]
          \/ Stop("refused")
      BY <2>1, Zenon DEF Begin
    <3> DEFINE i == Idle("none")
               next == [i EXCEPT !.pc = "fastboot", !.args = a, !.planned = planned]
    <3>2. DOMAIN i = HostFields
      BY IdleFields
    <3>3. host' = next \/ host' = Idle("refused")
      BY <3>1 DEF Stop
    <3> HIDE DEF planned, i
    <3>4. next.args = a
      BY <3>2 DEF HostFields
    <3> HIDE DEF next
    <3>5. QED
      BY <3>3, <3>4
  <2>3. a \in Requests \/ a.restore # {}
    <3>1. DOMAIN Nobody = {"serial", "layout", "android", "root", "keep", "nobackup", "restore"}
      BY DEF Nobody
    <3>2. QED
      BY <2>1, <3>1 DEF Asked
  <2>4. QED
    BY <2>2, <2>3, IdleFields DEF RequestInv
<1>5. QED
  BY <1>1, <1>2, <1>3, <1>4, HostSteps

LEMMA SizesAre ==
  ASSUME NEW a \in Requests, NEW region \in Nat
  PROVE  LET sizes == ResolveSizes(a.layout, a.android, a.root, region)
         IN sizes.android \in Nat \cup {Malformed} /\ sizes.root \in Nat \cup {Malformed}
<1> DEFINE android == IF a.android = <<>> THEN Default[a.layout].android ELSE a.android[1]
           root == IF a.root = <<>> THEN Default[a.layout].root ELSE a.root[1]
<1>1. IsSize(android) /\ IsSize(root)
  BY RequestsAssumption, LayoutAssumption
<1>2. ResolveSizes(a.layout, a.android, a.root, region) =
        [android |-> ParseSize(android, region), root |-> ParseSize(root, region)]
  BY DEF ResolveSizes
<1> HIDE DEF android, root
<1>3. ParseSize(android, region) \in Nat \cup {Malformed} /\ ParseSize(root, region) \in Nat \cup {Malformed}
  BY <1>1, ParseSizeIs
<1>4. QED
  BY <1>2, <1>3

LEMMA ReportLeast ==
  ASSUME Shape, KnownInv, RequestInv
  PROVE  PlanIsLeast
<1> SUFFICES ASSUME host.pc = "report", Classify(ParsePrint(tab[usb].head)) = "stock" PROVE PlanIsLeast
  BY DEF PlanIsLeast
<1> DEFINE disk == ParsePrint(tab[usb].head)
           a == host.args
           sizes == ResolveSizes(a.layout, a.android, a.root, Region(disk))
<1>1. usb \in Tablets /\ StockHead(usb)
  BY DEF Shape, TypeOK, StockHead
<1>2. IsTable(tab[usb].head)
  BY <1>1, StockIsFactory, TablesAssumption
<1>3. Plain(disk)
  BY <1>2, ReadPlain
<1>4. a \in Requests
  BY DEF RequestInv, Shape, BackupShape, Early
<1>5. sizes.android \in Nat \cup {Malformed} /\ sizes.root \in Nat \cup {Malformed}
  BY <1>3, <1>4, TailIs, SizesAre
<1>6. PlanOf(tab[usb], a) = PlanLayout(disk, a.layout, sizes.android, sizes.root)
  BY DEF PlanOf, PlanFor
<1> HIDE DEF sizes, disk
<1>7. LeastOf(disk, a.layout, sizes.android, sizes.root, PlanOf(tab[usb], a))
  BY <1>3, <1>5, <1>6, PlanLeast
<1> USE DEF sizes, disk
<1>8. QED
  BY <1>7, Zenon DEF PlanIsLeast, LeastOf, Legal, Fits, Cuts, TailStart

LEMMA InitRequest == Init => RequestInv
  BY IdleFields DEF Init, RequestInv

-----------------------------------------------------------------------------
(* The table that sgdisk makes of a factory table.                           *)

\* A bounded set of numbers has a greatest.
LEMMA Greatest ==
  ASSUME NEW n \in Nat, NEW T, T \subseteq 0 .. n, T # {}
  PROVE  \E x \in T : \A y \in T : y <= x
<1> DEFINE R == OpToRel(<, Nat)
           S == {n - x : x \in T}
<1>1. IsWellFoundedOn(R, Nat)
  BY NatLessThanWellFounded
<1>2. \A x, y \in Nat : x < y => <<x, y>> \in R
  BY DEF OpToRel
<1>3. S \subseteq Nat /\ S # {}
  <2>1. \A x \in T : n - x \in Nat
    OBVIOUS
  <2>2. QED
    BY <2>1
<1> HIDE DEF R
<1>4. PICK s \in S : \A y \in S : ~(<<y, s>> \in R)
  <2> HIDE DEF S
  <2>1. QED
    BY <1>1, <1>3, WFMin
<1>5. PICK x \in T : s = n - x
  BY <1>4
<1>6. ASSUME NEW y \in T PROVE y <= x
  <2>1. n - y \in S /\ n - y \in Nat /\ n - x \in Nat /\ x \in Int /\ y \in Int
    BY <1>5
  <2>2. ~(n - y < n - x)
    BY <1>2, <1>4, <1>5, <2>1
  <2>3. QED
    BY <2>1, <2>2
<1>7. QED
  BY <1>6

\* The last partition is one of them.
LEMMA LastPartIs ==
  ASSUME NEW disk, NEW n \in Nat, disk.parts # {}, \A p \in disk.parts : p.first \in 0 .. n
  PROVE  LastPart(disk) \in disk.parts /\ \A q \in disk.parts : q.first <= LastPart(disk).first
<1> DEFINE T == {p.first : p \in disk.parts}
<1>1. T \subseteq 0 .. n /\ T # {}
  OBVIOUS
<1>2. \E x \in T : \A y \in T : y <= x
  <2> HIDE DEF T
  <2>1. QED
    BY <1>1, Greatest
<1>3. \E p \in disk.parts : \A q \in disk.parts : q.first <= p.first
  BY <1>2
<1>4. QED
  BY <1>3 DEF LastPart

\* A factory table: one userdata, which ends with the disk, and nothing of Linux.
Original(table, u) ==
  /\ u \in table.parts /\ u.name = "userdata" /\ Named(table, "userdata") = {u} /\ u.last = table.last
  /\ Named(table, "linux_root") = {} /\ Named(table, "linux_home") = {}

LEMMA OneNamed ==
  ASSUME NEW disk, IsFiniteSet(disk.parts), NEW name, Named(disk, name) # {}, ~Twice(disk, name)
  PROVE  Named(disk, name) = {ByName(disk, name)}
<1>1. IsFiniteSet(Named(disk, name))
  <2>1. Named(disk, name) \in SUBSET disk.parts
    BY DEF Named
  <2>2. QED
    BY <2>1, FS_Subset
<1>2. Cardinality(Named(disk, name)) \in Nat /\ Cardinality(Named(disk, name)) # 0
  BY <1>1, FS_CardinalityType, FS_EmptySet
<1>3. Cardinality(Named(disk, name)) = 1
  BY <1>2 DEF Twice
<1>4. \E x : Named(disk, name) = {x}
  BY <1>1, <1>3, FS_Singleton
<1>5. QED
  BY <1>4 DEF ByName

LEMMA StockOriginal ==
  ASSUME NEW table, IsTable(table), Classify(ParsePrint(table)) = "stock"
  PROVE  Original(table, ByName(ParsePrint(table), "userdata"))
<1> DEFINE disk == ParsePrint(table)
           u == ByName(disk, "userdata")
<1>1. DOMAIN table = TableFields /\ IsFiniteSet(table.parts)
  BY DEF IsTable, TableFields
<1>2. disk.parts = {p \in table.parts : p.name # ""} /\ disk.last = table.last
  BY DEF ParsePrint, IsTable
<1>3. /\ Named(disk, "userdata") = Named(table, "userdata")
      /\ Named(disk, "linux_root") = Named(table, "linux_root")
      /\ Named(disk, "linux_home") = Named(table, "linux_home")
  BY <1>1, NamedRead
<1>4. /\ ~Twice(disk, "userdata") /\ IsStock(disk)
      /\ Named(disk, "linux_root") = {} /\ Named(disk, "linux_home") = {}
  BY DEF Classify
<1>5. IsFiniteSet(disk.parts)
  <2>1. disk.parts \in SUBSET table.parts
    BY <1>2
  <2>2. QED
    BY <1>1, <2>1, FS_Subset
<1>6. /\ Named(disk, "userdata") # {} /\ LastPart(disk).name = "userdata" /\ LastPart(disk).last = disk.last
  BY <1>4 DEF IsStock
<1> HIDE DEF disk
<1>7. Named(disk, "userdata") = {u}
  BY <1>4, <1>5, <1>6, OneNamed
<1>8. u \in table.parts /\ u.name = "userdata"
  BY <1>3, <1>7 DEF Named
<1>9. LastPart(disk) \in disk.parts
  <2>1. table.last \in Nat /\ \A p \in table.parts : p.first \in Nat /\ p.last \in p.first .. table.last
    BY DEF IsTable
  <2>2. ASSUME NEW p \in disk.parts PROVE p.first \in 0 .. table.last
    <3>1. p \in table.parts
      BY <1>2
    <3>2. p.first \in Nat /\ p.last \in p.first .. table.last
      BY <2>1, <3>1
    <3>3. QED
      BY <2>1, <3>2
  <2>3. disk.parts # {}
    BY <1>6 DEF Named
  <2>4. QED
    BY <2>1, <2>2, <2>3, LastPartIs
<1>10. LastPart(disk) = u
  BY <1>6, <1>7, <1>9 DEF Named
<1>11. Original(table, u)
  BY <1>2, <1>3, <1>4, <1>6, <1>7, <1>8, <1>10 DEF Original
<1>12. QED
  BY <1>11 DEF disk

\* The pieces of a split: userdata made smaller, or none, and the two of Linux,
\* the home at the end of the disk.
Pieces(table, small, U, R, H) ==
  /\ U.name = "userdata" /\ R.name = "linux_root" /\ H.name = "linux_home" /\ H.last = table.last
  /\ U.first \in Int /\ U.last \in Int /\ R.first \in Int /\ R.last \in Int /\ H.first \in Int
  /\ small \in BOOLEAN
New(small, U, R, H) == (IF small THEN {U} ELSE {}) \cup {R, H}

\* What the new table is, partition by partition.
SplitTable(old, u, small, U, R, H, table) ==
  /\ table.sector = old.sector /\ table.last = old.last
  /\ table.parts = (old.parts \ {u}) \cup New(small, U, R, H)
  /\ Named(table, "userdata") = (IF small THEN {U} ELSE {})
  /\ Named(table, "linux_root") = {R} /\ Named(table, "linux_home") = {H}
  /\ \A p, q \in table.parts : p # q => p.number # q.number /\ ~Overlap(p, q)
  /\ \A p \in table.parts : p.first \in Int /\ p.last \in Int /\ p.first <= p.last /\ p.last <= table.last

LEMMA SplitIs ==
  ASSUME NEW old, IsTable(old), NEW u, Original(old, u), NEW small, NEW U, NEW R, NEW H,
         Pieces(old, small, U, R, H), NEW arguments,
         arguments.delete = {u.number}, arguments.new = New(small, U, R, H), SgdiskAccepts(old, arguments)
  PROVE  SplitTable(old, u, small, U, R, H, Sgdisk(old, arguments))
<1> DEFINE kept == {p \in old.parts : p.number \notin arguments.delete}
           new == New(small, U, R, H)
           table == Sgdisk(old, arguments)
<1>1. /\ DOMAIN old = {"sector", "last", "capacity", "parts"} /\ old.last \in Nat
      /\ \A p \in old.parts : p.first \in Nat /\ p.last \in p.first .. old.last
      /\ \A p, q \in old.parts : p # q => p.number # q.number /\ ~Overlap(p, q)
  BY DEF IsTable
<1>2. table.sector = old.sector /\ table.last = old.last /\ table.parts = kept \cup new
  BY <1>1 DEF Sgdisk
<1>3. /\ u \in old.parts /\ Named(old, "userdata") = {u}
      /\ Named(old, "linux_root") = {} /\ Named(old, "linux_home") = {}
  BY DEF Original
<1>4. kept = old.parts \ {u}
  BY <1>1, <1>3
<1>5. /\ \A p \in kept : p.name \notin {"userdata", "linux_root", "linux_home"}
      /\ kept \subseteq old.parts
  BY <1>3, <1>4 DEF Named
<1>6. /\ U.name = "userdata" /\ R.name = "linux_root" /\ H.name = "linux_home" /\ H.last = old.last
      /\ U.first \in Int /\ U.last \in Int /\ R.first \in Int /\ R.last \in Int /\ H.first \in Int
  BY DEF Pieces
<1>7. new = (IF small THEN {U} ELSE {}) \cup {R, H}
  BY DEF New
<1>8. \A p \in new : /\ p.first <= p.last /\ p.last <= old.last
                     /\ \A q \in (kept \cup new) \ {p} : p.number # q.number /\ ~Overlap(p, q)
  BY DEF SgdiskAccepts
<1> HIDE DEF kept, new, table
<1>9. /\ Named(table, "userdata") = (IF small THEN {U} ELSE {})
      /\ Named(table, "linux_root") = {R} /\ Named(table, "linux_home") = {H}
  BY <1>2, <1>5, <1>6, <1>7 DEF Named
<1>10. \A p, q : Overlap(p, q) <=> Overlap(q, p)
  BY DEF Overlap
<1>11. ASSUME NEW p \in table.parts, NEW q \in table.parts, p # q PROVE p.number # q.number /\ ~Overlap(p, q)
  <2>1. CASE p \in new
    BY <1>2, <1>8, <1>11, <2>1
  <2>2. CASE q \in new
    BY <1>2, <1>8, <1>10, <1>11, <2>2
  <2>3. CASE p \in kept /\ q \in kept
    BY <1>1, <1>5, <1>11, <2>3
  <2>4. QED
    BY <1>2, <2>1, <2>2, <2>3
<1>12. ASSUME NEW p \in table.parts
       PROVE  p.first \in Int /\ p.last \in Int /\ p.first <= p.last /\ p.last <= table.last
  <2>1. CASE p \in new
    <3>1. p.first \in Int /\ p.last \in Int
      BY <1>1, <1>6, <1>7, <2>1
    <3>2. QED
      BY <1>2, <1>8, <2>1, <3>1
  <2>2. CASE p \in kept
    <3>1. p.first \in Nat /\ p.last \in p.first .. old.last
      BY <1>1, <1>5, <2>2
    <3>2. QED
      BY <1>1, <1>2, <3>1
  <2>3. QED
    BY <1>2, <2>1, <2>2
<1>13. SplitTable(old, u, small, U, R, H, table)
  BY <1>2, <1>4, <1>9, <1>11, <1>12 DEF SplitTable, new
<1>14. QED
  BY <1>13 DEF table

\* The next run recognises it.
LEMMA SplitClassified ==
  ASSUME NEW old, IsTable(old), NEW u, NEW small, NEW U, NEW R, NEW H, Pieces(old, small, U, R, H),
         NEW table, DOMAIN table = TableFields, SplitTable(old, u, small, U, R, H, table)
  PROVE  Classify(ParsePrint(table)) = "split"
<1> DEFINE disk == ParsePrint(table)
<1>1. /\ Named(disk, "userdata") = (IF small THEN {U} ELSE {})
      /\ Named(disk, "linux_root") = {R} /\ Named(disk, "linux_home") = {H}
  BY NamedRead DEF SplitTable
<1>2. disk.parts \subseteq table.parts
  BY DEF ParsePrint, TableFields
<1>3. \A p \in disk.parts : p.first \in Int /\ p.last \in Int /\ p.first <= p.last /\ p.last <= table.last
  BY <1>2 DEF SplitTable
<1>4. \A p, q \in disk.parts : p # q => ~Overlap(p, q)
  BY <1>2 DEF SplitTable
<1>5. H.last = table.last /\ H.name = "linux_home" /\ R.name = "linux_root" /\ small \in BOOLEAN
  BY DEF Pieces, SplitTable
<1> HIDE DEF disk
<1>6. H \in disk.parts
  BY <1>1 DEF Named
<1>7. ASSUME NEW q \in disk.parts, q # H PROVE q.first < H.first
  <2>1. ~Overlap(H, q)
    BY <1>4, <1>6, <1>7
  <2>2. q.first \in Int /\ q.last \in Int /\ q.first <= q.last /\ q.last <= H.last /\ H.first \in Int /\ H.last \in Int
    BY <1>3, <1>5, <1>6
  <2>3. QED
    BY <2>1, <2>2 DEF Overlap
<1>8. H.first \in Int
  BY <1>3, <1>6
<1>9. LastPart(disk) = H
  <2>1. \A q \in disk.parts : q.first <= H.first
    BY <1>3, <1>7, <1>8
  <2>2. LastPart(disk) \in disk.parts /\ \A q \in disk.parts : q.first <= LastPart(disk).first
    BY <1>6, <2>1 DEF LastPart
  <2>3. ~(LastPart(disk).first < H.first)
    BY <1>3, <1>6, <1>8, <2>2
  <2>4. QED
    BY <1>7, <2>2, <2>3
<1>10. ASSUME NEW S, S = {} \/ (\E x : S = {x}) PROVE ~(Cardinality(S) > 1)
  <2>1. Cardinality(S) = 0 \/ Cardinality(S) = 1
    BY <1>10, FS_EmptySet, FS_Singleton
  <2>2. QED
    BY <2>1
<1>11. ~Twice(disk, "userdata") /\ ~Twice(disk, "linux_root") /\ ~Twice(disk, "linux_home")
  BY <1>1, <1>5, <1>10 DEF Twice
<1>12. Classify(disk) = "split"
  BY <1>1, <1>5, <1>9, <1>11 DEF Classify
<1>13. QED
  BY <1>12 DEF disk

-----------------------------------------------------------------------------
(* The new table is the one that was confirmed.                              *)

\* What AppliedIsConfirmed says of a table, of the one before it and of the plan that was shown.
Ours(p) == p.name \in {"userdata", "linux_root", "linux_home"}
Bytes(table, p) == (p.last + 1 - p.first) * table.sector
Confirmed(table, old, planned) ==
  /\ {p \in table.parts : ~Ours(p)} = {p \in old.parts : ~Ours(p)}
  /\ \A p, q \in table.parts : p # q => p.number # q.number /\ ~Overlap(p, q)
  /\ \A p \in table.parts : p.last <= table.last
  /\ \A p \in table.parts : p.name = "linux_root" => Bytes(table, p) = Size(planned[2])
  /\ \A p \in Named(table, "userdata") :
       /\ Bytes(table, p) = Size(planned[1])
       /\ \E q \in Named(old, "userdata") :
            p.id = q.id /\ p.first = q.first /\ p.number = q.number /\ p.last < q.last
  /\ Classify(ParsePrint(table)) = "split"

LEMMA WholeSize ==
  ASSUME NEW s \in Nat \ {0}, NEW x \in Int, NEW y \in Int, x % s = 0, y % s = 0
  PROVE  /\ x \div s \in Int /\ y \div s \in Int
         /\ ((y \div s - 1) + 1 - x \div s) * s = y - x
<1>1. x \div s \in Int /\ y \div s \in Int /\ x = (x \div s) * s /\ y = (y \div s) * s
  BY Division
<1>2. \A j, k \in Int : ((k - 1) + 1 - j) * s = k * s - j * s
  OBVIOUS
<1>3. QED
  BY <1>1, <1>2

LEMMA WholeLess ==
  ASSUME NEW s \in Nat \ {0}, NEW x \in Int, NEW k \in Int, x % s = 0, x < k * s
  PROVE  x \div s < k
<1>1. x \div s \in Int /\ x = (x \div s) * s
  BY Division
<1>2. k <= x \div s => k * s <= (x \div s) * s
  BY <1>1, MultipleGrows
<1>3. k * s \in Int
  BY Multiple
<1>4. QED
  BY <1>1, <1>2, <1>3

\* The pieces that a plan makes of a table.
FirstPiece(disk, android) == Sectors(disk, First(disk, android), ByName(disk, "userdata").id)
SecondPiece(disk, android, root) == Sectors(disk, Second(disk, android, root), "8300")
ThirdPiece(disk, android, root) == Sectors(disk, Third(disk, android, root), "8300")
Planned(disk, android, root) == <<First(disk, android), Second(disk, android, root), Third(disk, android, root)>>

LEMMA ArgumentsAre ==
  ASSUME NEW disk, NEW android, NEW root
  PROVE  LET u == ByName(disk, "userdata")
             arguments == SgdiskArguments(Planned(disk, android, root), disk, ParseInfo(disk, "userdata"))
         IN /\ arguments.delete = {u.number}
            /\ arguments.new = New(android > 0, FirstPiece(disk, android), SecondPiece(disk, android, root),
                                   ThirdPiece(disk, android, root))
<1> DEFINE u == ByName(disk, "userdata")
           one == First(disk, android)
           two == Second(disk, android, root)
           three == Third(disk, android, root)
           plan == <<one, two, three>>
           info == ParseInfo(disk, "userdata")
           arguments == SgdiskArguments(plan, disk, info)
<1>1. one.number = u.number /\ (one.action = "delete" <=> ~(android > 0))
  BY DEF First, Entry
<1>2. info.id = u.id
  BY DEF ParseInfo
<1> HIDE DEF one, two, three, info, u
<1>3. plan[1] = one /\ plan[2] = two /\ plan[3] = three
  OBVIOUS
<1> HIDE DEF plan
<1>4. /\ arguments.delete = {plan[1].number}
      /\ arguments.new = (IF plan[1].action = "delete" THEN {} ELSE {Sectors(disk, plan[1], info.id)})
                         \cup {Sectors(disk, plan[i], "8300") : i \in 2 .. 3}
  BY DEF SgdiskArguments
<1> HIDE DEF arguments
<1>5. {Sectors(disk, plan[i], "8300") : i \in 2 .. 3} = {Sectors(disk, two, "8300"), Sectors(disk, three, "8300")}
  <2>1. \A i : i \in 2 .. 3 <=> i = 2 \/ i = 3
    OBVIOUS
  <2>2. QED
    BY <1>3, <2>1
<1>6. /\ arguments.delete = {u.number}
      /\ arguments.new = (IF android > 0 THEN {Sectors(disk, one, u.id)} ELSE {})
                         \cup {Sectors(disk, two, "8300"), Sectors(disk, three, "8300")}
  BY <1>1, <1>2, <1>3, <1>4, <1>5
<1>7. QED
  BY <1>6 DEF New, FirstPiece, SecondPiece, ThirdPiece, arguments, plan, one, two, three, u, info, Planned

LEMMA SectorsAre ==
  ASSUME NEW disk, NEW entry, NEW id
  PROVE  LET p == Sectors(disk, entry, id)
         IN /\ p.number = entry.number /\ p.name = entry.name /\ p.id = id
            /\ p.first = entry.start \div disk.sector /\ p.last = entry.end \div disk.sector - 1
  BY DEF Sectors

\* Where the pieces lie, and how large they are.
LEMMA PiecesAre ==
  ASSUME NEW disk, Plain(disk), NEW android \in Nat, NEW root \in Nat, NEW mode,
         ~Refused(disk, mode, android, root)
  PROVE  LET u == ByName(disk, "userdata")
             U == FirstPiece(disk, android)
             R == SecondPiece(disk, android, root)
             H == ThirdPiece(disk, android, root)
         IN /\ Pieces(disk, android > 0, U, R, H)
            /\ U.id = u.id /\ U.number = u.number /\ U.first = u.first
            /\ Bytes(disk, R) = Size(Second(disk, android, root))
            /\ android > 0 => Bytes(disk, U) = Size(First(disk, android)) /\ U.last < disk.last
<1> DEFINE s == disk.sector
           c == Cursor(disk, android)
           e == RootEnd(disk, android, root)
           start == TailStart(disk)
           end == UsableEnd(disk)
           u == ByName(disk, "userdata")
           one == First(disk, android)
           two == Second(disk, android, root)
           three == Third(disk, android, root)
           U == FirstPiece(disk, android)
           R == SecondPiece(disk, android, root)
           H == ThirdPiece(disk, android, root)
<1>1. /\ s \in Nat \ {0} /\ c \in Int /\ e \in Int /\ start \in Int /\ end \in Int
      /\ disk.last \in Nat /\ u.first \in Nat /\ MIN_HOME \in Nat \ {0} /\ MIN_ROOT \in Nat \ {0}
  <2>1. u \in Named(disk, "userdata")
    BY TailIs
  <2>2. QED
    BY <2>1, CutsAre, TailIs, LayoutAssumption DEF Plain
<1>2. start % s = 0 /\ end % s = 0 /\ c % s = 0 /\ e % s = 0
  <2>1. WholeSectors(disk, two) /\ WholeSectors(disk, three)
    BY DEF Refused
  <2>2. QED
    BY <2>1, TailIs DEF WholeSectors, Second, Entry
<1>3. start = u.first * s /\ end = (disk.last + 1) * s
  BY DEF TailStart, Start, UsableEnd
<1>4. c < end
  <2>1. e >= c + root /\ root >= MIN_ROOT /\ e + MIN_HOME <= end
    BY CutsAre DEF Refused, Legal, Room
  <2> HIDE DEF c, e, end
  <2>2. QED
    BY <1>1, <2>1
<1>5. /\ one.name = "userdata" /\ one.number = u.number /\ one.start = start
      /\ one.end = IF android > 0 THEN c ELSE end
      /\ two.name = "linux_root" /\ two.start = c /\ two.end = e
      /\ three.name = "linux_home" /\ three.start = e /\ three.end = end
  BY DEF First, Second, Third, Entry
<1>6. /\ U.number = one.number /\ U.name = one.name /\ U.id = u.id
      /\ U.first = one.start \div s /\ U.last = one.end \div s - 1
      /\ R.name = two.name /\ R.first = two.start \div s /\ R.last = two.end \div s - 1
      /\ H.name = three.name /\ H.first = three.start \div s /\ H.last = three.end \div s - 1
  BY SectorsAre DEF FirstPiece, SecondPiece, ThirdPiece
<1>7. Size(one) = one.end - one.start /\ Size(two) = two.end - two.start
  BY DEF Size
<1>8. Bytes(disk, U) = (U.last + 1 - U.first) * s /\ Bytes(disk, R) = (R.last + 1 - R.first) * s
  BY DEF Bytes
<1> HIDE DEF s, c, e, start, end, one, two, three, u, U, R, H
<1>9. /\ start \div s = u.first /\ end \div s = disk.last + 1
      /\ c \div s \in Int /\ e \div s \in Int /\ end \div s \in Int /\ start \div s \in Int
  <2>1. u.first \in Int /\ disk.last + 1 \in Int
    BY <1>1
  <2>2. (u.first * s) \div s = u.first /\ ((disk.last + 1) * s) \div s = disk.last + 1
    BY <1>1, <2>1, Multiple
  <2>3. QED
    BY <1>1, <1>3, <2>2, Division
<1>10. H.last = disk.last
  BY <1>1, <1>5, <1>6, <1>9
<1>11. /\ U.first \in Int /\ U.last \in Int /\ R.first \in Int /\ R.last \in Int /\ H.first \in Int
  BY <1>5, <1>6, <1>9
<1>12. Bytes(disk, R) = Size(two)
  BY <1>1, <1>2, <1>5, <1>6, <1>7, <1>8, WholeSize
<1>13. ASSUME android > 0 PROVE Bytes(disk, U) = Size(one) /\ U.last < disk.last
  <2>1. Bytes(disk, U) = Size(one)
    BY <1>1, <1>2, <1>5, <1>6, <1>7, <1>8, <1>13, WholeSize
  <2>2. c \div s < disk.last + 1
    <3>1. disk.last + 1 \in Int /\ c < (disk.last + 1) * s
      BY <1>1, <1>3, <1>4
    <3>2. QED
      BY <1>1, <1>2, <3>1, WholeLess
  <2>3. U.last < disk.last
    BY <1>1, <1>5, <1>6, <1>9, <1>13, <2>2
  <2>4. QED
    BY <2>1, <2>3
<1>14. Pieces(disk, android > 0, U, R, H)
  BY <1>5, <1>6, <1>10, <1>11 DEF Pieces
<1>15. U.id = u.id /\ U.number = u.number /\ U.first = u.first
  BY <1>5, <1>6, <1>9
<1>16. QED
  BY <1>12, <1>13, <1>14, <1>15 DEF U, R, H, u, one, two

\* A plan that is not refused keeps the sizes that were confirmed.
LEMMA ConfirmedSizes ==
  ASSUME NEW planned, NEW one, NEW two, NEW three, ConfirmPlan(planned, <<one, two, three>>),
         one.name = "userdata", two.name = "linux_root"
  PROVE  Size(planned[1]) = Size(one) /\ Size(planned[2]) = Size(two)
<1> DEFINE plan == <<one, two, three>>
<1>1. plan[1] = one /\ plan[2] = two /\ 1 \in 1 .. Len(plan) /\ 2 \in 1 .. Len(plan)
  OBVIOUS
<1> HIDE DEF plan
<1>2. \A i \in 1 .. Len(plan) : plan[i].name # "linux_home" => Size(planned[i]) = Size(plan[i])
  BY DEF ConfirmPlan, plan
<1>3. QED
  BY <1>1, <1>2

\* What sgdisk makes of a factory table, from the plan that was confirmed, is confirmed.
LEMMA SplitConfirmed ==
  ASSUME NEW old, IsTable(old), Classify(ParsePrint(old)) = "stock", NEW mode,
         NEW android \in Nat \cup {Malformed}, NEW root \in Nat \cup {Malformed}, NEW planned, NEW arguments,
         PlanLayout(ParsePrint(old), mode, android, root) # <<>>,
         ConfirmPlan(planned, PlanLayout(ParsePrint(old), mode, android, root)),
         arguments = SgdiskArguments(PlanLayout(ParsePrint(old), mode, android, root), ParsePrint(old),
                                     ParseInfo(ParsePrint(old), "userdata")),
         SgdiskAccepts(old, arguments)
  PROVE  Confirmed(Sgdisk(old, arguments), old, planned)
<1> DEFINE disk == ParsePrint(old)
           plan == PlanLayout(disk, mode, android, root)
           u == ByName(disk, "userdata")
           U == FirstPiece(disk, android)
           R == SecondPiece(disk, android, root)
           H == ThirdPiece(disk, android, root)
           one == First(disk, android)
           two == Second(disk, android, root)
           small == android > 0
           table == Sgdisk(old, arguments)
<1>1. Plain(disk) /\ disk.sector = old.sector /\ disk.last = old.last
  BY ReadPlain DEF ParsePrint, IsTable
<1>2. ~Refused(disk, mode, android, root) /\ plan = Planned(disk, android, root)
  BY <1>1, PlanIs DEF Planned
<1>3. android \in Nat /\ root \in Nat
  BY <1>2 DEF Refused
<1>4. one.name = "userdata" /\ two.name = "linux_root"
  BY DEF First, Second, Entry
<1>5. Original(old, u)
  BY StockOriginal
<1> HIDE DEF disk, one, two
<1>6. /\ Pieces(disk, small, U, R, H)
      /\ U.id = u.id /\ U.number = u.number /\ U.first = u.first
      /\ Bytes(disk, R) = Size(two)
      /\ small => Bytes(disk, U) = Size(one) /\ U.last < disk.last
  BY <1>1, <1>2, <1>3, PiecesAre DEF one, two
<1>7. Size(planned[1]) = Size(one) /\ Size(planned[2]) = Size(two)
  <2>1. ConfirmPlan(planned, Planned(disk, android, root))
    BY <1>2 DEF disk
  <2>2. QED
    BY <1>4, <2>1, ConfirmedSizes DEF Planned, one, two
<1>8. arguments.delete = {u.number} /\ arguments.new = New(small, U, R, H)
  <2>1. arguments = SgdiskArguments(Planned(disk, android, root), disk, ParseInfo(disk, "userdata"))
    BY <1>2 DEF disk
  <2>2. QED
    BY <2>1, ArgumentsAre
<1> HIDE DEF u, U, R, H, small, plan
<1>9. Pieces(old, small, U, R, H)
  BY <1>1, <1>6 DEF Pieces
<1>10. SplitTable(old, u, small, U, R, H, table)
  BY <1>5, <1>8, <1>9, SplitIs
<1>11. DOMAIN table = TableFields
  BY SgdiskTable DEF IsTable, TableFields
<1> HIDE DEF table
<1>12. Classify(ParsePrint(table)) = "split"
  BY <1>9, <1>10, <1>11, SplitClassified
<1>13. /\ table.sector = old.sector /\ table.last = old.last /\ u \in old.parts /\ u.last = old.last
       /\ Named(old, "userdata") = {u} /\ Named(old, "linux_root") = {} /\ Named(old, "linux_home") = {}
       /\ U.name = "userdata" /\ R.name = "linux_root" /\ H.name = "linux_home"
  BY <1>5, <1>9, <1>10 DEF SplitTable, Original, Pieces
<1>14. {p \in table.parts : ~Ours(p)} = {p \in old.parts : ~Ours(p)}
  <2>1. table.parts = (old.parts \ {u}) \cup New(small, U, R, H)
    BY <1>10 DEF SplitTable
  <2>2. Ours(u) /\ Ours(U) /\ Ours(R) /\ Ours(H)
    <3>1. u.name = "userdata"
      BY <1>5 DEF Original
    <3>2. QED
      BY <1>13, <3>1 DEF Ours
  <2>3. \A p \in New(small, U, R, H) : Ours(p)
    BY <2>2 DEF New
  <2>4. QED
    BY <2>1, <2>2, <2>3
<1>15. \A p \in table.parts : p.name = "linux_root" => Bytes(table, p) = Size(planned[2])
  <2>1. \A p \in table.parts : p.name = "linux_root" => p = R
    BY <1>10 DEF SplitTable, Named
  <2>2. Bytes(table, R) = Bytes(disk, R)
    BY <1>1, <1>13 DEF Bytes
  <2>3. QED
    BY <1>6, <1>7, <2>1, <2>2
<1>16. ASSUME NEW p \in Named(table, "userdata")
       PROVE  /\ Bytes(table, p) = Size(planned[1])
              /\ \E q \in Named(old, "userdata") :
                   p.id = q.id /\ p.first = q.first /\ p.number = q.number /\ p.last < q.last
  <2>1. small /\ p = U
    BY <1>10, <1>16 DEF SplitTable
  <2>2. Bytes(table, U) = Bytes(disk, U)
    BY <1>1, <1>13 DEF Bytes
  <2>3. Bytes(table, p) = Size(planned[1])
    BY <1>6, <1>7, <2>1, <2>2
  <2>4. p.id = u.id /\ p.first = u.first /\ p.number = u.number /\ p.last < u.last
    BY <1>1, <1>6, <1>13, <2>1
  <2>5. QED
    BY <1>13, <2>3, <2>4
<1>17. /\ \A p, q \in table.parts : p # q => p.number # q.number /\ ~Overlap(p, q)
       /\ \A p \in table.parts : p.last <= table.last
  BY <1>10 DEF SplitTable
<1>18. Confirmed(table, old, planned)
  BY <1>12, <1>14, <1>15, <1>16, <1>17, Zenon DEF Confirmed
<1>19. QED
  BY <1>18 DEF table

-----------------------------------------------------------------------------
(* The table that is installed on is the one that was confirmed.             *)

\* The one step in which sgdisk ran to its end.
LEMMA ApplyDone ==
  ASSUME Shape, [Next]_vars, host.pc = "apply", host'.pc = "verify"
  PROVE  /\ Here(usb) /\ Allowed("apply", tab[usb])
         /\ tab' = [tab EXCEPT ![usb] = Effects("apply", tab[usb])[1]]
<1>1. ~(Install \/ Restore)
  BY DEF Install, Restore, Begin
<1>2. ~(\E t \in Tablets : PowerLoss(t) \/ ToFastboot(t) \/ Use(t))
  BY DEF PowerLoss, ToFastboot, Use
<1>3. ~(MoveCable \/ HostStops \/ FileChanges \/ UNCHANGED vars)
  BY IdleFields DEF MoveCable, HostStops, Stop, FileChanges, vars
<1>4. ASSUME NEW pc, NEW next, NEW saved, Remote(pc, next, saved) PROVE pc = "apply"
  BY <1>4 DEF Remote
<1>5. /\ ~CheckSerial /\ ~BackupBoots /\ ~BackupHead /\ ~BackupTail /\ ~Report /\ ~WipeUserdata /\ ~WipeMetadata
      /\ ~Verify /\ ~RestoreTable /\ ~Images /\ ~InstallHome /\ ~InstallRoot /\ ~InstallStore /\ ~Reboot
  BY <1>4 DEF CheckSerial, BackupBoots, BackupHead, BackupTail, Report, WipeUserdata, WipeMetadata,
              Verify, RestoreTable, Images, InstallHome, InstallRoot, InstallStore, Reboot
<1>6. /\ ~CheckFastboot /\ ~BootRam /\ ~WaitForRam /\ ~Return
      /\ ~FlashFirmware /\ ~FlashAndroid /\ ~FlashFirst /\ ~FlashSecond /\ ~Activate
  BY DEF CheckFastboot, BootRam, WaitForRam, Return, FlashFirmware, FlashAndroid, FlashFirst, FlashSecond,
         Flash, Activate
<1>7. Apply
  BY <1>1, <1>2, <1>3, <1>5, <1>6 DEF Next, HostNext
<1>8. Remote("apply", At("verify"), backups)
  BY <1>7 DEF Apply
<1>9. host' # Idle("failed")
  BY IdleFields
<1>10. QED
  BY <1>8, <1>9, Zenon DEF Remote, Fail, Stop, Answers, Here

\* The plan is that of a factory table, and the one that was confirmed.
PlanMade(old, a, planned, plan) ==
  /\ Classify(ParsePrint(old)) = "stock"
  /\ plan = PlanFor(ParsePrint(old), a.layout, a.android, a.root)
  /\ plan # <<>> /\ ConfirmPlan(planned, plan)
InfoRead(old, info) == info = ParseInfo(ParsePrint(old), "userdata")
Verifying(p) == p = "verify"
Splits(p) == p \in SplitSteps
HasInfo(p) == p \in {"wipe metadata", "apply"}
Installs(p, keep) == p \in {"images", "prepare home"} /\ ~keep

\* Until the table is written the plan is the one that was confirmed, for the
\* table the tablet came with; from then on the table is.
PlanInv ==
  /\ Splits(host.pc) => PlanMade(factory[host.args.serial], host.args, host.planned, host.plan)
  /\ HasInfo(host.pc) => InfoRead(factory[host.args.serial], host.info)
  /\ Verifying(host.pc) =>
       \A t \in Tablets : Here(t) => Confirmed(tab[t].head, factory[t], host.planned)
  /\ Installs(host.pc, host.args.keep) =>
       Confirmed(tab[host.args.serial].head, factory[host.args.serial], host.planned)

\* sgdisk ran to its end: the table is the one that was confirmed.
LEMMA AppliedConfirmed ==
  ASSUME Safe, KnownInv, RequestInv, PlanInv, [Next]_vars, host.pc = "apply", host'.pc = "verify"
  PROVE  Confirmed(tab'[usb].head, factory[usb], host.planned)
<1> DEFINE x == tab[usb]
           old == factory[usb]
           a == host.args
           sizes == ResolveSizes(a.layout, a.android, a.root, Region(ParsePrint(old)))
           plan == PlanLayout(ParsePrint(old), a.layout, sizes.android, sizes.root)
<1>1. Here(usb) /\ Allowed("apply", x) /\ tab' = [tab EXCEPT ![usb] = Effects("apply", x)[1]]
  BY ApplyDone DEF Safe
<1>2. usb \in Tablets /\ usb = host.args.serial /\ DOMAIN tab = Tablets /\ DOMAIN x = Fields
  BY <1>1, HereIsUsb DEF Safe, Early, Shape, TabletShape
<1>3. StockHead(usb)
  BY <1>1, <1>2 DEF Safe, HomeInv, SplitSteps
<1>4. x.head = old /\ old \in Tables
  BY <1>2, <1>3, StockIsFactory DEF Safe
<1>5. IsTable(old) /\ Classify(ParsePrint(old)) = "stock"
  BY <1>3, <1>4, TablesAssumption DEF StockHead
<1>6. PlanMade(old, a, host.planned, host.plan) /\ InfoRead(old, host.info)
  BY <1>2 DEF PlanInv, Splits, HasInfo, SplitSteps
<1>7. a \in Requests
  <2>1. host.args.restore = {}
    BY DEF Safe, Shape, BackupShape, Early
  <2>2. QED
    BY <2>1 DEF RequestInv
<1>8. sizes.android \in Nat \cup {Malformed} /\ sizes.root \in Nat \cup {Malformed}
  BY <1>5, <1>7, ReadPlain, TailIs, SizesAre
<1>9. host.plan = plan
  BY <1>6 DEF PlanMade, PlanFor
<1>10. TheArgs = SgdiskArguments(plan, ParsePrint(old), ParseInfo(ParsePrint(old), "userdata"))
  BY <1>4, <1>6, <1>9 DEF TheArgs, InfoRead
<1>11. SgdiskAccepts(old, TheArgs)
  BY <1>1, <1>4 DEF Allowed
<1>12. tab'[usb].head = Sgdisk(old, TheArgs)
  <2>1. tab'[usb] = Effects("apply", x)[1]
    BY <1>1, <1>2
  <2>2. Effects("apply", x) = WriteTable(x, Sgdisk(old, TheArgs))
    BY <1>4 DEF Effects
  <2> DEFINE table == Sgdisk(old, TheArgs)
  <2> HIDE DEF table
  <2>3. WriteTable(x, table)[1] = [x EXCEPT !.head = table, !.tail = table]
    BY DEF WriteTable
  <2>4. [x EXCEPT !.head = table, !.tail = table].head = table
    BY <1>2 DEF Fields
  <2>5. QED
    BY <2>1, <2>2, <2>3, <2>4 DEF table
<1>13. plan # <<>> /\ ConfirmPlan(host.planned, plan)
  BY <1>6, <1>9 DEF PlanMade
<1> HIDE DEF sizes, old
<1>14. Confirmed(Sgdisk(old, TheArgs), old, host.planned)
  BY <1>5, <1>8, <1>10, <1>11, <1>13, SplitConfirmed
<1>15. QED
  BY <1>12, <1>14 DEF old

LEMMA PlanKept ==
  ASSUME Safe, KnownInv, RequestInv, PlanInv, [Next]_vars
  PROVE  PlanInv'
<1>1. /\ \A t \in Tablets : Row(t)
      /\ factory' = factory /\ usb \in Tablets /\ host.args.serial \in Tablets
  BY TabletRows, Constants DEF Safe, Shape, TypeOK
\* No step changes the head of a table but apply and restore.
<1>2. ASSUME NEW t \in Tablets, host.pc \notin {"apply", "restore"} PROVE tab'[t].head = tab[t].head
  BY <1>1, <1>2 DEF Row, Applied, RestoredTo, TableKept
<1> DEFINE Plan1 == Splits(host'.pc) => PlanMade(factory[host'.args.serial], host'.args, host'.planned, host'.plan)
           Info1 == HasInfo(host'.pc) => InfoRead(factory[host'.args.serial], host'.info)
           Verify1 == Verifying(host'.pc) =>
                        \A t \in Tablets : Here(t)' => Confirmed(tab'[t].head, factory[t], host'.planned)
           Install1 == Installs(host'.pc, host'.args.keep) =>
                         Confirmed(tab'[host'.args.serial].head, factory[host'.args.serial], host'.planned)
           Good == Plan1 /\ Info1 /\ Verify1 /\ Install1
<1>3. ASSUME host'.pc \in {"idle", "fastboot"} PROVE Good
  BY <1>3 DEF Splits, HasInfo, Verifying, Installs, SplitSteps
<1>4. ASSUME Ended \/ Begun PROVE Good
  <2>1. host'.pc \in {"idle", "fastboot"}
    BY <1>1, <1>4, IdleFields, BegunCases DEF Ended, BegunOn
  <2>2. QED
    BY <1>3, <2>1
<1>5. ASSUME Held PROVE Good
  <2>1. host' = host /\ \A t \in Tablets : Here(t)' => tab'[t] = tab[t] /\ Here(t)
    BY <1>5 DEF Held, Here
  <2>2. Plan1 /\ Info1
    BY <2>1 DEF PlanInv
  <2>3. Verify1
    BY <2>1 DEF PlanInv
  <2>4. Install1
    <3>1. SUFFICES ASSUME Installs(host.pc, host.args.keep)
                   PROVE  Confirmed(tab'[host.args.serial].head, factory[host.args.serial], host.planned)
      BY <2>1
    <3>2. tab'[host.args.serial].head = tab[host.args.serial].head
      BY <1>1, <1>2, <3>1 DEF Installs
    <3>3. QED
      BY <3>1, <3>2 DEF PlanInv
  <2>5. QED
    BY <2>2, <2>3, <2>4
<1>6. ASSUME Advanced PROVE Good
  <2>1. Follow(host.pc, host'.pc) /\ host'.args = host.args /\ host'.planned = host.planned
        /\ (host.pc # "report" => host'.plan = host.plan)
        /\ (host.pc # "wipe userdata" => host'.info = host.info)
    BY <1>6 DEF Advanced, AdvancedFields
  <2>2. AfterSerial \notin SplitSteps \cup {"verify", "images", "prepare home"}
    BY DEF AfterSerial, SplitSteps
  <2>3. ASSUME host.pc = "report" \/ Splits(host.pc)
        PROVE  /\ Here(usb) /\ usb = host.args.serial
               /\ StockHead(usb) => tab[usb].head = factory[usb]
    <3>1. host.pc \in RemoteSteps /\ host.pc \notin Early
      BY <2>3 DEF Splits, SplitSteps, RemoteSteps, Early
    <3>2. Here(usb)
      BY <1>6, <3>1 DEF Advanced, AdvancedData
    <3>3. usb = host.args.serial
      BY <3>1, <3>2, HereIsUsb DEF Safe
    <3>4. QED
      BY <1>1, <3>2, <3>3, StockIsFactory DEF Safe
  <2>4. ASSUME host.pc = "report", host'.pc = "wipe userdata"
        PROVE  PlanMade(factory[host.args.serial], host.args, host.planned, host'.plan)
    <3>1. Decide(tab[usb], host.args) = "split" /\ host'.plan = PlanOf(tab[usb], host.args)
      BY <1>6, <2>4 DEF Advanced, AdvancedData, ReportDone
    <3>2. host.args.keep \in BOOLEAN
      BY DEF Safe, Shape, HostShape
    <3>3. Classify(ParsePrint(tab[usb].head)) = "stock"
      <4>1. DecideOK(tab[usb], host.args)
        BY <3>2, DecideCases
      <4>2. QED
        BY <3>1, <4>1 DEF DecideOK
    <3>4. PlanOf(tab[usb], host.args) # <<>> /\ ConfirmPlan(host.planned, PlanOf(tab[usb], host.args))
      BY <3>1 DEF Decide
    <3>5. tab[usb].head = factory[host.args.serial]
      BY <2>3, <2>4, <3>3 DEF StockHead
    <3>6. QED
      BY <3>1, <3>3, <3>4, <3>5 DEF PlanMade, PlanOf
  <2>5. Plan1
    <3>1. SUFFICES ASSUME Splits(host'.pc)
                   PROVE  PlanMade(factory[host.args.serial], host.args, host.planned, host'.plan)
      BY <2>1
    <3>2. (host.pc = "report" /\ host'.pc = "wipe userdata") \/ Splits(host.pc)
      BY <2>1, <2>2, <3>1 DEF Follow, Splits, SplitSteps
    <3>3. Splits(host.pc) => host'.plan = host.plan
      BY <2>1 DEF Splits, SplitSteps
    <3>4. QED
      BY <2>4, <3>2, <3>3 DEF PlanInv
  <2>6. Info1
    <3>1. SUFFICES ASSUME HasInfo(host'.pc)
                   PROVE  InfoRead(factory[host.args.serial], host'.info)
      BY <2>1
    <3>2. host.pc \in {"wipe userdata", "wipe metadata"}
      BY <2>1, <2>2, <3>1 DEF Follow, HasInfo, SplitSteps
    <3>3. CASE host.pc = "wipe userdata"
      <4>1. Splits(host.pc)
        BY <3>3 DEF Splits, SplitSteps
      <4>2. StockHead(usb)
        BY <1>1, <2>3, <4>1 DEF Safe, HomeInv, Splits
      <4>3. host'.info = ParseInfo(ParsePrint(tab[usb].head), "userdata")
        BY <1>6, <3>3 DEF Advanced, AdvancedData
      <4>4. QED
        BY <2>3, <4>1, <4>2, <4>3 DEF InfoRead
    <3>4. CASE host.pc = "wipe metadata"
      BY <2>1, <3>4 DEF PlanInv, HasInfo
    <3>5. QED
      BY <3>2, <3>3, <3>4
  <2>7. Verify1
    <3>1. SUFFICES ASSUME host'.pc = "verify", NEW t \in Tablets, Here(t)'
                   PROVE  Confirmed(tab'[t].head, factory[t], host.planned)
      BY <2>1 DEF Verifying
    <3>2. host.pc = "apply"
      BY <2>1, <2>2, <3>1 DEF Follow
    <3>3. Here(t)
      BY <1>1, <1>6, <3>1, HereKept DEF Early
    <3>4. Here(usb)
      BY <2>3, <3>2 DEF Splits, SplitSteps
    <3>5. t = usb
      BY <3>2, <3>3, <3>4, HereIsUsb DEF Safe, Early
    <3>6. QED
      BY <3>1, <3>2, <3>5, AppliedConfirmed
  <2>8. Install1
    <3>1. SUFFICES ASSUME Installs(host'.pc, host.args.keep)
                   PROVE  Confirmed(tab'[host.args.serial].head, factory[host.args.serial], host.planned)
      BY <2>1
    <3>2. host'.pc \in {"images", "prepare home"} /\ ~host.args.keep
      BY <3>1 DEF Installs
    <3>3. host.pc \in {"report", "verify", "images"}
      BY <2>1, <2>2, <3>2 DEF Follow
    <3>4. tab'[host.args.serial].head = tab[host.args.serial].head
      BY <1>1, <1>2, <3>3
    <3>5. host.pc # "report"
      <4>1. SUFFICES ASSUME host.pc = "report" PROVE FALSE
        OBVIOUS
      <4>2. Decide(tab[usb], host.args) = "keep"
        BY <1>6, <3>2, <4>1 DEF Advanced, AdvancedData, ReportDone
      <4>3. host.args.keep \in BOOLEAN
        BY DEF Safe, Shape, HostShape
      <4>4. DecideOK(tab[usb], host.args)
        BY <4>3, DecideCases
      <4>5. QED
        BY <3>2, <4>2, <4>4 DEF DecideOK
    <3>6. CASE host.pc = "images"
      <4>1. Installs(host.pc, host.args.keep)
        BY <3>2, <3>6 DEF Installs
      <4>2. QED
        BY <3>4, <4>1 DEF PlanInv
    <3>7. CASE host.pc = "verify"
      <4>1. Here(usb) /\ host.pc \notin Early
        BY <1>6, <3>7 DEF Advanced, AdvancedData, RemoteSteps, Early
      <4>2. usb = host.args.serial
        BY <4>1, HereIsUsb DEF Safe
      <4>3. Confirmed(tab[usb].head, factory[usb], host.planned)
        BY <1>1, <3>7, <4>1 DEF PlanInv, Verifying
      <4>4. QED
        BY <3>4, <4>2, <4>3
    <3>8. QED
      BY <3>3, <3>5, <3>6, <3>7
  <2>9. QED
    BY <2>5, <2>6, <2>7, <2>8
<1> HIDE DEF Good
<1>7. Good
  BY <1>4, <1>5, <1>6, HostSteps DEF Safe
<1> USE DEF Good
<1>8. QED
  BY <1>1, <1>7 DEF PlanInv, PlanMade, InfoRead, Confirmed, Here

LEMMA InitPlan ==
  ASSUME Init
  PROVE  KnownInv /\ SavingInv /\ RequestInv /\ PlanInv
<1>1. host.pc = "idle" /\ host.saving = {} /\ backups = {}
  BY IdleFields DEF Init
<1>2. \A t \in Tablets : tab[t].head = factory[t]
  BY ComesShape DEF Init
<1>3. KnownInv
  BY <1>1, <1>2 DEF KnownInv
<1>4. SavingInv
  BY <1>1 DEF SavingInv
<1>5. RequestInv
  BY <1>1 DEF RequestInv
<1>6. PlanInv
  BY <1>1 DEF PlanInv, Splits, HasInfo, Verifying, Installs, SplitSteps
<1>7. QED
  BY <1>3, <1>4, <1>5, <1>6

\* What the invariant says of the table is what the property asks.
LEMMA InstalledConfirmed ==
  ASSUME PlanInv
  PROVE  AppliedIsConfirmed
<1>1. SUFFICES ASSUME host.pc \in {"images", "prepare home"}, ~host.args.keep
               PROVE  AppliedIsConfirmed
  BY DEF AppliedIsConfirmed
<1>2. Confirmed(tab[host.args.serial].head, factory[host.args.serial], host.planned)
  BY <1>1 DEF PlanInv, Installs
<1>3. QED
  BY <1>2, Zenon DEF AppliedIsConfirmed, Confirmed, Ours, Bytes

\* The four parts that the plan needs beside Safe.
Plans == SavingInv /\ KnownInv /\ RequestInv /\ PlanInv

LEMMA PlansInit == Init => Safe /\ Plans
  BY InitShape, InitChosen, InitHome, InitPlan DEF Safe, Plans

LEMMA PlansKept ==
  ASSUME Safe, Plans, [Next]_vars
  PROVE  (Safe /\ Plans)'
<1>1. Safe'
  BY ShapeKept, ChosenKept, HomeKeptInv DEF Safe
<1>2. SavingInv' /\ KnownInv'
  BY SavingKept, KnownKept DEF Safe, Plans
<1>3. RequestInv'
  BY RequestKept DEF Safe, Plans
<1>4. PlanInv'
  BY PlanKept DEF Plans
<1>5. QED
  BY <1>1, <1>2, <1>3, <1>4 DEF Plans

\* The plan for a factory table is the least feasible one, and it is refused only
\* where there is none: plan_layout aligns up, so that each boundary is the lowest
\* aligned one that gives what was asked, and its refusals are exactly the sizes
\* that are not allowed, the sectors that do not divide the alignment and the
\* home that has no room.
THEOREM PlannedIsLeast == Spec => []PlanIsLeast
<1>1. Safe /\ Plans /\ [Next]_vars => (Safe /\ Plans)'
  BY PlansKept
<1>2. Safe /\ Plans => PlanIsLeast
  BY ReportLeast DEF Safe, Plans
<1>3. QED
  BY <1>1, <1>2, PlansInit, PTL DEF Spec

\* The table that Ubuntu is installed on is the one the user confirmed: confirm_plan
\* compares the plan for the tablet with the one that was shown, one sgdisk call
\* makes it of the factory table that was read, and sgdisk keeps every partition
\* that it is not told to delete.  The tablet may have lost power, been moved to
\* another cable or answered wrongly at any step before.
THEOREM SplitAsConfirmed == Spec => []AppliedIsConfirmed
<1>1. Safe /\ Plans /\ [Next]_vars => (Safe /\ Plans)'
  BY PlansKept
<1>2. Safe /\ Plans => AppliedIsConfirmed
  BY InstalledConfirmed DEF Plans
<1>3. QED
  BY <1>1, <1>2, PlansInit, PTL DEF Spec
-----------------------------------------------------------------------------
(* The other capacities: CapacityFollows, as far as it holds.                *)

\* A run that splits was shown the plan for the reference table.
PreviewInv ==
  host.pc # "idle" /\ host.args.restore = {} /\ ~host.args.keep =>
    /\ host.planned = ReferencePlan(host.args.layout, host.args.android, host.args.root)
    /\ host.planned # <<>>

LEMMA PreviewKept ==
  ASSUME Shape, PreviewInv, [Next]_vars
  PROVE  PreviewInv'
<1>1. CASE Held
  BY <1>1 DEF Held, PreviewInv
<1>2. CASE Ended
  BY <1>2, IdleFields DEF Ended, PreviewInv
<1>3. CASE Advanced
  BY <1>3 DEF Advanced, AdvancedFields, Follow, PreviewInv
<1>4. CASE Begun
  <2>1. PICK a : Asked(a) /\ Begin(a)
    BY <1>4 DEF Begun
  <2> DEFINE preview == ReferencePlan(a.layout, a.android, a.root)
             planned == IF a.keep \/ a.restore # {} THEN <<>> ELSE preview
             i == Idle("none")
             next == [i EXCEPT !.pc = "fastboot", !.args = a, !.planned = planned]
  <2>2. \/ host' = next /\ (a.keep \/ a.restore # {} \/ planned # <<>>)
        \/ host' = Idle("refused")
    BY <2>1, Zenon DEF Begin, Stop
  <2>3. DOMAIN i = HostFields
    BY IdleFields
  <2>4. ~a.keep /\ a.restore = {} => planned = preview
    BY Zenon
  <2> HIDE DEF planned, i
  <2>5. next.args = a /\ next.planned = planned
    BY <2>3 DEF HostFields
  <2> HIDE DEF next
  <2>6. CASE host' = next /\ (a.keep \/ a.restore # {} \/ planned # <<>>)
    BY <2>4, <2>5, <2>6 DEF PreviewInv
  <2>7. CASE host' = Idle("refused")
    BY <2>7, IdleFields DEF PreviewInv
  <2>8. QED
    BY <2>2, <2>6, <2>7
<1>5. QED
  BY <1>1, <1>2, <1>3, <1>4, HostSteps

\* Offsets an aligned distance apart are aligned up by the same amount.
LEMMA MultiplesAdd ==
  ASSUME NEW x \in Int, NEW y \in Int, NEW a \in Nat \ {0}, x % a = 0, y % a = 0
  PROVE  (x + y) % a = 0 /\ (x - y) % a = 0 /\ (0 - x) % a = 0
<1>1. x = (x \div a) * a /\ y = (y \div a) * a /\ x \div a \in Int /\ y \div a \in Int
  BY Division
<1>2. /\ (((x \div a) + (y \div a)) * a) % a = 0 /\ (((x \div a) - (y \div a)) * a) % a = 0
      /\ ((0 - (x \div a)) * a) % a = 0
  BY <1>1, Multiple
<1>3. /\ ((x \div a) + (y \div a)) * a = (x \div a) * a + (y \div a) * a
      /\ ((x \div a) - (y \div a)) * a = (x \div a) * a - (y \div a) * a
      /\ (0 - (x \div a)) * a = 0 - (x \div a) * a
  BY <1>1
<1>4. QED
  BY <1>1, <1>2, <1>3

LEMMA AlignBelow ==
  ASSUME NEW x \in Int, NEW y \in Int, (x - y) % ALIGNMENT = 0
  PROVE  AlignUp(x) - x <= AlignUp(y) - y
<1>1. ALIGNMENT \in Nat \ {0} /\ x - y \in Int
  BY LayoutAssumption
<1>2. AlignUp(y) \in Int /\ AlignUp(y) >= y /\ AlignUp(y) % ALIGNMENT = 0 /\ AlignUp(x) \in Int
  BY AlignIs
<1> DEFINE v == x - y
           u == AlignUp(y)
           z == u + v
<1>3. z \in Int /\ z % ALIGNMENT = 0
  <2>1. u \in Int /\ u % ALIGNMENT = 0 /\ v \in Int /\ v % ALIGNMENT = 0
    BY <1>1, <1>2
  <2> HIDE DEF u, v
  <2>2. (u + v) % ALIGNMENT = 0
    BY <1>1, <2>1, MultiplesAdd, Zenon
  <2>3. QED
    BY <2>1, <2>2
<1>4. z >= x
  BY <1>2
<1>5. z = AlignUp(y) + (x - y)
  OBVIOUS
<1> HIDE DEF z
<1>6. AlignUp(x) <= z
  BY <1>3, <1>4, AlignLeast
<1>7. QED
  BY <1>2, <1>5, <1>6

LEMMA AlignShift ==
  ASSUME NEW x \in Int, NEW y \in Int, (x - y) % ALIGNMENT = 0
  PROVE  AlignUp(x) - x = AlignUp(y) - y
<1>1. ALIGNMENT \in Nat \ {0}
  BY LayoutAssumption
<1>2. (y - x) % ALIGNMENT = 0
  <2> DEFINE v == x - y
  <2>1. v \in Int /\ v % ALIGNMENT = 0 /\ y - x = 0 - v
    OBVIOUS
  <2> HIDE DEF v
  <2>2. (0 - v) % ALIGNMENT = 0
    BY <1>1, <2>1, MultiplesAdd
  <2>3. QED
    BY <2>1, <2>2
<1>3. AlignUp(x) \in Int /\ AlignUp(y) \in Int
  BY AlignIs
<1>4. AlignUp(x) - x <= AlignUp(y) - y /\ AlignUp(y) - y <= AlignUp(x) - x
  BY <1>2, AlignBelow
<1>5. QED
  BY <1>3, <1>4

LEMMA SameRemainder ==
  ASSUME NEW x \in Int, NEW y \in Int, NEW a \in Nat \ {0}, x % a = y % a
  PROVE  (x - y) % a = 0
<1>1. /\ x = (a * (x \div a)) + (x % a) /\ y = (a * (y \div a)) + (y % a)
      /\ x \div a \in Int /\ y \div a \in Int /\ (x % a) \in Int
  BY Division
<1>2. (((x \div a) - (y \div a)) * a) % a = 0
  BY <1>1, Multiple
<1>3. x - y = ((x \div a) - (y \div a)) * a
  BY <1>1
<1>4. QED
  BY <1>2, <1>3

\* On two tables whose tails start equally far from an alignment boundary, the
\* pieces that are cut have the same sizes.
SameStart(disk, other) == TailStart(disk) % ALIGNMENT = TailStart(other) % ALIGNMENT

LEMMA SameCuts ==
  ASSUME NEW disk, NEW other, Plain(disk), Plain(other), SameStart(disk, other),
         NEW android \in Nat, NEW root \in Nat
  PROVE  /\ Cursor(disk, android) - TailStart(disk) = Cursor(other, android) - TailStart(other)
         /\ RootEnd(disk, android, root) - Cursor(disk, android)
              = RootEnd(other, android, root) - Cursor(other, android)
<1> DEFINE s == TailStart(disk)
           t == TailStart(other)
           c == Cursor(disk, android)
           d == Cursor(other, android)
<1>1. ALIGNMENT \in Nat \ {0} /\ s \in Nat /\ t \in Nat
  BY LayoutAssumption, TailIs
<1>2. c \in Int /\ c % ALIGNMENT = 0 /\ d \in Int /\ d % ALIGNMENT = 0
  BY CutsAre
<1>3. c = AlignUp(s + android) /\ d = AlignUp(t + android)
  BY DEF Cursor
<1>4. RootEnd(disk, android, root) = AlignUp(c + root) /\ RootEnd(other, android, root) = AlignUp(d + root)
  BY DEF RootEnd
<1>5. s % ALIGNMENT = t % ALIGNMENT
  BY DEF SameStart
<1> HIDE DEF s, t, c, d
<1>6. (s - t) % ALIGNMENT = 0 /\ (c - d) % ALIGNMENT = 0
  <2>1. (s - t) % ALIGNMENT = 0
    <3>1. s \in Int /\ t \in Int
      BY <1>1
    <3>2. QED
      BY <1>1, <1>5, <3>1, SameRemainder, Zenon
  <2>2. (c - d) % ALIGNMENT = 0
    BY <1>1, <1>2, MultiplesAdd, Zenon
  <2>3. QED
    BY <2>1, <2>2
<1>7. AlignUp(s + android) - (s + android) = AlignUp(t + android) - (t + android)
  <2>1. (s + android) - (t + android) = s - t /\ s + android \in Int /\ t + android \in Int
    BY <1>1
  <2>2. QED
    BY <1>6, <2>1, AlignShift
<1>8. AlignUp(c + root) - (c + root) = AlignUp(d + root) - (d + root)
  <2>1. (c + root) - (d + root) = c - d /\ c + root \in Int /\ d + root \in Int
    BY <1>2
  <2>2. QED
    BY <1>6, <2>1, AlignShift
<1>9. AlignUp(c + root) \in Int /\ AlignUp(d + root) \in Int
  BY <1>2, AlignIs
<1>10. c - s = d - t
  <2>1. c - (s + android) = d - (t + android)
    BY <1>3, <1>7
  <2>2. QED
    BY <1>1, <1>2, <2>1
<1>11. AlignUp(c + root) - c = AlignUp(d + root) - d
  BY <1>2, <1>8, <1>9
<1>12. QED
  BY <1>4, <1>10, <1>11 DEF s, t, c, d

\* confirm_plan on two plans that are not refused.
LEMMA ConfirmIs ==
  ASSUME NEW a, NEW b, NEW c, NEW d, NEW e, NEW f,
         a.name = d.name, b.name = e.name, c.name = f.name, f.name = "linux_home",
         d.name # "linux_home", e.name # "linux_home",
         a.action = d.action, b.action = e.action, c.action = f.action
  PROVE  ConfirmPlan(<<a, b, c>>, <<d, e, f>>) <=> Size(a) = Size(d) /\ Size(b) = Size(e)
<1> DEFINE p == <<a, b, c>>
           q == <<d, e, f>>
<1>1. /\ p[1] = a /\ p[2] = b /\ p[3] = c /\ q[1] = d /\ q[2] = e /\ q[3] = f
      /\ Len(p) = 3 /\ Len(q) = 3
  OBVIOUS
<1>2. \A i \in 1 .. 3 : i \in {1, 2, 3}
  OBVIOUS
<1>3. 1 \in 1 .. 3 /\ 2 \in 1 .. 3
  OBVIOUS
<1> HIDE DEF p, q
<1>4. ConfirmPlan(p, q) <=> Size(a) = Size(d) /\ Size(b) = Size(e)
  <2>1. ASSUME ConfirmPlan(p, q) PROVE Size(a) = Size(d) /\ Size(b) = Size(e)
    BY <1>1, <1>3, <2>1 DEF ConfirmPlan
  <2>2. ASSUME Size(a) = Size(d), Size(b) = Size(e) PROVE ConfirmPlan(p, q)
    <3>1. ASSUME NEW i \in 1 .. Len(q)
          PROVE  /\ p[i].name = q[i].name /\ p[i].action = q[i].action
                 /\ q[i].name # "linux_home" => Size(p[i]) = Size(q[i])
      BY <1>1, <1>2, <2>2, <3>1
    <3>2. QED
      BY <1>1, <3>1 DEF ConfirmPlan
  <2>3. QED
    BY <2>1, <2>2
<1>5. QED
  BY <1>4 DEF p, q

\* The plan for a tablet is confirmed against that for the reference unless the
\* deleted userdata, which has no size that was asked for, differs.
LEMMA SameConfirmed ==
  ASSUME NEW disk, NEW other, Plain(disk), Plain(other), SameStart(disk, other), NEW mode,
         NEW android \in Nat, NEW root \in Nat,
         PlanLayout(disk, mode, android, root) # <<>>, PlanLayout(other, mode, android, root) # <<>>
  PROVE  ConfirmPlan(PlanLayout(other, mode, android, root), PlanLayout(disk, mode, android, root))
           <=> android > 0 \/ Region(disk) = Region(other)
<1> DEFINE a == First(other, android)
           b == Second(other, android, root)
           c == Third(other, android, root)
           d == First(disk, android)
           e == Second(disk, android, root)
           f == Third(disk, android, root)
<1>1. PlanLayout(other, mode, android, root) = <<a, b, c>>
  <2>1. PlanLayout(other, mode, android, root) = IF Refused(other, mode, android, root) THEN <<>> ELSE <<a, b, c>>
    BY PlanIs
  <2>2. QED
    BY <2>1, Zenon
<1>2. PlanLayout(disk, mode, android, root) = <<d, e, f>>
  <2>1. PlanLayout(disk, mode, android, root) = IF Refused(disk, mode, android, root) THEN <<>> ELSE <<d, e, f>>
    BY PlanIs
  <2>2. QED
    BY <2>1, Zenon
<1>3. /\ a.name = "userdata" /\ d.name = "userdata" /\ a.action = d.action
      /\ Size(a) = IF android > 0 THEN Cursor(other, android) - TailStart(other) ELSE Region(other)
      /\ Size(d) = IF android > 0 THEN Cursor(disk, android) - TailStart(disk) ELSE Region(disk)
  <2>1. CASE android > 0
    BY <2>1 DEF First, Entry, Size
  <2>2. CASE ~(android > 0)
    BY <2>2 DEF First, Entry, Size, Region, TailStart
  <2>3. QED
    BY <2>1, <2>2
<1>4. /\ b.name = "linux_root" /\ e.name = "linux_root" /\ b.action = e.action
      /\ Size(b) = RootEnd(other, android, root) - Cursor(other, android)
      /\ Size(e) = RootEnd(disk, android, root) - Cursor(disk, android)
  BY DEF Second, Entry, Size
<1>5. c.name = "linux_home" /\ f.name = "linux_home" /\ c.action = f.action
  BY DEF Third, Entry
<1>6. /\ Cursor(disk, android) - TailStart(disk) = Cursor(other, android) - TailStart(other)
      /\ RootEnd(disk, android, root) - Cursor(disk, android)
           = RootEnd(other, android, root) - Cursor(other, android)
  BY SameCuts
<1> HIDE DEF a, b, c, d, e, f
<1>7. ConfirmPlan(<<a, b, c>>, <<d, e, f>>) <=> Size(a) = Size(d) /\ Size(b) = Size(e)
  BY <1>3, <1>4, <1>5, ConfirmIs
<1>8. Size(b) = Size(e)
  BY <1>4, <1>6
<1>9. Size(a) = Size(d) <=> android > 0 \/ Region(disk) = Region(other)
  <2>1. CASE android > 0
    BY <1>3, <1>6, <2>1
  <2>2. CASE ~(android > 0)
    BY <1>3, <2>2
  <2>3. QED
    BY <2>1, <2>2
<1>10. QED
  BY <1>1, <1>2, <1>7, <1>8, <1>9

\* The sizes a run asks for, and that none is a share of the region.
AndroidOf(a) == IF a.android = <<>> THEN Default[a.layout].android ELSE a.android[1]
RootOf(a) == IF a.root = <<>> THEN Default[a.layout].root ELSE a.root[1]
InBytes(a) == AndroidOf(a).unit = "B" /\ RootOf(a).unit = "B"

LEMMA BytesAre ==
  ASSUME NEW a \in Requests, InBytes(a)
  PROVE  /\ AndroidOf(a).n \in Nat /\ RootOf(a).n \in Nat
         /\ \A region : ResolveSizes(a.layout, a.android, a.root, region)
                          = [android |-> AndroidOf(a).n, root |-> RootOf(a).n]
<1>1. IsSize(AndroidOf(a)) /\ IsSize(RootOf(a))
  BY RequestsAssumption, LayoutAssumption DEF AndroidOf, RootOf
<1>2. AndroidOf(a).n \in Nat /\ RootOf(a).n \in Nat
  BY <1>1 DEF IsSize
<1>3. AndroidOf(a).unit # "%" /\ RootOf(a).unit # "%"
  BY DEF InBytes
<1>4. ASSUME NEW region
      PROVE  ResolveSizes(a.layout, a.android, a.root, region) = [android |-> AndroidOf(a).n, root |-> RootOf(a).n]
  <2>1. ResolveSizes(a.layout, a.android, a.root, region)
          = [android |-> ParseSize(AndroidOf(a), region), root |-> ParseSize(RootOf(a), region)]
    BY DEF ResolveSizes, AndroidOf, RootOf
  <2>2. ParseSize(AndroidOf(a), region) = AndroidOf(a).n /\ ParseSize(RootOf(a), region) = RootOf(a).n
    BY <1>3 DEF ParseSize
  <2>3. QED
    BY <2>1, <2>2
<1>5. QED
  BY <1>2, <1>4

\* A factory table on which the sizes fit, of any capacity, is split exactly if
\* Android keeps a part of it or the capacity is the reference's.
CapacityDecides ==
  host.pc = "report" /\ ~host.args.keep /\ InBytes(host.args) =>
    LET disk == ParsePrint(tab[usb].head)
    IN /\ Classify(disk) = "stock" /\ CheckStockDevice(disk) /\ PlanOf(tab[usb], host.args) # <<>>
       /\ SameStart(disk, ReferenceDisk)
       => (Decide(tab[usb], host.args) = "split"
             <=> AndroidOf(host.args).n > 0 \/ Region(disk) = Region(ReferenceDisk))

LEMMA ReportDecides ==
  ASSUME Shape, KnownInv, RequestInv, PreviewInv, Plain(ReferenceDisk)
  PROVE  CapacityDecides
<1> DEFINE disk == ParsePrint(tab[usb].head)
           a == host.args
           plan == PlanOf(tab[usb], a)
<1> SUFFICES ASSUME host.pc = "report", ~a.keep, InBytes(a), Classify(disk) = "stock", CheckStockDevice(disk),
                    plan # <<>>, SameStart(disk, ReferenceDisk)
             PROVE  Decide(tab[usb], a) = "split" <=> AndroidOf(a).n > 0 \/ Region(disk) = Region(ReferenceDisk)
  BY Zenon DEF CapacityDecides
<1>1. usb \in Tablets /\ StockHead(usb)
  BY DEF Shape, TypeOK, StockHead
<1>2. IsTable(tab[usb].head)
  BY <1>1, StockIsFactory, TablesAssumption
<1>3. Plain(disk)
  BY <1>2, ReadPlain
<1>4. a \in Requests /\ a.keep = FALSE
  BY DEF RequestInv, Shape, BackupShape, Early
<1>5. a.restore = {}
  BY DEF Shape, BackupShape, Early
<1>6. host.planned = ReferencePlan(a.layout, a.android, a.root) /\ host.planned # <<>>
  BY <1>5 DEF PreviewInv
<1>7. /\ AndroidOf(a).n \in Nat /\ RootOf(a).n \in Nat
      /\ \A region : ResolveSizes(a.layout, a.android, a.root, region)
                       = [android |-> AndroidOf(a).n, root |-> RootOf(a).n]
  BY <1>4, BytesAre
<1>8. \A table : PlanFor(table, a.layout, a.android, a.root)
                   = PlanLayout(table, a.layout, AndroidOf(a).n, RootOf(a).n)
  BY <1>7 DEF PlanFor
<1>9. /\ plan = PlanLayout(disk, a.layout, AndroidOf(a).n, RootOf(a).n)
      /\ host.planned = PlanLayout(ReferenceDisk, a.layout, AndroidOf(a).n, RootOf(a).n)
  BY <1>6, <1>8 DEF PlanOf, ReferencePlan
<1>10. Decide(tab[usb], a) = IF ConfirmPlan(host.planned, plan) THEN "split" ELSE "refuse"
  BY <1>4 DEF Decide
<1> HIDE DEF disk, a, plan
<1>11. ConfirmPlan(host.planned, plan) <=> AndroidOf(a).n > 0 \/ Region(disk) = Region(ReferenceDisk)
  BY <1>3, <1>6, <1>7, <1>9, SameConfirmed
<1>12. QED
  BY <1>10, <1>11

\* CapacityFollows, as far as it holds: a tablet whose userdata starts as far
\* from an alignment boundary as on the reference table is split as it was
\* previewed, whatever its capacity, unless userdata is to be deleted and the
\* region has another size; then, and only then, confirm_plan refuses it.  Sizes
\* are in bytes, and the reference table has a userdata inside the disk.
THEOREM OnlyDeletionRefuses == Plain(ReferenceDisk) => (Spec => []CapacityDecides)
<1> SUFFICES ASSUME Plain(ReferenceDisk) PROVE Spec => []CapacityDecides
  OBVIOUS
<1> DEFINE Inv == Safe /\ Plans /\ PreviewInv
<1>1. Init => Inv
  BY PlansInit, IdleFields DEF Init, PreviewInv
<1>2. Inv /\ [Next]_vars => Inv'
  BY PlansKept, PreviewKept DEF Safe
<1>3. Inv => CapacityDecides
  BY ReportDecides DEF Safe, Plans
<1> HIDE DEF Inv
<1>4. QED
  BY <1>1, <1>2, <1>3, PTL DEF Spec

-----------------------------------------------------------------------------
(* A run that says so has installed.                                         *)

\* The steps after each part of the installation.
AfterFirst == {"boot second", "activate"}
AfterFirmware == {"android", "boot first"} \cup AfterFirst
AfterStore == {"reboot", "return", "firmware"} \cup AfterFirmware
AfterRoot == {"write store"} \cup AfterStore
AfterHome == {"write root"} \cup AfterRoot
AfterImages == {"prepare home"} \cup AfterHome
AfterTable == {"images"} \cup AfterImages
AfterApply == {"verify"} \cup AfterTable
AfterMetadata == {"apply"} \cup AfterApply
AfterUserdata == {"wipe metadata"} \cup AfterMetadata

HomeIn(x) == \E p \in Named(x.head, "linux_home") : x.home.first = p.first /\ x.home.kind # "none"

\* What a run at step `pc`, with the firmware it has still to flash, has done on
\* the tablet so far.
Installing(x, a, pc, fw) ==
  /\ x.mode # "system"
  /\ a.layout = "dual" /\ ~a.keep =>
       (pc \in AfterUserdata => x.userdata = "wiped") /\ (pc \in AfterMetadata => x.metadata = "wiped")
  /\ ~a.keep /\ pc \in AfterApply => x.head = x.tail
  /\ pc \in AfterTable => Classify(ParsePrint(x.head)) = "split"
  /\ a.layout = "dual" /\ pc \in AfterImages => fw = "stock" \/ x.fw = "stock"
  /\ pc \in AfterHome => HomeIn(x)
  /\ pc \in AfterRoot => x.root = "ubuntu"
  /\ a.layout = "dual" /\ pc \in AfterStore => x.store = "both"
  /\ pc = "firmware" => fw = "stock"
  /\ a.layout = "dual" /\ pc \in AfterFirmware => x.fw = "stock"
  /\ a.layout = "dual" /\ pc \in AfterFirst => x.boot_a = "ubuntu"
  /\ pc = "boot second" => a.layout = "dual"
  /\ pc = "activate" => x.boot_b = "ubuntu"

ProgressInv ==
  host.pc \notin {"idle", "fastboot", "boot"} /\ host.args.restore = {} =>
    host.padded = "ubuntu" /\ Installing(tab[host.args.serial], host.args, host.pc, host.fw)

\* A step that takes the installer on, and where to.
Onward == host.pc # "idle" /\ host'.pc # "idle" /\ host'.pc # host.pc

Turns(dual) ==
  /\ dual /\ host.pc \in {"report", "verify"} => host'.pc # "prepare home"
  /\ dual /\ host.pc = "wipe userdata" => host'.pc # "apply"
  /\ dual /\ host.pc = "write root" => host'.pc # "reboot"
  /\ host.pc = "return" => (host'.pc # "firmware" => host.fw = "none") /\ (dual => host'.pc # "boot first")
  /\ host.pc = "boot first" => host'.pc = IF dual THEN "boot second" ELSE "activate"
  /\ host.pc = "images" /\ host'.fw # "stock" => tab[usb].fw = "stock"

\* The command of such a step was done, whole.
Done ==
  /\ host.pc \in RemoteSteps => /\ Here(usb) /\ Allowed(host.pc, tab[usb])
                                /\ tab' = [tab EXCEPT ![usb] = Effects(host.pc, tab[usb])[1]]
  /\ host.pc \in FlashSteps =>
       tab' = [tab EXCEPT ![host.args.serial] = Put(tab[host.args.serial], host.pc, Target(host.pc)[2])]
  /\ host.pc = "boot" => /\ tab'[host.args.serial].mode = "ram"
                         /\ host.args.restore = {} => host'.padded = "ubuntu"

LEMMA RemoteDone ==
  ASSUME NEW pc, NEW next, NEW saved, Remote(pc, next, saved), host'.pc # "idle"
  PROVE  /\ host.pc = pc /\ host' = next /\ Here(usb) /\ Allowed(pc, tab[usb])
         /\ tab' = [tab EXCEPT ![usb] = Effects(pc, tab[usb])[1]]
<1>1. host' # Idle("failed")
  BY IdleFields
<1>2. QED
  BY <1>1, Zenon DEF Remote, Fail, Stop, Answers, Here

LEMMA OnlyRemote ==
  ASSUME NEW pc \in RemoteSteps \cup {"serial"}, NEW next, NEW saved, Remote(pc, next, saved), host'.pc # "idle"
  PROVE  Done
<1>1. pc \notin FlashSteps /\ pc # "boot"
  BY DEF RemoteSteps, SavingSteps, SplitSteps, FlashSteps
<1>2. QED
  BY <1>1, RemoteDone DEF Done

\* Where a remote command goes on depends on the layout.
LEMMA RemoteTurns ==
  ASSUME Shape, host'.pc # "idle",
         \/ CheckSerial \/ BackupBoots \/ BackupHead \/ BackupTail \/ Report \/ WipeUserdata \/ WipeMetadata
         \/ Apply \/ Verify \/ RestoreTable \/ Images \/ InstallHome \/ InstallRoot \/ InstallStore \/ Reboot
  PROVE  Turns(host.args.layout = "dual")
<1> DEFINE Goal == Turns(host.args.layout = "dual")
<1>1. DOMAIN host = HostFields
  BY DEF Shape, HostShape
<1>2. ASSUME NEW q PROVE At(q).pc = q
  BY <1>1 DEF At, HostFields
<1>3. host.args.layout = "dual" => ImagesOrRoot = "images"
  BY DEF ImagesOrRoot
<1>4. ASSUME Report PROVE Goal
  <2> DEFINE choice == Decide(tab[usb], host.args)
             split == [host EXCEPT !.pc = "wipe userdata", !.plan = PlanOf(tab[usb], host.args)]
             next == CASE choice = "refuse" -> Idle("refused")
                       [] choice = "keep"   -> At(ImagesOrRoot)
                       [] choice = "split"  -> split
  <2>1. host.pc = "report" /\ host' = next
    <3>1. Remote("report", next, backups)
      BY <1>4, Zenon DEF Report
    <3> HIDE DEF next
    <3>2. QED
      BY <3>1, RemoteDone
  <2>2. choice \in {"refuse", "keep", "split"}
    BY DEF Decide
  <2>3. split.pc = "wipe userdata"
    BY <1>1 DEF HostFields
  <2> HIDE DEF choice, split
  <2>4. host.args.layout = "dual" => host'.pc # "prepare home"
    BY <1>2, <1>3, <2>1, <2>2, <2>3, IdleFields
  <2>5. QED
    BY <2>1, <2>4 DEF Turns
<1>5. ASSUME Verify PROVE Goal
  <2> DEFINE disk == ParsePrint(tab[usb].head)
             ok == /\ VerifyApplied(disk, host.plan)
                   /\ host.plan[1].action # "delete" => VerifyPreserved(host.info, ParseInfo(disk, "userdata"))
             next == IF ok THEN At(ImagesOrRoot) ELSE Idle("failed")
  <2>1. Remote("verify", next, backups)
    BY <1>5, Zenon DEF Verify
  <2> HIDE DEF ok
  <2>2. next.pc \in {ImagesOrRoot, "idle"}
    BY <1>2, IdleFields
  <2> HIDE DEF next
  <2>3. host.pc = "verify" /\ host' = next
    BY <2>1, RemoteDone
  <2>4. QED
    BY <1>3, <2>2, <2>3 DEF Turns
<1>6. ASSUME WipeUserdata PROVE Goal
  <2> DEFINE q == IF host.args.layout = "dual" THEN "wipe metadata" ELSE "apply"
             next == [host EXCEPT !.pc = q, !.info = ParseInfo(ParsePrint(tab[usb].head), "userdata")]
  <2>1. Remote("wipe userdata", next, backups)
    BY <1>6, Zenon DEF WipeUserdata
  <2>2. next.pc = q
    BY <1>1 DEF HostFields
  <2> HIDE DEF next
  <2>3. host.pc = "wipe userdata" /\ host' = next
    BY <2>1, RemoteDone
  <2>4. QED
    BY <2>2, <2>3 DEF Turns
<1>7. ASSUME InstallRoot PROVE Goal
  <2> DEFINE q == IF host.args.layout = "dual" THEN "write store" ELSE "reboot"
             next == [host EXCEPT !.pc = q]
  <2>1. Remote("write root", next, backups)
    BY <1>7, Zenon DEF InstallRoot, At
  <2>2. next.pc = q
    BY <1>1 DEF HostFields
  <2> HIDE DEF next
  <2>3. host.pc = "write root" /\ host' = next
    BY <2>1, RemoteDone
  <2>4. QED
    BY <2>2, <2>3 DEF Turns
<1>8. ASSUME Images PROVE Goal
  <2> DEFINE flash == tab[usb].fw # "stock"
             fw == IF flash THEN PadBootImage("rom", "stock") ELSE "none"
             next == [host EXCEPT !.pc = "prepare home", !.fw = fw]
             b == [Saving EXCEPT !.fw = {tab[usb].fw}]
             saved == IF flash /\ ~host.args.nobackup THEN (backups \ host.saving) \cup {b} ELSE backups
  <2>1. Remote("images", next, saved)
    BY <1>8, Zenon DEF Images
  <2>2. next.fw = fw
    BY <1>1 DEF HostFields
  <2>3. host.pc = "images" /\ host' = next /\ Allowed("images", tab[usb])
    <3> HIDE DEF flash, fw, b, next, saved
    <3>1. QED
      BY <2>1, RemoteDone
  <2>4. flash => fw = "stock"
    BY <2>3 DEF Allowed, PadBootImage
  <2> HIDE DEF next, fw
  <2>5. QED
    BY <2>2, <2>3, <2>4 DEF Turns
<1>9. ASSUME NEW pc \in (RemoteSteps \cup {"serial"}) \ {"report", "verify", "wipe userdata", "write root", "images"},
             NEW next, NEW saved, Remote(pc, next, saved)
      PROVE  Goal
  <2>1. host.pc = pc
    BY <1>9, RemoteDone
  <2>2. pc \notin {"return", "boot first"}
    BY DEF RemoteSteps, SavingSteps, SplitSteps
  <2>3. QED
    BY <2>1, <2>2 DEF Turns
<1>10. ASSUME \/ CheckSerial \/ BackupBoots \/ BackupHead \/ BackupTail \/ WipeMetadata
              \/ Apply \/ RestoreTable \/ InstallHome \/ InstallStore \/ Reboot
       PROVE  Goal
  <2> DEFINE R(pc) == \E next, saved : Remote(pc, next, saved)
  <2>1. (CheckSerial => R("serial")) /\ (BackupBoots => R("backup boots")) /\ (BackupHead => R("backup head"))
    BY Zenon DEF CheckSerial, BackupBoots, BackupHead
  <2>2. (BackupTail => R("backup tail")) /\ (WipeMetadata => R("wipe metadata")) /\ (Apply => R("apply"))
    BY Zenon DEF BackupTail, WipeMetadata, Apply
  <2>3. (RestoreTable => R("restore")) /\ (InstallHome => R("prepare home"))
    BY Zenon DEF RestoreTable, InstallHome
  <2>4. (InstallStore => R("write store")) /\ (Reboot => R("reboot"))
    BY Zenon DEF InstallStore, Reboot
  <2>5. \A pc \in {"serial", "backup boots", "backup head", "backup tail", "wipe metadata", "apply", "restore",
                   "prepare home", "write store", "reboot"} : R(pc) => Goal
    BY <1>9 DEF RemoteSteps, SavingSteps, SplitSteps
  <2> HIDE DEF R, Goal
  <2>6. QED
    BY <1>10, <2>1, <2>2, <2>3, <2>4, <2>5
<1>11. QED
  BY <1>4, <1>5, <1>6, <1>7, <1>8, <1>10

LEMMA FlashTurns ==
  ASSUME Shape, NEW pc \in FlashSteps, NEW next, Flash(pc, next), host'.pc # "idle"
  PROVE  host.pc = pc /\ host'.pc = next /\ Done
<1>1. host.pc = pc /\ host' # Idle("failed")
  BY FlashCases, IdleFields DEF Shape
<1>2. /\ host' = [host EXCEPT !.pc = next]
      /\ tab' = [tab EXCEPT ![host.args.serial] = Put(tab[host.args.serial], host.pc, Target(host.pc)[2])]
  BY <1>1, FlashCases DEF Shape
<1>3. host'.pc = next
  BY <1>2 DEF Shape, HostShape, HostFields
<1>4. pc \notin RemoteSteps /\ pc # "boot"
  BY DEF RemoteSteps, SavingSteps, SplitSteps, FlashSteps
<1>5. QED
  BY <1>1, <1>2, <1>3, <1>4 DEF Done

\* A step that takes the installer on did what it is there for.
LEMMA OnwardDone ==
  ASSUME Shape, [Next]_vars, Onward
  PROVE  Done /\ Turns(host.args.layout = "dual")
<1> DEFINE Goal == Done /\ Turns(host.args.layout = "dual")
<1>1. ASSUME RemoteNext PROVE Done
  BY <1>1, OnlyRemote DEF RemoteNext, Onward
<1>2. ASSUME \/ CheckSerial \/ BackupBoots \/ BackupHead \/ BackupTail \/ Report \/ WipeUserdata \/ WipeMetadata
             \/ Apply \/ Verify \/ RestoreTable \/ Images \/ InstallHome \/ InstallRoot \/ InstallStore \/ Reboot
      PROVE  Goal
  BY <1>1, <1>2, RemoteActions, RemoteTurns DEF Onward
<1>3. ASSUME NEW pc \in FlashSteps, NEW next, Flash(pc, next),
             pc = "boot first" => next = IF host.args.layout = "dual" THEN "boot second" ELSE "activate"
      PROVE  Goal
  <2>1. host.pc = pc /\ host'.pc = next /\ Done
    BY <1>3, FlashTurns DEF Onward
  <2>2. pc \notin {"report", "verify", "wipe userdata", "write root", "return", "images"}
    BY DEF FlashSteps
  <2>3. QED
    BY <1>3, <2>1, <2>2 DEF Turns
<1>4. ASSUME FlashFirst PROVE Goal
  <2> DEFINE next == IF host.args.layout = "dual" THEN "boot second" ELSE "activate"
  <2>1. Len(BootSlots(host.args.layout)) = 2 <=> host.args.layout = "dual"
    BY DEF BootSlots
  <2>2. Flash("boot first", IF host.args.layout = "dual" THEN "boot second" ELSE "activate")
    BY <1>4, <2>1, Zenon DEF FlashFirst
  <2>3. QED
    BY <1>3, <2>2 DEF FlashSteps
<1>5. ASSUME FlashFirmware \/ FlashAndroid \/ FlashSecond PROVE Goal
  <2>1. Flash("firmware", "android") \/ Flash("android", "boot first") \/ Flash("boot second", "activate")
    BY <1>5 DEF FlashFirmware, FlashAndroid, FlashSecond
  <2>2. QED
    BY <1>3, <2>1 DEF FlashSteps
<1>6. ASSUME BootRam PROVE Goal
  <2> DEFINE t == host.args.serial
             padded == IF host.args.restore # {} THEN "none" ELSE PadBootImage("boot.img", "ubuntu")
  <2>1. /\ host.pc = "boot"
        /\ IF tab[t].mode # "fastboot" \/ (host.args.restore = {} /\ padded = "none")
           THEN host' = Idle("failed")
           ELSE /\ tab' = [tab EXCEPT ![t].mode = "ram", ![t].id = runs]
                /\ host' = [host EXCEPT !.pc = "wait", !.padded = padded]
    BY <1>6, Zenon DEF BootRam, Fail, Stop
  <2>2. host' # Idle("failed")
    BY IdleFields DEF Onward
  <2>3. host.args.restore = {} => padded = "ubuntu"
    BY <2>1, <2>2 DEF PadBootImage
  <2> HIDE DEF padded
  <2>4. host'.padded = padded
    BY <2>1, <2>2 DEF Shape, HostShape, HostFields
  <2>5. tab'[t].mode = "ram"
    <3>1. t \in Tablets /\ DOMAIN tab = Tablets /\ DOMAIN tab[t] = Fields
      BY DEF Shape, TypeOK, TabletShape
    <3>2. QED
      BY <2>1, <2>2, <3>1 DEF Fields
  <2>6. "boot" \notin RemoteSteps \cup FlashSteps
    BY DEF RemoteSteps, SavingSteps, SplitSteps, FlashSteps
  <2>7. Done
    BY <2>1, <2>3, <2>4, <2>5, <2>6 DEF Done
  <2>8. QED
    BY <2>1, <2>7 DEF Turns
<1>7. ASSUME Return PROVE Goal
  <2> DEFINE q == IF host.fw # "none" THEN "firmware"
                  ELSE IF host.args.layout = "dual" THEN "android" ELSE "boot first"
  <2>1. host.pc = "return" /\ (host' = Idle("failed") \/ host' = [host EXCEPT !.pc = q])
    BY <1>7, Zenon DEF Return, Fail, Stop, Goto
  <2>2. host' # Idle("failed")
    BY IdleFields DEF Onward
  <2>3. host'.pc = q
    BY <2>1, <2>2 DEF Shape, HostShape, HostFields
  <2>4. host.pc \notin RemoteSteps \cup FlashSteps
    BY <2>1 DEF RemoteSteps, SavingSteps, SplitSteps, FlashSteps
  <2>5. QED
    BY <2>1, <2>3, <2>4 DEF Done, Turns
<1>8. ASSUME CheckFastboot \/ WaitForRam PROVE Goal
  <2>1. host.pc \in {"fastboot", "wait"}
    BY <1>8 DEF CheckFastboot, WaitForRam
  <2>2. host.pc \notin RemoteSteps \cup FlashSteps
    BY <2>1 DEF RemoteSteps, SavingSteps, SplitSteps, FlashSteps
  <2>3. QED
    BY <2>1, <2>2 DEF Done, Turns
<1>9. ~Activate
  BY IdleFields DEF Activate, Stop, Fail, Onward
<1>10. ~(Install \/ Restore)
  BY DEF Install, Restore, Begin, Onward
<1>11. ~(\E t \in Tablets : PowerLoss(t) \/ ToFastboot(t) \/ Use(t))
  BY DEF PowerLoss, ToFastboot, Use, Onward
<1>12. ~(MoveCable \/ HostStops \/ FileChanges \/ UNCHANGED vars)
  <2>1. ~HostStops
    BY IdleFields DEF HostStops, Stop, Onward
  <2>2. ~(MoveCable \/ FileChanges \/ UNCHANGED vars)
    BY DEF MoveCable, FileChanges, vars, Onward
  <2>3. QED
    BY <2>1, <2>2
<1>13. QED
  BY <1>2, <1>4, <1>5, <1>6, <1>7, <1>8, <1>9, <1>10, <1>11, <1>12 DEF Next, HostNext

\* What a command at step `pc`, done or cut short, does not touch.
PartsKept(pc, dual, x, y) ==
  /\ pc # "wipe userdata" => y.userdata = x.userdata
  /\ pc # "wipe metadata" => y.metadata = x.metadata
  /\ pc # "apply" => y.head = x.head /\ y.tail = x.tail
  /\ pc # "prepare home" => y.home = x.home
  /\ pc # "write root" => y.root = x.root
  /\ pc \notin {"write root", "write store"} => y.store = x.store
  /\ pc # "firmware" => y.fw = x.fw
  /\ pc # "boot first" \/ ~dual => y.boot_a = x.boot_a
  /\ pc # "boot second" /\ (pc # "boot first" \/ dual) => y.boot_b = x.boot_b

\* Off and InFastboot leave all parts.
LEMMA PartsThen ==
  ASSUME NEW pc, NEW dual, NEW x, NEW y, NEW z, PartsKept(pc, dual, x, y), Storage(z) = Storage(y)
  PROVE  PartsKept(pc, dual, x, z)
<1>1. /\ z.head = y.head /\ z.tail = y.tail /\ z.userdata = y.userdata /\ z.metadata = y.metadata
      /\ z.home = y.home /\ z.root = y.root /\ z.store = y.store
      /\ z.boot_a = y.boot_a /\ z.boot_b = y.boot_b /\ z.fw = y.fw
  BY StorageFields
<1>2. QED
  BY <1>1 DEF PartsKept

LEMMA LeftParts ==
  ASSUME NEW pc, pc # "restore", NEW dual, NEW x, DOMAIN x = Fields, NEW e \in Left(pc, x)
  PROVE  PartsKept(pc, dual, x, e) /\ DOMAIN e = Fields /\ e.mode \in {x.mode, "fastboot"}
<1> DEFINE Goal == PartsKept(pc, dual, x, e) /\ DOMAIN e = Fields /\ e.mode \in {x.mode, "fastboot"}
<1>1. CASE pc = "apply"
  <2>1. /\ DOMAIN e = Fields /\ Flashed(e) = Flashed(x)
        /\ e.home = x.home /\ e.root = x.root /\ e.store = x.store
        /\ e.userdata = x.userdata /\ e.metadata = x.metadata /\ e.mode = x.mode
    BY <1>1, ApplyLeft
  <2>2. QED
    BY <1>1, <2>1 DEF PartsKept, Flashed
<1>2. CASE pc = "prepare home"
  <2>1. /\ DOMAIN e = Fields /\ Flashed(e) = Flashed(x)
        /\ e.head = x.head /\ e.tail = x.tail /\ e.root = x.root /\ e.store = x.store
        /\ e.userdata = x.userdata /\ e.metadata = x.metadata /\ e.mode = x.mode
    BY <1>2, HomeLeft
  <2>2. QED
    BY <1>2, <2>1 DEF PartsKept, Flashed
<1>3. ASSUME NEW y, Effects(pc, x) = <<y, x>> PROVE e \in {y, x}
  BY <1>3, Two DEF Left
<1>4. CASE pc = "wipe userdata"
  <2> DEFINE y == [x EXCEPT !.userdata = "wiped"]
  <2>1. Effects(pc, x) = <<y, x>>
    BY <1>4 DEF Effects
  <2>2. e \in {y, x}
    BY <1>3, <2>1
  <2>3. QED
    BY <1>4, <2>2 DEF PartsKept, Fields
<1>5. CASE pc = "wipe metadata"
  <2> DEFINE y == [x EXCEPT !.metadata = "wiped"]
  <2>1. Effects(pc, x) = <<y, x>>
    BY <1>5 DEF Effects
  <2>2. e \in {y, x}
    BY <1>3, <2>1
  <2>3. QED
    BY <1>5, <2>2 DEF PartsKept, Fields
<1>6. CASE pc = "write store"
  <2> DEFINE y == [x EXCEPT !.store = "both"]
  <2>1. Effects(pc, x) = <<y, x>>
    BY <1>6 DEF Effects
  <2>2. e \in {y, x}
    BY <1>3, <2>1
  <2>3. QED
    BY <1>6, <2>2 DEF PartsKept, Fields
<1>7. CASE pc = "reboot"
  <2> DEFINE y == [x EXCEPT !.mode = "fastboot", !.id = 0]
  <2>1. Effects(pc, x) = <<y, x>>
    BY <1>7 DEF Effects
  <2>2. e \in {y, x}
    BY <1>3, <2>1
  <2>3. QED
    BY <1>7, <2>2 DEF PartsKept, Fields
<1>8. CASE pc = "write root"
  <2> DEFINE y == [x EXCEPT !.root = "ubuntu", !.store = "none"]
             z == [x EXCEPT !.root = "partial", !.store = "none"]
  <2>1. Effects(pc, x) = <<y, z, x>>
    BY <1>8 DEF Effects, ExtractRoot
  <2>2. e \in {y, z, x}
    <3> HIDE DEF y, z
    <3>1. PICK i \in 1 .. Len(Effects(pc, x)) : e = Effects(pc, x)[i]
      BY DEF Left
    <3>2. QED
      BY <2>1, <3>1, Three
  <2>3. QED
    BY <1>8, <2>2 DEF PartsKept, Fields
<1>9. CASE pc \notin {"apply", "prepare home", "wipe userdata", "wipe metadata", "write store", "reboot", "write root"}
  <2>1. Effects(pc, x) = <<x>>
    BY <1>9 DEF Effects
  <2>2. e = x
    BY <2>1, One DEF Left
  <2>3. QED
    BY <2>2 DEF PartsKept
<1>10. QED
  BY <1>1, <1>2, <1>4, <1>5, <1>6, <1>7, <1>8, <1>9

\* What a flash writes of an installation: the part that is named.
LEMMA FlashField ==
  ASSUME NEW pc \in FlashSteps, pc = "boot second" => host.args.layout = "dual"
  PROVE  /\ pc = "firmware" => Target(pc)[1] = "fw"
         /\ pc = "android" => Target(pc)[1] = "android"
         /\ pc = "boot first" => Target(pc)[1] = IF host.args.layout = "dual" THEN "boot_a" ELSE "boot_b"
         /\ pc = "boot second" => Target(pc)[1] = "boot_b"
<1> DEFINE dual == host.args.layout = "dual"
           f == Target(pc)[1]
<1>1. pc = "firmware" => f = "fw"
  BY DEF Target
<1>2. pc = "android" => f = "android"
  BY DEF Target
<1>3. /\ dual => BootSlots(host.args.layout)[1] = "a" /\ BootSlots(host.args.layout)[2] = "b"
      /\ ~dual => BootSlots(host.args.layout)[1] = "b"
  <2>1. dual => BootSlots(host.args.layout) = <<"a", "b">>
    BY DEF BootSlots
  <2>2. ~dual => BootSlots(host.args.layout) = <<"b">>
    BY DEF BootSlots
  <2>3. ASSUME NEW s, s = <<"a", "b">> PROVE s[1] = "a" /\ s[2] = "b"
    BY <2>3
  <2>4. ASSUME NEW s, s = <<"b">> PROVE s[1] = "b"
    BY <2>4
  <2>5. QED
    BY <2>1, <2>2, <2>3, <2>4
<1>4. pc = "boot first" => f = BootField(BootSlots(host.args.layout)[1])
  BY DEF Target
<1>5. pc = "boot second" => f = BootField(BootSlots(host.args.layout)[2])
  BY DEF Target
<1> HIDE DEF f
<1>6. pc = "boot first" => f = IF dual THEN "boot_a" ELSE "boot_b"
  BY <1>3, <1>4 DEF BootField
<1>7. pc = "boot second" => f = "boot_b"
  BY <1>3, <1>5 DEF BootField
<1>8. QED
  BY <1>1, <1>2, <1>6, <1>7 DEF f

\* That part gets the content, and no other changes.
PutOK(pc, x, content) ==
  /\ Target(pc)[1] \in Fields \ {"mode"}
  /\ DOMAIN Put(x, pc, content) = Fields /\ Put(x, pc, content)[Target(pc)[1]] = content
  /\ \A g \in Fields : g # Target(pc)[1] => Put(x, pc, content)[g] = x[g]

LEMMA FlashPut ==
  ASSUME NEW pc \in FlashSteps, NEW x, NEW content, DOMAIN x = Fields,
         pc = "boot second" => host.args.layout = "dual"
  PROVE  PutOK(pc, x, content)
<1>1. Target(pc)[1] \in Fields \ {"mode"}
  BY FlashField DEF FlashSteps, Fields
<1> DEFINE f == Target(pc)[1]
<1>2. Put(x, pc, content) = [x EXCEPT ![f] = content]
  BY DEF Put
<1> HIDE DEF f
<1>3. f \in Fields
  BY <1>1 DEF f
<1>4. DOMAIN Put(x, pc, content) = Fields /\ Put(x, pc, content)[f] = content
      /\ \A g \in Fields : g # f => Put(x, pc, content)[g] = x[g]
  BY <1>2, <1>3
<1>5. QED
  BY <1>1, <1>4 DEF f, PutOK

\* What a flash leaves of an installation.
FlashOK(pc, x, content) ==
  LET y == Put(x, pc, content) IN
  /\ PartsKept(pc, host.args.layout = "dual", x, y) /\ DOMAIN y = Fields /\ y.mode = x.mode
  /\ pc = "firmware" => y.fw = content
  /\ pc = "boot first" /\ host.args.layout = "dual" => y.boot_a = content
  /\ pc = "boot first" /\ host.args.layout # "dual" => y.boot_b = content
  /\ pc = "boot second" => y.boot_b = content

LEMMA FlashParts ==
  ASSUME NEW pc \in FlashSteps, NEW x, NEW content, DOMAIN x = Fields,
         pc = "boot second" => host.args.layout = "dual"
  PROVE  FlashOK(pc, x, content)
<1> DEFINE y == Put(x, pc, content)
           f == Target(pc)[1]
<1>1. PutOK(pc, x, content)
  BY FlashPut
<1>2. f \in Fields \ {"mode"} /\ DOMAIN y = Fields /\ y[f] = content /\ \A g \in Fields : g # f => y[g] = x[g]
  BY <1>1 DEF PutOK
<1>3. /\ pc = "firmware" => f = "fw"
      /\ pc = "android" => f = "android"
      /\ pc = "boot first" => f = IF host.args.layout = "dual" THEN "boot_a" ELSE "boot_b"
      /\ pc = "boot second" => f = "boot_b"
  BY FlashField
<1> HIDE DEF y, f
<1>4. PartsKept(pc, host.args.layout = "dual", x, y)
  BY <1>2, <1>3 DEF PartsKept, FlashSteps, Fields
<1>5. y.mode = x.mode
  BY <1>2 DEF Fields
<1>6. /\ pc = "firmware" => y.fw = content
      /\ pc = "boot first" /\ host.args.layout = "dual" => y.boot_a = content
      /\ pc = "boot first" /\ host.args.layout # "dual" => y.boot_b = content
      /\ pc = "boot second" => y.boot_b = content
  BY <1>2, <1>3
<1>7. QED
  BY <1>2, <1>4, <1>5, <1>6 DEF y, FlashOK

\* A step leaves the parts that are not those of the command under way.
LEMMA StepParts ==
  ASSUME Shape, [Next]_vars, host.pc # "idle", host'.pc # "idle", host.args.restore = {}, NEW t \in Tablets,
         tab[t].mode # "system", host.pc = "boot second" => host.args.layout = "dual"
  PROVE  host.pc # "boot" => PartsKept(host.pc, host.args.layout = "dual", tab[t], tab'[t]) /\ tab'[t].mode # "system"
<1> DEFINE dual == host.args.layout = "dual"
           x == tab[t]
           y == tab'[t]
           Goal == PartsKept(host.pc, dual, x, y) /\ y.mode # "system"
<1>1. Change(t) /\ DOMAIN x = Fields
  BY TabletSteps DEF Shape, TypeOK, TabletShape
<1>2. ASSUME NEW e, PartsKept(host.pc, dual, x, e), DOMAIN e = Fields, e.mode # "system", y \in {e, Off(e), InFastboot(e)}
      PROVE  Goal
  BY <1>2, ModeFields, PartsThen
<1>3. CASE y \in {x, Off(x), InFastboot(x)}
  <2>1. PartsKept(host.pc, dual, x, x)
    BY DEF PartsKept
  <2>2. QED
    BY <1>1, <1>2, <1>3, <2>1
<1>4. CASE Wrote(t)
  <2>1. PICK e \in Left(host.pc, x) : y \in {e, Off(e)}
    BY <1>4 DEF Wrote
  <2>2. host.pc # "restore"
    BY DEF Shape, BackupShape
  <2>3. PartsKept(host.pc, dual, x, e) /\ DOMAIN e = Fields /\ e.mode \in {x.mode, "fastboot"}
    BY <1>1, <2>2, LeftParts
  <2>4. QED
    BY <1>2, <2>1, <2>3
<1>5. CASE FlashedTo(t)
  <2>1. PICK content : y \in {Put(x, host.pc, content), Off(Put(x, host.pc, content))}
    BY <1>5 DEF FlashedTo
  <2> DEFINE e == Put(x, host.pc, content)
  <2>2. PartsKept(host.pc, dual, x, e) /\ DOMAIN e = Fields /\ e.mode = x.mode
    <3>1. host.pc \in FlashSteps
      BY <1>5 DEF FlashedTo
    <3>2. FlashOK(host.pc, x, content)
      BY <1>1, <3>1, FlashParts
    <3>3. QED
      BY <3>2 DEF FlashOK
  <2> HIDE DEF e
  <2>3. QED
    BY <1>2, <2>1, <2>2 DEF e
<1>6. Started(t) => host.pc = "boot"
  BY DEF Started
<1>7. ~Activated(t) /\ ~Filled(t) /\ ~TakenBack(t)
  BY DEF Activated, Filled, TakenBack
<1>8. QED
  BY <1>1, <1>3, <1>4, <1>5, <1>6, <1>7 DEF Change

\* They are parts that later steps need.
LEMMA InstallingKept ==
  ASSUME NEW x, NEW y, NEW a, NEW pc, NEW fw, Installing(x, a, pc, fw),
         PartsKept(pc, a.layout = "dual", x, y), y.mode # "system"
  PROVE  Installing(y, a, pc, fw)
<1> USE DEF AfterUserdata, AfterMetadata, AfterApply, AfterTable, AfterImages, AfterHome, AfterRoot, AfterStore,
            AfterFirmware, AfterFirst
<1> DEFINE dual == a.layout = "dual"
<1>1. dual /\ ~a.keep =>
        (pc \in AfterUserdata => y.userdata = "wiped") /\ (pc \in AfterMetadata => y.metadata = "wiped")
  BY DEF Installing, PartsKept
<1>2. ~a.keep /\ pc \in AfterApply => y.head = y.tail
  BY DEF Installing, PartsKept
<1>3. pc \in AfterTable => Classify(ParsePrint(y.head)) = "split"
  BY DEF Installing, PartsKept
<1>4. (dual /\ pc \in AfterImages => fw = "stock" \/ y.fw = "stock") /\ (pc = "firmware" => fw = "stock")
  BY DEF Installing, PartsKept
<1>5. pc \in AfterHome => HomeIn(y)
  BY DEF Installing, PartsKept, HomeIn
<1>6. (pc \in AfterRoot => y.root = "ubuntu") /\ (dual /\ pc \in AfterStore => y.store = "both")
  BY DEF Installing, PartsKept
<1>7. dual /\ pc \in AfterFirmware => y.fw = "stock"
  BY DEF Installing, PartsKept
<1>8. /\ dual /\ pc \in AfterFirst => y.boot_a = "ubuntu"
      /\ pc = "boot second" => dual
      /\ pc = "activate" => y.boot_b = "ubuntu"
  BY DEF Installing, PartsKept
<1>9. QED
  BY <1>1, <1>2, <1>3, <1>4, <1>5, <1>6, <1>7, <1>8 DEF Installing

\* Which steps come before.
LEMMA Before ==
  ASSUME NEW p, NEW q, Follow(p, q), p # "restore"
  PROVE  /\ q \in AfterUserdata => p \in AfterUserdata \cup {"wipe userdata"} \/ (p = "report" /\ q \in {"images", "prepare home"})
         /\ q \in AfterMetadata => \/ p \in AfterMetadata \cup {"wipe metadata"}
                                   \/ p = "wipe userdata" /\ q = "apply"
                                   \/ p = "report" /\ q \in {"images", "prepare home"}
         /\ q \in AfterApply => p \in AfterApply \cup {"apply"} \/ (p = "report" /\ q \in {"images", "prepare home"})
         /\ q \in AfterTable => p \in AfterTable \cup {"verify"} \/ (p = "report" /\ q \in {"images", "prepare home"})
         /\ q \in AfterImages => p \in AfterImages \cup {"images"} \/ (p \in {"report", "verify"} /\ q = "prepare home")
         /\ q \in AfterHome => p \in AfterHome \cup {"prepare home"}
         /\ q \in AfterRoot => p \in AfterRoot \cup {"write root"}
         /\ q \in AfterStore => p \in AfterStore \cup {"write store"} \/ (p = "write root" /\ q = "reboot")
         /\ q \in AfterFirmware => p \in AfterFirmware \cup {"firmware"} \/ (p = "return" /\ q \in {"android", "boot first"})
         /\ q \in AfterFirst => p \in {"boot first", "boot second"}
         /\ q = "boot second" => p = "boot first"
         /\ q = "firmware" => p = "return" /\ host.fw # "none"
<1>1. AfterSerial \in {"restore", "report", "backup boots"}
  BY DEF AfterSerial
<1> USE DEF AfterUserdata, AfterMetadata, AfterApply, AfterTable, AfterImages, AfterHome, AfterRoot, AfterStore,
            AfterFirmware, AfterFirst
<1>2. /\ q \in AfterUserdata => p \in AfterUserdata \cup {"wipe userdata"} \/ (p = "report" /\ q \in {"images", "prepare home"})
      /\ q \in AfterMetadata => \/ p \in AfterMetadata \cup {"wipe metadata"}
                                \/ p = "wipe userdata" /\ q = "apply"
                                \/ p = "report" /\ q \in {"images", "prepare home"}
  BY <1>1 DEF Follow
<1>3. /\ q \in AfterApply => p \in AfterApply \cup {"apply"} \/ (p = "report" /\ q \in {"images", "prepare home"})
      /\ q \in AfterTable => p \in AfterTable \cup {"verify"} \/ (p = "report" /\ q \in {"images", "prepare home"})
  BY <1>1 DEF Follow
<1>4. /\ q \in AfterImages => p \in AfterImages \cup {"images"} \/ (p \in {"report", "verify"} /\ q = "prepare home")
      /\ q \in AfterHome => p \in AfterHome \cup {"prepare home"}
      /\ q \in AfterRoot => p \in AfterRoot \cup {"write root"}
  BY <1>1 DEF Follow
<1>5. /\ q \in AfterStore => p \in AfterStore \cup {"write store"} \/ (p = "write root" /\ q = "reboot")
      /\ q \in AfterFirmware => p \in AfterFirmware \cup {"firmware"} \/ (p = "return" /\ q \in {"android", "boot first"})
  BY <1>1 DEF Follow
<1>6. /\ q \in AfterFirst => p \in {"boot first", "boot second"}
      /\ q = "boot second" => p = "boot first"
      /\ q = "firmware" => p = "return" /\ host.fw # "none"
  BY <1>1 DEF Follow
<1>7. QED
  BY <1>2, <1>3, <1>4, <1>5, <1>6

\* What each command that is done leaves.
LEMMA WholeEffects ==
  ASSUME NEW x, DOMAIN x = Fields
  PROVE  /\ Effects("wipe userdata", x)[1].userdata = "wiped"
         /\ Effects("wipe metadata", x)[1].metadata = "wiped"
         /\ Effects("apply", x)[1].head = Effects("apply", x)[1].tail
         /\ Allowed("prepare home", x) => HomeIn(Effects("prepare home", x)[1])
         /\ Effects("write root", x)[1].root = "ubuntu"
         /\ Effects("write store", x)[1].store = "both"
<1>1. ASSUME NEW y, NEW s, s = <<y, x>> PROVE s[1] = y
  BY <1>1
<1>2. Effects("wipe userdata", x)[1].userdata = "wiped"
  <2> DEFINE y == [x EXCEPT !.userdata = "wiped"]
  <2>1. Effects("wipe userdata", x) = <<y, x>>
    BY DEF Effects
  <2>2. y.userdata = "wiped"
    BY DEF Fields
  <2> HIDE DEF y
  <2>3. QED
    BY <1>1, <2>1, <2>2
<1>3. Effects("wipe metadata", x)[1].metadata = "wiped"
  <2> DEFINE y == [x EXCEPT !.metadata = "wiped"]
  <2>1. Effects("wipe metadata", x) = <<y, x>>
    BY DEF Effects
  <2>2. y.metadata = "wiped"
    BY DEF Fields
  <2> HIDE DEF y
  <2>3. QED
    BY <1>1, <2>1, <2>2
<1>4. Effects("write store", x)[1].store = "both"
  <2> DEFINE y == [x EXCEPT !.store = "both"]
  <2>1. Effects("write store", x) = <<y, x>>
    BY DEF Effects
  <2>2. y.store = "both"
    BY DEF Fields
  <2> HIDE DEF y
  <2>3. QED
    BY <1>1, <2>1, <2>2
<1>5. Effects("write root", x)[1].root = "ubuntu"
  <2> DEFINE y == [x EXCEPT !.root = "ubuntu", !.store = "none"]
             z == [x EXCEPT !.root = "partial", !.store = "none"]
  <2>1. Effects("write root", x) = <<y, z, x>>
    BY DEF Effects, ExtractRoot
  <2>2. y.root = "ubuntu"
    BY DEF Fields
  <2> HIDE DEF y, z
  <2>3. ASSUME NEW s, s = <<y, z, x>> PROVE s[1] = y
    BY <2>3
  <2>4. QED
    BY <2>1, <2>2, <2>3
<1>6. Effects("apply", x)[1].head = Effects("apply", x)[1].tail
  <2> DEFINE table == Sgdisk(x.head, TheArgs)
             y == [x EXCEPT !.head = table, !.tail = table]
  <2>1. Effects("apply", x) = WriteTable(x, table)
    BY DEF Effects
  <2> HIDE DEF table
  <2>2. WriteTable(x, table)[1] = y
    BY DEF WriteTable
  <2>3. y.head = table /\ y.tail = table
    BY DEF Fields
  <2> HIDE DEF y
  <2>4. QED
    BY <2>1, <2>2, <2>3
<1>7. Allowed("prepare home", x) => HomeIn(Effects("prepare home", x)[1])
  <2> DEFINE keep == host.args.keep
             y == [x EXCEPT !.home = [first |-> HomePart(x).first, kind |-> "fresh"]]
             z == [x EXCEPT !.home = NoHome]
  <2>1. SUFFICES ASSUME Allowed("prepare home", x) PROVE HomeIn(Effects("prepare home", x)[1])
    OBVIOUS
  <2>2. Cardinality(Named(x.head, "linux_home")) = 1 /\ (keep => HomeFound(x))
    BY <2>1 DEF Allowed, Partitioned
  <2>3. HomePart(x) \in Named(x.head, "linux_home")
    <3>1. Named(x.head, "linux_home") # {}
      BY <2>2, FS_EmptySet
    <3>2. QED
      BY <3>1 DEF HomePart, ByName
  <2>4. Effects("prepare home", x) = PrepareHome(x, keep)
    BY DEF Effects
  <2>5. CASE keep
    <3>1. Effects("prepare home", x) = <<x>>
      BY <2>4, <2>5 DEF PrepareHome
    <3>0. ASSUME NEW s, s = <<x>> PROVE s[1] = x
      BY <3>0
    <3>2. Effects("prepare home", x)[1] = x
      BY <3>0, <3>1
    <3>3. QED
      BY <2>2, <2>3, <2>5, <3>2 DEF HomeIn, HomeFound
  <2>6. CASE ~keep
    <3>1. Effects("prepare home", x) = <<y, z, x>>
      BY <2>4, <2>6 DEF PrepareHome
    <3>2. y.head = x.head /\ y.home = [first |-> HomePart(x).first, kind |-> "fresh"]
      BY DEF Fields
    <3>3. y.home.first = HomePart(x).first /\ y.home.kind = "fresh"
      BY <3>2
    <3> HIDE DEF y, z
    <3>4. ASSUME NEW s, s = <<y, z, x>> PROVE s[1] = y
      BY <3>4
    <3>5. Effects("prepare home", x)[1] = y
      BY <3>1, <3>4
    <3>6. HomeIn(y)
      BY <2>3, <3>2, <3>3 DEF HomeIn
    <3>7. QED
      BY <3>5, <3>6
  <2>7. QED
    BY <2>5, <2>6
<1>8. QED
  BY <1>2, <1>3, <1>4, <1>5, <1>6, <1>7

\* The step that takes a run on adds its part, and the rest stays.
LEMMA ProgressOn ==
  ASSUME Safe, Plans, ProgressInv, [Next]_vars, Advanced,
         host.args.restore = {}, host'.pc \notin {"idle", "fastboot", "boot"}
  PROVE  host'.padded = "ubuntu" /\ Installing(tab'[host.args.serial], host.args, host'.pc, host'.fw)
<1> DEFINE t == host.args.serial
           a == host.args
           dual == a.layout = "dual"
           x == tab[t]
           y == tab'[t]
           p == host.pc
           q == host'.pc
<1>1. /\ Shape /\ ChosenInv /\ HomeInv /\ t \in Tablets /\ DOMAIN x = Fields /\ DOMAIN tab = Tablets
      /\ a.keep \in BOOLEAN /\ host.padded \in {"none", "ubuntu"} /\ host.fw \in {"none", "stock"}
  BY DEF Safe, Shape, TypeOK, TabletShape, HostShape
<1>2. /\ Follow(p, q) /\ p \notin {"idle", "restore"} /\ q # p
      /\ (p # "boot" => host'.padded = host.padded) /\ (p # "images" => host'.fw = host.fw)
  <2>1. Follow(p, q) /\ (p # "boot" => host'.padded = host.padded) /\ (p # "images" => host'.fw = host.fw)
    BY DEF Advanced, AdvancedFields
  <2>2. p # "restore"
    BY <1>1 DEF Shape, BackupShape
  <2>3. p # "idle" /\ q # p
    BY <2>1 DEF Follow, AfterSerial
  <2>4. QED
    BY <2>1, <2>2, <2>3
<1>3. Done /\ Turns(dual)
  BY <1>1, <1>2, OnwardDone DEF Onward
<1>4. CASE p = "boot"
  <2>1. q = "wait" /\ y.mode = "ram" /\ host'.padded = "ubuntu"
    BY <1>2, <1>3, <1>4 DEF Follow, Done
  <2>2. "wait" \notin AfterUserdata \cup {"firmware", "boot second", "activate"}
    BY DEF AfterUserdata, AfterMetadata, AfterApply, AfterTable, AfterImages, AfterHome, AfterRoot, AfterStore,
           AfterFirmware, AfterFirst
  <2>3. QED
    BY <2>1, <2>2 DEF Installing, AfterUserdata, AfterMetadata, AfterApply, AfterTable, AfterImages, AfterHome,
                      AfterRoot, AfterStore, AfterFirmware, AfterFirst
<1>5. CASE p # "boot"
  <2>1. host.padded = "ubuntu" /\ Installing(x, a, p, host.fw)
    <3>1. p # "fastboot"
      BY <1>2 DEF Follow
    <3>2. QED
      BY <1>2, <1>5, <3>1 DEF ProgressInv
  <2>2. host'.padded = "ubuntu"
    BY <1>2, <1>5, <2>1
  <2>3. PartsKept(p, dual, x, y) /\ y.mode # "system"
    <3>1. x.mode # "system" /\ (p = "boot second" => dual)
      BY <2>1 DEF Installing
    <3>2. QED
      BY <1>1, <1>2, <1>5, <3>1, StepParts
  <2>4. p \in RemoteSteps => usb = t /\ Here(usb) /\ Allowed(p, x) /\ y = Effects(p, x)[1]
    <3>1. SUFFICES ASSUME p \in RemoteSteps PROVE usb = t /\ Here(usb) /\ Allowed(p, x) /\ y = Effects(p, x)[1]
      OBVIOUS
    <3>2. Here(usb) /\ Allowed(p, tab[usb]) /\ tab' = [tab EXCEPT ![usb] = Effects(p, tab[usb])[1]]
      BY <1>3, <3>1 DEF Done
    <3>3. p \notin Early
      BY <3>1 DEF RemoteSteps, SavingSteps, SplitSteps, Early
    <3>4. usb = t
      BY <1>1, <3>2, <3>3, HereIsUsb
    <3>5. QED
      BY <1>1, <3>2, <3>4
  <2>5. p = "report" /\ q \in {"images", "prepare home"} =>
          a.keep = TRUE /\ Classify(ParsePrint(x.head)) = "split"
    <3>1. SUFFICES ASSUME p = "report", q \in {"images", "prepare home"}
                   PROVE  a.keep = TRUE /\ Classify(ParsePrint(x.head)) = "split"
      OBVIOUS
    <3>2. usb = t
      BY <2>4, <3>1 DEF RemoteSteps
    <3>3. Decide(tab[usb], a) = "keep"
      BY <3>1 DEF Advanced, AdvancedData, ReportDone
    <3>4. DecideOK(tab[usb], a)
      BY <1>1, DecideCases
    <3>5. QED
      BY <3>2, <3>3, <3>4 DEF DecideOK
  <2>6. p = "verify" => Classify(ParsePrint(x.head)) = "split"
    <3>1. SUFFICES ASSUME p = "verify" PROVE Classify(ParsePrint(x.head)) = "split"
      OBVIOUS
    <3>2. usb = t /\ Here(usb)
      BY <2>4, <3>1 DEF RemoteSteps
    <3>3. Confirmed(tab[t].head, factory[t], host.planned)
      BY <1>1, <3>1, <3>2 DEF Plans, PlanInv, Verifying
    <3>4. QED
      BY <3>3 DEF Confirmed
  <2>7. p \in FlashSteps =>
          /\ p = "firmware" => y.fw = Target(p)[2]
          /\ p = "boot first" /\ dual => y.boot_a = Target(p)[2]
          /\ p = "boot first" /\ ~dual => y.boot_b = Target(p)[2]
          /\ p = "boot second" => y.boot_b = Target(p)[2]
    <3> DEFINE content == Target(p)[2]
    <3>1. p \in FlashSteps => y = Put(x, p, content)
      BY <1>1, <1>3 DEF Done
    <3>2. p = "boot second" => dual
      BY <2>1 DEF Installing
    <3> HIDE DEF content
    <3>3. p \in FlashSteps => FlashOK(p, x, content)
      BY <1>1, <3>2, FlashParts
    <3> HIDE DEF x, y
    <3>4. QED
      BY <3>1, <3>3 DEF content, FlashOK
  <2>8. /\ DOMAIN x = Fields /\ HostShape /\ host.fw \in {"none", "stock"}
        /\ host.args = a /\ host.pc = p
    BY <1>1 DEF Shape
  <2>9. p # "images" => host'.fw = host.fw
    BY <1>2
  <2>10. Turns(dual) /\ Follow(p, q) /\ p # "restore"
    BY <1>2, <1>3
  <2> HIDE DEF x, y, p, q, a
  <2>11. dual /\ ~a.keep => (q \in AfterUserdata => y.userdata = "wiped") /\ (q \in AfterMetadata => y.metadata = "wiped")
    <3>1. ASSUME dual, ~a.keep, q \in AfterUserdata PROVE y.userdata = "wiped"
      <4>1. CASE p \in AfterUserdata
        <5>1. p # "wipe userdata"
          BY <4>1 DEF AfterUserdata, AfterMetadata, AfterApply, AfterTable, AfterImages, AfterHome, AfterRoot,
                      AfterStore, AfterFirmware, AfterFirst
        <5>2. QED
          BY <2>1, <2>3, <3>1, <4>1, <5>1 DEF Installing, PartsKept
      <4>2. CASE p = "wipe userdata"
        BY <2>4, <2>8, <4>2, WholeEffects DEF RemoteSteps, SplitSteps
      <4>3. QED
        BY <2>5, <2>10, <3>1, <4>1, <4>2, Before
    <3>2. ASSUME dual, ~a.keep, q \in AfterMetadata PROVE y.metadata = "wiped"
      <4>1. CASE p \in AfterMetadata
        <5>1. p # "wipe metadata"
          BY <4>1 DEF AfterMetadata, AfterApply, AfterTable, AfterImages, AfterHome, AfterRoot,
                      AfterStore, AfterFirmware, AfterFirst
        <5>2. QED
          BY <2>1, <2>3, <3>2, <4>1, <5>1 DEF Installing, PartsKept
      <4>2. CASE p = "wipe metadata"
        BY <2>4, <2>8, <4>2, WholeEffects DEF RemoteSteps, SplitSteps
      <4>3. ~(p = "wipe userdata" /\ q = "apply")
        BY <2>8, <2>10, <3>2 DEF Turns, q
      <4>4. QED
        BY <2>5, <2>10, <3>2, <4>1, <4>2, <4>3, Before
    <3>3. QED
      BY <3>1, <3>2
  <2>12. ~a.keep /\ q \in AfterApply => y.head = y.tail
    <3>1. SUFFICES ASSUME ~a.keep, q \in AfterApply PROVE y.head = y.tail
      OBVIOUS
    <3>2. CASE p \in AfterApply
      <4>1. p # "apply"
        BY <3>2 DEF AfterApply, AfterTable, AfterImages, AfterHome, AfterRoot, AfterStore, AfterFirmware, AfterFirst
      <4>2. QED
        BY <2>1, <2>3, <3>1, <3>2, <4>1 DEF Installing, PartsKept
    <3>3. CASE p = "apply"
      BY <2>4, <2>8, <3>3, WholeEffects DEF RemoteSteps, SplitSteps
    <3>4. QED
      BY <2>5, <2>10, <3>1, <3>2, <3>3, Before
  <2>13. q \in AfterTable => Classify(ParsePrint(y.head)) = "split"
    <3>1. SUFFICES ASSUME q \in AfterTable PROVE Classify(ParsePrint(y.head)) = "split"
      OBVIOUS
    <3>2. p \in AfterTable => p # "apply"
      BY DEF AfterTable, AfterImages, AfterHome, AfterRoot, AfterStore, AfterFirmware, AfterFirst
    <3>3. p # "apply" => y.head = x.head
      BY <2>3 DEF PartsKept
    <3>4. p \in AfterTable => Classify(ParsePrint(x.head)) = "split"
      BY <2>1 DEF Installing
    <3>5. QED
      BY <2>5, <2>6, <2>10, <3>1, <3>2, <3>3, <3>4, Before
  <2>14. dual /\ q \in AfterImages => host'.fw = "stock" \/ y.fw = "stock"
    <3>1. SUFFICES ASSUME dual, q \in AfterImages, host'.fw # "stock" PROVE y.fw = "stock"
      OBVIOUS
    <3>2. CASE p \in AfterImages
      <4>1. host.fw # "stock"
        <5>1. p # "images"
          BY <3>2 DEF AfterImages, AfterHome, AfterRoot, AfterStore, AfterFirmware, AfterFirst
        <5>2. QED
          BY <2>9, <3>1, <5>1
      <4>2. x.fw = "stock" /\ p # "firmware"
        BY <2>1, <3>1, <3>2, <4>1 DEF Installing
      <4>3. QED
        BY <2>3, <4>2 DEF PartsKept
    <3>3. CASE p = "images"
      <4>1. usb = host.args.serial
        BY <2>4, <3>3 DEF RemoteSteps
      <4>2. x.fw = "stock"
        BY <2>8, <2>10, <3>1, <3>3, <4>1 DEF Turns, x
      <4>3. QED
        BY <2>3, <3>3, <4>2 DEF PartsKept
    <3>4. ~(p \in {"report", "verify"} /\ q = "prepare home")
      BY <2>8, <2>10, <3>1 DEF Turns, q
    <3>5. QED
      BY <2>10, <3>1, <3>2, <3>3, <3>4, Before
  <2>15. q \in AfterHome => HomeIn(y)
    <3>1. SUFFICES ASSUME q \in AfterHome PROVE HomeIn(y)
      OBVIOUS
    <3>2. CASE p \in AfterHome
      <4>1. p \notin {"prepare home", "apply"}
        BY <3>2 DEF AfterHome, AfterRoot, AfterStore, AfterFirmware, AfterFirst
      <4>2. y.head = x.head /\ y.home = x.home
        BY <2>3, <4>1 DEF PartsKept
      <4>3. HomeIn(x)
        BY <2>1, <3>2 DEF Installing
      <4>4. QED
        BY <4>2, <4>3 DEF HomeIn
    <3>3. CASE p = "prepare home"
      BY <2>4, <2>8, <3>3, WholeEffects DEF RemoteSteps
    <3>4. QED
      BY <2>10, <3>1, <3>2, <3>3, Before
  <2>16. q \in AfterRoot => y.root = "ubuntu"
    <3>1. SUFFICES ASSUME q \in AfterRoot PROVE y.root = "ubuntu"
      OBVIOUS
    <3>2. CASE p \in AfterRoot
      <4>1. p # "write root"
        BY <3>2 DEF AfterRoot, AfterStore, AfterFirmware, AfterFirst
      <4>2. QED
        BY <2>1, <2>3, <3>2, <4>1 DEF Installing, PartsKept
    <3>3. CASE p = "write root"
      BY <2>4, <2>8, <3>3, WholeEffects DEF RemoteSteps
    <3>4. QED
      BY <2>10, <3>1, <3>2, <3>3, Before
  <2>17. dual /\ q \in AfterStore => y.store = "both"
    <3>1. SUFFICES ASSUME dual, q \in AfterStore PROVE y.store = "both"
      OBVIOUS
    <3>2. CASE p \in AfterStore
      <4>1. p \notin {"write root", "write store"}
        BY <3>2 DEF AfterStore, AfterFirmware, AfterFirst
      <4>2. QED
        BY <2>1, <2>3, <3>1, <3>2, <4>1 DEF Installing, PartsKept
    <3>3. CASE p = "write store"
      BY <2>4, <2>8, <3>3, WholeEffects DEF RemoteSteps
    <3>4. ~(p = "write root" /\ q = "reboot")
      BY <2>8, <2>10, <3>1 DEF Turns, q
    <3>5. QED
      BY <2>10, <3>1, <3>2, <3>3, <3>4, Before
  <2>18. q = "firmware" => host'.fw = "stock"
    BY <2>8, <2>9, <2>10, Before
  <2>19. dual /\ q \in AfterFirmware => y.fw = "stock"
    <3>1. SUFFICES ASSUME dual, q \in AfterFirmware PROVE y.fw = "stock"
      OBVIOUS
    <3>2. CASE p \in AfterFirmware
      <4>1. p # "firmware"
        BY <3>2 DEF AfterFirmware, AfterFirst
      <4>2. QED
        BY <2>1, <2>3, <3>1, <3>2, <4>1 DEF Installing, PartsKept
    <3>3. CASE p = "firmware"
      <4>1. host.fw = "stock"
        BY <2>1, <3>3 DEF Installing
      <4>2. Target(p)[2] = host.fw /\ p \in FlashSteps
        BY <2>8, <3>3, TargetCases DEF FlashSteps
      <4>3. y.fw = Target(p)[2]
        BY <2>7, <3>3, <4>2
      <4>4. QED
        BY <4>1, <4>2, <4>3
    <3>4. CASE p = "return"
      <4>1. q # "firmware"
        BY <3>1 DEF AfterFirmware, AfterFirst
      <4>2. host.fw = "none"
        BY <2>8, <2>10, <3>4, <4>1 DEF Turns, q
      <4>3. x.fw = "stock"
        BY <2>1, <3>1, <3>4, <4>2 DEF Installing, AfterImages, AfterHome, AfterRoot, AfterStore
      <4>4. QED
        BY <2>3, <3>4, <4>3 DEF PartsKept
    <3>5. QED
      BY <2>10, <3>1, <3>2, <3>3, <3>4, Before
  <2>20. p = "boot first" \/ p = "boot second" => Target(p)[2] = "ubuntu" /\ p \in FlashSteps
    BY <2>1, <2>8, TargetCases DEF FlashSteps
  <2>21. dual /\ q \in AfterFirst => y.boot_a = "ubuntu"
    <3>1. SUFFICES ASSUME dual, q \in AfterFirst PROVE y.boot_a = "ubuntu"
      OBVIOUS
    <3>2. CASE p = "boot first"
      BY <2>7, <2>20, <3>1, <3>2
    <3>3. CASE p = "boot second"
      BY <2>1, <2>3, <3>1, <3>3 DEF Installing, PartsKept, AfterFirst
    <3>4. QED
      BY <2>10, <3>1, <3>2, <3>3, Before
  <2>22. q = "boot second" => dual
    BY <2>8, <2>10, Before DEF Turns, q
  <2>23. q = "activate" => y.boot_b = "ubuntu"
    <3>1. SUFFICES ASSUME q = "activate" PROVE y.boot_b = "ubuntu"
      OBVIOUS
    <3>2. CASE p = "boot first"
      <4>1. ~dual
        BY <2>8, <2>10, <3>1, <3>2 DEF Turns, q
      <4>2. QED
        BY <2>7, <2>20, <3>2, <4>1
    <3>3. CASE p = "boot second"
      BY <2>7, <2>20, <3>3
    <3>4. QED
      BY <2>10, <3>1, <3>2, <3>3, Before DEF AfterFirst
  <2>24. Installing(y, a, q, host'.fw)
    BY <2>3, <2>11, <2>12, <2>13, <2>14, <2>15, <2>16, <2>17, <2>18, <2>19, <2>21, <2>22, <2>23 DEF Installing
  <2>25. QED
    BY <2>2, <2>24 DEF y, a, q
<1>6. QED
  BY <1>4, <1>5

LEMMA ProgressKept ==
  ASSUME Safe, Plans, ProgressInv, [Next]_vars
  PROVE  ProgressInv'
<1> SUFFICES ASSUME host'.pc \notin {"idle", "fastboot", "boot"}, host'.args.restore = {}
             PROVE  host'.padded = "ubuntu" /\ Installing(tab'[host'.args.serial], host'.args, host'.pc, host'.fw)
  BY DEF ProgressInv, Installing, HomeIn
<1> USE DEF Safe
<1>1. CASE Held
  <2> DEFINE t == host.args.serial
  <2>1. host' = host
    BY <1>1 DEF Held
  <2>2. host.padded = "ubuntu" /\ Installing(tab[t], host.args, host.pc, host.fw)
    BY <2>1 DEF ProgressInv
  <2>3. t \in Tablets /\ tab[t].mode # "system" /\ (host.pc = "boot second" => host.args.layout = "dual")
    BY <2>2 DEF Shape, TypeOK, Installing
  <2>4. PartsKept(host.pc, host.args.layout = "dual", tab[t], tab'[t]) /\ tab'[t].mode # "system"
    BY <2>1, <2>3, StepParts
  <2>5. Installing(tab'[t], host.args, host.pc, host.fw)
    BY <2>2, <2>4, InstallingKept
  <2>6. QED
    BY <2>1, <2>2, <2>5
<1>2. CASE Advanced
  <2>1. host'.args = host.args
    BY <1>2 DEF Advanced, AdvancedFields
  <2>2. QED
    BY <1>2, <2>1, ProgressOn
<1>3. ~Ended
  BY IdleFields DEF Ended
<1>4. ~Begun
  <2>1. SUFFICES ASSUME Begun PROVE FALSE
    OBVIOUS
  <2>2. PICK a : BegunOn(a)
    BY <2>1, BegunCases DEF Shape, TypeOK
  <2>3. QED
    BY <2>2, IdleFields DEF BegunOn
<1>5. QED
  BY <1>1, <1>2, <1>3, <1>4, HostSteps

\* A run says that it has installed in one step only.
LEMMA InstalledBy ==
  ASSUME Shape, [Next]_vars, host'.result = "installed", host.result # "installed"
  PROVE  /\ host.pc = "activate" /\ host.args.restore = {}
         /\ LET t == host.args.serial
            IN tab' = [tab EXCEPT ![t].active = BootSlots(host.args.layout)[1], ![t].mode = "system"]
<1> DEFINE t == host.args.serial
           after == [tab EXCEPT ![t].active = BootSlots(host.args.layout)[1], ![t].mode = "system"]
<1>1. ~(Install \/ Restore)
  <2>1. ~Begun
    <3>1. SUFFICES ASSUME Begun PROVE FALSE
      OBVIOUS
    <3>2. PICK a : BegunOn(a)
      BY <3>1, BegunCases DEF Shape, TypeOK
    <3>3. QED
      BY <3>2, IdleFields DEF BegunOn
  <2>2. QED
    BY <2>1, Zenon DEF Install, Restore, Begun, Asked
<1>3. ~(\E u \in Tablets : PowerLoss(u) \/ ToFastboot(u) \/ Use(u))
  BY DEF PowerLoss, ToFastboot, Use
<1>4. ~(MoveCable \/ HostStops \/ FileChanges \/ UNCHANGED vars)
  <2>1. ~HostStops
    BY IdleFields DEF HostStops, Stop
  <2>2. QED
    BY <2>1 DEF MoveCable, FileChanges, vars
<1>5. DOMAIN host = HostFields
  BY DEF Shape, HostShape
<1>6. ASSUME NEW pc, NEW next, NEW saved, Remote(pc, next, saved), next.result # "installed" PROVE FALSE
  <2>1. host' = next \/ host' = Idle("failed")
    BY <1>6, RemoteCases
  <2>2. QED
    BY <1>6, <2>1, IdleFields
<1>7. ASSUME NEW q PROVE At(q).result # "installed"
  BY <1>5 DEF At, HostFields
<1>8. ~CheckSerial /\ ~Verify /\ ~RestoreTable /\ ~Reboot
  <2> DEFINE disk == ParsePrint(tab[usb].head)
             ok == /\ VerifyApplied(disk, host.plan)
                   /\ host.plan[1].action # "delete" => VerifyPreserved(host.info, ParseInfo(disk, "userdata"))
             n1 == IF usb = host.args.serial THEN At(AfterSerial) ELSE Idle("failed")
             n2 == IF ok THEN At(ImagesOrRoot) ELSE Idle("failed")
             n3 == IF TheBackup.head = TheBackup.tail THEN At("reboot") ELSE Idle("failed")
             n4 == IF host.args.restore # {} THEN Idle("restored") ELSE At("return")
  <2>1. (CheckSerial => Remote("serial", n1, backups)) /\ (Verify => Remote("verify", n2, backups))
    BY Zenon DEF CheckSerial, Verify
  <2>2. (RestoreTable => Remote("restore", n3, backups)) /\ (Reboot => Remote("reboot", n4, backups))
    BY Zenon DEF RestoreTable, Reboot
  <2> HIDE DEF disk, ok
  <2>3. n1.result # "installed" /\ n2.result # "installed" /\ n3.result # "installed" /\ n4.result # "installed"
    BY <1>7, IdleFields
  <2> HIDE DEF n1, n2, n3, n4
  <2>4. QED
    BY <1>6, <2>1, <2>2, <2>3
<1>9. ~WipeMetadata /\ ~Apply /\ ~InstallHome /\ ~InstallRoot /\ ~InstallStore
  <2> DEFINE Stays(pc) == \E q : Remote(pc, At(q), backups)
  <2>1. ASSUME NEW pc, Stays(pc) PROVE FALSE
    <3>1. PICK q : Remote(pc, At(q), backups)
      BY <2>1
    <3> DEFINE next == At(q)
    <3>2. next.result # "installed"
      BY <1>7
    <3> HIDE DEF next
    <3>3. QED
      BY <1>6, <3>1, <3>2 DEF next
  <2>2. (WipeMetadata => Stays("wipe metadata")) /\ (Apply => Stays("apply")) /\ (InstallHome => Stays("prepare home"))
    BY Zenon DEF WipeMetadata, Apply, InstallHome
  <2>3. (InstallRoot => Stays("write root")) /\ (InstallStore => Stays("write store"))
    BY Zenon DEF InstallRoot, InstallStore
  <2> HIDE DEF Stays
  <2>4. QED
    BY <2>1, <2>2, <2>3
<1>10. ~BackupBoots /\ ~BackupHead /\ ~BackupTail /\ ~WipeUserdata /\ ~Images
  <2> DEFINE Stays(pc) ==
               \E q, v, saved : \/ Remote(pc, [host EXCEPT !.pc = q, !.saving = v], saved)
                               \/ Remote(pc, [host EXCEPT !.pc = q, !.info = v], saved)
                               \/ Remote(pc, [host EXCEPT !.pc = q, !.fw = v], saved)
  <2>1. ASSUME NEW pc, Stays(pc) PROVE FALSE
    <3>1. PICK q, v, saved : \/ Remote(pc, [host EXCEPT !.pc = q, !.saving = v], saved)
                             \/ Remote(pc, [host EXCEPT !.pc = q, !.info = v], saved)
                             \/ Remote(pc, [host EXCEPT !.pc = q, !.fw = v], saved)
      BY <2>1, Zenon
    <3> DEFINE n1 == [host EXCEPT !.pc = q, !.saving = v]
               n2 == [host EXCEPT !.pc = q, !.info = v]
               n3 == [host EXCEPT !.pc = q, !.fw = v]
    <3>2. n1.result # "installed" /\ n2.result # "installed" /\ n3.result # "installed"
      BY <1>5 DEF HostFields
    <3>3. Remote(pc, n1, saved) \/ Remote(pc, n2, saved) \/ Remote(pc, n3, saved)
      BY <3>1, Zenon
    <3> HIDE DEF n1, n2, n3
    <3>4. QED
      BY <1>6, <3>2, <3>3
  <2>2. (BackupBoots => Stays("backup boots")) /\ (BackupHead => Stays("backup head")) /\ (BackupTail => Stays("backup tail"))
    BY Zenon DEF BackupBoots, BackupHead, BackupTail
  <2>3. (WipeUserdata => Stays("wipe userdata")) /\ (Images => Stays("images"))
    BY Zenon DEF WipeUserdata, Images
  <2> HIDE DEF Stays
  <2>4. QED
    BY <2>1, <2>2, <2>3
<1>11. ~Report
  <2> DEFINE choice == Decide(tab[usb], host.args)
             split == [host EXCEPT !.pc = "wipe userdata", !.plan = PlanOf(tab[usb], host.args)]
             next == CASE choice = "refuse" -> Idle("refused")
                       [] choice = "keep"   -> At(ImagesOrRoot)
                       [] choice = "split"  -> split
  <2>1. Report => Remote("report", next, backups)
    BY Zenon DEF Report
  <2>2. choice \in {"refuse", "keep", "split"}
    BY DEF Decide
  <2>3. split.result # "installed"
    BY <1>5 DEF HostFields
  <2> HIDE DEF choice, split
  <2>4. next.result # "installed"
    BY <1>7, <2>2, <2>3, IdleFields
  <2> HIDE DEF next
  <2>5. QED
    BY <1>6, <2>1, <2>4
<1>12. ASSUME NEW pc, NEW next, Flash(pc, next) PROVE FALSE
  <2>1. host' = [host EXCEPT !.pc = next] \/ host' = Idle("failed")
    BY <1>12, FlashCases DEF Shape
  <2>2. QED
    BY <1>5, <2>1, IdleFields DEF HostFields
<1>13. ~FlashFirmware /\ ~FlashAndroid /\ ~FlashFirst /\ ~FlashSecond
  <2> DEFINE F == \E pc, next : Flash(pc, next)
  <2>1. (FlashFirmware => F) /\ (FlashAndroid => F) /\ (FlashFirst => F) /\ (FlashSecond => F)
    BY Zenon DEF FlashFirmware, FlashAndroid, FlashFirst, FlashSecond
  <2>2. QED
    BY <1>12, <2>1
<1>14. ASSUME CheckFastboot \/ BootRam \/ WaitForRam \/ Return PROVE FALSE
  <2>1. \/ host' \in {Idle("failed"), Idle("refused")}
        \/ \E q, v : host' \in {[host EXCEPT !.pc = q], [host EXCEPT !.pc = q, !.padded = v],
                               [host EXCEPT !.pc = q, !.id = v]}
    <3>1. CheckFastboot => host' \in {[host EXCEPT !.pc = "boot"], Idle("refused")}
      BY DEF CheckFastboot, Stop, Goto
    <3>2. BootRam => \E v : host' \in {[host EXCEPT !.pc = "wait", !.padded = v], Idle("failed")}
      BY Zenon DEF BootRam, Fail, Stop
    <3>3. WaitForRam => \E v : host' \in {[host EXCEPT !.pc = "serial", !.id = v], Idle("failed")}
      BY Zenon DEF WaitForRam, Fail, Stop
    <3>4. Return => \E q : host' \in {[host EXCEPT !.pc = q], Idle("failed")}
      BY Zenon DEF Return, Fail, Stop, Goto
    <3>5. QED
      BY <1>14, <3>1, <3>2, <3>3, <3>4
  <2>2. host' \notin {Idle("failed"), Idle("refused")}
    BY IdleFields
  <2>3. PICK q, v : host' \in {[host EXCEPT !.pc = q], [host EXCEPT !.pc = q, !.padded = v], [host EXCEPT !.pc = q, !.id = v]}
    BY <2>1, <2>2
  <2>4. QED
    BY <1>5, <2>3 DEF HostFields
<1>15. Activate
  BY <1>1, <1>3, <1>4, <1>8, <1>9, <1>10, <1>11, <1>13, <1>14 DEF Next, HostNext
<1>16. host.pc = "activate" /\ (tab' = after \/ host' = Idle("failed"))
  BY <1>15, Zenon DEF Activate, Fail, Stop
<1>17. host.args.restore = {}
  BY <1>16 DEF Shape, BackupShape, Early
<1>18. QED
  BY <1>16, <1>17, IdleFields

LEMMA InstalledStep ==
  ASSUME Shape, ProgressInv, [Next]_vars, host'.result = "installed", host.result # "installed"
  PROVE  Whole(tab'[host.args.serial], host.args)
<1> DEFINE t == host.args.serial
           a == host.args
           dual == a.layout = "dual"
           x == tab[t]
           slot == BootSlots(a.layout)[1]
           y == [x EXCEPT !.active = slot, !.mode = "system"]
<1>1. /\ host.pc = "activate" /\ a.restore = {}
      /\ tab' = [tab EXCEPT ![t].active = slot, ![t].mode = "system"]
  BY InstalledBy
<1>2. t \in Tablets /\ DOMAIN tab = Tablets /\ DOMAIN x = Fields
  BY DEF Shape, TypeOK, TabletShape
<1>3. tab'[t] = y
  BY <1>1, <1>2
<1>4. Installing(x, a, "activate", host.fw)
  BY <1>1 DEF ProgressInv
<1> HIDE DEF x, slot
<1>5. /\ y.head = x.head /\ y.tail = x.tail /\ y.userdata = x.userdata /\ y.metadata = x.metadata
      /\ y.home = x.home /\ y.root = x.root /\ y.store = x.store
      /\ y.boot_a = x.boot_a /\ y.boot_b = x.boot_b /\ y.fw = x.fw /\ y.active = slot
  BY <1>2 DEF Fields
<1> HIDE DEF y
<1>6. \A i \in 1 .. Len(BootSlots(a.layout)) : y[BootField(BootSlots(a.layout)[i])] = "ubuntu"
  <2>1. y.boot_b = "ubuntu" /\ (dual => y.boot_a = "ubuntu")
    BY <1>4, <1>5 DEF Installing, AfterFirst
  <2>2. ASSUME NEW i \in 1 .. Len(BootSlots(a.layout)) PROVE BootSlots(a.layout)[i] = "b" \/ (dual /\ BootSlots(a.layout)[i] = "a")
    <3>1. CASE dual
      <4>1. BootSlots(a.layout) = <<"a", "b">>
        BY <3>1 DEF BootSlots
      <4>2. BootSlots(a.layout)[i] \in {"a", "b"}
        BY <4>1, Two
      <4>3. QED
        BY <3>1, <4>2
    <3>2. CASE ~dual
      <4>1. BootSlots(a.layout) = <<"b">>
        BY <3>2 DEF BootSlots
      <4>2. BootSlots(a.layout)[i] = "b"
        BY <4>1, One
      <4>3. QED
        BY <4>2
    <3>3. QED
      BY <3>1, <3>2
  <2>3. QED
    BY <2>1, <2>2 DEF BootField
<1>7. /\ y.root = "ubuntu" /\ Classify(ParsePrint(y.head)) = "split"
      /\ ~a.keep => y.head = y.tail
      /\ y.active = slot
      /\ dual => /\ y.store = "both" /\ y.fw = "stock"
                 /\ ~a.keep => y.userdata = "wiped" /\ y.metadata = "wiped"
  BY <1>4, <1>5 DEF Installing, AfterUserdata, AfterMetadata, AfterApply, AfterTable, AfterImages, AfterHome, AfterRoot,
                    AfterStore, AfterFirmware, AfterFirst
<1>8. HomeIn(x)
  BY <1>4 DEF Installing, AfterHome, AfterRoot, AfterStore, AfterFirmware, AfterFirst
<1>9. \E p \in Named(y.head, "linux_home") : y.home.first = p.first /\ y.home.kind # "none"
  BY <1>5, <1>8 DEF HomeIn
<1>10. Whole(y, a)
  BY <1>6, <1>7, <1>9 DEF Whole, slot
<1>11. QED
  BY <1>3, <1>10

LEMMA InitProgress == Init => ProgressInv
  BY IdleFields DEF Init, ProgressInv

\* A run that reports completion leaves every part of the installation on the
\* tablet: each command is answered only when it was done, by the boot whose
\* serial number was checked; the order of main leaves no later command that
\* writes what an earlier one made; and a file that changed on the host between
\* two of its steps stops the run (pad_boot_image, the digests of
\* install-root.sh).  The cable, the power, the commands and their answers may
\* fail at any step before.
THEOREM WholeWhenInstalled == Spec => InstalledIsWhole
<1>1. Init => Safe /\ Plans /\ ProgressInv
  BY PlansInit, InitProgress
<1>2. Safe /\ Plans /\ ProgressInv /\ [Next]_vars => (Safe /\ Plans /\ ProgressInv)'
  BY PlansKept, ProgressKept
<1>3. Safe /\ Plans /\ ProgressInv /\ [Next]_vars =>
        [host'.result = "installed" /\ host.result # "installed" => Whole(tab'[host.args.serial], host.args)]_vars
  BY InstalledStep DEF Safe
<1>4. QED
  BY <1>1, <1>2, <1>3, PTL DEF Spec, InstalledIsWhole

-----------------------------------------------------------------------------
(* How far a run has come.                                                   *)

\* The steps in the order a run meets them.
Stage(step) ==
  CASE step = "fastboot"     -> 1  [] step = "boot"          -> 2  [] step = "wait"        -> 3
    [] step = "serial"       -> 4  [] step = "backup boots"  -> 5  [] step = "backup head" -> 6
    [] step = "backup tail"  -> 7  [] step = "report"        -> 8  [] step = "restore"     -> 8
    [] step = "wipe userdata" -> 9 [] step = "wipe metadata" -> 10 [] step = "apply"       -> 11
    [] step = "verify"       -> 12 [] step = "images"        -> 13 [] step = "prepare home" -> 14
    [] step = "write root"   -> 15 [] step = "write store"   -> 16 [] step = "reboot"      -> 17
    [] step = "return"       -> 18 [] step = "firmware"      -> 19 [] step = "android"     -> 20
    [] step = "boot first"   -> 21 [] step = "boot second"   -> 22 [] step = "activate"    -> 23
    [] OTHER                 -> 0
Further == host'.pc = "idle" \/ Stage(host.pc) < Stage(host'.pc)

\* Its value at each step, once and for all.
LEMMA StageValues ==
  /\ Stage("fastboot") = 1 /\ Stage("boot") = 2 /\ Stage("wait") = 3 /\ Stage("serial") = 4
  /\ Stage("backup boots") = 5 /\ Stage("backup head") = 6 /\ Stage("backup tail") = 7
  /\ Stage("report") = 8 /\ Stage("restore") = 8 /\ Stage("wipe userdata") = 9
  /\ Stage("wipe metadata") = 10 /\ Stage("apply") = 11 /\ Stage("verify") = 12
  /\ Stage("images") = 13 /\ Stage("prepare home") = 14 /\ Stage("write root") = 15
  /\ Stage("write store") = 16 /\ Stage("reboot") = 17 /\ Stage("return") = 18
  /\ Stage("firmware") = 19 /\ Stage("android") = 20 /\ Stage("boot first") = 21
  /\ Stage("boot second") = 22 /\ Stage("activate") = 23
  BY Zenon DEF Stage

LEMMA FollowFurther ==
  ASSUME NEW p, NEW q, Follow(p, q)
  PROVE  Stage(p) < Stage(q)
<1>1. AfterSerial \in {"restore", "report", "backup boots"}
  BY DEF AfterSerial
<1>2. ASSUME p \in {"fastboot", "boot", "wait", "serial"}
      PROVE  Stage(p) < Stage(q)
  <2>1. \/ Stage(p) = 1 /\ Stage(q) = 2
        \/ Stage(p) = 2 /\ Stage(q) = 3
        \/ Stage(p) = 3 /\ Stage(q) = 4
        \/ Stage(p) = 4 /\ (Stage(q) = 5 \/ Stage(q) = 8)
    BY <1>1, <1>2, StageValues, Zenon DEF Follow
  <2>2. QED
    BY <2>1
<1>3. ASSUME p \in {"backup boots", "backup head", "backup tail", "report"}
      PROVE  Stage(p) < Stage(q)
  <2>1. \/ Stage(p) = 5 /\ Stage(q) = 6
        \/ Stage(p) = 6 /\ Stage(q) = 7
        \/ Stage(p) = 7 /\ Stage(q) = 8
        \/ Stage(p) = 8 /\ (Stage(q) = 9 \/ Stage(q) = 13 \/ Stage(q) = 14)
    BY <1>1, <1>3, StageValues, Zenon DEF Follow
  <2>2. QED
    BY <2>1
<1>4. ASSUME p \in {"restore", "wipe userdata", "wipe metadata", "apply"}
      PROVE  Stage(p) < Stage(q)
  <2>1. \/ Stage(p) = 8 /\ Stage(q) = 17
        \/ Stage(p) = 9 /\ (Stage(q) = 10 \/ Stage(q) = 11)
        \/ Stage(p) = 10 /\ Stage(q) = 11
        \/ Stage(p) = 11 /\ Stage(q) = 12
    BY <1>1, <1>4, StageValues, Zenon DEF Follow
  <2>2. QED
    BY <2>1
<1>5. ASSUME p \in {"verify", "images", "prepare home", "write root"}
      PROVE  Stage(p) < Stage(q)
  <2>1. \/ Stage(p) = 12 /\ (Stage(q) = 13 \/ Stage(q) = 14)
        \/ Stage(p) = 13 /\ Stage(q) = 14
        \/ Stage(p) = 14 /\ Stage(q) = 15
        \/ Stage(p) = 15 /\ (Stage(q) = 16 \/ Stage(q) = 17)
    BY <1>1, <1>5, StageValues, Zenon DEF Follow
  <2>2. QED
    BY <2>1
<1>6. ASSUME p \in {"write store", "reboot", "return", "firmware"}
      PROVE  Stage(p) < Stage(q)
  <2>1. \/ Stage(p) = 16 /\ Stage(q) = 17
        \/ Stage(p) = 17 /\ Stage(q) = 18
        \/ Stage(p) = 18 /\ (Stage(q) = 19 \/ Stage(q) = 20 \/ Stage(q) = 21)
        \/ Stage(p) = 19 /\ Stage(q) = 20
    BY <1>1, <1>6, StageValues, Zenon DEF Follow
  <2>2. QED
    BY <2>1
<1>7. ASSUME p \in {"android", "boot first", "boot second"}
      PROVE  Stage(p) < Stage(q)
  <2>1. \/ Stage(p) = 20 /\ Stage(q) = 21
        \/ Stage(p) = 21 /\ (Stage(q) = 22 \/ Stage(q) = 23)
        \/ Stage(p) = 22 /\ Stage(q) = 23
    BY <1>1, <1>7, StageValues, Zenon DEF Follow
  <2>2. QED
    BY <2>1
<1>8. QED
  BY <1>2, <1>3, <1>4, <1>5, <1>6, <1>7, Zenon DEF Follow

\* A run never goes back: each step of the installer, whether it succeeds or
\* fails, takes it forward in the order of Stage or ends it, and nothing else (a
\* power loss, the cable, another tablet) moves it at all.  A run is over after
\* at most 23 steps.
RunAdvances == [][host.pc # "idle" => Further \/ (~HostNext /\ host' = host)]_vars
THEOREM RunGoesForward == Spec => RunAdvances
<1>1. Init => Shape
  BY InitShape
<1>2. Shape /\ [Next]_vars => Shape'
  BY ShapeKept
<1>3. ASSUME Shape, [Next]_vars, host.pc # "idle" PROVE Further \/ (~HostNext /\ host' = host)
  <2>1. ASSUME Ended \/ Advanced PROVE Further
    <3>1. ASSUME Ended PROVE Further
      BY <3>1, IdleFields DEF Ended, Further
    <3>2. ASSUME Advanced PROVE Further
      BY <3>2, FollowFurther DEF Advanced, Further
    <3>3. QED
      BY <2>1, <3>1, <3>2
  <2>2. HostNext => Ended \/ Advanced
    BY <1>3, SavingHost, ReportHost, ImagesHost, OtherRemoteHost, FastbootHost DEF HostNext, Shape
  <2>3. ~Begun
    BY <1>3, BegunCases DEF BegunOn, Shape, TypeOK
  <2>4. Held => host' = host
    BY DEF Held
  <2>5. QED
    BY <1>3, <2>1, <2>2, <2>3, <2>4, HostSteps
<1>4. Shape /\ [Next]_vars => (host.pc # "idle" => Further \/ (~HostNext /\ host' = host))
  BY <1>3
<1>5. QED
  BY <1>1, <1>2, <1>4, PTL DEF Spec, RunAdvances
=============================================================================
