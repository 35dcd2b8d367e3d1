------------------------------- MODULE Layout -------------------------------
(* liuqin_layout.py: the partition layout engine.  It reads a partition      *)
(* table, computes how the tail of the disk is split into userdata,          *)
(* linux_root and linux_home, renders the one sgdisk call that does it, and  *)
(* checks the result.  Nothing here opens a device.  A table is a set of     *)
(* partitions in sectors; a plan is in bytes.  A plan that is refused (a     *)
(* LayoutError) is <<>>.                                                     *)
EXTENDS Integers, FiniteSets, Sequences

CONSTANTS
  DEVICE_SECTOR_SIZE,                 \* the one sector size that is supported
  STOCK_PARTITION_COUNT,
  ALIGNMENT,
  ROOT_NUMBER, HOME_NUMBER,
  MIN_ANDROID, MIN_ROOT, MIN_HOME,    \* bytes
  Default,                            \* DEFAULT_SIZES: per mode, android and root
  ReferenceDisk                       \* the factory table of the 256 GB tablet

Modes == {"linux-only", "dual"}

\* A size as it is asked for: NN% of the region, or a number of bytes.
IsSize(size) == size.unit \in {"%", "B"} /\ size.n \in Nat

ASSUME LayoutAssumption ==
  /\ DEVICE_SECTOR_SIZE \in Nat \ {0} /\ ALIGNMENT \in Nat \ {0} /\ ALIGNMENT % DEVICE_SECTOR_SIZE = 0
  /\ MIN_ANDROID \in Nat \ {0} /\ MIN_ROOT \in Nat \ {0} /\ MIN_HOME \in Nat \ {0}
  /\ ROOT_NUMBER # HOME_NUMBER
  /\ \A mode \in Modes : IsSize(Default[mode].android) /\ IsSize(Default[mode].root)

-----------------------------------------------------------------------------
(* Reading a table.                                                          *)

Overlap(p, q) == p.first <= q.last /\ q.first <= p.last

\* A GUID partition table: numbers of their own, in the usable sectors, apart.
IsTable(table) ==
  /\ DOMAIN table = {"sector", "last", "capacity", "parts"}
  /\ table.sector \in Nat \ {0} /\ table.last \in Nat /\ IsFiniteSet(table.parts)
  /\ \A p \in table.parts : p.first \in Nat /\ p.last \in p.first .. table.last
  /\ \A p, q \in table.parts : p # q => p.number # q.number /\ ~Overlap(p, q)

\* sgdisk -p; a row without a name does not match the pattern and is dropped.
ParsePrint(table) == [table EXCEPT !.parts = {p \in @ : p.name # ""}]

Start(disk, p) == p.first * disk.sector
End(disk, p)   == (p.last + 1) * disk.sector
UsableEnd(disk) == (disk.last + 1) * disk.sector

Named(disk, name) == {p \in disk.parts : p.name = name}
Twice(disk, name) == Cardinality(Named(disk, name)) > 1         \* by_name raises
ByName(disk, name) == CHOOSE p \in Named(disk, name) : TRUE
LastPart(disk) == CHOOSE p \in disk.parts : \A q \in disk.parts : q.first <= p.first

\* sgdisk -i: what has to survive the edit.
ParseInfo(disk, name) ==
  LET p == ByName(disk, name) IN [id |-> p.id, name |-> p.name, first |-> p.first]

IsStock(disk) ==
  /\ Named(disk, "userdata") # {} /\ LastPart(disk).name = "userdata"
  /\ Cardinality(disk.parts) = STOCK_PARTITION_COUNT
  /\ LastPart(disk).last = disk.last

Classify(disk) ==
  IF \E name \in {"userdata", "linux_root", "linux_home"} : Twice(disk, name) THEN "unknown"
  ELSE IF Named(disk, "linux_root") # {}
       THEN IF LastPart(disk).name \in {"linux_root", "linux_home"} THEN "split" ELSE "unknown"
       ELSE IF Named(disk, "linux_home") = {} /\ IsStock(disk) THEN "stock" ELSE "unknown"

CheckStockDevice(disk) ==
  /\ disk.sector = DEVICE_SECTOR_SIZE
  /\ IsStock(disk)
  /\ disk.capacity - Cardinality(disk.parts) >= 2

-----------------------------------------------------------------------------
(* Sizes and the plan.                                                       *)

Malformed == -1

\* A size is NN% of the region or a number of bytes; int() rounds down.
ParseSize(size, region) ==
  IF size.unit = "%"
  THEN IF size.n \in 0 .. 100 THEN (region * size.n) \div 100 ELSE Malformed
  ELSE size.n

\* A slip: rounding down.
AlignDown(offset) == (offset \div ALIGNMENT) * ALIGNMENT

AlignUp(offset) == ((offset + ALIGNMENT - 1) \div ALIGNMENT) * ALIGNMENT

ResolveSizes(mode, android, root, region) ==
  [android |-> ParseSize(IF android = <<>> THEN Default[mode].android ELSE android[1], region),
   root    |-> ParseSize(IF root = <<>> THEN Default[mode].root ELSE root[1], region)]

Entry(number, name, start, end, action) ==
  [number |-> number, name |-> name, start |-> start, end |-> end, action |-> action]
Size(entry) == entry.end - entry.start

WholeSectors(disk, entry) == entry.start % disk.sector = 0 /\ entry.end % disk.sector = 0

PlanLayout(disk, mode, android, root) ==
  LET userdata == ByName(disk, "userdata")
      start    == Start(disk, userdata)
      end      == UsableEnd(disk)
      cursor   == IF android > 0 THEN AlignUp(start + android) ELSE AlignUp(start)
      rootEnd  == AlignUp(cursor + root)
      entries  == << IF android > 0
                     THEN Entry(userdata.number, "userdata", start, cursor, "shrink")
                     ELSE Entry(userdata.number, "userdata", start, end, "delete"),
                     Entry(ROOT_NUMBER, "linux_root", cursor, rootEnd, "create"),
                     Entry(HOME_NUMBER, "linux_home", rootEnd, end, "create") >>
  IN IF \/ Named(disk, "userdata") = {} \/ Twice(disk, "userdata")
        \/ Malformed \in {android, root}
        \/ (mode = "dual" /\ android = 0) \/ android \in 1 .. MIN_ANDROID - 1
        \/ root < MIN_ROOT \/ rootEnd + MIN_HOME > end
        \/ \E i \in 1 .. 3 : entries[i].action # "delete" /\ ~WholeSectors(disk, entries[i])
     THEN <<>> ELSE entries

Region(disk) == UsableEnd(disk) - Start(disk, ByName(disk, "userdata"))

\* The plan for what was asked, on a given table.
PlanFor(disk, mode, android, root) ==
  LET sizes == ResolveSizes(mode, android, root, Region(disk))
  IN PlanLayout(disk, mode, sizes.android, sizes.root)

\* reference_plan: what the user is shown and confirms.
ReferencePlan(mode, android, root) == PlanFor(ReferenceDisk, mode, android, root)

\* A slip: the sizes are not compared.
ConfirmShape(expected, actual) ==
  Len(expected) = Len(actual) /\ \A i \in 1 .. Len(actual) : expected[i].action = actual[i].action

ConfirmPlan(expected, actual) ==
  /\ Len(expected) = Len(actual)
  /\ \A i \in 1 .. Len(actual) :
       /\ expected[i].name = actual[i].name /\ expected[i].action = actual[i].action
       /\ actual[i].name # "linux_home" => Size(expected[i]) = Size(actual[i])

-----------------------------------------------------------------------------
(* One sgdisk call, and the check of what it did.                            *)

Sectors(disk, entry, id) ==
  [number |-> entry.number, name |-> entry.name, id |-> id,
   first |-> entry.start \div disk.sector, last |-> entry.end \div disk.sector - 1]

\* The arguments: the partitions deleted, by number, and those made new.
\* userdata is made again with the identity it had; it must not move.
SgdiskArguments(plan, disk, info) ==
  [delete |-> {plan[1].number},
   new    |-> (IF plan[1].action = "delete" THEN {} ELSE {Sectors(disk, plan[1], info.id)})
              \cup {Sectors(disk, plan[i], "8300") : i \in 2 .. 3}]
Moves(plan, disk, info) ==
  plan[1].action # "delete" /\ plan[1].start \div disk.sector # info.first

\* sgdisk refuses a number in use, a partition outside the usable sectors, and
\* one over another.
SgdiskAccepts(table, arguments) ==
  LET kept == {p \in table.parts : p.number \notin arguments.delete}
  IN \A p \in arguments.new :
       /\ p.first <= p.last /\ p.last <= table.last
       /\ \A q \in (kept \cup arguments.new) \ {p} : p.number # q.number /\ ~Overlap(p, q)
Sgdisk(table, arguments) ==
  [table EXCEPT !.parts = {p \in @ : p.number \notin arguments.delete} \cup arguments.new]

VerifyApplied(disk, plan) ==
  \A i \in 1 .. Len(plan) :
    LET found == Named(disk, plan[i].name)
    IN IF plan[i].action = "delete" THEN found = {}
       ELSE \E p \in found : /\ found = {p}
                             /\ p.first = plan[i].start \div disk.sector
                             /\ p.last = plan[i].end \div disk.sector - 1

VerifyPreserved(before, after) == before = after

=============================================================================
