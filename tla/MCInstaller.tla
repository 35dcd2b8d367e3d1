---------------------------- MODULE MCInstaller ----------------------------
EXTENDS Installer

Part(number, first, last, name) ==
  [number |-> number, first |-> first, last |-> last, name |-> name, id |-> IF name = "" THEN "none" ELSE name]
Table(sector, last, capacity, parts) == [sector |-> sector, last |-> last, capacity |-> capacity, parts |-> parts]
Front == {Part(1, 1, 1, "persist"), Part(2, 2, 3, "metadata")}

\* A factory table: userdata from `first` to the end.
Stock(first, last) == Table(2, last, 6, Front \cup {Part(3, first, last, "userdata")})

\* The reference starts half an alignment off, as the real one does.
MCReferenceDisk == Stock(5, 34)
MCDefault == [m \in Modes |-> IF m = "dual" THEN [android |-> [unit |-> "B", n |-> 24], root |-> [unit |-> "B", n |-> 8]]
                              ELSE [android |-> [unit |-> "B", n |-> 0], root |-> [unit |-> "B", n |-> 8]]]

Request(t, layout, android, root, keep, nobackup) ==
  [serial |-> t, layout |-> layout, android |-> android, root |-> root,
   keep |-> keep, nobackup |-> nobackup, restore |-> {}]

\* The installer run: one tablet is installed again and again, in both
\* layouts, fresh and over an existing split; the other one once.
MCRequests ==
  {Request("t1", "dual", <<>>, <<>>, FALSE, FALSE)}
  \cup {Request("t1", "dual", <<>>, <<>>, TRUE, n) : n \in BOOLEAN}
  \cup {Request("t1", "linux-only", <<>>, <<>>, FALSE, FALSE), Request("t2", "linux-only", <<>>, <<>>, FALSE, FALSE)}
MCTables == {MCReferenceDisk}

\* The layout run: sizes on and beside every limit, on tables of every kind.
Sizes(unit, ns) == {<<[unit |-> unit, n |-> n]>> : n \in ns}
LayoutRequests ==
  {Request(t, m, a, r, FALSE, FALSE) :
     t \in Tablets, m \in Modes,
     a \in {<<>>} \cup Sizes("B", {0, 3, 5, 9, 46}) \cup Sizes("%", {50, 101}),
     r \in {<<>>} \cup Sizes("B", {3, 4, 7, 44}) \cup Sizes("%", {25})}
  \cup {Request(t, m, a, <<>>, TRUE, FALSE) : t \in Tablets, m \in Modes, a \in {<<>>} \cup Sizes("B", {9})}
LayoutTables ==
  {Stock(first, last) : first \in {5, 6}, last \in {13, 34, 35, 50}}
  \cup {Table(1, 34, 6, Front \cup {Part(3, 5, 34, "userdata")}),
        Table(2, 34, 4, Front \cup {Part(3, 5, 34, "userdata")}),
        Table(2, 34, 6, Front \cup {Part(3, 5, 32, "userdata")}),
        Table(2, 34, 6, Front \cup {Part(3, 5, 30, "userdata"), Part(4, 31, 34, "extra")}),
        Table(2, 34, 6, {Part(1, 1, 1, "persist"), Part(3, 5, 34, "userdata")}),
        Table(2, 34, 6, Front \cup {Part(3, 5, 34, "userdata"), Part(4, 4, 4, "")}),
        Table(2, 34, 6, Front \cup {Part(3, 5, 34, "userdata"), Part(6, 4, 4, "")}),
        Table(2, 34, 6, Front \cup {Part(4, 5, 17, "linux_root"), Part(5, 18, 34, "linux_home")}),
        Table(2, 34, 6, Front \cup {Part(3, 5, 11, "userdata"), Part(4, 12, 15, "linux_root"), Part(5, 16, 34, "linux_home")}),
        Table(2, 34, 6, Front \cup {Part(3, 5, 11, "linux_root"), Part(4, 12, 15, "userdata")}),
        Table(2, 34, 6, Front \cup {Part(3, 5, 11, "userdata"), Part(4, 12, 34, "linux_home")}),
        Table(2, 34, 6, Front \cup {Part(3, 5, 11, "userdata"), Part(6, 12, 34, "userdata")})}

\* The capacity run: the reference and a larger variant of it.
CapacityTables == {Stock(5, 50)}
CapacityRequests == {Request(t, "linux-only", <<>>, <<>>, FALSE, FALSE) : t \in Tablets}
=============================================================================
