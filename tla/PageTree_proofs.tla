---------------------------- MODULE PageTree_proofs ----------------------------
(***************************************************************************)
(* The tree of tables in the RAM: its nodes, what taking a frame out of it *)
(* and linking one into it does to them, and why find_frame always has a   *)
(* frame to hand out.                                                      *)
(***************************************************************************)
EXTENDS PageArithmetic_proofs, FiniteSetTheorems

-----------------------------------------------------------------------------
(* The nodes. *)

All(ram) == Tables(ram) \cup Leaves(ram)

NodesAt(k) == [frame : Frames, depth : {k}, path : Nat, parent : Frames, row : Rows]

\* A tree: its tables hold frames, and no frame is reached twice.
Tree(ram) ==
  /\ ram \in [Frames -> [Rows -> Words]]
  /\ \A n \in Tables(ram) : \A i \in Rows : ram[n.frame][i] \in Frames
  /\ \A n, m \in All(ram) : n.frame = m.frame => n = m

LevelsTo(ram, f, n) ==
  f = [k \in 0 .. n |-> IF k = 0 THEN {Root} ELSE UNION {Children(ram, m) : m \in f[k - 1]}]

\* The levels of Nodes are what its definition says.
LEMMA Levels ==
  ASSUME NEW ram
  PROVE  /\ Nodes(ram)[0] = {Root}
         /\ \A k \in 0 .. TABLES_DEPTH - 1 :
              Nodes(ram)[k + 1] = UNION {Children(ram, n) : n \in Nodes(ram)[k]}
<1> DEFINE S == {n \in Nat : \E f : LevelsTo(ram, f, n)}
<1>1. 0 \in S
  <2>1. LevelsTo(ram, [k \in 0 .. 0 |-> {Root}], 0)
    BY DEF LevelsTo
  <2> QED
    BY <2>1
<1>2. ASSUME NEW n \in Nat, n \in S PROVE n + 1 \in S
  <2>1. PICK f : LevelsTo(ram, f, n)
    BY <1>2
  <2> DEFINE Below(s) == UNION {Children(ram, m) : m \in s}
             g == [k \in 0 .. n + 1 |-> IF k = n + 1 THEN Below(f[n]) ELSE f[k]]
  <2>2. f = [k \in 0 .. n |-> IF k = 0 THEN {Root} ELSE Below(f[k - 1])]
    BY <2>1 DEF LevelsTo
  <2> HIDE DEF Below
  <2>3. ASSUME NEW k \in 0 .. n + 1
        PROVE  g[k] = IF k = 0 THEN {Root} ELSE Below(g[k - 1])
    <3>1. CASE k = n + 1
      <4>1. k # 0 /\ k - 1 = n /\ n \in 0 .. n + 1 /\ n # n + 1
        BY <3>1
      <4> QED
        BY <3>1, <4>1
    <3>2. CASE k # n + 1
      <4>1. k \in 0 .. n /\ (k # 0 => k - 1 \in 0 .. n + 1 /\ k - 1 # n + 1)
        BY <3>2
      <4>2. g[k] = f[k] /\ (k # 0 => g[k - 1] = f[k - 1])
        BY <3>2, <4>1
      <4> HIDE DEF g
      <4> QED
        BY <2>2, <4>1, <4>2
    <3> QED
      BY <3>1, <3>2
  <2>4. g = [k \in 0 .. n + 1 |-> g[k]]
    OBVIOUS
  <2>5. g = [k \in 0 .. n + 1 |-> IF k = 0 THEN {Root} ELSE Below(g[k - 1])]
    <3> HIDE DEF g
    <3> QED
      BY <2>3, <2>4
  <2>6. LevelsTo(ram, g, n + 1)
    <3> HIDE DEF g
    <3> QED
      BY <2>5 DEF LevelsTo, Below
  <2> QED
    BY <2>6
<1>3. \E f : LevelsTo(ram, f, TABLES_DEPTH)
  <2>1. TABLES_DEPTH \in S
    <3> HIDE DEF S
    <3> QED
      BY <1>1, <1>2, Induction, Sizes
  <2> QED
    BY <2>1
<1>4. LevelsTo(ram, Nodes(ram), TABLES_DEPTH)
  BY <1>3 DEF LevelsTo, Nodes
<1>5. Nodes(ram)[0] = {Root}
  BY <1>4, Sizes DEF LevelsTo
<1>6. ASSUME NEW k \in 0 .. TABLES_DEPTH - 1
      PROVE  Nodes(ram)[k + 1] = UNION {Children(ram, n) : n \in Nodes(ram)[k]}
  <2>1. k + 1 \in 0 .. TABLES_DEPTH /\ k + 1 # 0 /\ (k + 1) - 1 = k
    BY Sizes
  <2> QED
    BY <1>4, <2>1 DEF LevelsTo
<1> QED
  BY <1>5, <1>6

\* A table is a node above the last level.
LEMMA IsTable ==
  ASSUME NEW ram, NEW n
  PROVE  n \in Tables(ram) <=> \E k \in 0 .. TABLES_DEPTH - 1 : n \in Nodes(ram)[k]
BY DEF Tables

\* A node is in one of the levels.
LEMMA IsNode ==
  ASSUME NEW ram, NEW n
  PROVE  n \in All(ram) <=> \E k \in 0 .. TABLES_DEPTH : n \in Nodes(ram)[k]
<1>1. ASSUME n \in Tables(ram) PROVE \E k \in 0 .. TABLES_DEPTH : n \in Nodes(ram)[k]
  BY <1>1, IsTable, Sizes
<1>2. ASSUME NEW k \in 0 .. TABLES_DEPTH, n \in Nodes(ram)[k], k # TABLES_DEPTH
      PROVE  n \in Tables(ram)
  <2>1. k \in 0 .. TABLES_DEPTH - 1
    BY <1>2, Sizes
  <2> QED
    BY <1>2, <2>1, IsTable
<1>3. TABLES_DEPTH \in 0 .. TABLES_DEPTH
  BY Sizes
<1> QED
  BY <1>1, <1>2, <1>3 DEF All, Leaves

\* A child is reached through a row that holds a frame.
LEMMA InChildren ==
  ASSUME NEW ram, NEW n, NEW c
  PROVE  c \in Children(ram, n) <=>
           \E i \in Rows : /\ ram[n.frame][i] # 0 /\ ram[n.frame][i] < NUM_FRAMES
                           /\ c = Child(ram, n, i)
BY DEF Children

\* A node below the root is the child of a node.
LEMMA HasParent ==
  ASSUME NEW ram, NEW k \in 0 .. TABLES_DEPTH - 1, NEW c \in Nodes(ram)[k + 1]
  PROVE  \E n \in Nodes(ram)[k] :
           \E i \in Rows : /\ ram[n.frame][i] # 0 /\ ram[n.frame][i] < NUM_FRAMES
                           /\ c = Child(ram, n, i)
<1>1. PICK n \in Nodes(ram)[k] : c \in Children(ram, n)
  BY Levels
<1> QED
  BY <1>1, InChildren

\* A row that is not zero leads to a node of the next level.
LEMMA HasChild ==
  ASSUME NEW ram, Tree(ram), NEW k \in 0 .. TABLES_DEPTH - 1, NEW n \in Nodes(ram)[k],
         NEW i \in Rows, ram[n.frame][i] # 0
  PROVE  Child(ram, n, i) \in Nodes(ram)[k + 1]
<1>1. ram[n.frame][i] \in Frames
  BY IsTable DEF Tree
<1>2. ram[n.frame][i] < NUM_FRAMES
  BY <1>1, Sizes DEF Frames
<1>3. Child(ram, n, i) \in Children(ram, n)
  BY <1>2, InChildren
<1> QED
  BY <1>3, Levels

\* The types of the nodes of a level.
LEMMA NodeTypes ==
  ASSUME NEW ram, Tree(ram)
  PROVE  \A k \in 0 .. TABLES_DEPTH : Nodes(ram)[k] \subseteq NodesAt(k)
<1> DEFINE S == {k \in Nat : k <= TABLES_DEPTH => Nodes(ram)[k] \subseteq NodesAt(k)}
<1>1. 0 \in S
  <2>1. Root \in NodesAt(0)
    BY Sizes DEF Root, NodesAt, Frames, Rows
  <2> QED
    BY <2>1, Levels
<1>2. ASSUME NEW k \in Nat, k \in S PROVE k + 1 \in S
  <2> SUFFICES ASSUME k + 1 <= TABLES_DEPTH, NEW c \in Nodes(ram)[k + 1]
               PROVE  c \in NodesAt(k + 1)
    OBVIOUS
  <2>1. k \in 0 .. TABLES_DEPTH - 1 /\ k <= TABLES_DEPTH
    BY Sizes
  <2>2. PICK n \in Nodes(ram)[k], i \in Rows :
          ram[n.frame][i] # 0 /\ ram[n.frame][i] < NUM_FRAMES /\ c = Child(ram, n, i)
    BY <2>1, HasParent
  <2>3. n \in NodesAt(k)
    BY <1>2, <2>1
  <2>4. ram[n.frame][i] \in Frames
    BY <2>1, IsTable DEF Tree
  <2>5. n.path * PAGE_SIZE + i \in Nat
    <3>1. n.path \in Nat /\ i \in Nat
      BY <2>3, Sizes DEF NodesAt, Rows
    <3>2. n.path * PAGE_SIZE \in Nat
      BY <3>1, Sizes, ProductNat
    <3> QED
      BY <3>1, <3>2
  <2>6. n.frame \in Frames /\ n.depth + 1 = k + 1
    BY <2>3 DEF NodesAt
  <2> QED
    BY <2>2, <2>4, <2>5, <2>6 DEF Child, NodesAt
<1>3. Nat \subseteq S
  <2> HIDE DEF S
  <2> QED
    BY <1>1, <1>2, Induction
<1>4. ASSUME NEW k \in 0 .. TABLES_DEPTH PROVE Nodes(ram)[k] \subseteq NodesAt(k)
  <2>1. k \in Nat /\ k <= TABLES_DEPTH
    BY Sizes
  <2>2. k \in S
    BY <1>3, <2>1
  <2> QED
    BY <2>1, <2>2
<1> QED
  BY <1>4

\* A node is in one level, and no two of a level have the same path.
LEMMA OneLevel ==
  ASSUME NEW ram, Tree(ram), NEW j \in 0 .. TABLES_DEPTH, NEW k \in 0 .. TABLES_DEPTH,
         NEW n \in Nodes(ram)[j], NEW m \in Nodes(ram)[k], n.frame = m.frame
  PROVE  n = m /\ j = k
<1>1. n \in All(ram) /\ m \in All(ram)
  BY IsNode
<1>2. n = m
  BY <1>1 DEF Tree
<1>3. n.depth = j /\ m.depth = k
  BY NodeTypes DEF NodesAt
<1> QED
  BY <1>2, <1>3

\* A path tells the path of the parent and the row.
LEMMA SamePlace ==
  ASSUME NEW a \in Nat, NEW b \in Nat, NEW i \in Rows, NEW j \in Rows,
         a * PAGE_SIZE + i = b * PAGE_SIZE + j
  PROVE  a = b /\ i = j
<1>1. i \in 0 .. PAGE_SIZE - 1 /\ j \in 0 .. PAGE_SIZE - 1
  BY DEF Rows
<1>2. PAGE_SIZE * a + i = PAGE_SIZE * b + j
  <2>1. a * PAGE_SIZE = PAGE_SIZE * a /\ b * PAGE_SIZE = PAGE_SIZE * b
    BY Sizes
  <2> QED
    BY <2>1
<1>3. (PAGE_SIZE * a + i) \div PAGE_SIZE = a /\ (PAGE_SIZE * a + i) % PAGE_SIZE = i
  BY <1>1, Sizes, DivUnique
<1>4. (PAGE_SIZE * b + j) \div PAGE_SIZE = b /\ (PAGE_SIZE * b + j) % PAGE_SIZE = j
  BY <1>1, Sizes, DivUnique
<1> QED
  BY <1>2, <1>3, <1>4

\* Two nodes of a level have different paths.
LEMMA PathsDiffer ==
  ASSUME NEW ram, Tree(ram)
  PROVE  \A k \in 0 .. TABLES_DEPTH : \A n, m \in Nodes(ram)[k] : n.path = m.path => n = m
<1> DEFINE S == {k \in Nat : k <= TABLES_DEPTH =>
                   \A n, m \in Nodes(ram)[k] : n.path = m.path => n = m}
<1>1. 0 \in S
  BY Levels
<1>2. ASSUME NEW k \in Nat, k \in S PROVE k + 1 \in S
  <2> SUFFICES ASSUME k + 1 <= TABLES_DEPTH, NEW n \in Nodes(ram)[k + 1],
                      NEW m \in Nodes(ram)[k + 1], n.path = m.path
               PROVE  n = m
    OBVIOUS
  <2>1. k \in 0 .. TABLES_DEPTH - 1 /\ k <= TABLES_DEPTH /\ k \in 0 .. TABLES_DEPTH
    BY Sizes
  <2>2. PICK p \in Nodes(ram)[k], i \in Rows : n = Child(ram, p, i)
    BY <2>1, HasParent
  <2>3. PICK q \in Nodes(ram)[k], j \in Rows : m = Child(ram, q, j)
    BY <2>1, HasParent
  <2>4. p.path \in Nat /\ q.path \in Nat
    BY <2>1, NodeTypes DEF NodesAt
  <2>5. p.path * PAGE_SIZE + i = q.path * PAGE_SIZE + j
    BY <2>2, <2>3 DEF Child
  <2>6. p.path = q.path /\ i = j
    BY <2>4, <2>5, SamePlace
  <2>7. p = q
    BY <1>2, <2>1, <2>6
  <2> QED
    BY <2>2, <2>3, <2>6, <2>7
<1>3. Nat \subseteq S
  <2> HIDE DEF S
  <2> QED
    BY <1>1, <1>2, Induction
<1>4. ASSUME NEW k \in 0 .. TABLES_DEPTH
      PROVE  \A n, m \in Nodes(ram)[k] : n.path = m.path => n = m
  <2>1. k \in Nat /\ k <= TABLES_DEPTH
    BY Sizes
  <2>2. k \in S
    BY <1>3, <2>1
  <2> QED
    BY <2>1, <2>2
<1> QED
  BY <1>4

\* Above a page there is a table at every depth of its path.
LEMMA Ancestors ==
  ASSUME NEW ram, Tree(ram), NEW va \in Nat, va < VIRTUAL_MEMORY_SIZE,
         NEW leaf \in Leaves(ram), leaf.path = PageOf(va), NEW k \in 0 .. TABLES_DEPTH
  PROVE  \E n \in Nodes(ram)[k] : n.path = Prefix(va, k)
<1> DEFINE S == {i \in Nat : i <= TABLES_DEPTH =>
                   \E n \in Nodes(ram)[TABLES_DEPTH - i] :
                     n.path = Prefix(va, TABLES_DEPTH - i)}
<1>1. 0 \in S
  <2>1. TABLES_DEPTH - 0 = TABLES_DEPTH
    BY Sizes
  <2> QED
    BY <2>1, PrefixEnd DEF Leaves
<1>2. ASSUME NEW i \in Nat, i \in S PROVE i + 1 \in S
  <2> SUFFICES ASSUME i + 1 <= TABLES_DEPTH
               PROVE  \E n \in Nodes(ram)[TABLES_DEPTH - (i + 1)] :
                        n.path = Prefix(va, TABLES_DEPTH - (i + 1))
    OBVIOUS
  <2> DEFINE j == TABLES_DEPTH - (i + 1)
  <2>1. j \in 0 .. TABLES_DEPTH - 1 /\ TABLES_DEPTH - i = j + 1 /\ i <= TABLES_DEPTH
        /\ j \in 0 .. TABLES_DEPTH
    BY Sizes
  <2> HIDE DEF j
  <2>2. PICK c \in Nodes(ram)[j + 1] : c.path = Prefix(va, j + 1)
    BY <1>2, <2>1
  <2>3. PICK n \in Nodes(ram)[j], row \in Rows : c = Child(ram, n, row)
    BY <2>1, HasParent
  <2>4. n.path \in Nat
    BY <2>1, NodeTypes DEF NodesAt
  <2>5. n.path * PAGE_SIZE + row = Prefix(va, j) * PAGE_SIZE + calculate_bits(va, j)
    BY <2>1, <2>2, <2>3, PrefixStep DEF Child
  <2>6. n.path = Prefix(va, j)
    BY <2>1, <2>4, <2>5, PrefixStep, SamePlace
  <2> QED
    BY <2>6 DEF j
<1>3. TABLES_DEPTH - k \in S
  <2> HIDE DEF S
  <2> QED
    BY <1>1, <1>2, Induction, Sizes
<1>4. TABLES_DEPTH - (TABLES_DEPTH - k) = k /\ TABLES_DEPTH - k <= TABLES_DEPTH
  BY Sizes
<1> QED
  BY <1>3, <1>4

\* A page whose walk meets a zero is not in the RAM.
LEMMA NotThere ==
  ASSUME NEW ram, Tree(ram), NEW va \in Nat, va < VIRTUAL_MEMORY_SIZE,
         NEW k \in 0 .. TABLES_DEPTH - 1, NEW p \in Nodes(ram)[k], p.path = Prefix(va, k),
         ram[p.frame][calculate_bits(va, k)] = 0
  PROVE  \A n \in Leaves(ram) : n.path # PageOf(va)
<1> SUFFICES ASSUME NEW n \in Leaves(ram), n.path = PageOf(va)
             PROVE  FALSE
  OBVIOUS
<1>1. k + 1 \in 0 .. TABLES_DEPTH /\ k \in 0 .. TABLES_DEPTH
  BY Sizes
<1>2. PICK c \in Nodes(ram)[k + 1] : c.path = Prefix(va, k + 1)
  BY <1>1, Ancestors
<1>3. PICK q \in Nodes(ram)[k], row \in Rows : ram[q.frame][row] # 0 /\ c = Child(ram, q, row)
  BY HasParent
<1>4. q.path \in Nat
  BY <1>1, NodeTypes DEF NodesAt
<1>5. q.path * PAGE_SIZE + row = Prefix(va, k) * PAGE_SIZE + calculate_bits(va, k)
  BY <1>2, <1>3, PrefixStep DEF Child
<1>6. q.path = Prefix(va, k) /\ row = calculate_bits(va, k)
  BY <1>4, <1>5, PrefixStep, SamePlace
<1>7. q = p
  BY <1>1, <1>6, PathsDiffer
<1> QED
  BY <1>3, <1>6, <1>7

-----------------------------------------------------------------------------
(* The frames in use. *)

InUse(ram) == {n.frame : n \in All(ram)}

\* The frames in use are the first ones.
Packed(ram) == \E last \in Frames : InUse(ram) = 0 .. last

\* The frames in use are the root and what the tables point to.
LEMMA InUseFrames ==
  ASSUME NEW ram, Tree(ram)
  PROVE  /\ 0 \in InUse(ram) /\ InUse(ram) \subseteq Frames
         /\ InUse(ram) = {0} \cup UNION {Range(ram[n.frame]) : n \in Tables(ram)}
<1>1. Root \in All(ram)
  <2>1. Root \in Nodes(ram)[0] /\ 0 \in 0 .. TABLES_DEPTH
    BY Levels, Sizes
  <2> QED
    BY <2>1, IsNode
<1>2. 0 \in InUse(ram)
  BY <1>1 DEF InUse, Root
<1>3. InUse(ram) \subseteq Frames
  BY IsNode, NodeTypes DEF InUse, NodesAt
<1>4. ASSUME NEW n \in All(ram)
      PROVE  n.frame \in {0} \cup UNION {Range(ram[m.frame]) : m \in Tables(ram)}
  <2>1. PICK k \in 0 .. TABLES_DEPTH : n \in Nodes(ram)[k]
    BY IsNode
  <2>2. CASE k = 0
    BY <2>1, <2>2, Levels DEF Root
  <2>3. CASE k # 0
    <3>1. k - 1 \in 0 .. TABLES_DEPTH - 1 /\ (k - 1) + 1 = k
      BY <2>3, Sizes
    <3>2. PICK m \in Nodes(ram)[k - 1], i \in Rows : n = Child(ram, m, i)
      BY <2>1, <3>1, HasParent
    <3>3. m \in Tables(ram)
      BY <3>1, IsTable
    <3>4. m.frame \in Frames
      BY <3>1, NodeTypes, Sizes DEF NodesAt
    <3>5. i \in DOMAIN ram[m.frame]
      BY <3>4 DEF Tree
    <3>6. n.frame \in Range(ram[m.frame])
      BY <3>2, <3>5 DEF Child, Range
    <3> QED
      BY <3>3, <3>6
  <2> QED
    BY <2>2, <2>3
<1>5. ASSUME NEW m \in Tables(ram), NEW f \in Range(ram[m.frame])
      PROVE  f \in InUse(ram)
  <2>1. PICK k \in 0 .. TABLES_DEPTH - 1 : m \in Nodes(ram)[k]
    BY IsTable
  <2>2. m.frame \in Frames
    BY <2>1, NodeTypes, Sizes DEF NodesAt
  <2>3. PICK i \in Rows : f = ram[m.frame][i]
    BY <2>2 DEF Tree, Range
  <2>4. CASE f = 0
    BY <1>2, <2>4
  <2>5. CASE f # 0
    <3>1. Child(ram, m, i) \in Nodes(ram)[k + 1] /\ k + 1 \in 0 .. TABLES_DEPTH
      BY <2>1, <2>3, <2>5, HasChild, Sizes
    <3>2. Child(ram, m, i).frame = f
      BY <2>3 DEF Child
    <3> QED
      BY <3>1, <3>2, IsNode DEF InUse
  <2> QED
    BY <2>4, <2>5
<1> QED
  BY <1>2, <1>3, <1>4, <1>5 DEF InUse

\* max_frame is the last frame in use.
LEMMA LastInUse ==
  ASSUME NEW ram, Tree(ram), NEW last \in Nat, InUse(ram) = 0 .. last
  PROVE  max_frame(ram) = last
<1>1. max_frame(ram) = Max(0 .. last)
  BY InUseFrames DEF max_frame
<1>2. last \in 0 .. last /\ \A f \in 0 .. last : last >= f
  OBVIOUS
<1>3. \A g \in 0 .. last : (\A f \in 0 .. last : g >= f) => g = last
  OBVIOUS
<1> QED
  BY <1>1, <1>2, <1>3 DEF Max

\* The frames in use are those up to max_frame.
LEMMA PackedFrames ==
  ASSUME NEW ram, Tree(ram), Packed(ram)
  PROVE  max_frame(ram) \in Frames /\ InUse(ram) = 0 .. max_frame(ram)
BY LastInUse, Sizes DEF Packed, Frames

-----------------------------------------------------------------------------
(* Giving a frame a new place in the tree. *)

\* The frame is not in the tree but for the nodes given up, and nothing is below those.
Spare(ram, given, frame) ==
  /\ frame \in Frames \ {0}
  /\ given \subseteq All(ram)
  /\ \A n \in All(ram) : n \in given <=> n.frame = frame
  /\ \A n \in given \cap Tables(ram) : \A i \in Rows : ram[n.frame][i] = 0

NewNode(p, bit, frame, k) ==
  [frame |-> frame, depth |-> k + 1, path |-> p.path * PAGE_SIZE + bit,
   parent |-> p.frame, row |-> bit]

\* The nodes given up are unlinked, and the frame is linked to row bit of p, at depth k.
Relinked(ram, ram2, given, frame, p, bit, k) ==
  /\ p \in Nodes(ram)[k] \ given /\ ram[p.frame][bit] = 0
  /\ ram2 \in [Frames -> [Rows -> Words]]
  /\ \A n \in Tables(ram) \ given : \A i \in Rows :
       ram2[n.frame][i] = IF n = p /\ i = bit THEN frame
                          ELSE IF \E m \in given : m.parent = n.frame /\ m.row = i THEN 0
                          ELSE ram[n.frame][i]
  /\ k + 1 < TABLES_DEPTH => \A i \in Rows : ram2[frame][i] = 0

\* The pointer to a node given up is in the row its record says.
LEMMA GivenLink ==
  ASSUME NEW ram, Tree(ram), NEW k \in 0 .. TABLES_DEPTH - 1, NEW n \in Nodes(ram)[k],
         NEW i \in Rows, NEW r \in All(ram), r.frame # 0, r.parent = n.frame, r.row = i
  PROVE  ram[n.frame][i] # 0 /\ r = Child(ram, n, i)
<1>1. PICK j \in 0 .. TABLES_DEPTH : r \in Nodes(ram)[j]
  BY IsNode
<1>2. j # 0
  BY <1>1, Levels DEF Root
<1>3. j - 1 \in 0 .. TABLES_DEPTH - 1 /\ (j - 1) + 1 = j /\ j - 1 \in 0 .. TABLES_DEPTH
      /\ k \in 0 .. TABLES_DEPTH
  BY <1>2, Sizes
<1>4. PICK m \in Nodes(ram)[j - 1], row \in Rows :
        ram[m.frame][row] # 0 /\ r = Child(ram, m, row)
  BY <1>1, <1>3, HasParent
<1>5. m.frame = n.frame /\ row = i
  BY <1>4 DEF Child
<1>6. m = n
  BY <1>3, <1>4, <1>5, OneLevel
<1> QED
  BY <1>4, <1>5, <1>6

\* Level by level: the nodes given up are gone, and the new one is below p.
LEMMA Relink ==
  ASSUME NEW ram, Tree(ram), NEW ram2, NEW given, NEW frame, Spare(ram, given, frame),
         NEW k \in 0 .. TABLES_DEPTH - 1, NEW p, NEW bit \in Rows,
         Relinked(ram, ram2, given, frame, p, bit, k)
  PROVE  \A j \in 0 .. TABLES_DEPTH :
           Nodes(ram2)[j] = (Nodes(ram)[j] \ given)
                            \cup (IF j = k + 1 THEN {NewNode(p, bit, frame, k)} ELSE {})
<1> DEFINE new     == NewNode(p, bit, frame, k)
           Then(j) == (Nodes(ram)[j] \ given) \cup (IF j = k + 1 THEN {new} ELSE {})
           S       == {j \in Nat : j <= TABLES_DEPTH => Nodes(ram2)[j] = Then(j)}
<1>0. k \in 0 .. TABLES_DEPTH /\ k + 1 \in 0 .. TABLES_DEPTH /\ k + 1 # 0
  BY Sizes
<1>1. 0 \in S
  <2>1. Root \notin given
    <3>1. Root \in All(ram)
      BY Levels, IsNode, Sizes
    <3> QED
      BY <3>1 DEF Root, Spare
  <2> QED
    BY <1>0, <2>1, Levels
<1>2. ASSUME NEW j \in Nat, j \in S PROVE j + 1 \in S
  <2> SUFFICES ASSUME j + 1 <= TABLES_DEPTH
               PROVE  Nodes(ram2)[j + 1] = Then(j + 1)
    OBVIOUS
  <2>1. j \in 0 .. TABLES_DEPTH - 1 /\ j \in 0 .. TABLES_DEPTH /\ j <= TABLES_DEPTH
        /\ j + 1 \in 0 .. TABLES_DEPTH
    BY Sizes
  <2>2. Nodes(ram2)[j] = Then(j)
    BY <1>2, <2>1
  <2>3. p \in Nodes(ram)[k] /\ p \notin given /\ p.depth = k
    BY <1>0, NodeTypes DEF Relinked, NodesAt
  <2>4. p \in Tables(ram) \ given
    BY <2>3, IsTable
  <2>5. ram2[p.frame][bit] = frame /\ frame # 0 /\ frame < NUM_FRAMES
    BY <2>4, Sizes DEF Relinked, Spare, Frames
  <2>6. Child(ram2, p, bit) = new
    BY <2>3, <2>5 DEF Child, NewNode
  <2>7. ASSUME NEW c \in Nodes(ram2)[j + 1] PROVE c \in Then(j + 1)
    <3>1. PICK n \in Nodes(ram2)[j], i \in Rows :
            /\ ram2[n.frame][i] # 0 /\ ram2[n.frame][i] < NUM_FRAMES
            /\ c = Child(ram2, n, i)
      BY <2>1, HasParent
    <3>2. CASE n = new /\ j = k + 1
      <4>1. k + 1 < TABLES_DEPTH /\ new.frame = frame
        BY <2>1, <3>2, Sizes DEF NewNode
      <4> QED
        BY <3>1, <3>2, <4>1 DEF Relinked
    <3>3. CASE n \in Nodes(ram)[j] /\ n \notin given
      <4>1. n \in Tables(ram) \ given
        BY <2>1, <3>3, IsTable
      <4>2. CASE n = p /\ i = bit
        <5>1. j = k
          BY <1>0, <2>1, <2>3, <3>3, <4>2, OneLevel
        <5> QED
          BY <2>6, <3>1, <4>2, <5>1
      <4>3. CASE ~(n = p /\ i = bit)
        <5>1. /\ ~\E m \in given : m.parent = n.frame /\ m.row = i
              /\ ram2[n.frame][i] = ram[n.frame][i]
          BY <3>1, <4>1, <4>3 DEF Relinked
        <5>2. c = Child(ram, n, i)
          BY <3>1, <5>1 DEF Child
        <5>3. c \in Nodes(ram)[j + 1]
          BY <2>1, <3>1, <3>3, <5>1, <5>2, HasChild
        <5>4. c \notin given
          BY <5>1, <5>2 DEF Child
        <5> QED
          BY <5>3, <5>4
      <4> QED
        BY <4>2, <4>3
    <3> QED
      BY <2>2, <3>1, <3>2, <3>3
  <2>8. ASSUME NEW c \in Nodes(ram)[j + 1], c \notin given PROVE c \in Nodes(ram2)[j + 1]
    <3>1. PICK n \in Nodes(ram)[j], i \in Rows :
            /\ ram[n.frame][i] # 0 /\ ram[n.frame][i] < NUM_FRAMES
            /\ c = Child(ram, n, i)
      BY <2>1, HasParent
    <3>2. n \in Tables(ram)
      BY <2>1, <3>1, IsTable
    <3>3. n \notin given
      BY <3>1, <3>2 DEF Spare
    <3>4. ~(n = p /\ i = bit)
      BY <3>1 DEF Relinked
    <3>5. ASSUME NEW m \in given, m.parent = n.frame, m.row = i PROVE FALSE
      <4>1. m \in All(ram) /\ m.frame # 0
        BY DEF Spare
      <4>2. m = c
        BY <2>1, <3>1, <3>5, <4>1, GivenLink
      <4> QED
        BY <2>8, <4>2
    <3>6. ram2[n.frame][i] = ram[n.frame][i]
      BY <3>2, <3>3, <3>4, <3>5 DEF Relinked
    <3>7. c = Child(ram2, n, i)
      BY <3>1, <3>6 DEF Child
    <3>8. c \in Children(ram2, n)
      BY <3>1, <3>6, <3>7, InChildren
    <3>9. n \in Nodes(ram2)[j]
      BY <2>2, <3>1, <3>3
    <3> QED
      BY <2>1, <3>8, <3>9, Levels
  <2>9. ASSUME j + 1 = k + 1 PROVE new \in Nodes(ram2)[j + 1]
    <3>1. j = k
      BY <2>9
    <3>2. p \in Nodes(ram2)[j]
      BY <2>2, <2>3, <3>1
    <3>3. new \in Children(ram2, p)
      BY <2>5, <2>6, InChildren
    <3> QED
      BY <2>1, <3>2, <3>3, Levels
  <2> HIDE DEF new
  <2> QED
    BY <2>7, <2>8, <2>9
<1>3. Nat \subseteq S
  <2> HIDE DEF S
  <2> QED
    BY <1>1, <1>2, Induction
<1>4. ASSUME NEW j \in 0 .. TABLES_DEPTH PROVE Nodes(ram2)[j] = Then(j)
  <2>1. j \in Nat /\ j <= TABLES_DEPTH
    BY Sizes
  <2>2. j \in S
    BY <1>3, <2>1
  <2> HIDE DEF Then
  <2> QED
    BY <2>1, <2>2
<1> QED
  BY <1>4

\* The nodes after the nodes given up are replaced by one at depth k + 1.
Replaced(ram, ram2, given, new, k) ==
  /\ All(ram2) = (All(ram) \ given) \cup {new}
  /\ Tables(ram2) = (Tables(ram) \ given) \cup (IF k + 1 < TABLES_DEPTH THEN {new} ELSE {})
  /\ Leaves(ram2) = (Leaves(ram) \ given) \cup (IF k + 1 < TABLES_DEPTH THEN {} ELSE {new})

\* The same for tables and pages.
LEMMA RelinkedNodes ==
  ASSUME NEW ram, Tree(ram), NEW ram2, NEW given, NEW frame, Spare(ram, given, frame),
         NEW k \in 0 .. TABLES_DEPTH - 1, NEW p, NEW bit \in Rows,
         Relinked(ram, ram2, given, frame, p, bit, k)
  PROVE  Replaced(ram, ram2, given, NewNode(p, bit, frame, k), k)
<1> DEFINE new == NewNode(p, bit, frame, k)
<1>0. k + 1 \in 0 .. TABLES_DEPTH
  BY Sizes
<1>1. \A j \in 0 .. TABLES_DEPTH :
        Nodes(ram2)[j] = (Nodes(ram)[j] \ given) \cup (IF j = k + 1 THEN {new} ELSE {})
  BY Relink
<1> HIDE DEF new
<1>2. All(ram2) = (All(ram) \ given) \cup {new}
  <2>1. ASSUME NEW n \in All(ram2) PROVE n \in (All(ram) \ given) \cup {new}
    BY <1>1, IsNode
  <2>2. ASSUME NEW n \in All(ram) \ given PROVE n \in All(ram2)
    BY <1>1, IsNode
  <2>3. new \in All(ram2)
    BY <1>0, <1>1, IsNode
  <2> QED
    BY <2>1, <2>2, <2>3
<1>3. Tables(ram2) = (Tables(ram) \ given)
                     \cup (IF k + 1 < TABLES_DEPTH THEN {new} ELSE {})
  <2>0. \A j \in 0 .. TABLES_DEPTH - 1 : j \in 0 .. TABLES_DEPTH
    BY Sizes
  <2>1. ASSUME NEW n \in Tables(ram2)
        PROVE  n \in (Tables(ram) \ given) \cup (IF k + 1 < TABLES_DEPTH THEN {new} ELSE {})
    <3>1. PICK j \in 0 .. TABLES_DEPTH - 1 : n \in Nodes(ram2)[j]
      BY IsTable
    <3>2. CASE j = k + 1
      <4>1. k + 1 < TABLES_DEPTH
        BY <3>2, Sizes
      <4> QED
        BY <1>1, <2>0, <3>1, <4>1, IsTable
    <3>3. CASE j # k + 1
      BY <1>1, <2>0, <3>1, <3>3, IsTable
    <3> QED
      BY <3>2, <3>3
  <2>2. ASSUME NEW n \in Tables(ram) \ given PROVE n \in Tables(ram2)
    BY <1>1, <2>0, IsTable
  <2>3. ASSUME k + 1 < TABLES_DEPTH PROVE new \in Tables(ram2)
    <3>1. k + 1 \in 0 .. TABLES_DEPTH - 1
      BY <2>3, Sizes
    <3> QED
      BY <1>0, <1>1, <3>1, IsTable
  <2> QED
    BY <2>1, <2>2, <2>3
<1>4. Leaves(ram2) = (Leaves(ram) \ given)
                     \cup (IF k + 1 < TABLES_DEPTH THEN {} ELSE {new})
  <2>1. TABLES_DEPTH \in 0 .. TABLES_DEPTH
    BY Sizes
  <2>2. TABLES_DEPTH = k + 1 <=> ~(k + 1 < TABLES_DEPTH)
    BY Sizes
  <2> QED
    BY <1>1, <2>1, <2>2 DEF Leaves
<1> QED
  BY <1>2, <1>3, <1>4 DEF new, Replaced

\* Relinking a frame leaves a tree.
LEMMA RelinkedTree ==
  ASSUME NEW ram, Tree(ram), NEW ram2, NEW given, NEW frame, Spare(ram, given, frame),
         NEW k \in 0 .. TABLES_DEPTH - 1, NEW p, NEW bit \in Rows,
         Relinked(ram, ram2, given, frame, p, bit, k)
  PROVE  Tree(ram2) /\ InUse(ram2) = InUse(ram) \cup {frame}
<1> DEFINE new == NewNode(p, bit, frame, k)
<1>1. /\ All(ram2) = (All(ram) \ given) \cup {new}
      /\ Tables(ram2) = (Tables(ram) \ given)
                        \cup (IF k + 1 < TABLES_DEPTH THEN {new} ELSE {})
  BY RelinkedNodes DEF Replaced
<1>2. new.frame = frame
  BY DEF NewNode
<1> HIDE DEF new
<1>3. 0 \in Frames /\ frame \in Frames
  BY Sizes DEF Frames, Spare
<1>4. ASSUME NEW n \in Tables(ram2), NEW i \in Rows PROVE ram2[n.frame][i] \in Frames
  <2>1. CASE n \in Tables(ram) \ given
    <3>1. ram[n.frame][i] \in Frames
      BY <2>1 DEF Tree
    <3> QED
      BY <1>3, <2>1, <3>1 DEF Relinked
  <2>2. CASE k + 1 < TABLES_DEPTH /\ n = new
    BY <1>2, <1>3, <2>2 DEF Relinked
  <2> QED
    BY <1>1, <2>1, <2>2
<1>5. ASSUME NEW n \in All(ram2), NEW m \in All(ram2), n.frame = m.frame PROVE n = m
  <2>1. CASE n \in All(ram) \ given /\ m \in All(ram) \ given
    BY <1>5, <2>1 DEF Tree
  <2>2. CASE n = new \/ m = new
    BY <1>1, <1>2, <1>5, <2>2 DEF Spare
  <2> QED
    BY <1>1, <2>1, <2>2
<1>6. InUse(ram2) = InUse(ram) \cup {frame}
  <2>1. \A n \in All(ram2) : n.frame \in InUse(ram) \cup {frame}
    BY <1>1, <1>2 DEF InUse
  <2>2. frame \in InUse(ram2)
    BY <1>1, <1>2 DEF InUse
  <2>3. ASSUME NEW n \in All(ram) PROVE n.frame \in InUse(ram2)
    <3>1. CASE n \in given
      BY <2>2, <3>1 DEF Spare
    <3>2. CASE n \notin given
      BY <1>1, <3>2 DEF InUse
    <3> QED
      BY <3>1, <3>2
  <2> QED
    BY <2>1, <2>2, <2>3 DEF InUse
<1> QED
  BY <1>4, <1>5, <1>6 DEF Tree, Relinked

\* A frame of the tree, or the first one that is not in it, leaves no gap.
LEMMA StaysPacked ==
  ASSUME NEW ram, Tree(ram), Packed(ram), NEW ram2,
         NEW frame \in Frames, frame \in InUse(ram) \/ frame = max_frame(ram) + 1,
         InUse(ram2) = InUse(ram) \cup {frame}
  PROVE  Packed(ram2)
<1> DEFINE last == max_frame(ram)
<1>1. last \in Frames /\ InUse(ram) = 0 .. last
  BY PackedFrames
<1> HIDE DEF last
<1>2. CASE frame \in InUse(ram)
  <2>1. InUse(ram2) = 0 .. last
    BY <1>1, <1>2
  <2> QED
    BY <1>1, <2>1 DEF Packed
<1>3. CASE frame = last + 1
  <2>1. InUse(ram2) = 0 .. frame
    BY <1>1, <1>3, Sizes DEF Frames
  <2> QED
    BY <2>1 DEF Packed
<1> QED
  BY <1>2, <1>3 DEF last

-----------------------------------------------------------------------------
(* The frames that find_frame chooses from. *)

\* The first page below a node is a number.
LEMMA FirstPageNat ==
  ASSUME NEW ram, Tree(ram), NEW n \in All(ram)
  PROVE  FirstPage(n) \in Nat
<1>1. PICK k \in 0 .. TABLES_DEPTH : n \in Nodes(ram)[k]
  BY IsNode
<1>2. n.path \in Nat /\ n.depth = k
  BY <1>1, NodeTypes DEF NodesAt
<1>3. Pow2[(TABLES_DEPTH - n.depth) * OFFSET_WIDTH] \in Nat
  BY <1>2, Depths
<1> QED
  BY <1>2, <1>3, ProductNat DEF FirstPage

\* The first of some nodes is one of them.
LEMMA FirstIsOne ==
  ASSUME NEW ram, Tree(ram), NEW nodes, nodes \subseteq All(ram), nodes # {}
  PROVE  First(nodes) \in nodes
<1> DEFINE S == {FirstPage(n) : n \in nodes}
<1>1. S \in SUBSET Nat /\ S # {}
  BY FirstPageNat
<1>2. PICK least \in S : \A x \in S : least <= x
  <2> HIDE DEF S
  <2> QED
    BY <1>1, Least
<1>3. PICK n \in nodes : least = FirstPage(n)
  OBVIOUS
<1>4. \A m \in nodes : FirstPage(n) <= FirstPage(m)
  BY <1>2, <1>3
<1> QED
  BY <1>4 DEF First

\* Different pages are apart.
LEMMA Distances ==
  ASSUME NEW p \in Pages, NEW q \in Pages
  PROVE  cyclical_distance(p, q) \in 0 .. NUM_PAGES /\ (p # q => cyclical_distance(p, q) > 0)
BY Sizes DEF Pages, cyclical_distance

\* Unless no page can be evicted, one is.
LEMMA VictimIsPage ==
  ASSUME NEW ram, Tree(ram), NEW illegal_add, NEW page \in Pages, Leaves(ram) # {},
         \A n \in Leaves(ram) : n.path \in Pages \ {page} /\ n.frame # illegal_add
  PROVE  Victim(ram, illegal_add, page) \in Leaves(ram)
<1> DEFINE dist(n)  == cyclical_distance(page, n.path)
           leaves   == {n \in Leaves(ram) : n.frame # illegal_add /\ dist(n) > 0}
           farthest == {n \in leaves : \A m \in leaves : dist(m) <= dist(n)}
           S        == {NUM_PAGES - dist(n) : n \in leaves}
<1>1. \A n \in Leaves(ram) : dist(n) \in 0 .. NUM_PAGES /\ dist(n) > 0
  BY Distances
<1> HIDE DEF dist
<1>2. leaves = Leaves(ram)
  BY <1>1
<1>3. S \in SUBSET Nat /\ S # {}
  BY <1>1, <1>2, Sizes
<1>4. PICK least \in S : \A x \in S : least <= x
  <2> HIDE DEF S
  <2> QED
    BY <1>3, Least
<1>5. PICK n \in leaves : least = NUM_PAGES - dist(n)
  OBVIOUS
<1>6. \A m \in leaves : dist(m) <= dist(n)
  <2>1. ASSUME NEW m \in leaves PROVE dist(m) <= dist(n)
    <3>1. NUM_PAGES - dist(n) <= NUM_PAGES - dist(m)
      BY <1>4, <1>5
    <3>2. dist(m) \in Int /\ dist(n) \in Int /\ NUM_PAGES \in Int
      BY <1>1, <1>2, Sizes
    <3> QED
      BY <3>1, <3>2
  <2> QED
    BY <2>1
<1>7. farthest # {} /\ farthest \subseteq All(ram)
  BY <1>2, <1>6 DEF All
<1>8. First(farthest) \in farthest
  <2> HIDE DEF farthest
  <2> QED
    BY <1>7, FirstIsOne
<1>9. Victim(ram, illegal_add, page) = IF leaves = {} THEN Root ELSE First(farthest)
  BY DEF Victim, dist
<1> QED
  BY <1>2, <1>8, <1>9

\* When every frame is in the tree, and no table but p is empty, some branch reaches
\* a page: without one the tree would be the path to p, and too short for all frames.
LEMMA SomePage ==
  ASSUME NEW ram, Tree(ram), InUse(ram) = Frames,
         NEW k \in 0 .. TABLES_DEPTH - 1, NEW p \in Nodes(ram)[k],
         EmptyTables(ram, p.frame) = {}
  PROVE  Leaves(ram) # {}
<1> SUFFICES ASSUME Leaves(ram) = {} PROVE FALSE
  OBVIOUS
<1>0. k \in Nat /\ k + 1 \in Nat /\ k \in 0 .. TABLES_DEPTH /\ k + 1 <= TABLES_DEPTH
  BY Sizes
<1>1. ASSUME NEW j \in 0 .. TABLES_DEPTH - 1, NEW n \in Nodes(ram)[j], n # p
      PROVE  \E c \in Nodes(ram)[j + 1] : c.parent = n.frame
  <2>1. n \in Tables(ram) /\ j \in 0 .. TABLES_DEPTH
    BY IsTable, Sizes
  <2>2. n.frame # p.frame
    BY <1>0, <1>1, <2>1, OneLevel
  <2>3. PICK i \in Rows : ram[n.frame][i] # 0
    BY <2>1, <2>2 DEF EmptyTables
  <2>4. Child(ram, n, i) \in Nodes(ram)[j + 1]
    BY <2>3, HasChild
  <2> QED
    BY <2>4 DEF Child
<1>2. \A j \in k + 1 .. TABLES_DEPTH : Nodes(ram)[j] = {}
  <2> DEFINE S == {i \in Nat : i <= TABLES_DEPTH - (k + 1) =>
                     Nodes(ram)[TABLES_DEPTH - i] = {}}
  <2>1. 0 \in S
    <3>1. TABLES_DEPTH - 0 = TABLES_DEPTH
      BY Sizes
    <3> QED
      BY <3>1 DEF Leaves
  <2>2. ASSUME NEW i \in Nat, i \in S PROVE i + 1 \in S
    <3> SUFFICES ASSUME i + 1 <= TABLES_DEPTH - (k + 1),
                        NEW n \in Nodes(ram)[TABLES_DEPTH - (i + 1)]
                 PROVE  FALSE
      OBVIOUS
    <3> DEFINE j == TABLES_DEPTH - (i + 1)
    <3>1. /\ j \in 0 .. TABLES_DEPTH - 1 /\ TABLES_DEPTH - i = j + 1 /\ j # k
          /\ i <= TABLES_DEPTH - (k + 1) /\ j \in 0 .. TABLES_DEPTH
      BY <1>0, Sizes
    <3> HIDE DEF j
    <3>2. n \in Nodes(ram)[j]
      BY DEF j
    <3>3. n # p
      BY <1>0, <3>1, <3>2, OneLevel
    <3>4. Nodes(ram)[j + 1] = {}
      BY <2>2, <3>1
    <3> QED
      BY <1>1, <3>1, <3>2, <3>3, <3>4
  <2>3. Nat \subseteq S
    <3> HIDE DEF S
    <3> QED
      BY <2>1, <2>2, Induction
  <2>4. ASSUME NEW j \in k + 1 .. TABLES_DEPTH PROVE Nodes(ram)[j] = {}
    <3>1. /\ TABLES_DEPTH - j \in Nat /\ TABLES_DEPTH - j <= TABLES_DEPTH - (k + 1)
          /\ TABLES_DEPTH - (TABLES_DEPTH - j) = j
      BY <1>0, Sizes
    <3>2. TABLES_DEPTH - j \in S
      BY <2>3, <3>1
    <3> QED
      BY <3>1, <3>2
  <2> QED
    BY <2>4
<1>3. \A j \in 0 .. k : \A n, m \in Nodes(ram)[j] : n = m
  <2> DEFINE S == {i \in Nat : i <= k => \A n, m \in Nodes(ram)[k - i] : n = m}
  <2>1. 0 \in S
    <3>1. k - 0 = k /\ k + 1 \in k + 1 .. TABLES_DEPTH
      BY <1>0, Sizes
    <3>2. \A n \in Nodes(ram)[k] : n = p
      BY <1>1, <1>2, <3>1
    <3> QED
      BY <3>1, <3>2
  <2>2. ASSUME NEW i \in Nat, i \in S PROVE i + 1 \in S
    <3> SUFFICES ASSUME i + 1 <= k, NEW n \in Nodes(ram)[k - (i + 1)],
                        NEW m \in Nodes(ram)[k - (i + 1)]
                 PROVE  n = m
      OBVIOUS
    <3> DEFINE j == k - (i + 1)
    <3>1. /\ j \in 0 .. TABLES_DEPTH - 1 /\ k - i = j + 1 /\ j # k /\ i <= k
          /\ j \in 0 .. TABLES_DEPTH
      BY <1>0, Sizes
    <3> HIDE DEF j
    <3>2. n \in Nodes(ram)[j] /\ m \in Nodes(ram)[j]
      BY DEF j
    <3>3. n # p /\ m # p
      BY <1>0, <3>1, <3>2, OneLevel
    <3>4. PICK c \in Nodes(ram)[j + 1] : c.parent = n.frame
      BY <1>1, <3>1, <3>2, <3>3
    <3>5. PICK d \in Nodes(ram)[j + 1] : d.parent = m.frame
      BY <1>1, <3>1, <3>2, <3>3
    <3>6. c = d
      BY <2>2, <3>1, <3>4, <3>5
    <3> QED
      BY <3>1, <3>2, <3>4, <3>5, <3>6, OneLevel
  <2>3. Nat \subseteq S
    <3> HIDE DEF S
    <3> QED
      BY <2>1, <2>2, Induction
  <2>4. ASSUME NEW j \in 0 .. k PROVE \A n, m \in Nodes(ram)[j] : n = m
    <3>1. k - j \in Nat /\ k - j <= k /\ k - (k - j) = j
      BY <1>0
    <3>2. k - j \in S
      BY <2>3, <3>1
    <3> QED
      BY <3>1, <3>2
  <2> QED
    BY <2>4
<1> DEFINE at == [j \in 0 .. k |-> CHOOSE f : \E n \in Nodes(ram)[j] : f = n.frame]
           T  == {at[j] : j \in 0 .. k}
<1>4. Frames \subseteq T
  <2>1. ASSUME NEW f \in Frames PROVE f \in T
    <3>1. PICK n \in All(ram) : n.frame = f
      BY DEF InUse
    <3>2. PICK j \in 0 .. TABLES_DEPTH : n \in Nodes(ram)[j]
      BY IsNode
    <3>3. j \in 0 .. k
      <4>1. ~(j \in k + 1 .. TABLES_DEPTH)
        BY <1>2, <3>2
      <4> QED
        BY <1>0, <4>1, Sizes
    <3>4. \A g : (\E m \in Nodes(ram)[j] : g = m.frame) <=> g = f
      BY <1>3, <3>1, <3>2, <3>3
    <3>5. at[j] = f
      BY <3>3, <3>4
    <3> QED
      BY <3>3, <3>5
  <2> QED
    BY <2>1
<1>5. IsFiniteSet(0 .. k) /\ Cardinality(0 .. k) = k + 1
  BY <1>0, FS_Interval
<1>6. IsFiniteSet(T) /\ Cardinality(T) <= k + 1
  <2>1. at \in Surjection(0 .. k, T)
    BY DEF Surjection
  <2> HIDE DEF T, at
  <2> QED
    BY <1>5, <2>1, FS_Surjection
<1>7. Cardinality(Frames) = NUM_FRAMES
  <2>1. 0 \in Int /\ NUM_FRAMES - 1 \in Int /\ ~(0 > NUM_FRAMES - 1)
        /\ NUM_FRAMES - 1 - 0 + 1 = NUM_FRAMES
    BY Sizes
  <2> QED
    BY <2>1, FS_Interval DEF Frames
<1>8. Cardinality(Frames) <= Cardinality(T) /\ Cardinality(T) \in Nat
  <2> HIDE DEF T
  <2> QED
    BY <1>4, <1>6, FS_Subset, FS_CardinalityType
<1> HIDE DEF T, at
<1> QED
  BY <1>0, <1>6, <1>7, <1>8, Sizes

\* The root is not empty while there is a node below it.
LEMMA RootLinked ==
  ASSUME NEW ram, NEW k \in 1 .. TABLES_DEPTH, NEW n \in Nodes(ram)[k]
  PROVE  \E i \in Rows : ram[0][i] # 0
<1> SUFFICES ASSUME \A i \in Rows : ram[0][i] = 0 PROVE FALSE
  OBVIOUS
<1> DEFINE S == {j \in Nat : j + 1 <= TABLES_DEPTH => Nodes(ram)[j + 1] = {}}
<1>1. 0 \in S
  <2>1. 0 \in 0 .. TABLES_DEPTH - 1
    BY Sizes
  <2>2. \A m \in Nodes(ram)[0 + 1] : FALSE
    BY <2>1, HasParent, Levels DEF Root
  <2> QED
    BY <2>2
<1>2. ASSUME NEW j \in Nat, j \in S PROVE j + 1 \in S
  <2> SUFFICES ASSUME (j + 1) + 1 <= TABLES_DEPTH, NEW m \in Nodes(ram)[(j + 1) + 1]
               PROVE  FALSE
    OBVIOUS
  <2>1. j + 1 \in 0 .. TABLES_DEPTH - 1 /\ j + 1 <= TABLES_DEPTH
    BY Sizes
  <2>2. Nodes(ram)[j + 1] = {}
    BY <1>2, <2>1
  <2> QED
    BY <2>1, <2>2, HasParent
<1>3. k - 1 \in S /\ (k - 1) + 1 = k /\ k <= TABLES_DEPTH
  <2>1. k - 1 \in Nat /\ (k - 1) + 1 = k /\ k <= TABLES_DEPTH
    BY Sizes
  <2> HIDE DEF S
  <2> QED
    BY <1>1, <1>2, <2>1, Induction
<1> QED
  BY <1>3

\* A write to a page leaves the tree as it is.
LEMMA SameTables ==
  ASSUME NEW ram, Tree(ram), NEW ram2 \in [Frames -> [Rows -> Words]],
         \A n \in Tables(ram) : \A i \in Rows : ram2[n.frame][i] = ram[n.frame][i]
  PROVE  \A k \in 0 .. TABLES_DEPTH : Nodes(ram2)[k] = Nodes(ram)[k]
<1> DEFINE S == {k \in Nat : k <= TABLES_DEPTH => Nodes(ram2)[k] = Nodes(ram)[k]}
<1>1. 0 \in S
  BY Levels
<1>2. ASSUME NEW k \in Nat, k \in S PROVE k + 1 \in S
  <2> SUFFICES ASSUME k + 1 <= TABLES_DEPTH
               PROVE  Nodes(ram2)[k + 1] = Nodes(ram)[k + 1]
    OBVIOUS
  <2>1. k \in 0 .. TABLES_DEPTH - 1 /\ k <= TABLES_DEPTH
    BY Sizes
  <2>2. Nodes(ram2)[k] = Nodes(ram)[k]
    BY <1>2, <2>1
  <2>3. ASSUME NEW n \in Nodes(ram)[k] PROVE Children(ram2, n) = Children(ram, n)
    <3>1. n \in Tables(ram)
      BY <2>1, IsTable
    <3>2. \A i \in Rows : /\ ram2[n.frame][i] = ram[n.frame][i]
                         /\ Child(ram2, n, i) = Child(ram, n, i)
      BY <3>1 DEF Child
    <3> QED
      BY <3>2 DEF Children, Child
  <2>4. UNION {Children(ram2, n) : n \in Nodes(ram2)[k]}
          = UNION {Children(ram, n) : n \in Nodes(ram)[k]}
    BY <2>2, <2>3
  <2>5. /\ Nodes(ram2)[k + 1] = UNION {Children(ram2, n) : n \in Nodes(ram2)[k]}
        /\ Nodes(ram)[k + 1] = UNION {Children(ram, n) : n \in Nodes(ram)[k]}
    BY <2>1, Levels
  <2> QED
    BY <2>4, <2>5
<1>3. Nat \subseteq S
  <2> HIDE DEF S
  <2> QED
    BY <1>1, <1>2, Induction
<1>4. ASSUME NEW k \in 0 .. TABLES_DEPTH PROVE Nodes(ram2)[k] = Nodes(ram)[k]
  <2>1. k \in Nat /\ k <= TABLES_DEPTH
    BY Sizes
  <2>2. k \in S
    BY <1>3, <2>1
  <2> QED
    BY <2>1, <2>2
<1> QED
  BY <1>4

\* Nor does it change what follows from the tree.
LEMMA SameTree ==
  ASSUME NEW ram, Tree(ram), NEW ram2 \in [Frames -> [Rows -> Words]],
         \A n \in Tables(ram) : \A i \in Rows : ram2[n.frame][i] = ram[n.frame][i]
  PROVE  /\ Tree(ram2)
         /\ All(ram2) = All(ram) /\ Tables(ram2) = Tables(ram) /\ Leaves(ram2) = Leaves(ram)
         /\ InUse(ram2) = InUse(ram)
<1>1. \A k \in 0 .. TABLES_DEPTH : Nodes(ram2)[k] = Nodes(ram)[k]
  BY SameTables
<1>2. \A k \in 0 .. TABLES_DEPTH - 1 : k \in 0 .. TABLES_DEPTH
  BY Sizes
<1>3. Tables(ram2) = Tables(ram)
  <2>1. \A n : n \in Tables(ram2) <=> n \in Tables(ram)
    BY <1>1, <1>2, IsTable
  <2> QED
    BY <2>1 DEF Tables
<1>4. Leaves(ram2) = Leaves(ram)
  BY <1>1, Sizes DEF Leaves
<1>5. All(ram2) = All(ram)
  BY <1>3, <1>4 DEF All
<1> QED
  BY <1>3, <1>4, <1>5 DEF Tree, InUse
=============================================================================
