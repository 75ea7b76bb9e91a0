------------------------- MODULE VirtualMemory_proofs -------------------------
(***************************************************************************)
(* Proofs about VirtualMemory: for any widths with more frames than table  *)
(* levels, any addresses and any words, the tables form a tree over the    *)
(* frames in use, a page is in one place, evictions happen only when they  *)
(* must, and paging is invisible.                                          *)
(*                                                                         *)
(* The three cases of find_frame are treated as one: each gives up some    *)
(* nodes of the tree, at most one, and links their frame or an unused one  *)
(* to the table the walk stands on (MakesRoom).  What this does to the     *)
(* tree is shown in PageTree_proofs.                                       *)
(***************************************************************************)
EXTENDS PageTree_proofs

-----------------------------------------------------------------------------
(***************************************************************************)
(* The inductive invariant.                                                *)
(***************************************************************************)
TreeInv == Tree(RAM) /\ Packed(RAM)

SwapInv ==
  /\ DOMAIN swapFile \subseteq Pages
  /\ \A p \in DOMAIN swapFile : swapFile[p] \in [Rows -> Words]
  /\ \A n \in Leaves(RAM) : n.path \in Pages \ DOMAIN swapFile

\* The walk stands on the table of the address at this depth.
WalkInv ==
  /\ call \in Calls \cup {NoCall}
  /\ level \in 0 .. TABLES_DEPTH
  /\ last_frame \in Frames
  /\ call # NoCall /\ call.va < VIRTUAL_MEMORY_SIZE =>
       \E n \in Nodes(RAM)[level] :
         n.frame = last_frame /\ n.path = Prefix(call.va, level)
  /\ call # NoCall /\ ~(call.va < VIRTUAL_MEMORY_SIZE) => level = 0

IInv == TreeInv /\ SwapInv /\ WalkInv /\ aborted = FALSE

-----------------------------------------------------------------------------
(* The walk. *)

\* A call in progress is a read or a write of one of the addresses.
LEMMA CallTypes ==
  ASSUME call \in Calls \cup {NoCall}, call # NoCall
  PROVE  /\ call \in Calls /\ call.va \in Nat
         /\ call.op = "read" \/ (call.op = "write" /\ call.value \in Words)
BY VirtualMemoryAssumption DEF Calls, Words

\* While it walks, translate_address stands on the table of its address at this depth.
LEMMA WalkNode ==
  ASSUME IInv, Walking
  PROVE  /\ call.va \in Nat /\ call.va < VIRTUAL_MEMORY_SIZE /\ pageIn \in Pages
         /\ level \in 0 .. TABLES_DEPTH - 1 /\ level \in 0 .. TABLES_DEPTH
         /\ curr_bit \in Rows
         /\ \E n \in Nodes(RAM)[level] :
              n.frame = last_frame /\ n.path = Prefix(call.va, level)
<1>1. call.va \in Nat
  BY CallTypes DEF IInv, WalkInv, Walking
<1>2. call.va < VIRTUAL_MEMORY_SIZE
  BY <1>1, Sizes DEF Walking
<1>3. level \in 0 .. TABLES_DEPTH /\ level \in 0 .. TABLES_DEPTH - 1
  BY Sizes DEF IInv, WalkInv, Walking
<1>4. pageIn \in Pages
  BY <1>1, <1>2, InRange DEF pageIn
<1>5. curr_bit \in Rows
  BY <1>1, <1>2, <1>3, PrefixStep DEF curr_bit
<1> QED
  BY <1>1, <1>2, <1>3, <1>4, <1>5 DEF IInv, WalkInv, Walking

\* The node that the walk goes to when the row of its table holds frame.
LEMMA WalkOn ==
  ASSUME IInv, Walking, NEW p \in Nodes(RAM)[level], p.path = Prefix(call.va, level)
  PROVE  p.path * PAGE_SIZE + curr_bit = Prefix(call.va, level + 1)
BY WalkNode, PrefixStep DEF curr_bit

\* The page the walk is for is not in the RAM when a table of its path is missing.
LEMMA PageMissing ==
  ASSUME IInv, Missing
  PROVE  \A n \in Leaves(RAM) : n.path # pageIn
<1>1. PICK p \in Nodes(RAM)[level] : p.frame = last_frame /\ p.path = Prefix(call.va, level)
  BY WalkNode DEF Missing
<1>2. /\ call.va \in Nat /\ call.va < VIRTUAL_MEMORY_SIZE
      /\ level \in 0 .. TABLES_DEPTH - 1
  BY WalkNode DEF Missing
<1>3. RAM[p.frame][calculate_bits(call.va, level)] = 0
  BY <1>1 DEF Missing, curr_bit
<1> QED
  BY <1>1, <1>2, <1>3, NotThere DEF IInv, TreeInv, pageIn

-----------------------------------------------------------------------------
(* The three cases of find_frame. *)

\* The nodes given are unlinked, a page among them is swapped out, and the frame is
\* filled and linked.
MakesRoom(given, frame, ram, swap) ==
  /\ Spare(RAM, given, frame)
  /\ frame # last_frame
  /\ frame \in InUse(RAM) \/ frame = max_frame(RAM) + 1
  /\ ram \in [Frames -> [Rows -> Words]]
  /\ \A g \in Frames : \A i \in Rows :
       ram[g][i] = IF \E n \in given : n.parent = g /\ n.row = i THEN 0 ELSE RAM[g][i]
  /\ DOMAIN swap = DOMAIN swapFile \cup {n.path : n \in given \cap Leaves(RAM)}
  /\ \A q \in DOMAIN swapFile : swap[q] = swapFile[q]
  /\ \A n \in given \cap Leaves(RAM) : swap[n.path] = RAM[n.frame]
  /\ Fill(frame, ram, swap)

\* Unlinking a node below the root.
LEMMA UnlinkOne ==
  ASSUME IInv, NEW n \in All(RAM), n.frame # 0, NEW ram, ram = Unlink(RAM, n)
  PROVE  /\ ram \in [Frames -> [Rows -> Words]]
         /\ \A g \in Frames : \A i \in Rows :
              ram[g][i] = IF \E m \in {n} : m.parent = g /\ m.row = i THEN 0 ELSE RAM[g][i]
<1>1. n.parent \in Frames /\ n.row \in Rows
  BY IsNode, NodeTypes DEF IInv, TreeInv, NodesAt
<1>2. RAM \in [Frames -> [Rows -> Words]]
  BY DEF IInv, TreeInv, Tree
<1>3. 0 \in Words
  BY Sizes DEF Words, Frames
<1> QED
  BY <1>1, <1>2, <1>3 DEF Unlink

\* A childless node of the tree, other than the root, can give up its frame.
LEMMA OneIsSpare ==
  ASSUME IInv, NEW n \in All(RAM), n.frame # 0,
         n \in Tables(RAM) => \A i \in Rows : RAM[n.frame][i] = 0
  PROVE  Spare(RAM, {n}, n.frame)
<1>1. n.frame \in Frames
  BY IsNode, NodeTypes DEF IInv, TreeInv, NodesAt
<1> QED
  BY <1>1 DEF IInv, TreeInv, Tree, Spare

\* Case 1: the root is never the table taken, as the walk stands on it or below it.
LEMMA EmptyTableMakesRoom ==
  ASSUME IInv, TakeEmptyTable
  PROVE  \E given, frame, ram, swap : MakesRoom(given, frame, ram, swap)
<1> DEFINE n == First(EmptyTables(RAM, last_frame))
<1>1. EmptyTables(RAM, last_frame) \subseteq Tables(RAM) /\ Tables(RAM) \subseteq All(RAM)
  BY DEF EmptyTables, All
<1>2. n \in EmptyTables(RAM, last_frame)
  BY <1>1, FirstIsOne DEF TakeEmptyTable, IInv, TreeInv
<1> HIDE DEF n
<1>3. /\ n \in Tables(RAM) /\ n \in All(RAM) /\ n.frame # last_frame
      /\ \A i \in Rows : RAM[n.frame][i] = 0
  BY <1>1, <1>2 DEF EmptyTables
<1>4. PICK p \in Nodes(RAM)[level] : p.frame = last_frame
  BY WalkNode DEF TakeEmptyTable, Missing
<1>5. level \in 0 .. TABLES_DEPTH
  BY WalkNode DEF TakeEmptyTable, Missing
<1>6. n.frame # 0
  <2>1. CASE level = 0
    BY <1>3, <1>4, <2>1, Levels DEF Root
  <2>2. CASE level # 0
    <3>1. level \in 1 .. TABLES_DEPTH
      BY <1>5, <2>2, Sizes
    <3> QED
      BY <1>3, <1>4, <3>1, RootLinked
  <2> QED
    BY <2>1, <2>2
<1>7. {n} \cap Leaves(RAM) = {}
  <2>1. PICK k \in 0 .. TABLES_DEPTH - 1 : n \in Nodes(RAM)[k]
    BY <1>3, IsTable
  <2>2. k \in 0 .. TABLES_DEPTH /\ TABLES_DEPTH \in 0 .. TABLES_DEPTH /\ k # TABLES_DEPTH
    BY Sizes
  <2> QED
    BY <2>1, <2>2, OneLevel DEF Leaves, IInv, TreeInv
<1>8. n.frame \in InUse(RAM)
  BY <1>3 DEF InUse
<1> DEFINE ram == Unlink(RAM, n)
<1>9. Fill(n.frame, ram, swapFile)
  BY DEF TakeEmptyTable, n
<1>10. /\ ram \in [Frames -> [Rows -> Words]]
       /\ \A g \in Frames : \A i \in Rows :
            ram[g][i] = IF \E m \in {n} : m.parent = g /\ m.row = i THEN 0 ELSE RAM[g][i]
  BY <1>3, <1>6, UnlinkOne
<1>11. Spare(RAM, {n}, n.frame)
  BY <1>3, <1>6, OneIsSpare
<1> HIDE DEF ram
<1>12. MakesRoom({n}, n.frame, ram, swapFile)
  BY <1>3, <1>7, <1>8, <1>9, <1>10, <1>11 DEF MakesRoom
<1> QED
  BY <1>12

\* Case 2: the frame after the last one in use is in no table.
LEMMA UnusedMakesRoom ==
  ASSUME IInv, TakeUnused
  PROVE  \E given, frame, ram, swap : MakesRoom(given, frame, ram, swap)
<1> DEFINE frame == max_frame(RAM) + 1
<1>1. max_frame(RAM) \in Frames /\ InUse(RAM) = 0 .. max_frame(RAM)
  BY PackedFrames DEF IInv, TreeInv
<1>2. frame \in Frames \ {0} /\ frame \notin InUse(RAM)
  BY <1>1, Sizes DEF TakeUnused, Frames
<1> HIDE DEF frame
<1>3. last_frame \in InUse(RAM)
  <2>1. PICK p \in Nodes(RAM)[level] : p.frame = last_frame
    BY WalkNode DEF TakeUnused, Missing
  <2>2. p \in All(RAM)
    BY <2>1, WalkNode, IsNode DEF TakeUnused, Missing
  <2> QED
    BY <2>1, <2>2 DEF InUse
<1>4. Spare(RAM, {}, frame)
  BY <1>2 DEF Spare, InUse
<1>5. MakesRoom({}, frame, RAM, swapFile)
  BY <1>2, <1>3, <1>4 DEF MakesRoom, TakeUnused, frame, IInv, TreeInv, Tree
<1> QED
  BY <1>5

\* In the third case all frames are in the tree, and there is a page to evict.
LEMMA PageToEvict ==
  ASSUME IInv, Missing, EmptyTables(RAM, last_frame) = {}, max_frame(RAM) + 1 >= NUM_FRAMES
  PROVE  InUse(RAM) = Frames /\ Victim(RAM, last_frame, pageIn) \in Leaves(RAM)
<1>1. InUse(RAM) = Frames
  <2>1. max_frame(RAM) \in Frames /\ InUse(RAM) = 0 .. max_frame(RAM)
    BY PackedFrames DEF IInv, TreeInv
  <2> QED
    BY <2>1, Sizes DEF Frames
<1>2. PICK p \in Nodes(RAM)[level] : p.frame = last_frame
  BY WalkNode DEF Missing
<1>3. level \in 0 .. TABLES_DEPTH - 1 /\ level \in 0 .. TABLES_DEPTH /\ pageIn \in Pages
  BY WalkNode DEF Missing
<1>4. Leaves(RAM) # {}
  BY <1>1, <1>2, <1>3, SomePage DEF IInv, TreeInv
<1>5. ASSUME NEW n \in Leaves(RAM) PROVE n.path \in Pages \ {pageIn} /\ n.frame # last_frame
  <2>1. n.path \in Pages \ {pageIn}
    BY PageMissing DEF IInv, SwapInv
  <2>2. TABLES_DEPTH \in 0 .. TABLES_DEPTH /\ level # TABLES_DEPTH
    BY <1>3, Sizes
  <2>3. n.frame # last_frame
    BY <1>2, <1>3, <2>2, OneLevel DEF Leaves, IInv, TreeInv
  <2> QED
    BY <2>1, <2>3
<1>6. Victim(RAM, last_frame, pageIn) \in Leaves(RAM)
  BY <1>3, <1>4, <1>5, VictimIsPage DEF IInv, TreeInv
<1> QED
  BY <1>1, <1>6

\* Case 3: the page evicted is not in the swap file.
LEMMA EvictMakesRoom ==
  ASSUME IInv, Evict
  PROVE  \E given, frame, ram, swap : MakesRoom(given, frame, ram, swap)
<1> DEFINE n    == Victim(RAM, last_frame, pageIn)
           ram  == Unlink(RAM, n)
           swap == [q \in DOMAIN swapFile \cup {n.path} |->
                      IF q = n.path THEN RAM[n.frame] ELSE swapFile[q]]
<1>1. n \in Leaves(RAM) /\ n.path \notin DOMAIN swapFile
  BY PageToEvict DEF Evict, IInv, SwapInv
<1>2. Fill(n.frame, ram, swap)
  BY <1>1 DEF Evict, TakeVictim
<1> HIDE DEF n
<1>3. n \in All(RAM) /\ n.frame \in InUse(RAM)
  BY <1>1 DEF All, InUse
<1>4. n \notin Tables(RAM) /\ n.frame # 0 /\ n.frame # last_frame
  <2>1. TABLES_DEPTH \in 0 .. TABLES_DEPTH /\ n \in Nodes(RAM)[TABLES_DEPTH]
        /\ TABLES_DEPTH # 0 /\ 0 \in 0 .. TABLES_DEPTH
    BY <1>1, Sizes DEF Leaves
  <2>2. ASSUME n \in Tables(RAM) PROVE FALSE
    <3>1. PICK k \in 0 .. TABLES_DEPTH - 1 : n \in Nodes(RAM)[k]
      BY <2>2, IsTable
    <3>2. k \in 0 .. TABLES_DEPTH /\ k # TABLES_DEPTH
      BY Sizes
    <3> QED
      BY <2>1, <3>1, <3>2, OneLevel DEF IInv, TreeInv
  <2>3. n.frame # 0
    <3>1. Root \in Nodes(RAM)[0] /\ Root.frame = 0
      BY Levels DEF Root
    <3> QED
      BY <2>1, <3>1, OneLevel DEF IInv, TreeInv
  <2>4. n.frame # last_frame
    <3>1. PICK p \in Nodes(RAM)[level] : p.frame = last_frame
      BY WalkNode DEF Evict, Missing
    <3>2. level \in 0 .. TABLES_DEPTH /\ level # TABLES_DEPTH
      BY WalkNode, Sizes DEF Evict, Missing
    <3> QED
      BY <2>1, <3>1, <3>2, OneLevel DEF IInv, TreeInv
  <2> QED
    BY <2>2, <2>3, <2>4
<1>5. {n} \cap Leaves(RAM) = {n}
  BY <1>1
<1>6. /\ DOMAIN swap = DOMAIN swapFile \cup {m.path : m \in {n} \cap Leaves(RAM)}
      /\ \A q \in DOMAIN swapFile : swap[q] = swapFile[q]
      /\ \A m \in {n} \cap Leaves(RAM) : swap[m.path] = RAM[m.frame]
  BY <1>1, <1>5
<1>7. /\ ram \in [Frames -> [Rows -> Words]]
      /\ \A g \in Frames : \A i \in Rows :
           ram[g][i] = IF \E m \in {n} : m.parent = g /\ m.row = i THEN 0 ELSE RAM[g][i]
  BY <1>3, <1>4, UnlinkOne
<1>8. Spare(RAM, {n}, n.frame)
  BY <1>3, <1>4, OneIsSpare
<1> HIDE DEF ram, swap
<1>9. MakesRoom({n}, n.frame, ram, swap)
  BY <1>2, <1>3, <1>4, <1>6, <1>7, <1>8 DEF MakesRoom
<1> QED
  BY <1>9

-----------------------------------------------------------------------------
(* What making room does. *)

\* The swap file still holds pages when one is swapped out.
LEMMA SwapTypes ==
  ASSUME IInv, NEW given, NEW frame, NEW ram, NEW swap, MakesRoom(given, frame, ram, swap)
  PROVE  DOMAIN swap \subseteq Pages /\ \A q \in DOMAIN swap : swap[q] \in [Rows -> Words]
<1>1. ASSUME NEW n \in given \cap Leaves(RAM)
      PROVE  n.path \in Pages /\ swap[n.path] \in [Rows -> Words]
  <2>1. n \in All(RAM) /\ n.path \in Pages
    BY DEF All, IInv, SwapInv
  <2>2. n.frame \in Frames
    BY <2>1, IsNode, NodeTypes DEF IInv, TreeInv, NodesAt
  <2>3. RAM[n.frame] \in [Rows -> Words]
    BY <2>2 DEF IInv, TreeInv, Tree
  <2> QED
    BY <2>1, <2>3 DEF MakesRoom
<1> QED
  BY <1>1 DEF MakesRoom, IInv, SwapInv

\* The memory after Fill, row by row.
Filled(frame, ram, swap) ==
  /\ RAM' \in [Frames -> [Rows -> Words]]
  /\ \A g \in Frames \ {frame} : \A i \in Rows :
       RAM'[g][i] = IF g = last_frame /\ i = curr_bit THEN frame ELSE ram[g][i]
  /\ level + 1 < TABLES_DEPTH => swapFile' = swap /\ \A i \in Rows : RAM'[frame][i] = 0
  /\ ~(level + 1 < TABLES_DEPTH) =>
       /\ swapFile' = Restrict(swap, DOMAIN swap \ {pageIn})
       /\ RAM'[frame] = IF pageIn \in DOMAIN swap THEN swap[pageIn] ELSE ram[frame]
  /\ level' = level + 1 /\ last_frame' = frame
  /\ UNCHANGED <<call, reply, aborted>>

\* Linking the frame changes one row, and filling it only the frame itself.
LEMMA FillEffect ==
  ASSUME IInv, Missing, NEW given, NEW frame, NEW ram, NEW swap,
         MakesRoom(given, frame, ram, swap)
  PROVE  Filled(frame, ram, swap)
<1> DEFINE mem == IF level + 1 < TABLES_DEPTH
                  THEN [ram |-> initialize_frame(frame, ram), swap |-> swap]
                  ELSE PMrestore(frame, pageIn, ram, swap)
<1>1. /\ RAM' = [mem.ram EXCEPT ![last_frame][curr_bit] = frame]
      /\ swapFile' = mem.swap
      /\ level' = level + 1 /\ last_frame' = frame
      /\ UNCHANGED <<call, reply, aborted>>
  BY DEF MakesRoom, Fill, Descend
<1>2. /\ frame \in Frames /\ frame \in Words /\ last_frame \in Frames /\ frame # last_frame
      /\ 0 \in Words
  BY Sizes DEF MakesRoom, Spare, Words, Frames, IInv, WalkInv
<1>3. ram \in [Frames -> [Rows -> Words]]
  BY DEF MakesRoom
<1>4. CASE level + 1 < TABLES_DEPTH
  <2>1. /\ mem.ram = [ram EXCEPT ![frame] = [r \in Rows |-> 0]]
        /\ mem.swap = swap
    BY <1>4 DEF initialize_frame
  <2> HIDE DEF mem
  <2>2. mem.ram \in [Frames -> [Rows -> Words]] /\ \A i \in Rows : mem.ram[frame][i] = 0
    BY <1>2, <1>3, <2>1
  <2>3. \A g \in Frames \ {frame} : mem.ram[g] = ram[g]
    BY <1>3, <2>1
  <2> QED
    BY <1>1, <1>2, <1>4, <2>1, <2>2, <2>3, WalkNode DEF Missing, Filled
<1>5. CASE ~(level + 1 < TABLES_DEPTH)
  <2>1. /\ mem.ram = IF pageIn \in DOMAIN swap
                     THEN [ram EXCEPT ![frame] = swap[pageIn]] ELSE ram
        /\ mem.swap = Restrict(swap, DOMAIN swap \ {pageIn})
    BY <1>5 DEF PMrestore
  <2> HIDE DEF mem
  <2>2. /\ mem.ram \in [Frames -> [Rows -> Words]]
        /\ mem.ram[frame] = IF pageIn \in DOMAIN swap THEN swap[pageIn] ELSE ram[frame]
    BY <1>2, <1>3, <2>1, SwapTypes
  <2>3. \A g \in Frames \ {frame} : mem.ram[g] = ram[g]
    BY <1>3, <2>1
  <2> QED
    BY <1>1, <1>2, <1>5, <2>1, <2>2, <2>3, WalkNode DEF Missing, Filled
<1> QED
  BY <1>4, <1>5

\* Making room is relinking a frame below the table the walk stands on.
LEMMA RoomRelinked ==
  ASSUME IInv, Missing, NEW given, NEW frame, NEW ram, NEW swap,
         MakesRoom(given, frame, ram, swap),
         NEW p \in Nodes(RAM)[level], p.frame = last_frame
  PROVE  Relinked(RAM, RAM', given, frame, p, curr_bit, level)
<1>1. level \in 0 .. TABLES_DEPTH - 1 /\ level \in 0 .. TABLES_DEPTH
  BY WalkNode DEF Missing
<1>2. p \in All(RAM) /\ p \notin given
  <2>1. p \in All(RAM)
    BY <1>1, IsNode
  <2> QED
    BY <2>1 DEF MakesRoom, Spare
<1>3. RAM[p.frame][curr_bit] = 0
  BY DEF Missing
<1>4. Filled(frame, ram, swap)
  BY FillEffect
<1>5. \A g \in Frames \ {frame} : \A i \in Rows :
        RAM'[g][i] = IF g = last_frame /\ i = curr_bit THEN frame ELSE ram[g][i]
  BY <1>4 DEF Filled
<1>6. ASSUME NEW n \in Tables(RAM) \ given, NEW i \in Rows
      PROVE  RAM'[n.frame][i] = IF n = p /\ i = curr_bit THEN frame
                                ELSE IF \E m \in given : m.parent = n.frame /\ m.row = i THEN 0
                                ELSE RAM[n.frame][i]
  <2>1. n \in All(RAM)
    BY DEF All
  <2>2. n.frame \in Frames \ {frame}
    <3>1. n.frame \in Frames
      BY <2>1, IsNode, NodeTypes DEF IInv, TreeInv, NodesAt
    <3> QED
      BY <2>1, <3>1 DEF MakesRoom, Spare
  <2>3. n = p <=> n.frame = last_frame
    BY <1>2, <2>1 DEF IInv, TreeInv, Tree
  <2>4. RAM'[n.frame][i] = IF n.frame = last_frame /\ i = curr_bit THEN frame
                           ELSE ram[n.frame][i]
    BY <1>5, <2>2
  <2>5. ram[n.frame][i] = IF \E m \in given : m.parent = n.frame /\ m.row = i THEN 0
                          ELSE RAM[n.frame][i]
    BY <2>2 DEF MakesRoom
  <2> QED
    BY <2>3, <2>4, <2>5
<1> QED
  BY <1>2, <1>3, <1>4, <1>6 DEF Relinked, Filled

\* The tree after a step that makes room.
LEMMA RoomTree ==
  ASSUME IInv, Missing, NEW given, NEW frame, NEW ram, NEW swap,
         MakesRoom(given, frame, ram, swap),
         NEW p \in Nodes(RAM)[level], p.frame = last_frame, p.path = Prefix(call.va, level)
  PROVE  /\ Tree(RAM') /\ Packed(RAM')
         /\ NewNode(p, curr_bit, frame, level) \in Nodes(RAM')[level + 1]
         /\ NewNode(p, curr_bit, frame, level).path = Prefix(call.va, level + 1)
         /\ Leaves(RAM') = (Leaves(RAM) \ given)
                           \cup (IF level + 1 < TABLES_DEPTH THEN {}
                                 ELSE {NewNode(p, curr_bit, frame, level)})
<1>0. Relinked(RAM, RAM', given, frame, p, curr_bit, level)
  BY RoomRelinked
<1>1. /\ Tree(RAM) /\ Spare(RAM, given, frame)
      /\ level \in 0 .. TABLES_DEPTH - 1 /\ curr_bit \in Rows
  BY WalkNode DEF Missing, MakesRoom, IInv, TreeInv
<1>2. Tree(RAM') /\ InUse(RAM') = InUse(RAM) \cup {frame}
  BY <1>0, <1>1, RelinkedTree
<1>3. Packed(RAM')
  <2>1. frame \in Frames /\ (frame \in InUse(RAM) \/ frame = max_frame(RAM) + 1) /\ Packed(RAM)
    BY DEF MakesRoom, Spare, IInv, TreeInv
  <2> QED
    BY <1>1, <1>2, <2>1, StaysPacked
<1>4. NewNode(p, curr_bit, frame, level) \in Nodes(RAM')[level + 1]
  <2>1. level + 1 \in 0 .. TABLES_DEPTH
    BY <1>1, Sizes
  <2> QED
    BY <1>0, <1>1, <2>1, Relink
<1>5. NewNode(p, curr_bit, frame, level).path = Prefix(call.va, level + 1)
  BY WalkOn DEF Missing, NewNode
<1>6. Leaves(RAM') = (Leaves(RAM) \ given)
                     \cup (IF level + 1 < TABLES_DEPTH THEN {}
                           ELSE {NewNode(p, curr_bit, frame, level)})
  <2>1. Replaced(RAM, RAM', given, NewNode(p, curr_bit, frame, level), level)
    BY <1>0, <1>1, RelinkedNodes
  <2> QED
    BY <2>1 DEF Replaced
<1> QED
  BY <1>2, <1>3, <1>4, <1>5, <1>6

\* Making room keeps the invariant.
LEMMA RoomInv ==
  ASSUME IInv, Missing, NEW given, NEW frame, NEW ram, NEW swap,
         MakesRoom(given, frame, ram, swap)
  PROVE  IInv'
<1>1. PICK p \in Nodes(RAM)[level] : p.frame = last_frame /\ p.path = Prefix(call.va, level)
  BY WalkNode DEF Missing
<1>2. /\ call.va \in Nat /\ call.va < VIRTUAL_MEMORY_SIZE /\ pageIn \in Pages
      /\ level \in 0 .. TABLES_DEPTH - 1 /\ call # NoCall
  BY WalkNode DEF Missing, Walking
<1> DEFINE new == NewNode(p, curr_bit, frame, level)
<1>3. /\ Tree(RAM') /\ Packed(RAM')
      /\ new \in Nodes(RAM')[level + 1] /\ new.path = Prefix(call.va, level + 1)
  BY <1>1, RoomTree
<1>4. Leaves(RAM') = (Leaves(RAM) \ given)
                     \cup (IF level + 1 < TABLES_DEPTH THEN {} ELSE {new})
  BY <1>1, RoomTree
<1>5. new.frame = frame /\ frame \in Frames
  BY DEF NewNode, MakesRoom, Spare
<1> HIDE DEF new
<1>6. Filled(frame, ram, swap)
  BY FillEffect
<1>7. TreeInv'
  BY <1>3 DEF TreeInv
<1>8. DOMAIN swap \subseteq Pages /\ \A q \in DOMAIN swap : swap[q] \in [Rows -> Words]
  BY SwapTypes
<1>9. ASSUME NEW n \in Leaves(RAM) \ given
      PROVE  n.path \in Pages /\ n.path \notin DOMAIN swap
  <2>1. n.path \in Pages /\ n.path \notin DOMAIN swapFile
    BY DEF IInv, SwapInv
  <2>2. ASSUME NEW m \in given \cap Leaves(RAM), m.path = n.path PROVE FALSE
    <3>1. TABLES_DEPTH \in 0 .. TABLES_DEPTH
      BY Sizes
    <3>2. m = n
      BY <2>2, <3>1, PathsDiffer DEF Leaves, IInv, TreeInv
    <3> QED
      BY <3>2
  <2> QED
    BY <2>1, <2>2 DEF MakesRoom
<1>10. SwapInv'
  <2>1. CASE level + 1 < TABLES_DEPTH
    <3>1. swapFile' = swap /\ Leaves(RAM') = Leaves(RAM) \ given
      BY <1>4, <1>6, <2>1 DEF Filled
    <3> QED
      BY <1>8, <1>9, <3>1 DEF SwapInv
  <2>2. CASE ~(level + 1 < TABLES_DEPTH)
    <3>1. /\ swapFile' = Restrict(swap, DOMAIN swap \ {pageIn})
          /\ Leaves(RAM') = (Leaves(RAM) \ given) \cup {new}
      BY <1>4, <1>6, <2>2 DEF Filled
    <3>2. /\ DOMAIN swapFile' = DOMAIN swap \ {pageIn}
          /\ \A q \in DOMAIN swapFile' : swapFile'[q] = swap[q]
      BY <3>1 DEF Restrict
    <3>3. level + 1 = TABLES_DEPTH
      BY <1>2, <2>2, Sizes
    <3>4. new.path = pageIn
      BY <1>2, <1>3, <3>3, PrefixEnd DEF pageIn
    <3> QED
      BY <1>2, <1>8, <1>9, <3>1, <3>2, <3>4 DEF SwapInv
  <2> QED
    BY <2>1, <2>2
<1>11. WalkInv'
  <2>1. level' = level + 1 /\ last_frame' = frame /\ call' = call
    BY <1>6 DEF Filled
  <2>2. level + 1 \in 0 .. TABLES_DEPTH
    BY <1>2, Sizes
  <2>3. call \in Calls \cup {NoCall}
    BY DEF IInv, WalkInv
  <2>4. \E n \in Nodes(RAM')[level'] :
          n.frame = last_frame' /\ n.path = Prefix(call'.va, level')
    BY <1>3, <1>5, <2>1
  <2> QED
    BY <1>2, <1>5, <2>1, <2>2, <2>3, <2>4 DEF WalkInv
<1>12. aborted' = FALSE
  BY <1>6 DEF Filled, IInv
<1> QED
  BY <1>7, <1>10, <1>11, <1>12 DEF IInv

-----------------------------------------------------------------------------
(* The invariant holds. *)

\* At the start the tree is the root.
LEMMA NothingLinked ==
  ASSUME Init
  PROVE  (\A k \in 1 .. TABLES_DEPTH : Nodes(RAM)[k] = {}) /\ Leaves(RAM) = {}
<1>1. RAM = [f \in Frames |-> [r \in Rows |-> 0]]
  BY DEF Init
<1>2. 0 \in Frames
  BY Sizes DEF Frames
<1>3. \A k \in 1 .. TABLES_DEPTH : Nodes(RAM)[k] = {}
  BY <1>1, <1>2, RootLinked
<1>4. TABLES_DEPTH \in 1 .. TABLES_DEPTH
  BY Sizes
<1> QED
  BY <1>3, <1>4 DEF Leaves

\* The invariant holds at the start.
LEMMA InitInv == Init => IInv
<1> SUFFICES ASSUME Init PROVE IInv
  OBVIOUS
<1>1. /\ RAM = [f \in Frames |-> [r \in Rows |-> 0]] /\ swapFile = << >>
      /\ call = NoCall /\ level = 0 /\ last_frame = 0 /\ aborted = FALSE
  BY DEF Init
<1>2. 0 \in Frames /\ 0 \in Words
  BY Sizes DEF Frames, Words
<1>3. (\A k \in 1 .. TABLES_DEPTH : Nodes(RAM)[k] = {}) /\ Leaves(RAM) = {}
  BY NothingLinked
<1>4. Nodes(RAM)[0] = {Root}
  BY Levels
<1>5. All(RAM) = {Root}
  <2>1. \A k \in 0 .. TABLES_DEPTH : k # 0 => k \in 1 .. TABLES_DEPTH
    BY Sizes
  <2>2. 0 \in 0 .. TABLES_DEPTH
    BY Sizes
  <2> QED
    BY <1>3, <1>4, <2>1, <2>2, IsNode
<1>6. Leaves(RAM) = {}
  BY <1>3
<1>7. Tree(RAM)
  <2>1. \A n \in Tables(RAM) : n = Root
    BY <1>5 DEF All
  <2>2. \A n \in Tables(RAM) : \A i \in Rows : RAM[n.frame][i] \in Frames
    BY <1>1, <1>2, <2>1 DEF Root
  <2>3. RAM \in [Frames -> [Rows -> Words]]
    BY <1>1, <1>2
  <2> QED
    BY <1>5, <2>2, <2>3 DEF Tree
<1>8. Packed(RAM)
  <2>1. InUse(RAM) = {0}
    BY <1>5 DEF InUse, Root
  <2>2. {0} = 0 .. 0
    OBVIOUS
  <2> QED
    BY <1>2, <2>1, <2>2 DEF Packed
<1>9. SwapInv
  BY <1>1, <1>6 DEF SwapInv
<1>10. WalkInv
  BY <1>1, <1>2, Sizes DEF WalkInv
<1> QED
  BY <1>1, <1>7, <1>8, <1>9, <1>10 DEF IInv, TreeInv

\* Following a pointer keeps the invariant.
LEMMA PresentInv ==
  ASSUME IInv, Present
  PROVE  IInv'
<1>1. PICK p \in Nodes(RAM)[level] : p.frame = last_frame /\ p.path = Prefix(call.va, level)
  BY WalkNode DEF Present
<1>2. /\ level \in 0 .. TABLES_DEPTH - 1 /\ curr_bit \in Rows /\ call # NoCall
      /\ call.va < VIRTUAL_MEMORY_SIZE /\ last_frame \in Frames
      /\ Walking /\ RAM[last_frame][curr_bit] # 0 /\ Tree(RAM)
  BY WalkNode DEF Present, Walking, IInv, WalkInv, TreeInv
<1> DEFINE new == Child(RAM, p, curr_bit)
<1>3. new \in Nodes(RAM)[level + 1]
  BY <1>1, <1>2, HasChild
<1>4. new.frame = RAM[last_frame][curr_bit] /\ new.path = Prefix(call.va, level + 1)
  BY <1>1, <1>2, WalkOn DEF Child
<1> HIDE DEF new
<1>5. level + 1 \in 0 .. TABLES_DEPTH
  BY <1>2, Sizes
<1>6. new.frame \in Frames
  BY <1>2, <1>3, <1>5, NodeTypes DEF NodesAt
<1>7. /\ level' = level + 1 /\ last_frame' = new.frame
      /\ UNCHANGED <<RAM, swapFile, call, aborted>>
  BY <1>4 DEF Present, Descend
<1>8. WalkInv'
  <2>1. \E n \in Nodes(RAM')[level'] :
          n.frame = last_frame' /\ n.path = Prefix(call'.va, level')
    BY <1>3, <1>4, <1>7
  <2>2. call \in Calls \cup {NoCall}
    BY DEF IInv, WalkInv
  <2> QED
    BY <1>2, <1>5, <1>6, <1>7, <2>1, <2>2 DEF WalkInv
<1> QED
  BY <1>7, <1>8 DEF IInv, TreeInv, SwapInv

\* The page that a call reads or writes.
LEMMA AccessedPage ==
  ASSUME IInv, Access
  PROVE  /\ call \in Calls /\ call.va \in Nat /\ call.va < VIRTUAL_MEMORY_SIZE
         /\ PageOf(call.va) \in Pages /\ find_offset(call.va) \in Rows
         /\ last_frame \in Frames
         /\ \E n \in Leaves(RAM) : n.frame = last_frame /\ n.path = PageOf(call.va)
         /\ \A n \in Tables(RAM) : n.frame # last_frame
<1>1. /\ call # NoCall /\ call \in Calls /\ call.va \in Nat /\ level = TABLES_DEPTH
      /\ last_frame \in Frames
  BY CallTypes DEF Access, IInv, WalkInv
<1>2. call.va < VIRTUAL_MEMORY_SIZE
  BY <1>1, Sizes DEF IInv, WalkInv
<1>3. PageOf(call.va) \in Pages /\ find_offset(call.va) \in Rows
  BY <1>1, <1>2, InRange
<1>4. PICK n \in Leaves(RAM) : n.frame = last_frame /\ n.path = PageOf(call.va)
  <2>1. PICK n \in Nodes(RAM)[level] : n.frame = last_frame /\ n.path = Prefix(call.va, level)
    BY <1>1, <1>2 DEF IInv, WalkInv
  <2>2. n \in Leaves(RAM)
    BY <1>1, <2>1 DEF Leaves
  <2> QED
    BY <1>1, <2>1, <2>2, PrefixEnd
<1>5. ASSUME NEW m \in Tables(RAM), m.frame = last_frame PROVE FALSE
  <2>1. PICK k \in 0 .. TABLES_DEPTH - 1 : m \in Nodes(RAM)[k]
    BY IsTable
  <2>2. k \in 0 .. TABLES_DEPTH /\ TABLES_DEPTH \in 0 .. TABLES_DEPTH /\ k # TABLES_DEPTH
    BY Sizes
  <2> QED
    BY <1>4, <1>5, <2>1, <2>2, OneLevel DEF Leaves, IInv, TreeInv
<1> QED
  BY <1>1, <1>2, <1>3, <1>4, <1>5

\* The tree after an access.
LEMMA AccessTree ==
  ASSUME IInv, Access
  PROVE  /\ TreeInv' /\ Leaves(RAM') = Leaves(RAM)
<1>1. CASE UNCHANGED RAM
  BY <1>1 DEF IInv, TreeInv
<1>2. CASE /\ call.op = "write"
           /\ RAM' = [RAM EXCEPT ![last_frame][find_offset(call.va)] = call.value]
  <2>1. call \in Calls /\ find_offset(call.va) \in Rows /\ last_frame \in Frames
        /\ \A n \in Tables(RAM) : n.frame # last_frame
    BY AccessedPage
  <2>2. call.value \in Words
    BY <1>2, CallTypes DEF Access, IInv, WalkInv
  <2>3. RAM \in [Frames -> [Rows -> Words]]
    BY DEF IInv, TreeInv, Tree
  <2>4. RAM' \in [Frames -> [Rows -> Words]]
    BY <1>2, <2>1, <2>2, <2>3
  <2>5. ASSUME NEW n \in Tables(RAM), NEW i \in Rows PROVE RAM'[n.frame][i] = RAM[n.frame][i]
    BY <1>2, <2>1, <2>3
  <2>6. /\ Tree(RAM') /\ InUse(RAM') = InUse(RAM) /\ Leaves(RAM') = Leaves(RAM)
    BY <2>4, <2>5, SameTree DEF IInv, TreeInv
  <2> QED
    BY <2>6 DEF IInv, TreeInv, Packed
<1> QED
  BY <1>1, <1>2 DEF Access

\* An access keeps the invariant.
LEMMA AccessInv ==
  ASSUME IInv, Access
  PROVE  IInv'
<1>1. TreeInv' /\ Leaves(RAM') = Leaves(RAM)
  BY AccessTree
<1>2. call' = NoCall /\ UNCHANGED <<swapFile, level, last_frame, aborted>>
  BY DEF Access
<1>3. SwapInv'
  BY <1>1, <1>2 DEF SwapInv, IInv
<1>4. WalkInv'
  BY <1>2 DEF WalkInv, IInv
<1> QED
  BY <1>1, <1>2, <1>3, <1>4 DEF IInv

\* A call begins at the root.
LEMMA CallInv ==
  ASSUME IInv, Call
  PROVE  IInv'
<1>1. /\ call' \in Calls /\ level' = 0 /\ last_frame' = 0
      /\ UNCHANGED <<RAM, swapFile, aborted>>
  BY DEF Call
<1>2. WalkInv'
  <2>1. 0 \in 0 .. TABLES_DEPTH /\ 0 \in Frames
    BY Sizes DEF Frames
  <2>2. call'.va \in Nat
    BY <1>1, VirtualMemoryAssumption DEF Calls
  <2>3. ASSUME call'.va < VIRTUAL_MEMORY_SIZE
        PROVE  \E n \in Nodes(RAM')[level'] :
                 n.frame = last_frame' /\ n.path = Prefix(call'.va, level')
    <3>1. Root \in Nodes(RAM')[level'] /\ Root.frame = 0 /\ Root.path = 0
      BY <1>1, Levels DEF Root
    <3>2. Prefix(call'.va, 0) = 0
      BY <2>2, <2>3, FirstRow
    <3> QED
      BY <1>1, <3>1, <3>2
  <2> QED
    BY <1>1, <2>1, <2>3 DEF WalkInv
<1> QED
  BY <1>1, <1>2 DEF IInv, TreeInv, SwapInv

\* A call out of range ends where it began.
LEMMA OutOfRangeInv ==
  ASSUME IInv, OutOfRange
  PROVE  IInv'
BY DEF OutOfRange, IInv, TreeInv, SwapInv, WalkInv

\* Every step keeps the invariant.
LEMMA NextInv == IInv /\ [Next]_vars => IInv'
<1> SUFFICES ASSUME IInv, [Next]_vars PROVE IInv'
  OBVIOUS
<1>1. CASE TakeEmptyTable
  BY <1>1, EmptyTableMakesRoom, RoomInv DEF TakeEmptyTable
<1>2. CASE TakeUnused
  BY <1>2, UnusedMakesRoom, RoomInv DEF TakeUnused
<1>3. CASE Evict
  BY <1>3, EvictMakesRoom, RoomInv DEF Evict
<1>4. CASE UNCHANGED vars
  BY <1>4 DEF vars, IInv, TreeInv, SwapInv, WalkInv
<1> QED
  BY <1>1, <1>2, <1>3, <1>4, CallInv, OutOfRangeInv, PresentInv, AccessInv DEF Next

\* The invariant holds always.
LEMMA Invariance == Spec => []IInv
BY InitInv, NextInv, PTL DEF Spec

-----------------------------------------------------------------------------
(* The theorems. *)

\* The RAM, the swap file and the locals of translate_address keep their types.
THEOREM TypeCorrect == Spec => []MemoryTypeOK
<1>1. IInv => MemoryTypeOK
  BY DEF IInv, TreeInv, Tree, SwapInv, WalkInv, MemoryTypeOK
<1> QED
  BY <1>1, Invariance, PTL

\* The tables form a tree on the first frames: max_frame + 1 is never in use.
THEOREM TreeFormed == Spec => []FramesFormTree
<1>1. ASSUME IInv PROVE FramesFormTree
  <2>1. AllNodes = All(RAM) /\ {n.frame : n \in AllNodes} = InUse(RAM)
    BY DEF AllNodes, All, InUse
  <2>2. InUse(RAM) = 0 .. max_frame(RAM)
    BY <1>1, PackedFrames DEF IInv, TreeInv
  <2>3. \A n, m \in All(RAM) : n.frame = m.frame => n = m
    BY <1>1 DEF IInv, TreeInv, Tree
  <2> QED
    BY <2>1, <2>2, <2>3 DEF FramesFormTree
<1> QED
  BY <1>1, Invariance, PTL

\* Making room never takes away what the walk has linked.
THEOREM WalkKeepsPath == Spec => []WalkStandsOnItsPath
<1>1. IInv => WalkStandsOnItsPath
  BY DEF IInv, WalkInv, WalkStandsOnItsPath, Prefix
<1> QED
  BY <1>1, Invariance, PTL

\* A page is in one place, and the assertion of PMevict never fails.
THEOREM NoPageTwice == Spec => []OnePlacePerPage
<1>1. IInv => OnePlacePerPage
  BY DEF IInv, SwapInv, OnePlacePerPage
<1> QED
  BY <1>1, Invariance, PTL

\* A page is swapped out only when all frames are in the tree, and no table is empty
\* but the one the walk stands on.
THEOREM EvictsLast == Spec => EvictsOnlyWhenFull
<1>1. ASSUME IInv, [Next]_vars
      PROVE  [DOMAIN swapFile' \ DOMAIN swapFile # {} =>
                /\ {n.frame : n \in AllNodes} = Frames
                /\ \A n \in Tables(RAM) :
                     n.frame = last_frame \/ \E i \in Rows : RAM[n.frame][i] # 0]_vars
  <2>1. CASE Evict
    <3>1. {n.frame : n \in AllNodes} = InUse(RAM)
      BY DEF AllNodes, All, InUse
    <3>2. InUse(RAM) = Frames
      BY <1>1, <2>1, PageToEvict DEF Evict
    <3>3. \A n \in Tables(RAM) : n.frame = last_frame \/ \E i \in Rows : RAM[n.frame][i] # 0
      BY <2>1 DEF Evict, EmptyTables
    <3> QED
      BY <3>1, <3>2, <3>3
  <2>2. CASE TakeEmptyTable \/ TakeUnused
    <3>1. PICK frame, ram : Fill(frame, ram, swapFile)
      BY <2>2 DEF TakeEmptyTable, TakeUnused
    <3>2. swapFile' = swapFile \/ swapFile' = Restrict(swapFile, DOMAIN swapFile \ {pageIn})
      BY <3>1 DEF Fill, PMrestore
    <3>3. DOMAIN swapFile' \ DOMAIN swapFile = {}
      BY <3>2 DEF Restrict
    <3> QED
      BY <3>3
  <2>3. CASE Call \/ OutOfRange \/ Present \/ Access
    <3>1. swapFile' = swapFile
      BY <2>3 DEF Call, OutOfRange, Present, Access
    <3> QED
      BY <3>1
  <2> QED
    BY <1>1, <2>1, <2>2, <2>3 DEF Next
<1> QED
  BY <1>1, Invariance, PTL DEF Spec, EvictsOnlyWhenFull

-----------------------------------------------------------------------------
(* Paging is invisible. *)

\* What memory is, for any RAM and swap file.
MemoryOf(ram, swap) ==
  LET leaves == Leaves(ram)
  IN  [p \in Pages |->
         IF \E n \in leaves : n.path = p
           THEN ram[(CHOOSE n \in leaves : n.path = p).frame]
         ELSE IF p \in DOMAIN swap THEN swap[p]
         ELSE Untouched]

\* The contents of a page in the RAM, of one in the swap file, and of one in neither.
LEMMA MemoryPages ==
  ASSUME NEW ram, Tree(ram), NEW swap, DOMAIN swap \subseteq Pages,
         \A n \in Leaves(ram) : n.path \in Pages \ DOMAIN swap
  PROVE  /\ \A n \in Leaves(ram) : MemoryOf(ram, swap)[n.path] = ram[n.frame]
         /\ \A p \in DOMAIN swap : MemoryOf(ram, swap)[p] = swap[p]
         /\ \A p \in Pages : p \notin DOMAIN swap /\ (\A n \in Leaves(ram) : n.path # p)
                             => MemoryOf(ram, swap)[p] = Untouched
         /\ MemoryOf(ram, swap) = [p \in Pages |-> MemoryOf(ram, swap)[p]]
<1>1. ASSUME NEW n \in Leaves(ram) PROVE MemoryOf(ram, swap)[n.path] = ram[n.frame]
  <2>1. \A m \in Leaves(ram) : m.path = n.path => m = n
    <3>1. TABLES_DEPTH \in 0 .. TABLES_DEPTH
      BY Sizes
    <3> QED
      BY <3>1, PathsDiffer DEF Leaves
  <2>2. (CHOOSE m \in Leaves(ram) : m.path = n.path) = n
    BY <2>1
  <2> QED
    BY <2>2 DEF MemoryOf
<1>2. ASSUME NEW p \in DOMAIN swap PROVE MemoryOf(ram, swap)[p] = swap[p]
  BY DEF MemoryOf
<1>3. ASSUME NEW p \in Pages, p \notin DOMAIN swap, \A n \in Leaves(ram) : n.path # p
      PROVE  MemoryOf(ram, swap)[p] = Untouched
  BY <1>3 DEF MemoryOf
<1>4. MemoryOf(ram, swap) = [p \in Pages |-> MemoryOf(ram, swap)[p]]
  BY DEF MemoryOf
<1> QED
  BY <1>1, <1>2, <1>3, <1>4

\* A page's contents are not the mark of a page nobody has used.
LEMMA NotUntouched == Untouched \notin [Rows -> Words]
<1>1. DOMAIN Untouched = {"page"}
  BY DEF Untouched
<1>2. 0 \in Rows /\ 1 \in Rows
  BY Sizes DEF Rows
<1> QED
  BY <1>1, <1>2

\* The pages that stay in the RAM keep their contents.
LEMMA PagesStay ==
  ASSUME IInv, Missing, NEW given, NEW frame, NEW ram, NEW swap,
         MakesRoom(given, frame, ram, swap), NEW n \in Leaves(RAM) \ given
  PROVE  RAM'[n.frame] = RAM[n.frame]
<1>1. TABLES_DEPTH \in 0 .. TABLES_DEPTH /\ n \in Nodes(RAM)[TABLES_DEPTH] /\ Tree(RAM)
  BY Sizes DEF Leaves, IInv, TreeInv
<1>2. n.frame \in Frames \ {frame}
  <2>1. n.frame \in Frames /\ n \in All(RAM)
    BY <1>1, NodeTypes DEF NodesAt, All
  <2> QED
    BY <2>1 DEF MakesRoom, Spare
<1>3. ASSUME NEW k \in 0 .. TABLES_DEPTH - 1, NEW m \in Nodes(RAM)[k], m.frame = n.frame
      PROVE  FALSE
  <2>1. k \in 0 .. TABLES_DEPTH /\ k # TABLES_DEPTH
    BY Sizes
  <2> QED
    BY <1>1, <1>3, <2>1, OneLevel
<1>4. n.frame # last_frame
  BY <1>3, WalkNode DEF Missing
<1>5. ASSUME NEW m \in given, m.parent = n.frame PROVE FALSE
  <2>1. m \in All(RAM) /\ m.frame # 0
    BY DEF MakesRoom, Spare
  <2>2. PICK k \in 0 .. TABLES_DEPTH : m \in Nodes(RAM)[k]
    BY <2>1, IsNode
  <2>3. k # 0
    BY <2>1, <2>2, Levels DEF Root
  <2>4. k - 1 \in 0 .. TABLES_DEPTH - 1 /\ (k - 1) + 1 = k
    BY <2>3, Sizes
  <2>5. PICK p \in Nodes(RAM)[k - 1], i \in Rows : m = Child(RAM, p, i)
    BY <2>2, <2>4, HasParent
  <2>6. p.frame = n.frame
    BY <1>5, <2>5 DEF Child
  <2> QED
    BY <1>3, <2>4, <2>6
<1>6. Filled(frame, ram, swap)
  BY FillEffect
<1>7. \A i \in Rows : RAM'[n.frame][i] = ram[n.frame][i]
  BY <1>2, <1>4, <1>6 DEF Filled
<1>8. \A i \in Rows : ram[n.frame][i] = RAM[n.frame][i]
  BY <1>2, <1>5 DEF MakesRoom
<1>9. RAM'[n.frame] \in [Rows -> Words] /\ RAM[n.frame] \in [Rows -> Words]
  BY <1>1, <1>2, <1>6 DEF Filled, Tree
<1> QED
  BY <1>7, <1>8, <1>9

\* Making room changes no page that has contents; a page may get its first ones.
LEMMA RoomMemory ==
  ASSUME IInv, Missing, NEW given, NEW frame, NEW ram, NEW swap,
         MakesRoom(given, frame, ram, swap)
  PROVE  memory' = memory \/ \E p \in Pages : Abstract!Settle(p)
<1> DEFINE M  == MemoryOf(RAM, swapFile)
           M2 == MemoryOf(RAM', swapFile')
<1>0. memory = M /\ memory' = M2
  BY DEF memory, MemoryOf
<1>1. PICK p \in Nodes(RAM)[level] : p.frame = last_frame /\ p.path = Prefix(call.va, level)
  BY WalkNode DEF Missing
<1>2. /\ call.va \in Nat /\ call.va < VIRTUAL_MEMORY_SIZE /\ pageIn \in Pages
      /\ level \in 0 .. TABLES_DEPTH - 1
  BY WalkNode DEF Missing
<1> DEFINE new == NewNode(p, curr_bit, frame, level)
<1>3. new.path = Prefix(call.va, level + 1) /\ new.frame = frame
  BY <1>1, RoomTree DEF NewNode
<1>4. Leaves(RAM') = (Leaves(RAM) \ given)
                     \cup (IF level + 1 < TABLES_DEPTH THEN {} ELSE {new})
  BY <1>1, RoomTree
<1> HIDE DEF new
<1>5. Filled(frame, ram, swap)
  BY FillEffect
<1>6. IInv'
  BY RoomInv
<1>7. /\ \A n \in Leaves(RAM) : M[n.path] = RAM[n.frame]
      /\ \A q \in DOMAIN swapFile : M[q] = swapFile[q]
      /\ \A q \in Pages : q \notin DOMAIN swapFile /\ (\A n \in Leaves(RAM) : n.path # q)
                          => M[q] = Untouched
      /\ M = [q \in Pages |-> M[q]]
  BY MemoryPages DEF IInv, TreeInv, SwapInv
<1>8. /\ \A n \in Leaves(RAM') : M2[n.path] = RAM'[n.frame]
      /\ \A q \in DOMAIN swapFile' : M2[q] = swapFile'[q]
      /\ \A q \in Pages : q \notin DOMAIN swapFile' /\ (\A n \in Leaves(RAM') : n.path # q)
                          => M2[q] = Untouched
      /\ M2 = [q \in Pages |-> M2[q]]
  BY <1>6, MemoryPages DEF IInv, TreeInv, SwapInv
<1> HIDE DEF M, M2
<1>9. /\ DOMAIN swap = DOMAIN swapFile \cup {n.path : n \in given \cap Leaves(RAM)}
      /\ \A q \in DOMAIN swapFile : swap[q] = swapFile[q]
      /\ \A n \in given \cap Leaves(RAM) : swap[n.path] = RAM[n.frame]
  BY DEF MakesRoom
\* A page other than the one the walk is for.
<1>10. ASSUME NEW q \in Pages, q # pageIn \/ level + 1 < TABLES_DEPTH
       PROVE  M2[q] = M[q]
  <2>1. /\ q \in DOMAIN swapFile' <=> q \in DOMAIN swap
        /\ q \in DOMAIN swap => swapFile'[q] = swap[q]
    <3>1. CASE level + 1 < TABLES_DEPTH
      BY <1>5, <3>1 DEF Filled
    <3>2. CASE ~(level + 1 < TABLES_DEPTH)
      <4>1. swapFile' = Restrict(swap, DOMAIN swap \ {pageIn})
        BY <1>5, <3>2 DEF Filled
      <4> QED
        BY <1>10, <3>2, <4>1 DEF Restrict
    <3> QED
      BY <3>1, <3>2
  <2>2. CASE \E n \in Leaves(RAM) \ given : n.path = q
    <3>1. PICK n \in Leaves(RAM) \ given : n.path = q
      BY <2>2
    <3>2. n \in Leaves(RAM')
      BY <1>4
    <3> QED
      BY <1>7, <1>8, <3>1, <3>2, PagesStay
  <2>3. CASE \E n \in given \cap Leaves(RAM) : n.path = q
    <3>1. PICK n \in given \cap Leaves(RAM) : n.path = q
      BY <2>3
    <3>2. q \in DOMAIN swap /\ swap[q] = RAM[n.frame]
      BY <1>9, <3>1
    <3>3. q \in DOMAIN swapFile' /\ M2[q] = RAM[n.frame]
      BY <1>8, <2>1, <3>2
    <3> QED
      BY <1>7, <3>1, <3>3
  <2>4. CASE q \in DOMAIN swapFile
    BY <1>7, <1>8, <1>9, <2>1, <2>4
  <2>5. CASE q \notin DOMAIN swapFile /\ \A n \in Leaves(RAM) : n.path # q
    <3>1. q \notin DOMAIN swapFile'
      BY <1>9, <2>1, <2>5
    <3>2. ASSUME NEW n \in Leaves(RAM'), n.path = q PROVE FALSE
      <4>1. n = new /\ ~(level + 1 < TABLES_DEPTH)
        BY <1>4, <2>5, <3>2
      <4>2. level + 1 = TABLES_DEPTH
        BY <1>2, <4>1, Sizes
      <4>3. new.path = pageIn
        BY <1>2, <1>3, <4>2, PrefixEnd DEF pageIn
      <4> QED
        BY <1>10, <3>2, <4>1, <4>3
    <3> QED
      BY <1>7, <1>8, <2>5, <3>1, <3>2
  <2> QED
    BY <2>2, <2>3, <2>4, <2>5
<1>11. CASE level + 1 < TABLES_DEPTH
  <2>1. M2 = M
    BY <1>7, <1>8, <1>10, <1>11
  <2> QED
    BY <1>0, <2>1
<1>12. CASE ~(level + 1 < TABLES_DEPTH)
  <2>1. level + 1 = TABLES_DEPTH
    BY <1>2, <1>12, Sizes
  <2>2. new.path = pageIn
    BY <1>2, <1>3, <2>1, PrefixEnd DEF pageIn
  <2>3. new \in Leaves(RAM')
    BY <1>4, <1>12
  <2>4. M2[pageIn] = RAM'[frame]
    BY <1>3, <1>8, <2>2, <2>3
  <2>5. pageIn \in DOMAIN swap <=> pageIn \in DOMAIN swapFile
    BY <1>9, PageMissing
  <2>6. CASE pageIn \in DOMAIN swapFile
    <3>1. RAM'[frame] = swapFile[pageIn]
      BY <1>5, <1>9, <1>12, <2>5, <2>6 DEF Filled
    <3>2. M2[pageIn] = M[pageIn]
      BY <1>7, <2>4, <2>6, <3>1
    <3>3. \A q \in Pages : M2[q] = M[q]
      BY <1>10, <3>2
    <3>4. M2 = M
      BY <1>7, <1>8, <3>3
    <3> QED
      BY <1>0, <3>4
  <2>7. CASE pageIn \notin DOMAIN swapFile
    <3>1. M[pageIn] = Untouched
      BY <1>2, <1>7, <2>7, PageMissing
    <3>2. M2[pageIn] \in [Rows -> Words]
      BY <1>5, <2>4 DEF Filled, MakesRoom, Spare
    <3>3. M2 = [M EXCEPT ![pageIn] = M2[pageIn]]
      <4> DEFINE W == [M EXCEPT ![pageIn] = M2[pageIn]]
      <4>1. \A q \in Pages : M2[q] = W[q]
        BY <1>2, <1>7, <1>10
      <4>2. W = [q \in Pages |-> W[q]]
        BY <1>7
      <4> QED
        BY <1>8, <4>1, <4>2
    <3>4. UNCHANGED <<call, reply>>
      BY <1>5 DEF Filled
    <3>5. Abstract!Settle(pageIn)
      BY <1>0, <3>1, <3>2, <3>3, <3>4 DEF Abstract!Settle
    <3> QED
      BY <1>2, <3>5
  <2> QED
    BY <2>6, <2>7
<1> QED
  BY <1>11, <1>12

\* VMread and VMwrite, when they reach the page, do to its contents what they do to
\* memory.
LEMMA AccessMemory ==
  ASSUME IInv, Access
  PROVE  Abstract!Return
<1> DEFINE M   == MemoryOf(RAM, swapFile)
           M2  == MemoryOf(RAM', swapFile')
           pg  == PageOf(call.va)
           off == find_offset(call.va)
<1>0. memory = M /\ memory' = M2
  BY DEF memory, MemoryOf
<1>1. /\ call \in Calls /\ call.va \in Nat /\ call.va < VIRTUAL_MEMORY_SIZE
      /\ pg \in Pages /\ off \in Rows /\ last_frame \in Frames
  BY AccessedPage
<1>2. PICK n \in Leaves(RAM) : n.frame = last_frame /\ n.path = pg
  BY AccessedPage
<1>3. /\ call' = NoCall /\ call # NoCall /\ swapFile' = swapFile
      /\ RAM \in [Frames -> [Rows -> Words]]
  BY DEF Access, IInv, TreeInv, Tree
<1>4. IInv' /\ Leaves(RAM') = Leaves(RAM)
  BY AccessInv, AccessTree
<1>5. /\ \A m \in Leaves(RAM) : M[m.path] = RAM[m.frame]
      /\ \A q \in DOMAIN swapFile : M[q] = swapFile[q]
      /\ \A q \in Pages : q \notin DOMAIN swapFile /\ (\A m \in Leaves(RAM) : m.path # q)
                          => M[q] = Untouched
      /\ M = [q \in Pages |-> M[q]]
  BY MemoryPages DEF IInv, TreeInv, SwapInv
<1>6. /\ \A m \in Leaves(RAM) : M2[m.path] = RAM'[m.frame]
      /\ \A q \in DOMAIN swapFile : M2[q] = swapFile[q]
      /\ \A q \in Pages : q \notin DOMAIN swapFile /\ (\A m \in Leaves(RAM) : m.path # q)
                          => M2[q] = Untouched
      /\ M2 = [q \in Pages |-> M2[q]]
  BY <1>3, <1>4, MemoryPages DEF IInv, TreeInv, SwapInv
<1>7. call.va \div PAGE_SIZE = pg /\ call.va % PAGE_SIZE = off
  BY DEF PageOf, find_offset
<1>8. \/ /\ call.op = "read"
         /\ reply' = [ret |-> 1, value |-> RAM[last_frame][off]]
         /\ RAM' = RAM
      \/ /\ call.op = "write"
         /\ reply' = [ret |-> 1]
         /\ RAM' = [RAM EXCEPT ![last_frame][off] = call.value]
  BY DEF Access
<1> HIDE DEF M, M2, pg, off
<1>9. M[pg] = RAM[last_frame] /\ M2[pg] = RAM'[last_frame]
  BY <1>2, <1>5, <1>6
<1>10. M[pg] # Untouched
  BY <1>1, <1>3, <1>9, NotUntouched
\* The other pages are in other frames.
<1>11. ASSUME NEW m \in Leaves(RAM), m.path # pg PROVE m.frame # last_frame
  <2>1. TABLES_DEPTH \in 0 .. TABLES_DEPTH
    BY Sizes
  <2> QED
    BY <1>2, <1>11, <2>1, OneLevel DEF Leaves, IInv, TreeInv
<1>12. CASE /\ call.op = "read"
            /\ reply' = [ret |-> 1, value |-> RAM[last_frame][off]]
            /\ RAM' = RAM
  <2>1. M2 = M
    BY <1>3, <1>12 DEF M, M2
  <2> QED
    BY <1>0, <1>1, <1>3, <1>7, <1>9, <1>10, <1>12, <2>1 DEF Abstract!Return
<1>13. CASE /\ call.op = "write"
            /\ reply' = [ret |-> 1]
            /\ RAM' = [RAM EXCEPT ![last_frame][off] = call.value]
  <2>1. M2[pg] = [M[pg] EXCEPT ![off] = call.value]
    BY <1>1, <1>3, <1>9, <1>13
  <2>2. ASSUME NEW q \in Pages, q # pg PROVE M2[q] = M[q]
    <3>1. CASE \E m \in Leaves(RAM) : m.path = q
      <4>1. PICK m \in Leaves(RAM) : m.path = q
        BY <3>1
      <4>2. m.frame # last_frame
        BY <1>11, <2>2, <4>1
      <4>3. RAM'[m.frame] = RAM[m.frame]
        BY <1>3, <1>13, <4>2
      <4> QED
        BY <1>5, <1>6, <4>1, <4>3
    <3>2. CASE q \in DOMAIN swapFile
      BY <1>5, <1>6, <3>2
    <3>3. CASE q \notin DOMAIN swapFile /\ \A m \in Leaves(RAM) : m.path # q
      BY <1>5, <1>6, <3>3
    <3> QED
      BY <3>1, <3>2, <3>3
  <2> DEFINE W == [M EXCEPT ![pg] = [M[pg] EXCEPT ![off] = call.value]]
  <2>3. \A q \in Pages : M2[q] = W[q]
    BY <1>1, <1>5, <2>1, <2>2
  <2>4. W = [q \in Pages |-> W[q]]
    BY <1>5
  <2>5. M2 = W
    BY <1>6, <2>3, <2>4
  <2> QED
    BY <1>0, <1>1, <1>3, <1>7, <1>10, <1>13, <2>5 DEF Abstract!Return
<1> QED
  BY <1>8, <1>12, <1>13

\* Every step of the paging is a step of the flat memory, or none.
LEMMA StepRefines ==
  ASSUME IInv, [Next]_vars
  PROVE  [Abstract!Next]_(Abstract!vars)
<1> USE DEF Abstract!vars, Abstract!Next
<1>1. CASE Call
  <2>1. memory' = memory
    BY <1>1 DEF Call, memory
  <2> QED
    BY <1>1, <2>1 DEF Call, Abstract!Begin
<1>2. CASE OutOfRange
  <2>1. memory' = memory
    BY <1>2 DEF OutOfRange, memory
  <2>2. call # NoCall /\ call.va \in Nat
    BY <1>2, CallTypes DEF OutOfRange, IInv, WalkInv
  <2>3. ~(call.va < VIRTUAL_MEMORY_SIZE)
    BY <1>2, <2>2, Sizes DEF OutOfRange
  <2>4. call.va \div PAGE_SIZE \notin Pages
    BY <2>2, <2>3, InRange DEF PageOf
  <2> QED
    BY <1>2, <2>1, <2>2, <2>4 DEF OutOfRange, Abstract!Reject
<1>3. CASE Present
  <2>1. memory' = memory /\ UNCHANGED <<call, reply>>
    BY <1>3 DEF Present, Descend, memory
  <2> QED
    BY <2>1
<1>4. CASE TakeEmptyTable \/ TakeUnused \/ Evict
  <2>1. Missing
    BY <1>4 DEF TakeEmptyTable, TakeUnused, Evict
  <2>2. PICK given, frame, ram, swap : MakesRoom(given, frame, ram, swap)
    BY <1>4, EmptyTableMakesRoom, UnusedMakesRoom, EvictMakesRoom
  <2>3. Filled(frame, ram, swap)
    BY <2>1, <2>2, FillEffect
  <2>4. UNCHANGED <<call, reply>>
    BY <2>3 DEF Filled
  <2>5. memory' = memory \/ \E p \in Pages : Abstract!Settle(p)
    BY <2>1, <2>2, RoomMemory
  <2> QED
    BY <2>4, <2>5
<1>5. CASE Access
  BY <1>5, AccessMemory
<1>6. CASE UNCHANGED vars
  <2>1. memory' = memory
    BY <1>6 DEF vars, memory
  <2> QED
    BY <1>6, <2>1 DEF vars
<1> QED
  BY <1>1, <1>2, <1>3, <1>4, <1>5, <1>6 DEF Next

\* Nobody has used a page at the start.
LEMMA InitRefines == Init => Abstract!Init
<1> SUFFICES ASSUME Init PROVE Abstract!Init
  OBVIOUS
<1>1. call = NoCall /\ reply = NoReply /\ swapFile = << >>
  BY DEF Init
<1>2. Leaves(RAM) = {}
  BY NothingLinked
<1>3. memory = [p \in Pages |-> Untouched]
  BY <1>1, <1>2 DEF memory
<1> QED
  BY <1>1, <1>3 DEF Abstract!Init

\* Paging is invisible: VMread returns the word last written at its address, whatever
\* translate_address evicted, restored or reclaimed in between.
THEOREM Refinement == Spec => ImplementsMemory
BY InitRefines, StepRefines, Invariance, PTL DEF Spec, ImplementsMemory, Abstract!Spec
===============================================================================
