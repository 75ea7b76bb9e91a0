----------------------------- MODULE VirtualMemory -----------------------------
(***************************************************************************)
(* The virtual memory of Ex04 (VirtualMemory.cpp) on its simulated RAM and *)
(* swap file (PhysicalMemory.cpp).                                         *)
(*                                                                         *)
(* A frame holds a table or a page, and nothing marks which: a table is a  *)
(* frame that is reached from frame 0 in fewer than TABLES_DEPTH steps.    *)
(* One step of the model is one turn of the loop of translate_address, so  *)
(* that the memory is also looked at between two levels of a walk.         *)
(***************************************************************************)
EXTENDS Integers, FiniteSets, FiniteSetsExt, Functions

CONSTANTS
  OFFSET_WIDTH, PHYSICAL_ADDRESS_WIDTH, VIRTUAL_ADDRESS_WIDTH,
  Addresses,   \* the virtual addresses the client uses, possibly out of range
  Values       \* the words it writes

ASSUME VirtualMemoryAssumption ==
  /\ OFFSET_WIDTH \in Nat \ {0}
  /\ PHYSICAL_ADDRESS_WIDTH \in Nat /\ PHYSICAL_ADDRESS_WIDTH >= OFFSET_WIDTH
  /\ VIRTUAL_ADDRESS_WIDTH \in Nat /\ VIRTUAL_ADDRESS_WIDTH > OFFSET_WIDTH
  /\ Addresses \subseteq Nat
  /\ Values \subseteq Int

\* 1LL << n
Pow2[n \in Nat] == IF n = 0 THEN 1 ELSE 2 * Pow2[n - 1]

PAGE_SIZE           == Pow2[OFFSET_WIDTH]
NUM_FRAMES          == Pow2[PHYSICAL_ADDRESS_WIDTH] \div PAGE_SIZE
VIRTUAL_MEMORY_SIZE == Pow2[VIRTUAL_ADDRESS_WIDTH]
NUM_PAGES           == VIRTUAL_MEMORY_SIZE \div PAGE_SIZE
\* The number of times OFFSET_WIDTH goes into the width of a page number, rounded up.
TABLES_DEPTH        == (VIRTUAL_ADDRESS_WIDTH - 1) \div OFFSET_WIDTH

\* A walk needs a frame for each table and one for the page.  With fewer, find_frame
\* finds nothing to evict, and returns frame 0, the root, as if it were free.
ASSUME EnoughFrames == NUM_FRAMES > TABLES_DEPTH

Frames == 0 .. NUM_FRAMES - 1
Rows   == 0 .. PAGE_SIZE - 1
Pages  == 0 .. NUM_PAGES - 1
Words  == Values \cup Frames

VARIABLES
  RAM,          \* RAM[frame][row]
  swapFile,     \* the pages swapped out, and their contents
  call,         \* the VMread or VMwrite in progress, or NoCall
  level, last_frame,   \* the loop of translate_address
  reply,        \* what the last call returned
  aborted       \* an assertion of PhysicalMemory.cpp failed

vars == <<RAM, swapFile, call, level, last_frame, reply, aborted>>

NoCall  == [op |-> "none"]
NoReply == [ret |-> -1]
Calls   == [op : {"read"}, va : Addresses]
           \cup [op : {"write"}, va : Addresses, value : Values]

\* RAM is made of zeros; VMinitialize zeroes frame 0.
Init ==
  /\ RAM = [f \in Frames |-> [r \in Rows |-> 0]]
  /\ swapFile = << >>
  /\ call = NoCall
  /\ level = 0 /\ last_frame = 0
  /\ reply = NoReply
  /\ aborted = FALSE

-----------------------------------------------------------------------------
(***************************************************************************)
(* Addresses.                                                              *)
(***************************************************************************)
find_offset(va) == va % PAGE_SIZE
PageOf(va)      == va \div PAGE_SIZE

\* The row of the table at depth lvl: the bits left over by the other levels
\* are those of level 0.
calculate_bits(va, lvl) ==
  LET rest  == VIRTUAL_ADDRESS_WIDTH % OFFSET_WIDTH
      width == IF lvl # 0 \/ rest = 0 THEN OFFSET_WIDTH ELSE rest
  IN  (va \div Pow2[(TABLES_DEPTH - lvl) * OFFSET_WIDTH]) % Pow2[width]

cyclical_distance(p, q) ==
  LET far == IF p > q THEN p - q ELSE q - p
  IN  IF NUM_PAGES - far < far THEN NUM_PAGES - far ELSE far

-----------------------------------------------------------------------------
(***************************************************************************)
(* The tree of tables that search_frame walks.  A node is a frame, how it  *)
(* was reached, and the row of the table that points to it.                *)
(***************************************************************************)
Root == [frame |-> 0, depth |-> 0, path |-> 0, parent |-> 0, row |-> 0]

Child(ram, n, i) ==
  [frame |-> ram[n.frame][i], depth |-> n.depth + 1, path |-> n.path * PAGE_SIZE + i,
   parent |-> n.frame, row |-> i]

Children(ram, n) ==
  {Child(ram, n, i) :
     i \in {j \in Rows : ram[n.frame][j] # 0 /\ ram[n.frame][j] < NUM_FRAMES}}

Nodes(ram) ==
  LET At[k \in 0..TABLES_DEPTH] ==
        IF k = 0 THEN {Root} ELSE UNION {Children(ram, n) : n \in At[k-1]}
  IN  At

Tables(ram) == LET nodes == Nodes(ram) IN UNION {nodes[k] : k \in 0 .. TABLES_DEPTH - 1}
Leaves(ram) == Nodes(ram)[TABLES_DEPTH]

\* The depth-first order of nodes none of which is above another.
FirstPage(n) == n.path * Pow2[(TABLES_DEPTH - n.depth) * OFFSET_WIDTH]
First(nodes) == CHOOSE n \in nodes : \A m \in nodes : FirstPage(n) <= FirstPage(m)

\* Mutant of EmptyTables: the table the walk stands on is not spared.
EmptyTablesAnywhere(ram, illegal_add) ==
  {n \in Tables(ram) : \A i \in Rows : ram[n.frame][i] = 0}

EmptyTables(ram, illegal_add) ==
  {n \in Tables(ram) : n.frame # illegal_add /\ \A i \in Rows : ram[n.frame][i] = 0}

max_frame(ram) == Max({0} \cup UNION {Range(ram[n.frame]) : n \in Tables(ram)})

\* The page to evict: the farthest from pageIn, the first found among equals.
\* When there is none, find_frame goes on with the zeros it started from.
Victim(ram, illegal_add, pageIn) ==
  LET dist(n)  == cyclical_distance(pageIn, n.path)
      leaves   == {n \in Leaves(ram) : n.frame # illegal_add /\ dist(n) > 0}
      farthest == {n \in leaves : \A m \in leaves : dist(m) <= dist(n)}
  IN  IF leaves = {} THEN Root ELSE First(farthest)

\* Mutant of Unlink: the parent keeps its pointer.
KeepLink(ram, n) == ram

Unlink(ram, n) == [ram EXCEPT ![n.parent][n.row] = 0]

-----------------------------------------------------------------------------
(***************************************************************************)
(* VMread and VMwrite: the call, the walk, the access.                     *)
(***************************************************************************)
Call ==
  /\ call = NoCall /\ ~aborted
  /\ call' \in Calls
  /\ level' = 0 /\ last_frame' = 0
  /\ reply' = NoReply
  /\ UNCHANGED <<RAM, swapFile, aborted>>

\* The address is beyond the virtual memory.
OutOfRange ==
  /\ call # NoCall
  /\ call.va > VIRTUAL_MEMORY_SIZE - 1
  /\ reply' = [ret |-> 0]
  /\ call' = NoCall
  /\ UNCHANGED <<RAM, swapFile, level, last_frame, aborted>>

Walking ==
  /\ call # NoCall /\ ~aborted
  /\ call.va <= VIRTUAL_MEMORY_SIZE - 1
  /\ level < TABLES_DEPTH

pageIn   == PageOf(call.va)
curr_bit == calculate_bits(call.va, level)

Descend(frame) ==
  /\ level' = level + 1
  /\ last_frame' = frame
  /\ UNCHANGED <<call, reply, aborted>>

Present ==
  /\ Walking
  /\ RAM[last_frame][curr_bit] # 0
  /\ Descend(RAM[last_frame][curr_bit])
  /\ UNCHANGED <<RAM, swapFile>>

initialize_frame(frame, ram) == [ram EXCEPT ![frame] = [r \in Rows |-> 0]]

\* Mutant of PMrestore: the page stays in the swap file.
RestoreKeepingSwap(frame, page, ram, swap) ==
  [ram  |-> IF page \in DOMAIN swap THEN [ram EXCEPT ![frame] = swap[page]] ELSE ram,
   swap |-> swap]

\* Mutant of PMrestore: the page is erased from the swap file, and lost.
RestoreNothing(frame, page, ram, swap) ==
  [ram |-> ram, swap |-> Restrict(swap, DOMAIN swap \ {page})]

\* A page that is not in the swap file is new, and keeps what is in the frame.
PMrestore(frame, page, ram, swap) ==
  [ram  |-> IF page \in DOMAIN swap THEN [ram EXCEPT ![frame] = swap[page]] ELSE ram,
   swap |-> Restrict(swap, DOMAIN swap \ {page})]

\* What translate_address does with the frame that find_frame returns: a table is
\* zeroed, a page is restored, and the frame is linked.
Fill(frame, ram, swap) ==
  LET mem == IF level + 1 < TABLES_DEPTH
             THEN [ram |-> initialize_frame(frame, ram), swap |-> swap]
             ELSE PMrestore(frame, pageIn, ram, swap)
  IN  /\ RAM' = [mem.ram EXCEPT ![last_frame][curr_bit] = frame]
      /\ swapFile' = mem.swap
      /\ Descend(frame)

Missing == Walking /\ RAM[last_frame][curr_bit] = 0

\* Case 1 of find_frame: the first empty table is taken from its parent.
TakeEmptyTable ==
  /\ Missing
  /\ EmptyTables(RAM, last_frame) # {}
  /\ LET n == First(EmptyTables(RAM, last_frame))
     IN  Fill(n.frame, Unlink(RAM, n), swapFile)

\* Mutant of TakeUnused: the last frame is taken to be one further.
TakeOnePastTheEnd ==
  /\ Missing
  /\ EmptyTables(RAM, last_frame) = {}
  /\ max_frame(RAM) + 1 <= NUM_FRAMES
  /\ Fill(max_frame(RAM) + 1, RAM, swapFile)

\* Case 2: a frame that was never used.
TakeUnused ==
  /\ Missing
  /\ EmptyTables(RAM, last_frame) = {}
  /\ max_frame(RAM) + 1 < NUM_FRAMES
  /\ Fill(max_frame(RAM) + 1, RAM, swapFile)

\* PMevict asserts that the page is not in the swap file already.
TakeVictim(n) ==
  IF n.path \in DOMAIN swapFile
    THEN /\ aborted' = TRUE
         /\ UNCHANGED <<RAM, swapFile, call, level, last_frame, reply>>
    ELSE Fill(n.frame, Unlink(RAM, n),
              [p \in DOMAIN swapFile \cup {n.path} |->
                 IF p = n.path THEN RAM[n.frame] ELSE swapFile[p]])

\* Mutant of Evict: the last frame is never used.
EvictOneEarly ==
  /\ Missing
  /\ EmptyTables(RAM, last_frame) = {}
  /\ max_frame(RAM) + 2 >= NUM_FRAMES
  /\ TakeVictim(Victim(RAM, last_frame, pageIn))

\* Case 3.
Evict ==
  /\ Missing
  /\ EmptyTables(RAM, last_frame) = {}
  /\ max_frame(RAM) + 1 >= NUM_FRAMES
  /\ TakeVictim(Victim(RAM, last_frame, pageIn))

Access ==
  /\ call # NoCall /\ ~aborted
  /\ level = TABLES_DEPTH
  /\ \/ /\ call.op = "read"
        /\ reply' = [ret |-> 1, value |-> RAM[last_frame][find_offset(call.va)]]
        /\ UNCHANGED RAM
     \/ /\ call.op = "write"
        /\ reply' = [ret |-> 1]
        /\ RAM' = [RAM EXCEPT ![last_frame][find_offset(call.va)] = call.value]
  /\ call' = NoCall
  /\ UNCHANGED <<swapFile, level, last_frame, aborted>>

Next ==
  \/ Call \/ OutOfRange
  \/ Present \/ TakeEmptyTable \/ TakeUnused \/ Evict
  \/ Access

Spec == Init /\ [][Next]_vars

-----------------------------------------------------------------------------
(* Properties. *)

\* Types of the RAM, of the swap file and of the locals of translate_address
\* (PhysicalMemory.cpp:12-13, VirtualMemory.cpp:154-158).
MemoryTypeOK ==
  /\ RAM \in [Frames -> [Rows -> Words]]
  /\ DOMAIN swapFile \subseteq Pages
  /\ \A p \in DOMAIN swapFile : swapFile[p] \in [Rows -> Words]
  /\ call \in Calls \cup {NoCall}
  /\ level \in 0..TABLES_DEPTH
  /\ last_frame \in Frames
  /\ aborted \in BOOLEAN

AllNodes == Tables(RAM) \cup Leaves(RAM)

\* No frame has two parents or is both a table and a page, frame 0 is only the
\* root, and the frames in use are the first ones: max_frame + 1, which case 2
\* hands out unseen, is never a frame in use, and no frame is lost
\* (VirtualMemory.cpp:132-141).
FramesFormTree ==
  /\ \A n, m \in AllNodes : n.frame = m.frame => n = m
  /\ {n.frame : n \in AllNodes} = 0 .. max_frame(RAM)

\* The frame a walk stands on stays the frame of its address: making room for
\* the next level neither reclaims nor evicts what the last one just linked
\* (illegal_add, VirtualMemory.cpp:111, 166).
WalkStandsOnItsPath ==
  call # NoCall /\ level > 0 /\ call.va < VIRTUAL_MEMORY_SIZE =>
    \E n \in Nodes(RAM)[level] :
      /\ n.frame = last_frame
      /\ n.path = PageOf(call.va) \div Pow2[(TABLES_DEPTH - level) * OFFSET_WIDTH]

\* A page is in the RAM or in the swap file, never in both, and the assertion of
\* PMevict never fails (PhysicalMemory.cpp:47).
OnePlacePerPage ==
  /\ {n.path : n \in Leaves(RAM)} \cap DOMAIN swapFile = {}
  /\ ~aborted

\* A page is swapped out only when there is no other way: all frames are in the
\* tree, and the only empty table is the one the walk stands on.
EvictsOnlyWhenFull ==
  [][DOMAIN swapFile' \ DOMAIN swapFile # {} =>
       /\ {n.frame : n \in AllNodes} = Frames
       /\ \A n \in Tables(RAM) :
            n.frame = last_frame \/ \E i \in Rows : RAM[n.frame][i] # 0]_vars

Untouched == [page |-> "untouched"]

\* The contents of a page, wherever it is.
memory ==
  LET leaves == Leaves(RAM)
  IN  [p \in Pages |->
         IF \E n \in leaves : n.path = p
           THEN RAM[(CHOOSE n \in leaves : n.path = p).frame]
         ELSE IF p \in DOMAIN swapFile THEN swapFile[p]
         ELSE Untouched]

Abstract ==
  INSTANCE AbstractMemory WITH PageSize <- PAGE_SIZE, Contents <- [Rows -> Words]

\* Paging is invisible: VMread returns the word last written at its address,
\* whatever was evicted, restored or reclaimed in between (VirtualMemory.h:10-25).
ImplementsMemory == Abstract!Spec
=============================================================================
