-------------------------- MODULE VirtualMemorySearch --------------------------
(***************************************************************************)
(* search_frame as the code computes it: one depth-first walk that fills   *)
(* four results at a time and stops looking once it has an empty table.    *)
(* VirtualMemory states what find_frame makes of those results as choices  *)
(* from sets of nodes; here the two are compared.                          *)
(***************************************************************************)
EXTENDS VirtualMemory

\* The out-parameters of search_frame, and what find_frame gives them at first.
Results ==
  [empty_frame : BOOLEAN, max_frame : Int, MaxDist : Int,
   result_frame : Int, result_path : Int, prev_frame_add : Int]

Nothing ==
  [empty_frame |-> FALSE, max_frame |-> 0, MaxDist |-> 0,
   result_frame |-> 0, result_path |-> 0, prev_frame_add |-> 0]

\* The other arguments that change from call to call are a node of the tree.
Places == [frame : Int, depth : Int, path : Int, parent : Int, row : Rows]

\* prev_add
AddressOf(n) == n.parent * PAGE_SIZE + n.row

\* Mutant of update_distance: among pages at the same distance the last one wins.
UpdateOnTie(n, out) ==
  IF n.frame # last_frame /\ cyclical_distance(pageIn, n.path) >= out.MaxDist
    THEN [out EXCEPT !.MaxDist = cyclical_distance(pageIn, n.path), !.result_frame = n.frame,
                     !.prev_frame_add = AddressOf(n), !.result_path = n.path]
    ELSE out

update_distance(n, out) ==
  IF n.frame # last_frame /\ cyclical_distance(pageIn, n.path) > out.MaxDist
    THEN [out EXCEPT !.MaxDist = cyclical_distance(pageIn, n.path), !.result_frame = n.frame,
                     !.prev_frame_add = AddressOf(n), !.result_path = n.path]
    ELSE out

\* The loop over the rows of a table: the results after each row.  The frames that the
\* rows hold are searched by below.
search_rows(n, below, out) ==
  LET after[i \in 0 .. PAGE_SIZE] ==
        IF i = 0 THEN out
        ELSE LET c == Child(RAM, n, i - 1)
                 o == after[i - 1]
             IN  IF c.frame = 0 THEN o
                 ELSE below[c][[o EXCEPT !.max_frame = IF c.frame > @ THEN c.frame ELSE @]]
  IN  after

\* search_frame at the last level, and above it, where below searches the next level.
search_page ==
  [n \in Places |-> [out \in Results |->
     IF out.empty_frame \/ n.frame >= NUM_FRAMES THEN out ELSE update_distance(n, out)]]

search_table(below) ==
  [n \in Places |-> [out \in Results |->
     IF out.empty_frame \/ n.frame >= NUM_FRAMES THEN out
     ELSE LET after == search_rows(n, below, out)[PAGE_SIZE]
          IN  IF n.frame # last_frame /\ \A i \in Rows : RAM[n.frame][i] = 0
                THEN [after EXCEPT !.empty_frame = TRUE, !.prev_frame_add = AddressOf(n),
                                   !.result_frame = n.frame]
                ELSE after]]

\* levels is the number of levels below the node: TABLES_DEPTH - depth.
search_frame[levels \in 0 .. TABLES_DEPTH] ==
  IF levels = 0 THEN search_page ELSE search_table(search_frame[levels - 1])

\* Whenever a walk has to make room, the depth-first search finds the frame that
\* VirtualMemory hands out: it misses no empty table, its max_frame is that of the
\* whole tree when it finds none, and its victim is the farthest page, reached
\* through the row it returns (VirtualMemory.cpp:54-117).
SearchFindsFrame ==
  Missing =>
    LET out    == search_frame[TABLES_DEPTH][Root][Nothing]
        empty  == EmptyTables(RAM, last_frame)
        chosen == IF empty # {} THEN First(empty) ELSE Victim(RAM, last_frame, pageIn)
    IN  /\ out.empty_frame = (empty # {})
        /\ ~out.empty_frame => /\ out.max_frame = max_frame(RAM)
                               /\ out.result_path = chosen.path
        /\ out.result_frame = chosen.frame
        /\ out.prev_frame_add = AddressOf(chosen)
=============================================================================
