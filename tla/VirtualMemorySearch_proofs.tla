---------------------- MODULE VirtualMemorySearch_proofs ----------------------
(***************************************************************************)
(* Proofs about VirtualMemorySearch: for any widths, whatever the walk has *)
(* met, the depth-first search of search_frame finds the frame that        *)
(* VirtualMemory chooses from the sets of nodes of the tree.               *)
(*                                                                         *)
(* The search visits the nodes in the order of their first pages.  What it *)
(* has found when it comes to a page is told by the nodes before that page *)
(* (Sees, Knows), and a call of search_frame at a node takes this from the *)
(* first page below the node to the page after the last one.               *)
(***************************************************************************)
EXTENDS VirtualMemorySearch, VirtualMemory_proofs

-----------------------------------------------------------------------------
(* The search unfolded. *)

\* What the loop of search_frame does with a row of table n.
AfterRow(n, below, i, o) ==
  LET c == Child(RAM, n, i)
  IN  IF c.frame = 0 THEN o
      ELSE below[c][[o EXCEPT !.max_frame = IF c.frame > @ THEN c.frame ELSE @]]

RowsTo(n, below, out, f, k) ==
  f = [i \in 0 .. k |-> IF i = 0 THEN out ELSE AfterRow(n, below, i - 1, f[i - 1])]

\* The results after each row of the loop come from those after the row before.
LEMMA RowsUnfold ==
  ASSUME NEW n, NEW below, NEW out
  PROVE  /\ search_rows(n, below, out)[0] = out
         /\ \A i \in Rows : search_rows(n, below, out)[i + 1]
                            = AfterRow(n, below, i, search_rows(n, below, out)[i])
<1> DEFINE S == {k \in Nat : \E f : RowsTo(n, below, out, f, k)}
<1>1. 0 \in S
  <2>1. RowsTo(n, below, out, [i \in 0 .. 0 |-> out], 0)
    BY DEF RowsTo
  <2> QED
    BY <2>1
<1>2. ASSUME NEW k \in Nat, k \in S PROVE k + 1 \in S
  <2>1. PICK f : RowsTo(n, below, out, f, k)
    BY <1>2
  <2> DEFINE Then(i, o) == AfterRow(n, below, i, o)
             g == [i \in 0 .. k + 1 |-> IF i = k + 1 THEN Then(k, f[k]) ELSE f[i]]
  <2>2. f = [i \in 0 .. k |-> IF i = 0 THEN out ELSE Then(i - 1, f[i - 1])]
    BY <2>1 DEF RowsTo
  <2> HIDE DEF Then
  <2>3. ASSUME NEW i \in 0 .. k + 1
        PROVE  g[i] = IF i = 0 THEN out ELSE Then(i - 1, g[i - 1])
    <3>1. CASE i = k + 1
      <4>1. i # 0 /\ i - 1 = k /\ k \in 0 .. k + 1 /\ k # k + 1
        BY <3>1
      <4> QED
        BY <3>1, <4>1
    <3>2. CASE i # k + 1
      <4>1. i \in 0 .. k /\ (i # 0 => i - 1 \in 0 .. k + 1 /\ i - 1 # k + 1)
        BY <3>2
      <4>2. g[i] = f[i] /\ (i # 0 => g[i - 1] = f[i - 1])
        BY <3>2, <4>1
      <4> HIDE DEF g
      <4> QED
        BY <2>2, <4>1, <4>2
    <3> QED
      BY <3>1, <3>2
  <2>4. g = [i \in 0 .. k + 1 |-> g[i]]
    OBVIOUS
  <2>5. g = [i \in 0 .. k + 1 |-> IF i = 0 THEN out ELSE Then(i - 1, g[i - 1])]
    <3> HIDE DEF g
    <3> QED
      BY <2>3, <2>4
  <2>6. RowsTo(n, below, out, g, k + 1)
    <3> HIDE DEF g
    <3> QED
      BY <2>5 DEF RowsTo, Then
  <2> QED
    BY <2>6
<1>3. \E f : RowsTo(n, below, out, f, PAGE_SIZE)
  <2>1. PAGE_SIZE \in S
    <3> HIDE DEF S
    <3> QED
      BY <1>1, <1>2, Induction, Sizes
  <2> QED
    BY <2>1
<1> DEFINE after == search_rows(n, below, out)
<1>4. RowsTo(n, below, out, after, PAGE_SIZE)
  BY <1>3 DEF RowsTo, AfterRow, search_rows
<1> HIDE DEF after
<1>5. after[0] = out
  BY <1>4, Sizes DEF RowsTo
<1>6. ASSUME NEW i \in Rows PROVE after[i + 1] = AfterRow(n, below, i, after[i])
  <2>1. i + 1 \in 0 .. PAGE_SIZE /\ i + 1 # 0 /\ (i + 1) - 1 = i
    BY Sizes DEF Rows
  <2> QED
    BY <1>4, <2>1 DEF RowsTo
<1> QED
  BY <1>5, <1>6 DEF after

SearchTo(f, k) ==
  f = [l \in 0 .. k |-> IF l = 0 THEN search_page ELSE search_table(f[l - 1])]

\* A page is searched at once, a table by way of the level below it.
LEMMA SearchUnfold ==
  /\ search_frame[0] = search_page
  /\ \A k \in 0 .. TABLES_DEPTH - 1 : search_frame[k + 1] = search_table(search_frame[k])
<1> DEFINE S == {k \in Nat : \E f : SearchTo(f, k)}
<1>1. 0 \in S
  <2>1. SearchTo([l \in 0 .. 0 |-> search_page], 0)
    BY DEF SearchTo
  <2> QED
    BY <2>1
<1>2. ASSUME NEW k \in Nat, k \in S PROVE k + 1 \in S
  <2>1. PICK f : SearchTo(f, k)
    BY <1>2
  <2> DEFINE Then(below) == search_table(below)
             g == [l \in 0 .. k + 1 |-> IF l = k + 1 THEN Then(f[k]) ELSE f[l]]
  <2>2. f = [l \in 0 .. k |-> IF l = 0 THEN search_page ELSE Then(f[l - 1])]
    BY <2>1 DEF SearchTo
  <2> HIDE DEF Then
  <2>3. ASSUME NEW l \in 0 .. k + 1
        PROVE  g[l] = IF l = 0 THEN search_page ELSE Then(g[l - 1])
    <3>1. CASE l = k + 1
      <4>1. l # 0 /\ l - 1 = k /\ k \in 0 .. k + 1 /\ k # k + 1
        BY <3>1
      <4> QED
        BY <3>1, <4>1
    <3>2. CASE l # k + 1
      <4>1. l \in 0 .. k /\ (l # 0 => l - 1 \in 0 .. k + 1 /\ l - 1 # k + 1)
        BY <3>2
      <4>2. g[l] = f[l] /\ (l # 0 => g[l - 1] = f[l - 1])
        BY <3>2, <4>1
      <4> HIDE DEF g
      <4> QED
        BY <2>2, <4>1, <4>2
    <3> QED
      BY <3>1, <3>2
  <2>4. g = [l \in 0 .. k + 1 |-> g[l]]
    OBVIOUS
  <2>5. g = [l \in 0 .. k + 1 |-> IF l = 0 THEN search_page ELSE Then(g[l - 1])]
    <3> HIDE DEF g
    <3> QED
      BY <2>3, <2>4
  <2>6. SearchTo(g, k + 1)
    <3> HIDE DEF g
    <3> QED
      BY <2>5 DEF SearchTo, Then
  <2> QED
    BY <2>6
<1>3. \E f : SearchTo(f, TABLES_DEPTH)
  <2>1. TABLES_DEPTH \in S
    <3> HIDE DEF S
    <3> QED
      BY <1>1, <1>2, Induction, Sizes
  <2> QED
    BY <2>1
<1>4. SearchTo(search_frame, TABLES_DEPTH)
  BY <1>3 DEF SearchTo, search_frame
<1>5. search_frame[0] = search_page
  BY <1>4, Sizes DEF SearchTo
<1>6. ASSUME NEW k \in 0 .. TABLES_DEPTH - 1
      PROVE  search_frame[k + 1] = search_table(search_frame[k])
  <2>1. k + 1 \in 0 .. TABLES_DEPTH /\ k + 1 # 0 /\ (k + 1) - 1 = k
    BY Sizes
  <2> QED
    BY <1>4, <2>1 DEF SearchTo
<1> QED
  BY <1>5, <1>6

\* The search at a page.
LEMMA AtPage ==
  ASSUME NEW n \in Places, NEW out \in Results
  PROVE  search_page[n][out]
         = IF out.empty_frame \/ n.frame >= NUM_FRAMES THEN out ELSE update_distance(n, out)
BY DEF search_page

\* The search at a table.
LEMMA AtTable ==
  ASSUME NEW below, NEW n \in Places, NEW out \in Results
  PROVE  search_table(below)[n][out]
         = IF out.empty_frame \/ n.frame >= NUM_FRAMES THEN out
           ELSE LET after == search_rows(n, below, out)[PAGE_SIZE]
                IN  IF n.frame # last_frame /\ \A i \in Rows : RAM[n.frame][i] = 0
                      THEN [after EXCEPT !.empty_frame = TRUE, !.prev_frame_add = AddressOf(n),
                                         !.result_frame = n.frame]
                      ELSE after
BY DEF search_table

-----------------------------------------------------------------------------
(* The pages below a node. *)

\* The number of pages below a node at this depth.
Span(d) == Pow2[(TABLES_DEPTH - d) * OFFSET_WIDTH]

\* A page is below a node when it is among the pages its path is the first part of.
Covers(n, page) == FirstPage(n) <= page /\ page < FirstPage(n) + Span(n.depth)

\* The first page below a row of a table.
RowPage(n, i) == FirstPage(n) + i * Span(n.depth + 1)

\* The pages below a table are those below its rows.
LEMMA SpanStep ==
  ASSUME NEW d \in 0 .. TABLES_DEPTH - 1
  PROVE  Span(d) = PAGE_SIZE * Span(d + 1)
<1>1. d \in 0 .. TABLES_DEPTH /\ d + 1 \in 0 .. TABLES_DEPTH /\ OFFSET_WIDTH \in Nat
  BY Sizes, VirtualMemoryAssumption
<1> DEFINE a == (TABLES_DEPTH - (d + 1)) * OFFSET_WIDTH
<1>2. a \in Nat
  BY <1>1, Depths
<1>3. (TABLES_DEPTH - d) * OFFSET_WIDTH = OFFSET_WIDTH + a
  <2>1. TABLES_DEPTH - d = 1 + (TABLES_DEPTH - (d + 1)) /\ TABLES_DEPTH - (d + 1) \in Nat
    BY <1>1, Sizes
  <2> DEFINE b == TABLES_DEPTH - (d + 1)
  <2>2. (1 + b) * OFFSET_WIDTH = OFFSET_WIDTH + b * OFFSET_WIDTH
    <3>1. b \in Nat /\ OFFSET_WIDTH \in Nat
      BY <1>1, <2>1
    <3> HIDE DEF b
    <3> QED
      BY <3>1
  <2> QED
    BY <2>1, <2>2
<1> HIDE DEF a
<1>4. Pow2[OFFSET_WIDTH + a] = Pow2[OFFSET_WIDTH] * Pow2[a]
  BY <1>1, <1>2, Pow2Add
<1> QED
  BY <1>3, <1>4 DEF Span, PAGE_SIZE, a

\* A node covers one page at least, and a page covers itself.
LEMMA SpanNat ==
  /\ \A d \in 0 .. TABLES_DEPTH : Span(d) \in Nat \ {0}
  /\ Span(TABLES_DEPTH) = 1
<1>1. \A d \in 0 .. TABLES_DEPTH : Span(d) \in Nat \ {0}
  BY Depths DEF Span
<1>2. (TABLES_DEPTH - TABLES_DEPTH) * OFFSET_WIDTH = 0
  BY Sizes, VirtualMemoryAssumption
<1> QED
  BY <1>1, <1>2, Pow2Step DEF Span

\* The pages below a node are whole spans of any lower level.
LEMMA SpanFactor ==
  ASSUME NEW j \in 0 .. TABLES_DEPTH, NEW k \in 0 .. TABLES_DEPTH, j <= k
  PROVE  \E q \in Nat : Span(j) = q * Span(k)
<1> DEFINE a == (TABLES_DEPTH - k) * OFFSET_WIDTH
           b == (k - j) * OFFSET_WIDTH
<1>0. OFFSET_WIDTH \in Nat /\ TABLES_DEPTH - k \in Nat /\ k - j \in Nat
  BY Sizes, VirtualMemoryAssumption
<1>1. a \in Nat /\ b \in Nat
  BY <1>0, ProductNat
<1>2. (TABLES_DEPTH - j) * OFFSET_WIDTH = b + a
  <2> DEFINE u == TABLES_DEPTH - k
             v == k - j
  <2>1. TABLES_DEPTH - j = v + u
    BY Sizes
  <2>2. (v + u) * OFFSET_WIDTH = v * OFFSET_WIDTH + u * OFFSET_WIDTH
    <3>1. u \in Nat /\ v \in Nat
      BY <1>0
    <3> HIDE DEF u, v
    <3> QED
      BY <1>0, <3>1
  <2> QED
    BY <2>1, <2>2
<1> HIDE DEF a, b
<1>3. Pow2[b + a] = Pow2[b] * Pow2[a] /\ Pow2[b] \in Nat
  BY <1>1, Pow2Add, Pow2Nat
<1> QED
  BY <1>2, <1>3 DEF Span, a

\* A page is in one span only.
LEMMA OneSpan ==
  ASSUME NEW s \in Nat \ {0}, NEW a \in Nat, NEW b \in Nat, NEW page \in Nat,
         a * s <= page, page < a * s + s, b * s <= page, page < b * s + s
  PROVE  a = b
<1>1. ASSUME NEW c \in Nat, c * s <= page, page < c * s + s
      PROVE  page \div s = c
  <2> DEFINE r == page - c * s
  <2>1. c * s \in Nat /\ c * s = s * c
    BY ProductNat
  <2>2. r \in 0 .. s - 1 /\ page = s * c + r
    BY <1>1, <2>1
  <2> HIDE DEF r
  <2> QED
    BY <2>2, DivUnique
<1> QED
  BY <1>1

\* The first page of a node in terms of its path.
LEMMA NodePage ==
  ASSUME Tree(RAM), NEW k \in 0 .. TABLES_DEPTH, NEW n \in Nodes(RAM)[k]
  PROVE  /\ n.depth = k /\ n.path \in Nat /\ n.frame \in Frames
         /\ Span(k) \in Nat \ {0} /\ FirstPage(n) \in Nat
         /\ FirstPage(n) = n.path * Span(k)
         /\ n \in All(RAM)
<1>1. n.depth = k /\ n.path \in Nat /\ n.frame \in Frames
  BY NodeTypes DEF NodesAt
<1>2. n \in All(RAM)
  BY IsNode
<1> QED
  BY <1>1, <1>2, SpanNat, FirstPageNat DEF FirstPage, Span

\* A row of a table covers a part of what the table covers.
LEMMA RowCovers ==
  ASSUME Tree(RAM), NEW k \in 0 .. TABLES_DEPTH - 1, NEW n \in Nodes(RAM)[k], NEW i \in Rows
  PROVE  /\ RowPage(n, i) \in Nat
         /\ RowPage(n, i) = (n.path * PAGE_SIZE + i) * Span(k + 1)
         /\ RowPage(n, i + 1) = RowPage(n, i) + Span(k + 1)
         /\ FirstPage(n) <= RowPage(n, i)
         /\ i # 0 => FirstPage(n) < RowPage(n, i)
         /\ RowPage(n, i + 1) <= FirstPage(n) + Span(k)
         /\ RAM[n.frame][i] # 0 => FirstPage(Child(RAM, n, i)) = RowPage(n, i)
<1> DEFINE s == Span(k + 1)
           p == n.path
           z == PAGE_SIZE
<1>0. k \in 0 .. TABLES_DEPTH /\ k + 1 \in 0 .. TABLES_DEPTH
  BY Sizes
<1>1. /\ s \in Nat \ {0} /\ p \in Nat /\ z \in Nat \ {0} /\ i \in Nat /\ i + 1 <= z
      /\ n.depth = k /\ FirstPage(n) = p * Span(k)
  BY <1>0, NodePage, SpanNat, Sizes DEF Rows
<1>2. Span(k) = z * s
  BY SpanStep
<1>3. RowPage(n, i) = FirstPage(n) + i * s /\ RowPage(n, i + 1) = FirstPage(n) + (i + 1) * s
  BY <1>1 DEF RowPage
<1>4. RAM[n.frame][i] # 0 => FirstPage(Child(RAM, n, i)) = (p * z + i) * s
  BY <1>1 DEF Child, FirstPage, Span
<1> HIDE DEF s, p, z
<1>5. p * (z * s) = (p * z) * s /\ p * z \in Nat /\ i * s \in Nat /\ (p * z) * s \in Nat
  BY <1>1, ProductNat
<1>6. (p * z + i) * s = (p * z) * s + i * s
  BY <1>1, <1>5
<1>7. (i + 1) * s = i * s + s
  BY <1>1
<1>8. (i + 1) * s <= z * s
  <2>1. z - (i + 1) \in Nat
    BY <1>1
  <2> DEFINE c == z - (i + 1)
  <2>2. c * s \in Nat
    BY <1>1, <2>1, ProductNat
  <2>3. z = (i + 1) + c /\ c \in Nat
    BY <1>1
  <2> HIDE DEF c
  <2>4. ((i + 1) + c) * s = (i + 1) * s + c * s
    BY <1>1, <2>3
  <2>5. (i + 1) * s \in Nat
    BY <1>1, ProductNat
  <2> QED
    BY <2>2, <2>3, <2>4, <2>5
<1>9. i # 0 => 0 < i * s
  BY <1>1
<1>10. FirstPage(n) = (p * z) * s
  BY <1>1, <1>2, <1>5
<1> DEFINE a == (p * z) * s
           b == i * s
           c == (i + 1) * s
           d == z * s
<1>11. a \in Nat /\ b \in Nat /\ c = b + s /\ c <= d /\ (i # 0 => 0 < b) /\ s \in Nat \ {0}
  BY <1>1, <1>5, <1>7, <1>8, <1>9
<1>12. /\ RowPage(n, i) = a + b /\ RowPage(n, i + 1) = a + c /\ FirstPage(n) = a
       /\ Span(k) = d /\ (p * z + i) * s = a + b
  BY <1>2, <1>3, <1>6, <1>10
<1>13. /\ a + b \in Nat /\ a + c = (a + b) + s /\ a <= a + b /\ (i # 0 => a < a + b)
       /\ a + c <= a + d
  <2>1. d \in Nat
    BY <1>1, ProductNat
  <2> HIDE DEF a, b, c, d
  <2> QED
    BY <1>11, <2>1
<1> HIDE DEF a, b, c, d
<1>14. RowPage(n, i) = (p * z + i) * s
  BY <1>12
<1> QED
  BY <1>4, <1>12, <1>13, <1>14 DEF p, z, s

\* Above a node there is one at every depth that covers its pages.
LEMMA Above ==
  ASSUME Tree(RAM), NEW j \in 0 .. TABLES_DEPTH, NEW k \in 0 .. TABLES_DEPTH, j <= k,
         NEW m \in Nodes(RAM)[k]
  PROVE  \E a \in Nodes(RAM)[j] : Covers(a, FirstPage(m))
<1> DEFINE Within(a, c, l) == /\ FirstPage(a) <= FirstPage(c)
                              /\ FirstPage(c) + Span(l) <= FirstPage(a) + Span(j)
           S == {i \in Nat : j + i <= TABLES_DEPTH =>
                   \A c \in Nodes(RAM)[j + i] : \E a \in Nodes(RAM)[j] : Within(a, c, j + i)}
<1>1. 0 \in S
  <2>1. j + 0 = j
    OBVIOUS
  <2>2. \A c \in Nodes(RAM)[j] : Within(c, c, j)
    BY NodePage
  <2> QED
    BY <2>1, <2>2
<1>2. ASSUME NEW i \in Nat, i \in S PROVE i + 1 \in S
  <2> DEFINE l == j + i
  <2> SUFFICES ASSUME l + 1 <= TABLES_DEPTH, NEW c \in Nodes(RAM)[l + 1]
               PROVE  \E a \in Nodes(RAM)[j] : Within(a, c, l + 1)
    <3>1. j + (i + 1) = l + 1
      OBVIOUS
    <3> QED
      BY <3>1
  <2>1. l \in 0 .. TABLES_DEPTH - 1 /\ l \in 0 .. TABLES_DEPTH /\ l + 1 \in 0 .. TABLES_DEPTH
    BY Sizes
  <2>2. \A b \in Nodes(RAM)[l] : \E a \in Nodes(RAM)[j] : Within(a, b, l)
    BY <1>2, <2>1
  <2> HIDE DEF l
  <2>3. PICK b \in Nodes(RAM)[l] :
          \E r \in Rows : RAM[b.frame][r] # 0 /\ c = Child(RAM, b, r)
    BY <2>1, HasParent
  <2>4. PICK r \in Rows : RAM[b.frame][r] # 0 /\ c = Child(RAM, b, r)
    BY <2>3
  <2>5. PICK a \in Nodes(RAM)[j] : Within(a, b, l)
    BY <2>2
  <2>6. /\ FirstPage(b) <= RowPage(b, r) /\ RowPage(b, r + 1) <= FirstPage(b) + Span(l)
        /\ RowPage(b, r + 1) = RowPage(b, r) + Span(l + 1)
        /\ FirstPage(c) = RowPage(b, r)
    BY <2>1, <2>4, RowCovers
  <2>7. /\ FirstPage(a) \in Nat /\ FirstPage(b) \in Nat /\ FirstPage(c) \in Nat
        /\ Span(j) \in Nat /\ Span(l) \in Nat /\ Span(l + 1) \in Nat
    BY <2>1, NodePage
  <2>8. Within(a, c, l + 1)
    BY <2>5, <2>6, <2>7
  <2> QED
    BY <2>8
<1>3. Nat \subseteq S
  <2> HIDE DEF S
  <2> QED
    BY <1>1, <1>2, Induction
<1>4. k - j \in S /\ j + (k - j) = k /\ k <= TABLES_DEPTH
  BY <1>3
<1>5. PICK a \in Nodes(RAM)[j] : Within(a, m, k)
  BY <1>4
<1>6. /\ FirstPage(a) \in Nat /\ FirstPage(m) \in Nat /\ a.depth = j
      /\ Span(j) \in Nat /\ Span(k) \in Nat \ {0}
  BY NodePage
<1> QED
  BY <1>5, <1>6 DEF Covers

\* A page is below one node of a level.
LEMMA OneCovers ==
  ASSUME Tree(RAM), NEW k \in 0 .. TABLES_DEPTH, NEW n \in Nodes(RAM)[k],
         NEW m \in Nodes(RAM)[k], NEW page \in Nat, Covers(n, page), Covers(m, page)
  PROVE  n = m
<1>1. /\ n.path \in Nat /\ m.path \in Nat /\ n.depth = k /\ m.depth = k
      /\ Span(k) \in Nat \ {0}
      /\ FirstPage(n) = n.path * Span(k) /\ FirstPage(m) = m.path * Span(k)
  BY NodePage
<1> DEFINE s == Span(k)
<1>2. /\ s \in Nat \ {0} /\ n.path \in Nat /\ m.path \in Nat
      /\ n.path * s <= page /\ page < n.path * s + s
      /\ m.path * s <= page /\ page < m.path * s + s
  BY <1>1 DEF Covers
<1> HIDE DEF s
<1>3. n.path = m.path
  BY <1>2, OneSpan
<1> QED
  BY <1>3, PathsDiffer

\* What is below a table is below one of its rows, and that row is not zero.
LEMMA BelowRow ==
  ASSUME Tree(RAM), NEW k \in 0 .. TABLES_DEPTH - 1, NEW n \in Nodes(RAM)[k],
         NEW j \in 0 .. TABLES_DEPTH, k < j, NEW m \in Nodes(RAM)[j], Covers(n, FirstPage(m))
  PROVE  \E i \in Rows : /\ RAM[n.frame][i] # 0
                         /\ RowPage(n, i) <= FirstPage(m) /\ FirstPage(m) < RowPage(n, i + 1)
<1>0. k \in 0 .. TABLES_DEPTH /\ k + 1 \in 0 .. TABLES_DEPTH /\ k + 1 <= j
  BY Sizes
<1>1. PICK c \in Nodes(RAM)[k + 1] : Covers(c, FirstPage(m))
  BY <1>0, Above
<1>2. PICK b \in Nodes(RAM)[k], i \in Rows : RAM[b.frame][i] # 0 /\ c = Child(RAM, b, i)
  BY HasParent
<1>3. /\ FirstPage(b) <= RowPage(b, i) /\ RowPage(b, i + 1) <= FirstPage(b) + Span(k)
      /\ RowPage(b, i + 1) = RowPage(b, i) + Span(k + 1) /\ RowPage(b, i) \in Nat
      /\ FirstPage(c) = RowPage(b, i)
  BY <1>2, RowCovers
<1>4. /\ FirstPage(b) \in Nat /\ Span(k) \in Nat /\ Span(k + 1) \in Nat /\ FirstPage(m) \in Nat
      /\ b.depth = k /\ c.depth = k + 1
  BY <1>0, NodePage
<1>5. RowPage(b, i) <= FirstPage(m) /\ FirstPage(m) < RowPage(b, i + 1)
  BY <1>1, <1>3, <1>4 DEF Covers
<1>6. Covers(b, FirstPage(m))
  BY <1>3, <1>4, <1>5 DEF Covers
<1>7. b = n
  BY <1>0, <1>4, <1>6, OneCovers
<1> QED
  BY <1>2, <1>5, <1>7

\* The pages below two rows are apart.
LEMMA RowsApart ==
  ASSUME Tree(RAM), NEW k \in 0 .. TABLES_DEPTH - 1, NEW n \in Nodes(RAM)[k],
         NEW i \in Rows, NEW j \in Rows, NEW page \in Nat,
         RowPage(n, i) <= page, page < RowPage(n, i + 1),
         RowPage(n, j) <= page, page < RowPage(n, j + 1)
  PROVE  i = j
<1> DEFINE a(r) == n.path * PAGE_SIZE + r
<1>0. k \in 0 .. TABLES_DEPTH /\ k + 1 \in 0 .. TABLES_DEPTH
  BY Sizes
<1>1. n.path * PAGE_SIZE \in Nat
  BY <1>0, NodePage, Sizes, ProductNat
<1>2. a(i) \in Nat /\ a(j) \in Nat
  BY <1>1, Sizes DEF Rows
<1>3. /\ RowPage(n, i) = a(i) * Span(k + 1) /\ RowPage(n, j) = a(j) * Span(k + 1)
      /\ RowPage(n, i + 1) = RowPage(n, i) + Span(k + 1)
      /\ RowPage(n, j + 1) = RowPage(n, j) + Span(k + 1)
  BY RowCovers
<1>4. Span(k + 1) \in Nat \ {0}
  BY <1>0, SpanNat
<1>5. a(i) = a(j)
  <2> DEFINE s == Span(k + 1)
  <2> HIDE DEF a
  <2>1. /\ s \in Nat \ {0}
        /\ a(i) * s <= page /\ page < a(i) * s + s
        /\ a(j) * s <= page /\ page < a(j) * s + s
    BY <1>3, <1>4
  <2> HIDE DEF s
  <2> QED
    BY <1>2, <2>1, OneSpan
<1> QED
  BY <1>1, <1>5, Sizes DEF Rows

\* A node that is not deeper and starts below a node starts where that one does.
LEMMA SameStart ==
  ASSUME Tree(RAM), NEW j \in 0 .. TABLES_DEPTH, NEW k \in 0 .. TABLES_DEPTH, j <= k,
         NEW m \in Nodes(RAM)[j], NEW n \in Nodes(RAM)[k], Covers(n, FirstPage(m))
  PROVE  FirstPage(m) = FirstPage(n)
<1>1. /\ n.path \in Nat /\ FirstPage(n) = n.path * Span(k) /\ n.depth = k
      /\ m.path \in Nat /\ FirstPage(m) = m.path * Span(j)
      /\ Span(k) \in Nat \ {0} /\ FirstPage(m) \in Nat
  BY NodePage
<1>2. PICK q \in Nat : Span(j) = q * Span(k)
  BY SpanFactor
<1> DEFINE s == Span(k)
           a == m.path * q
<1>3. a \in Nat /\ FirstPage(m) = a * s
  <2> DEFINE p == m.path
  <2>1. p \in Nat /\ q \in Nat /\ s \in Nat
    BY <1>1
  <2> HIDE DEF p, s
  <2>2. p * (q * s) = (p * q) * s /\ p * q \in Nat
    BY <2>1
  <2> QED
    BY <1>1, <1>2, <2>2 DEF p, s
<1> HIDE DEF a
<1>4. a = n.path
  <2>1. a * s <= FirstPage(m) /\ FirstPage(m) < a * s + s
    BY <1>1, <1>3
  <2>2. n.path * s <= FirstPage(m) /\ FirstPage(m) < n.path * s + s
    BY <1>1 DEF Covers
  <2> QED
    BY <1>1, <1>3, <2>1, <2>2, OneSpan
<1> QED
  BY <1>1, <1>3, <1>4

-----------------------------------------------------------------------------
(* The ends of the tree: the pages and the empty tables. *)

ZeroTable(n) == \A i \in Rows : RAM[n.frame][i] = 0

Ends == Leaves(RAM) \cup {n \in Tables(RAM) : ZeroTable(n)}

\* Where an end of the tree is.
LEMMA EndPlace ==
  ASSUME NEW e \in Ends
  PROVE  \E k \in 0 .. TABLES_DEPTH : /\ e \in Nodes(RAM)[k]
                                      /\ k # TABLES_DEPTH => ZeroTable(e)
<1>1. CASE e \in Leaves(RAM)
  BY <1>1, Sizes DEF Leaves
<1>2. CASE e \in Tables(RAM) /\ ZeroTable(e)
  <2>1. PICK k \in 0 .. TABLES_DEPTH - 1 : e \in Nodes(RAM)[k]
    BY <1>2, IsTable
  <2>2. k \in 0 .. TABLES_DEPTH
    BY Sizes
  <2> QED
    BY <1>2, <2>1, <2>2
<1> QED
  BY <1>1, <1>2 DEF Ends

\* An end that starts below a node is that node, or it is deeper.
LEMMA EndBelow ==
  ASSUME Tree(RAM), NEW k \in 0 .. TABLES_DEPTH, NEW n \in Nodes(RAM)[k],
         NEW e \in Ends, Covers(n, FirstPage(e))
  PROVE  e = n \/ \E j \in 0 .. TABLES_DEPTH : k < j /\ e \in Nodes(RAM)[j]
<1>1. PICK j \in 0 .. TABLES_DEPTH : /\ e \in Nodes(RAM)[j]
                                     /\ j # TABLES_DEPTH => ZeroTable(e)
  BY EndPlace
<1> SUFFICES ASSUME j <= k PROVE e = n
  BY <1>1
<1>2. FirstPage(e) = FirstPage(n)
  BY <1>1, SameStart
<1>3. /\ e.depth = j /\ Span(j) \in Nat \ {0} /\ FirstPage(e) \in Nat /\ FirstPage(n) \in Nat
  BY <1>1, NodePage
<1>4. Covers(e, FirstPage(n))
  BY <1>2, <1>3 DEF Covers
<1>5. j = k
  <2> SUFFICES ASSUME j < k PROVE FALSE
    OBVIOUS
  <2>1. j \in 0 .. TABLES_DEPTH - 1 /\ j # TABLES_DEPTH
    BY Sizes
  <2>2. \E i \in Rows : RAM[e.frame][i] # 0
    BY <1>1, <1>4, <2>1, BelowRow
  <2> QED
    BY <1>1, <2>1, <2>2 DEF ZeroTable
<1>6. Covers(e, FirstPage(e))
  BY <1>3 DEF Covers
<1> QED
  BY <1>1, <1>3, <1>5, <1>6, OneCovers

\* Below a page or an empty table there is no other end.
LEMMA EndAlone ==
  ASSUME Tree(RAM), NEW n \in Ends, NEW e \in Ends, Covers(n, FirstPage(e))
  PROVE  e = n
<1>1. PICK k \in 0 .. TABLES_DEPTH : /\ n \in Nodes(RAM)[k]
                                     /\ k # TABLES_DEPTH => ZeroTable(n)
  BY EndPlace
<1>0. e = n \/ \E j \in 0 .. TABLES_DEPTH : k < j /\ e \in Nodes(RAM)[j]
  BY <1>1, EndBelow
<1> SUFFICES ASSUME NEW j \in 0 .. TABLES_DEPTH, k < j, e \in Nodes(RAM)[j] PROVE FALSE
  BY <1>0
<1>2. k \in 0 .. TABLES_DEPTH - 1 /\ k # TABLES_DEPTH
  BY Sizes
<1>3. \E i \in Rows : RAM[n.frame][i] # 0
  BY <1>1, <1>2, BelowRow
<1> QED
  BY <1>1, <1>2, <1>3 DEF ZeroTable

\* Two ends do not start at the same page.
LEMMA EndsApart ==
  ASSUME Tree(RAM), NEW n \in Ends, NEW e \in Ends, FirstPage(n) = FirstPage(e)
  PROVE  e = n
<1>1. PICK k \in 0 .. TABLES_DEPTH : n \in Nodes(RAM)[k]
  BY EndPlace
<1>2. n.depth = k /\ Span(k) \in Nat \ {0} /\ FirstPage(n) \in Nat
  BY <1>1, NodePage
<1> QED
  BY <1>2, EndAlone DEF Covers

-----------------------------------------------------------------------------
(***************************************************************************)
(* What the search has found when it comes to a page.                      *)
(***************************************************************************)
Distance(n) == cyclical_distance(pageIn, n.path)

Empty == EmptyTables(RAM, last_frame)

Candidates == {n \in Leaves(RAM) : n.frame # last_frame /\ Distance(n) > 0}

Before(nodes, page) == {n \in nodes : FirstPage(n) < page}

FirstOf(nodes, e) == e \in nodes /\ \A m \in nodes : FirstPage(e) <= FirstPage(m)

FarthestOf(nodes, e) ==
  /\ e \in nodes
  /\ \A m \in nodes : \/ Distance(m) < Distance(e)
                      \/ Distance(m) = Distance(e) /\ FirstPage(e) <= FirstPage(m)

FoundNothing(out) ==
  out.MaxDist = 0 /\ out.result_frame = 0 /\ out.result_path = 0 /\ out.prev_frame_add = 0

FoundPage(out, e) ==
  /\ out.MaxDist = Distance(e) /\ out.result_frame = e.frame
  /\ out.result_path = e.path /\ out.prev_frame_add = AddressOf(e)

FoundEmpty(out, e) == out.result_frame = e.frame /\ out.prev_frame_add = AddressOf(e)

\* The results are those of the ends that start before the page: the first empty table,
\* or, when there is none, the farthest page, the first of those at the same distance.
Sees(out, page) ==
  /\ out \in Results
  /\ out.empty_frame =>
       \E e : FirstOf(Before(Empty, page), e) /\ FoundEmpty(out, e)
  /\ ~out.empty_frame =>
       /\ Before(Empty, page) = {}
       /\ Before(Candidates, page) = {} => FoundNothing(out)
       /\ Before(Candidates, page) # {} =>
            \E e : FarthestOf(Before(Candidates, page), e) /\ FoundPage(out, e)

\* While no empty table is found, max_frame is a frame in use, and none below that of a
\* node that starts before the page, or at the page and is not deeper than depth.
Knows(out, page, depth) ==
  ~out.empty_frame =>
    /\ out.max_frame \in InUse(RAM)
    /\ \A m \in All(RAM) :
         FirstPage(m) < page \/ (FirstPage(m) = page /\ m.depth <= depth)
         => m.frame <= out.max_frame

\* When the search is started: the tree is one, and the pages in it are pages.
Searching ==
  /\ Tree(RAM)
  /\ pageIn \in Pages
  /\ \A n \in Leaves(RAM) : n.path \in Pages

\* What the search looks for are ends of the tree.
LEMMA EndsSought ==
  /\ Empty \subseteq Ends /\ Candidates \subseteq Ends
  /\ Ends \subseteq All(RAM)
  /\ Empty \cap Leaves(RAM) = {} \/ ~Tree(RAM)
<1>1. /\ Empty \subseteq Ends /\ Candidates \subseteq Ends /\ Ends \subseteq All(RAM)
      /\ Empty \subseteq Tables(RAM)
  BY DEF Empty, EmptyTables, Candidates, Ends, ZeroTable, All
<1>2. ASSUME Tree(RAM), NEW n \in Tables(RAM), n \in Leaves(RAM) PROVE FALSE
  <2>1. PICK k \in 0 .. TABLES_DEPTH - 1 : n \in Nodes(RAM)[k]
    BY <1>2, IsTable
  <2>2. n \in Nodes(RAM)[TABLES_DEPTH] /\ TABLES_DEPTH \in 0 .. TABLES_DEPTH
        /\ k \in 0 .. TABLES_DEPTH /\ k # TABLES_DEPTH
    BY <1>2, Sizes DEF Leaves
  <2> QED
    BY <1>2, <2>1, <2>2, NodePage
<1> QED
  BY <1>1, <1>2

\* The first page of an end is a number.
LEMMA EndPage ==
  ASSUME Tree(RAM), NEW n \in Ends
  PROVE  FirstPage(n) \in Nat
BY EndsSought, FirstPageNat

\* Once an empty table is found, the rest of the tree changes nothing.
LEMMA SeesOn ==
  ASSUME Tree(RAM), NEW p \in Nat, NEW q \in Nat, p <= q, NEW out, Sees(out, p), out.empty_frame
  PROVE  Sees(out, q)
<1>1. PICK e : FirstOf(Before(Empty, p), e) /\ FoundEmpty(out, e)
  BY DEF Sees
<1>2. e \in Empty /\ FirstPage(e) \in Nat /\ FirstPage(e) < p
  BY <1>1, EndsSought, EndPage DEF FirstOf, Before
<1>3. FirstOf(Before(Empty, q), e)
  <2> SUFFICES ASSUME NEW m \in Before(Empty, q) PROVE FirstPage(e) <= FirstPage(m)
    BY <1>2 DEF FirstOf, Before
  <2>1. m \in Empty /\ FirstPage(m) \in Nat
    BY EndsSought, EndPage DEF Before
  <2>2. CASE FirstPage(m) < p
    BY <1>1, <2>1, <2>2 DEF FirstOf, Before
  <2>3. CASE ~(FirstPage(m) < p)
    BY <1>2, <2>1, <2>3
  <2> QED
    BY <2>2, <2>3
<1> QED
  BY <1>1, <1>3 DEF Sees

\* Where no end starts, the results stay.
LEMMA SeesGap ==
  ASSUME Tree(RAM), NEW p \in Nat, NEW q \in Nat, p <= q, NEW out, Sees(out, p),
         \A e \in Ends : ~(p <= FirstPage(e) /\ FirstPage(e) < q)
  PROVE  Sees(out, q)
<1>1. ASSUME NEW nodes, nodes \subseteq Ends PROVE Before(nodes, q) = Before(nodes, p)
  <2> SUFFICES ASSUME NEW n \in nodes PROVE FirstPage(n) < q <=> FirstPage(n) < p
    BY DEF Before
  <2>1. n \in Ends /\ FirstPage(n) \in Nat
    BY <1>1, EndPage
  <2> QED
    BY <2>1
<1>2. Before(Empty, q) = Before(Empty, p) /\ Before(Candidates, q) = Before(Candidates, p)
  BY <1>1, EndsSought
<1> QED
  BY <1>2 DEF Sees

\* At an end there is one more node before the next page.
LEMMA NextEnd ==
  ASSUME Tree(RAM), NEW n \in Ends, NEW nodes, nodes \subseteq Ends
  PROVE  Before(nodes, FirstPage(n) + Span(n.depth))
         = Before(nodes, FirstPage(n)) \cup (nodes \cap {n})
<1>1. PICK k \in 0 .. TABLES_DEPTH : n \in Nodes(RAM)[k]
  BY EndPlace
<1>2. n.depth = k /\ Span(k) \in Nat \ {0} /\ FirstPage(n) \in Nat
  BY <1>1, NodePage
<1>3. ASSUME NEW m \in nodes
      PROVE  FirstPage(m) < FirstPage(n) + Span(k) <=> FirstPage(m) < FirstPage(n) \/ m = n
  <2>1. m \in Ends /\ FirstPage(m) \in Nat
    BY EndPage
  <2>2. ASSUME FirstPage(m) < FirstPage(n) + Span(k), ~(FirstPage(m) < FirstPage(n))
        PROVE  m = n
    <3>1. Covers(n, FirstPage(m))
      BY <1>2, <2>1, <2>2 DEF Covers
    <3> QED
      BY <2>1, <3>1, EndAlone
  <2>3. ASSUME FirstPage(m) < FirstPage(n) \/ m = n
        PROVE  FirstPage(m) < FirstPage(n) + Span(k)
    BY <1>2, <2>1, <2>3
  <2> QED
    BY <2>2, <2>3
<1> QED
  BY <1>2, <1>3 DEF Before

\* The results do not change with max_frame but for max_frame itself.
LEMMA SeesMaxFrame ==
  ASSUME NEW p, NEW out, Sees(out, p), NEW v \in Int
  PROVE  Sees([out EXCEPT !.max_frame = v], p)
<1> DEFINE new == [out EXCEPT !.max_frame = v]
<1>1. out \in Results
  BY DEF Sees
<1>2. /\ new \in Results /\ new.empty_frame = out.empty_frame /\ new.MaxDist = out.MaxDist
      /\ new.result_frame = out.result_frame /\ new.result_path = out.result_path
      /\ new.prev_frame_add = out.prev_frame_add
  BY <1>1 DEF Results
<1> HIDE DEF new
<1>3. Sees(new, p)
  BY <1>2 DEF Sees, FoundNothing, FoundPage, FoundEmpty
<1> QED
  BY <1>3 DEF new

\* A node of the tree is an argument of the search, its address a word of the RAM.
LEMMA NodeArgument ==
  ASSUME Tree(RAM), NEW k \in 0 .. TABLES_DEPTH, NEW n \in Nodes(RAM)[k]
  PROVE  /\ n \in Places /\ n.frame \in Int /\ n.path \in Int /\ AddressOf(n) \in Int
         /\ ~(n.frame >= NUM_FRAMES)
<1>1. n \in NodesAt(k)
  BY NodeTypes
<1>2. n.parent \in Nat /\ n.row \in Nat /\ n.frame \in 0 .. NUM_FRAMES - 1
      /\ NUM_FRAMES \in Nat /\ PAGE_SIZE \in Nat /\ n.path \in Nat
  BY <1>1, Sizes DEF NodesAt, Frames, Rows
<1>3. n.parent * PAGE_SIZE \in Nat
  BY <1>2, ProductNat
<1>4. n \in Places
  <2>1. Frames \subseteq Int /\ {k} \subseteq Int /\ Nat \subseteq Int
    BY Sizes DEF Frames
  <2> QED
    BY <1>1, <2>1 DEF NodesAt, Places
<1> QED
  BY <1>2, <1>3, <1>4 DEF AddressOf

\* The distance of a page is a number.
LEMMA DistanceNat ==
  ASSUME Searching, NEW n \in Leaves(RAM)
  PROVE  Distance(n) \in Nat
BY Distances, Sizes DEF Searching, Distance

\* A page is taken when it is farther than the farthest before it.
LEMMA FartherPage ==
  ASSUME Searching, NEW n \in Candidates,
         NEW old, old = Before(Candidates, FirstPage(n)),
         NEW e, FarthestOf(old, e)
  PROVE  /\ Distance(n) > Distance(e) => FarthestOf(old \cup {n}, n)
         /\ ~(Distance(n) > Distance(e)) => FarthestOf(old \cup {n}, e)
<1>1. ASSUME NEW m \in old
      PROVE  /\ Distance(m) \in Nat /\ FirstPage(m) \in Nat /\ FirstPage(m) < FirstPage(n)
  BY EndsSought, EndPage, DistanceNat DEF Before, Candidates, Searching
<1>2. Distance(n) \in Nat /\ FirstPage(n) \in Nat
  BY EndsSought, EndPage, DistanceNat DEF Candidates, Searching
<1>3. e \in old /\ \A m \in old : \/ Distance(m) < Distance(e)
                                  \/ Distance(m) = Distance(e) /\ FirstPage(e) <= FirstPage(m)
  BY DEF FarthestOf
<1>4. ASSUME Distance(n) > Distance(e) PROVE FarthestOf(old \cup {n}, n)
  <2>1. ASSUME NEW m \in old PROVE Distance(m) < Distance(n)
    BY <1>1, <1>2, <1>3, <1>4
  <2> QED
    BY <1>2, <2>1 DEF FarthestOf
<1>5. ASSUME ~(Distance(n) > Distance(e)) PROVE FarthestOf(old \cup {n}, e)
  <2>1. \/ Distance(n) < Distance(e)
        \/ Distance(n) = Distance(e) /\ FirstPage(e) <= FirstPage(n)
    BY <1>1, <1>2, <1>3, <1>5
  <2> QED
    BY <1>3, <2>1 DEF FarthestOf
<1> QED
  BY <1>4, <1>5

\* update_distance replaces the four results of a page, or none.
LEMMA Updated ==
  ASSUME NEW k \in 0 .. TABLES_DEPTH, Tree(RAM), NEW n \in Nodes(RAM)[k], NEW out \in Results,
         Distance(n) \in Nat
  PROVE  LET new == update_distance(n, out)
         IN  /\ new \in Results
             /\ new.empty_frame = out.empty_frame /\ new.max_frame = out.max_frame
             /\ IF n.frame # last_frame /\ Distance(n) > out.MaxDist
                  THEN FoundPage(new, n)
                  ELSE new = out
<1> DEFINE found == [out EXCEPT !.MaxDist = Distance(n), !.result_frame = n.frame,
                                !.prev_frame_add = AddressOf(n), !.result_path = n.path]
<1>1. /\ found \in Results /\ found.empty_frame = out.empty_frame
      /\ found.max_frame = out.max_frame /\ FoundPage(found, n)
  <2> DEFINE d == Distance(n)
             a == AddressOf(n)
  <2>1. d \in Int /\ a \in Int /\ n.frame \in Int /\ n.path \in Int
    BY NodeArgument
  <2> HIDE DEF d, a
  <2>2. /\ found \in Results /\ found.empty_frame = out.empty_frame
        /\ found.max_frame = out.max_frame /\ found.MaxDist = d
        /\ found.result_frame = n.frame /\ found.prev_frame_add = a
        /\ found.result_path = n.path
    <3>1. found = [out EXCEPT !.MaxDist = d, !.result_frame = n.frame,
                              !.prev_frame_add = a, !.result_path = n.path]
      BY DEF d, a
    <3> HIDE DEF found
    <3> QED
      BY <2>1, <3>1 DEF Results
  <2> HIDE DEF found
  <2> QED
    BY <2>2 DEF FoundPage, d, a
<1>2. update_distance(n, out)
      = IF n.frame # last_frame /\ Distance(n) > out.MaxDist THEN found ELSE out
  BY DEF update_distance, Distance
<1> HIDE DEF found
<1> QED
  BY <1>1, <1>2

\* The search at a page finds it, if it is farther than those before it.
LEMMA SeesPage ==
  ASSUME Searching, NEW n \in Leaves(RAM), NEW out, Sees(out, FirstPage(n)), ~out.empty_frame
  PROVE  Sees(update_distance(n, out), FirstPage(n) + 1)
<1> DEFINE new == update_distance(n, out)
           old == Before(Candidates, FirstPage(n))
<1>0. Tree(RAM) /\ n \in Ends /\ n \in Nodes(RAM)[TABLES_DEPTH] /\ Distance(n) \in Nat
      /\ TABLES_DEPTH \in 0 .. TABLES_DEPTH
  BY DistanceNat, Sizes DEF Searching, Ends, Leaves
<1>1. n.depth = TABLES_DEPTH /\ Span(n.depth) = 1
  BY <1>0, NodePage, SpanNat
<1>2. Before(Empty, FirstPage(n) + 1) = {}
  <2>1. Before(Empty, FirstPage(n) + 1) = Before(Empty, FirstPage(n)) \cup (Empty \cap {n})
    BY <1>0, <1>1, EndsSought, NextEnd
  <2>2. n \notin Empty
    BY <1>0, EndsSought
  <2>3. Before(Empty, FirstPage(n)) = {}
    BY DEF Sees
  <2> QED
    BY <2>1, <2>2, <2>3
<1>3. Before(Candidates, FirstPage(n) + 1) = old \cup (Candidates \cap {n})
  BY <1>0, <1>1, EndsSought, NextEnd
<1>4. /\ out \in Results /\ (old = {} => FoundNothing(out))
      /\ old # {} => \E e : FarthestOf(old, e) /\ FoundPage(out, e)
  BY DEF Sees
<1>5. /\ new \in Results /\ new.empty_frame = out.empty_frame
      /\ IF n.frame # last_frame /\ Distance(n) > out.MaxDist
           THEN FoundPage(new, n)
           ELSE new = out
  BY <1>0, <1>4, Updated
<1> HIDE DEF new, old
<1>6. CASE n \notin Candidates
  <2>1. n.frame = last_frame \/ Distance(n) = 0
    BY <1>0, <1>6 DEF Candidates
  <2>2. out.MaxDist \in Nat
    <3>1. CASE old = {}
      BY <1>4, <3>1 DEF FoundNothing
    <3>2. CASE old # {}
      <4>1. PICK e : FarthestOf(old, e) /\ FoundPage(out, e)
        BY <1>4, <3>2
      <4>2. e \in Leaves(RAM)
        BY <4>1 DEF FarthestOf, old, Before, Candidates
      <4> QED
        BY <4>1, <4>2, DistanceNat DEF FoundPage
    <3> QED
      BY <3>1, <3>2
  <2>3. ~(n.frame # last_frame /\ Distance(n) > out.MaxDist)
    BY <2>1, <2>2
  <2>4. new = out
    BY <1>5, <2>3
  <2>5. Before(Candidates, FirstPage(n) + 1) = old
    BY <1>3, <1>6
  <2> QED
    BY <1>2, <1>4, <2>4, <2>5 DEF Sees, new
<1>7. CASE n \in Candidates
  <2>1. n.frame # last_frame /\ Distance(n) > 0
    BY <1>7 DEF Candidates
  <2>2. Before(Candidates, FirstPage(n) + 1) = old \cup {n}
    BY <1>3, <1>7
  <2>3. \E e : FarthestOf(old \cup {n}, e) /\ FoundPage(new, e)
    <3>1. CASE old = {}
      <4>1. FoundPage(new, n)
        BY <1>4, <1>5, <2>1, <3>1 DEF FoundNothing
      <4>2. FarthestOf({n}, n)
        BY <1>0, EndPage DEF FarthestOf
      <4> QED
        BY <3>1, <4>1, <4>2
    <3>2. CASE old # {}
      <4>1. PICK e : FarthestOf(old, e) /\ FoundPage(out, e)
        BY <1>4, <3>2
      <4>2. /\ Distance(n) > Distance(e) => FarthestOf(old \cup {n}, n)
            /\ ~(Distance(n) > Distance(e)) => FarthestOf(old \cup {n}, e)
        BY <1>7, <4>1, FartherPage DEF old
      <4>3. out.MaxDist = Distance(e)
        BY <4>1 DEF FoundPage
      <4>4. CASE Distance(n) > Distance(e)
        <5>1. FoundPage(new, n)
          BY <1>5, <2>1, <4>3, <4>4
        <5> QED
          BY <4>2, <4>4, <5>1
      <4>5. CASE ~(Distance(n) > Distance(e))
        <5>1. new = out
          BY <1>5, <4>3, <4>5
        <5> QED
          BY <4>1, <4>2, <4>5, <5>1
      <4> QED
        BY <4>4, <4>5
    <3> QED
      BY <3>1, <3>2
  <2> QED
    BY <1>2, <1>5, <2>2, <2>3 DEF Sees, new
<1> QED
  BY <1>6, <1>7

\* The search at a page has seen all nodes that start at it.
LEMMA KnowsPage ==
  ASSUME Tree(RAM), NEW n \in Leaves(RAM), NEW out, Knows(out, FirstPage(n), TABLES_DEPTH),
         NEW new, new.empty_frame = out.empty_frame, new.max_frame = out.max_frame
  PROVE  Knows(new, FirstPage(n) + 1, -1)
<1> SUFFICES ASSUME ~out.empty_frame, NEW m \in All(RAM),
                    \/ FirstPage(m) < FirstPage(n) + 1
                    \/ FirstPage(m) = FirstPage(n) + 1 /\ m.depth <= -1
             PROVE  m.frame <= out.max_frame
  BY DEF Knows
<1>1. PICK j \in 0 .. TABLES_DEPTH : m \in Nodes(RAM)[j]
  BY IsNode
<1>2. m.depth = j /\ FirstPage(m) \in Nat
  BY <1>1, NodePage
<1>3. FirstPage(n) \in Nat
  BY FirstPageNat DEF All
<1>4. \/ FirstPage(m) < FirstPage(n)
      \/ FirstPage(m) = FirstPage(n) /\ m.depth <= TABLES_DEPTH
  BY <1>2, <1>3, Sizes
<1> QED
  BY <1>4 DEF Knows

\* The first row of a table starts where the table does, the next row after the last one
\* where the table ends.
LEMMA RowEnds ==
  ASSUME Tree(RAM), NEW k \in 0 .. TABLES_DEPTH - 1, NEW n \in Nodes(RAM)[k]
  PROVE  /\ RowPage(n, 0) = FirstPage(n)
         /\ RowPage(n, PAGE_SIZE) = FirstPage(n) + Span(k)
<1>0. k \in 0 .. TABLES_DEPTH /\ k + 1 \in 0 .. TABLES_DEPTH
  BY Sizes
<1>1. /\ n.depth = k /\ FirstPage(n) \in Nat /\ Span(k + 1) \in Nat
      /\ Span(k) = PAGE_SIZE * Span(k + 1)
  BY <1>0, NodePage, SpanStep, SpanNat
<1>2. 0 * Span(k + 1) = 0
  BY <1>1
<1> QED
  BY <1>1, <1>2 DEF RowPage

\* What a row of a table covers, the table covers.
LEMMA InRow ==
  ASSUME Tree(RAM), NEW k \in 0 .. TABLES_DEPTH - 1, NEW n \in Nodes(RAM)[k], NEW i \in Rows,
         NEW page \in Nat, RowPage(n, i) <= page, page < RowPage(n, i + 1)
  PROVE  Covers(n, page)
<1>0. k \in 0 .. TABLES_DEPTH /\ k + 1 \in 0 .. TABLES_DEPTH
  BY Sizes
<1>1. /\ n.depth = k /\ FirstPage(n) \in Nat /\ Span(k + 1) \in Nat /\ Span(k) \in Nat
  BY <1>0, NodePage, SpanNat
<1>2. /\ RowPage(n, i) \in Nat /\ FirstPage(n) <= RowPage(n, i)
      /\ RowPage(n, i + 1) = RowPage(n, i) + Span(k + 1)
      /\ RowPage(n, i + 1) <= FirstPage(n) + Span(k)
  BY RowCovers
<1> QED
  BY <1>1, <1>2 DEF Covers

\* Nothing deeper than a table is below a row of it that is zero.
LEMMA ZeroRow ==
  ASSUME Tree(RAM), NEW k \in 0 .. TABLES_DEPTH - 1, NEW n \in Nodes(RAM)[k], NEW i \in Rows,
         RAM[n.frame][i] = 0, NEW j \in 0 .. TABLES_DEPTH, k < j, NEW m \in Nodes(RAM)[j],
         RowPage(n, i) <= FirstPage(m), FirstPage(m) < RowPage(n, i + 1)
  PROVE  FALSE
<1>1. FirstPage(m) \in Nat
  BY NodePage
<1>2. Covers(n, FirstPage(m))
  BY <1>1, InRow
<1>3. PICK r \in Rows : /\ RAM[n.frame][r] # 0
                        /\ RowPage(n, r) <= FirstPage(m) /\ FirstPage(m) < RowPage(n, r + 1)
  BY <1>2, BelowRow
<1>4. r = i
  BY <1>1, <1>3, RowsApart
<1> QED
  BY <1>3, <1>4

\* The depth to which the nodes that start at a row are known when the loop comes to it.
RowDepth(k, i) == IF i = 0 THEN k ELSE -1

\* A row that is zero adds no node.
LEMMA KnowsZeroRow ==
  ASSUME Tree(RAM), NEW k \in 0 .. TABLES_DEPTH - 1, NEW n \in Nodes(RAM)[k], NEW i \in Rows,
         RAM[n.frame][i] = 0, NEW out, Knows(out, RowPage(n, i), RowDepth(k, i))
  PROVE  Knows(out, RowPage(n, i + 1), -1)
<1> SUFFICES ASSUME ~out.empty_frame, NEW m \in All(RAM),
                    \/ FirstPage(m) < RowPage(n, i + 1)
                    \/ FirstPage(m) = RowPage(n, i + 1) /\ m.depth <= -1
             PROVE  m.frame <= out.max_frame
  BY DEF Knows
<1>1. PICK j \in 0 .. TABLES_DEPTH : m \in Nodes(RAM)[j]
  BY IsNode
<1>2. m.depth = j /\ FirstPage(m) \in Nat /\ k \in 0 .. TABLES_DEPTH
  BY <1>1, NodePage, Sizes
<1>3. FirstPage(m) < RowPage(n, i + 1)
  BY <1>2
<1>4. /\ RowPage(n, i) \in Nat /\ FirstPage(n) \in Nat
      /\ i # 0 => FirstPage(n) < RowPage(n, i)
  BY <1>2, NodePage, RowCovers
<1>5. CASE FirstPage(m) < RowPage(n, i)
  BY <1>5 DEF Knows
<1>6. CASE ~(FirstPage(m) < RowPage(n, i))
  <2>1. RowPage(n, i) <= FirstPage(m)
    BY <1>2, <1>4, <1>6
  <2>2. j <= k
    BY <1>1, <1>3, <2>1, ZeroRow
  <2>3. Covers(n, FirstPage(m))
    BY <1>2, <1>3, <2>1, InRow
  <2>4. FirstPage(m) = FirstPage(n)
    BY <1>1, <1>2, <2>2, <2>3, SameStart
  <2>5. i = 0
    BY <1>4, <2>1, <2>4
  <2>6. FirstPage(m) = RowPage(n, i) /\ m.depth <= RowDepth(k, i)
    BY <1>2, <2>2, <2>4, <2>5, RowEnds DEF RowDepth
  <2> QED
    BY <2>6 DEF Knows
<1> QED
  BY <1>5, <1>6

\* A row that is zero adds no end, but in a table of zeros.
LEMMA SeesZeroRow ==
  ASSUME Tree(RAM), NEW k \in 0 .. TABLES_DEPTH - 1, NEW n \in Nodes(RAM)[k], ~ZeroTable(n),
         NEW i \in Rows, RAM[n.frame][i] = 0, NEW out, Sees(out, RowPage(n, i))
  PROVE  Sees(out, RowPage(n, i + 1))
<1>0. k \in 0 .. TABLES_DEPTH /\ k + 1 \in 0 .. TABLES_DEPTH
  BY Sizes
<1>1. /\ RowPage(n, i) \in Nat /\ RowPage(n, i + 1) \in Nat
      /\ RowPage(n, i) <= RowPage(n, i + 1)
  BY <1>0, RowCovers, SpanNat
<1>2. n \notin Ends
  <2> SUFFICES ASSUME n \in Ends PROVE FALSE
    OBVIOUS
  <2>1. PICK j \in 0 .. TABLES_DEPTH : /\ n \in Nodes(RAM)[j]
                                       /\ j # TABLES_DEPTH => ZeroTable(n)
    BY EndPlace
  <2>2. j = k
    BY <1>0, <2>1, NodePage
  <2> QED
    BY <2>1, <2>2, Sizes
<1>3. ASSUME NEW e \in Ends, RowPage(n, i) <= FirstPage(e), FirstPage(e) < RowPage(n, i + 1)
      PROVE  FALSE
  <2>1. FirstPage(e) \in Nat
    BY EndPage
  <2>2. Covers(n, FirstPage(e))
    BY <1>3, <2>1, InRow
  <2>3. e = n \/ \E j \in 0 .. TABLES_DEPTH : k < j /\ e \in Nodes(RAM)[j]
    BY <1>0, <2>2, EndBelow
  <2>4. PICK j \in 0 .. TABLES_DEPTH : k < j /\ e \in Nodes(RAM)[j]
    BY <1>2, <2>3
  <2> QED
    BY <1>3, <2>4, ZeroRow
<1> QED
  BY <1>1, <1>3, SeesGap

\* The loop takes max_frame over the child before it goes down to it.
LEMMA KnowsChild ==
  ASSUME Tree(RAM), NEW k \in 0 .. TABLES_DEPTH - 1, NEW n \in Nodes(RAM)[k], NEW i \in Rows,
         RAM[n.frame][i] # 0, NEW out \in Results, Knows(out, RowPage(n, i), RowDepth(k, i)),
         NEW c, c = Child(RAM, n, i),
         NEW new, new.empty_frame = out.empty_frame,
         new.max_frame = IF c.frame > out.max_frame THEN c.frame ELSE out.max_frame
  PROVE  Knows(new, FirstPage(c), k + 1)
<1>0. k \in 0 .. TABLES_DEPTH /\ k + 1 \in 0 .. TABLES_DEPTH
  BY Sizes
<1>1. c \in Nodes(RAM)[k + 1]
  BY HasChild
<1>2. /\ RowPage(n, i) \in Nat /\ FirstPage(n) \in Nat /\ FirstPage(c) = RowPage(n, i)
      /\ i # 0 => FirstPage(n) < RowPage(n, i)
      /\ RowPage(n, i + 1) = RowPage(n, i) + Span(k + 1)
      /\ c.depth = k + 1 /\ c.frame \in Frames /\ c \in All(RAM) /\ Span(k + 1) \in Nat \ {0}
  BY <1>0, <1>1, NodePage, RowCovers
<1> SUFFICES ASSUME ~out.empty_frame
             PROVE  /\ new.max_frame \in InUse(RAM)
                    /\ \A m \in All(RAM) :
                         FirstPage(m) < FirstPage(c)
                         \/ (FirstPage(m) = FirstPage(c) /\ m.depth <= k + 1)
                         => m.frame <= new.max_frame
  BY DEF Knows
<1>3. out.max_frame \in InUse(RAM) /\ out.max_frame \in Int /\ c.frame \in Int
  BY <1>2, Sizes DEF Knows, Results, Frames
<1>4. new.max_frame \in InUse(RAM) /\ new.max_frame \in Int
  BY <1>2, <1>3 DEF InUse
<1>5. new.max_frame >= out.max_frame /\ new.max_frame >= c.frame
  BY <1>3
<1>6. ASSUME NEW m \in All(RAM),
             \/ FirstPage(m) < FirstPage(c)
             \/ FirstPage(m) = FirstPage(c) /\ m.depth <= k + 1
      PROVE  m.frame <= new.max_frame
  <2>1. PICK j \in 0 .. TABLES_DEPTH : m \in Nodes(RAM)[j]
    BY IsNode
  <2>2. m.depth = j /\ FirstPage(m) \in Nat /\ m.frame \in Int
    BY <2>1, NodePage, Sizes DEF Frames
  <2>3. CASE m = c
    BY <1>5, <2>3
  <2>4. CASE m # c
    <3>1. \/ FirstPage(m) < RowPage(n, i)
          \/ FirstPage(m) = RowPage(n, i) /\ m.depth <= RowDepth(k, i)
      <4> SUFFICES ASSUME FirstPage(m) = RowPage(n, i), j <= k + 1
                   PROVE  m.depth <= RowDepth(k, i)
        BY <1>2, <1>6, <2>2
      <4>1. j <= k
        <5> SUFFICES ASSUME j = k + 1 PROVE FALSE
          OBVIOUS
        <5>1. Covers(c, FirstPage(m)) /\ Covers(m, FirstPage(m))
          BY <1>2, <2>2 DEF Covers
        <5> QED
          BY <1>0, <1>1, <2>1, <2>2, <2>4, <5>1, OneCovers
      <4>2. Covers(n, FirstPage(m))
        BY <1>2, <2>2, InRow
      <4>3. FirstPage(m) = FirstPage(n)
        BY <1>0, <2>1, <4>1, <4>2, SameStart
      <4>4. i = 0
        BY <1>2, <4>3
      <4> QED
        BY <2>2, <4>1, <4>4 DEF RowDepth
    <3>2. m.frame <= out.max_frame
      BY <3>1 DEF Knows
    <3> QED
      BY <1>3, <1>4, <1>5, <2>2, <3>2
  <2> QED
    BY <2>3, <2>4
<1> QED
  BY <1>4, <1>6

-----------------------------------------------------------------------------
(***************************************************************************)
(* The search.                                                             *)
(***************************************************************************)

\* A call of search_frame takes the results from the first page below its node to the
\* page after the last.
SearchesLevel(k) ==
  \A n \in Nodes(RAM)[k] : \A out :
    Sees(out, FirstPage(n)) /\ Knows(out, FirstPage(n), k) =>
      LET found == search_frame[TABLES_DEPTH - k][n][out]
      IN  /\ Sees(found, FirstPage(n) + Span(k))
          /\ Knows(found, FirstPage(n) + Span(k), -1)

\* With an empty table in hand, search_frame returns at once.
LEMMA SearchSkips ==
  ASSUME Searching, NEW k \in 0 .. TABLES_DEPTH, NEW n \in Nodes(RAM)[k], NEW out,
         Sees(out, FirstPage(n)), out.empty_frame
  PROVE  /\ Sees(out, FirstPage(n) + Span(k))
         /\ Knows(out, FirstPage(n) + Span(k), -1)
<1>1. FirstPage(n) \in Nat /\ Span(k) \in Nat /\ Tree(RAM)
  BY NodePage DEF Searching
<1>2. FirstPage(n) + Span(k) \in Nat /\ FirstPage(n) <= FirstPage(n) + Span(k)
  BY <1>1
<1>3. Sees(out, FirstPage(n) + Span(k))
  BY <1>1, <1>2, SeesOn
<1> QED
  BY <1>3 DEF Knows

\* The search at a page.
LEMMA SearchesPages == Searching => SearchesLevel(TABLES_DEPTH)
<1> SUFFICES ASSUME Searching, NEW n \in Nodes(RAM)[TABLES_DEPTH], NEW out,
                    Sees(out, FirstPage(n)), Knows(out, FirstPage(n), TABLES_DEPTH)
             PROVE  LET found == search_frame[TABLES_DEPTH - TABLES_DEPTH][n][out]
                    IN  /\ Sees(found, FirstPage(n) + Span(TABLES_DEPTH))
                        /\ Knows(found, FirstPage(n) + Span(TABLES_DEPTH), -1)
  BY DEF SearchesLevel
<1> DEFINE found == search_frame[TABLES_DEPTH - TABLES_DEPTH][n][out]
<1>0. /\ Tree(RAM) /\ n \in Leaves(RAM) /\ TABLES_DEPTH \in 0 .. TABLES_DEPTH
      /\ TABLES_DEPTH - TABLES_DEPTH = 0 /\ out \in Results
  BY Sizes DEF Searching, Leaves, Sees
<1>1. n \in Places /\ ~(n.frame >= NUM_FRAMES)
  BY <1>0, NodeArgument
<1>2. found = IF out.empty_frame THEN out ELSE update_distance(n, out)
  BY <1>0, <1>1, SearchUnfold, AtPage
<1> HIDE DEF found
<1>3. CASE out.empty_frame
  BY <1>0, <1>2, <1>3, SearchSkips DEF found
<1>4. CASE ~out.empty_frame
  <2>1. Sees(found, FirstPage(n) + 1)
    BY <1>0, <1>2, <1>4, SeesPage
  <2>2. Distance(n) \in Nat
    BY <1>0, DistanceNat
  <2>3. found.empty_frame = out.empty_frame /\ found.max_frame = out.max_frame
    BY <1>0, <1>2, <1>4, <2>2, Updated
  <2>4. Knows(found, FirstPage(n) + 1, -1)
    BY <1>0, <2>3, KnowsPage
  <2> QED
    BY <2>1, <2>4, SpanNat DEF found
<1> QED
  BY <1>3, <1>4

\* What holds of the results after i rows of a table.
AfterRows(k, n, out, o, i) ==
  /\ o \in Results
  /\ Knows(o, RowPage(n, i), RowDepth(k, i))
  /\ IF ZeroTable(n) THEN o = out ELSE Sees(o, RowPage(n, i))

\* A row of the loop.
LEMMA NextRow ==
  ASSUME Searching, NEW k \in 0 .. TABLES_DEPTH - 1, SearchesLevel(k + 1),
         NEW n \in Nodes(RAM)[k], NEW out, NEW o, NEW i \in Rows, AfterRows(k, n, out, o, i),
         NEW below, below = search_frame[TABLES_DEPTH - (k + 1)]
  PROVE  AfterRows(k, n, out, AfterRow(n, below, i, o), i + 1)
<1> DEFINE c    == Child(RAM, n, i)
           new  == [o EXCEPT !.max_frame = IF c.frame > @ THEN c.frame ELSE @]
           then == AfterRow(n, below, i, o)
<1>0. /\ Tree(RAM) /\ k \in 0 .. TABLES_DEPTH /\ k + 1 \in 0 .. TABLES_DEPTH
      /\ c.frame = RAM[n.frame][i] /\ RowDepth(k, i + 1) = -1 /\ o \in Results
  BY Sizes DEF Searching, Child, RowDepth, Rows, AfterRows
<1>1. CASE RAM[n.frame][i] = 0
  <2>1. then = o
    BY <1>0, <1>1 DEF AfterRow
  <2>2. Knows(o, RowPage(n, i + 1), -1)
    BY <1>0, <1>1, KnowsZeroRow DEF AfterRows
  <2>3. ~ZeroTable(n) => Sees(o, RowPage(n, i + 1))
    BY <1>0, <1>1, SeesZeroRow DEF AfterRows
  <2> HIDE DEF then
  <2> QED
    BY <1>0, <2>1, <2>2, <2>3 DEF AfterRows, then
<1>2. CASE RAM[n.frame][i] # 0
  <2>1. then = below[c][new]
    BY <1>0, <1>2 DEF AfterRow
  <2>2. ~ZeroTable(n)
    BY <1>2 DEF ZeroTable
  <2>3. c \in Nodes(RAM)[k + 1]
    BY <1>0, <1>2, HasChild
  <2>4. /\ FirstPage(c) = RowPage(n, i)
        /\ RowPage(n, i + 1) = FirstPage(c) + Span(k + 1)
    BY <1>0, <1>2, RowCovers
  <2>5. c.frame \in Int
    BY <1>0, <2>3, NodeArgument
  <2> DEFINE v == IF c.frame > o.max_frame THEN c.frame ELSE o.max_frame
  <2>6. v \in Int /\ new = [o EXCEPT !.max_frame = v]
    BY <1>0, <2>5 DEF Results
  <2>7. new.empty_frame = o.empty_frame /\ new.max_frame = v
    <3> HIDE DEF new, v, c
    <3> QED
      BY <1>0, <2>6 DEF Results
  <2>8. Sees(new, FirstPage(c))
    <3>1. Sees(o, FirstPage(c))
      BY <2>2, <2>4 DEF AfterRows
    <3> HIDE DEF new, v, c
    <3> QED
      BY <2>6, <3>1, SeesMaxFrame
  <2>9. Knows(new, FirstPage(c), k + 1)
    <3>1. Knows(o, RowPage(n, i), RowDepth(k, i))
      BY DEF AfterRows
    <3> HIDE DEF new
    <3> QED
      BY <1>0, <1>2, <2>7, <3>1, KnowsChild
  <2> HIDE DEF new, v, c, then
  <2>10. Sees(then, FirstPage(c) + Span(k + 1)) /\ Knows(then, FirstPage(c) + Span(k + 1), -1)
    BY <2>1, <2>3, <2>8, <2>9 DEF SearchesLevel
  <2>11. then \in Results
    BY <2>10 DEF Sees
  <2> QED
    BY <1>0, <2>2, <2>4, <2>10, <2>11 DEF AfterRows, then
<1> QED
  BY <1>1, <1>2

\* The loop over the rows of a table.
LEMMA AllRows ==
  ASSUME Searching, NEW k \in 0 .. TABLES_DEPTH - 1, SearchesLevel(k + 1),
         NEW n \in Nodes(RAM)[k], NEW out, AfterRows(k, n, out, out, 0),
         NEW below, below = search_frame[TABLES_DEPTH - (k + 1)]
  PROVE  AfterRows(k, n, out, search_rows(n, below, out)[PAGE_SIZE], PAGE_SIZE)
<1> DEFINE after == search_rows(n, below, out)
           S == {i \in Nat : i <= PAGE_SIZE => AfterRows(k, n, out, after[i], i)}
<1>1. 0 \in S
  BY RowsUnfold
<1>2. ASSUME NEW i \in Nat, i \in S PROVE i + 1 \in S
  <2> SUFFICES ASSUME i + 1 <= PAGE_SIZE PROVE AfterRows(k, n, out, after[i + 1], i + 1)
    OBVIOUS
  <2>1. i \in Rows /\ i <= PAGE_SIZE
    BY Sizes DEF Rows
  <2>2. AfterRows(k, n, out, after[i], i)
    BY <1>2, <2>1
  <2>3. after[i + 1] = AfterRow(n, below, i, after[i])
    BY <2>1, RowsUnfold
  <2> HIDE DEF after
  <2> QED
    BY <2>1, <2>2, <2>3, NextRow
<1>3. PAGE_SIZE \in S
  <2> HIDE DEF S
  <2> QED
    BY <1>1, <1>2, Induction, Sizes
<1> QED
  BY <1>3, Sizes

\* The search at an empty table finds it, unless the walk stands on it.
LEMMA SeesZeroTable ==
  ASSUME Searching, NEW k \in 0 .. TABLES_DEPTH - 1, NEW n \in Nodes(RAM)[k], ZeroTable(n),
         NEW out, Sees(out, FirstPage(n)), ~out.empty_frame,
         NEW new,
         new = IF n.frame # last_frame
                 THEN [out EXCEPT !.empty_frame = TRUE, !.prev_frame_add = AddressOf(n),
                                  !.result_frame = n.frame]
                 ELSE out
  PROVE  Sees(new, FirstPage(n) + Span(k))
<1>0. /\ Tree(RAM) /\ k \in 0 .. TABLES_DEPTH /\ k # TABLES_DEPTH /\ out \in Results
      /\ Before(Empty, FirstPage(n)) = {}
  BY Sizes DEF Searching, Sees
<1>1. n \in Tables(RAM) /\ n \in Ends /\ n.depth = k /\ FirstPage(n) \in Nat
      /\ n.frame \in Int /\ AddressOf(n) \in Int
  BY <1>0, IsTable, NodePage, NodeArgument DEF Ends
<1>2. /\ Before(Empty, FirstPage(n) + Span(k)) = Empty \cap {n}
      /\ Before(Candidates, FirstPage(n) + Span(k))
         = Before(Candidates, FirstPage(n)) \cup (Candidates \cap {n})
  <2>1. Empty \subseteq Ends /\ Candidates \subseteq Ends
    BY EndsSought
  <2>2. Before(Empty, FirstPage(n) + Span(k))
        = Before(Empty, FirstPage(n)) \cup (Empty \cap {n})
    BY <1>0, <1>1, <2>1, NextEnd
  <2>3. Before(Candidates, FirstPage(n) + Span(k))
        = Before(Candidates, FirstPage(n)) \cup (Candidates \cap {n})
    BY <1>0, <1>1, <2>1, NextEnd
  <2> QED
    BY <1>0, <2>2, <2>3
<1>3. CASE n.frame # last_frame
  <2>1. n \in Empty
    BY <1>1, <1>3 DEF Empty, EmptyTables, ZeroTable
  <2>2. FirstOf(Before(Empty, FirstPage(n) + Span(k)), n)
    BY <1>1, <1>2, <2>1 DEF FirstOf
  <2> DEFINE a == AddressOf(n)
  <2>3. a \in Int /\ new = [out EXCEPT !.empty_frame = TRUE, !.prev_frame_add = a,
                                       !.result_frame = n.frame]
    BY <1>1, <1>3
  <2> HIDE DEF a
  <2>4. /\ new \in Results /\ new.empty_frame = TRUE /\ new.prev_frame_add = a
        /\ new.result_frame = n.frame
    BY <1>0, <1>1, <2>3 DEF Results
  <2> QED
    BY <2>2, <2>4 DEF Sees, FoundEmpty, a
<1>4. CASE n.frame = last_frame
  <2>1. n \notin Empty
    BY <1>4 DEF Empty, EmptyTables
  <2>2. n \notin Candidates
    BY <1>4 DEF Candidates
  <2>3. /\ Before(Empty, FirstPage(n) + Span(k)) = Before(Empty, FirstPage(n))
        /\ Before(Candidates, FirstPage(n) + Span(k)) = Before(Candidates, FirstPage(n))
    BY <1>0, <1>2, <2>1, <2>2
  <2>4. new = out
    BY <1>4
  <2> QED
    BY <2>3, <2>4 DEF Sees
<1> QED
  BY <1>3, <1>4

\* The search at a table, when that of the level below is right.
LEMMA SearchesTables ==
  ASSUME Searching, NEW k \in 0 .. TABLES_DEPTH - 1, SearchesLevel(k + 1)
  PROVE  SearchesLevel(k)
<1> DEFINE below == search_frame[TABLES_DEPTH - (k + 1)]
<1> SUFFICES ASSUME NEW n \in Nodes(RAM)[k], NEW out,
                    Sees(out, FirstPage(n)), Knows(out, FirstPage(n), k)
             PROVE  LET found == search_frame[TABLES_DEPTH - k][n][out]
                    IN  /\ Sees(found, FirstPage(n) + Span(k))
                        /\ Knows(found, FirstPage(n) + Span(k), -1)
  BY DEF SearchesLevel
<1> DEFINE found == search_frame[TABLES_DEPTH - k][n][out]
           after == search_rows(n, below, out)[PAGE_SIZE]
           taken == [out EXCEPT !.empty_frame = TRUE, !.prev_frame_add = AddressOf(n),
                                !.result_frame = n.frame]
<1>0. /\ Tree(RAM) /\ k \in 0 .. TABLES_DEPTH /\ out \in Results
      /\ TABLES_DEPTH - (k + 1) \in 0 .. TABLES_DEPTH - 1
      /\ (TABLES_DEPTH - (k + 1)) + 1 = TABLES_DEPTH - k
  BY Sizes DEF Searching, Sees
<1>1. n \in Places /\ ~(n.frame >= NUM_FRAMES)
  BY <1>0, NodeArgument
<1>2. search_frame[TABLES_DEPTH - k] = search_table(below)
  BY <1>0, SearchUnfold
<1>3. found = IF out.empty_frame THEN out
              ELSE IF n.frame # last_frame /\ ZeroTable(n)
                THEN [after EXCEPT !.empty_frame = TRUE, !.prev_frame_add = AddressOf(n),
                                   !.result_frame = n.frame]
                ELSE after
  <2> HIDE DEF below
  <2>1. found = search_table(below)[n][out]
    BY <1>2
  <2>2. search_table(below)[n][out]
        = IF out.empty_frame \/ n.frame >= NUM_FRAMES THEN out
          ELSE LET a == search_rows(n, below, out)[PAGE_SIZE]
               IN  IF n.frame # last_frame /\ \A i \in Rows : RAM[n.frame][i] = 0
                     THEN [a EXCEPT !.empty_frame = TRUE, !.prev_frame_add = AddressOf(n),
                                    !.result_frame = n.frame]
                     ELSE a
    <3>1. n \in Places /\ out \in Results
      BY <1>0, <1>1
    <3> QED
      BY <3>1, AtTable
  <2> HIDE DEF found, after
  <2>3. CASE out.empty_frame
    BY <2>1, <2>2, <2>3
  <2>4. CASE ~out.empty_frame
    <3>1. found = IF n.frame # last_frame /\ \A i \in Rows : RAM[n.frame][i] = 0
                    THEN [after EXCEPT !.empty_frame = TRUE, !.prev_frame_add = AddressOf(n),
                                       !.result_frame = n.frame]
                    ELSE after
      BY <1>1, <2>1, <2>2, <2>4 DEF after
    <3> QED
      BY <2>4, <3>1 DEF ZeroTable
  <2> QED
    BY <2>3, <2>4
<1>4. AfterRows(k, n, out, out, 0)
  BY <1>0, RowEnds DEF AfterRows, RowDepth
<1>5. AfterRows(k, n, out, after, PAGE_SIZE)
  BY <1>4, AllRows
<1>6. /\ RowPage(n, PAGE_SIZE) = FirstPage(n) + Span(k)
      /\ RowDepth(k, PAGE_SIZE) = -1
  BY <1>0, RowEnds, Sizes DEF RowDepth
<1>7. /\ Knows(after, FirstPage(n) + Span(k), -1)
      /\ ZeroTable(n) => after = out
      /\ ~ZeroTable(n) => Sees(after, FirstPage(n) + Span(k))
  BY <1>5, <1>6 DEF AfterRows
<1> HIDE DEF found, after
<1>8. CASE out.empty_frame
  BY <1>0, <1>3, <1>8, SearchSkips DEF found
<1>9. CASE ~out.empty_frame /\ ~ZeroTable(n)
  BY <1>3, <1>7, <1>9 DEF found
<1>10. CASE ~out.empty_frame /\ ZeroTable(n)
  <2>1. found = IF n.frame # last_frame THEN taken ELSE out
    BY <1>3, <1>7, <1>10
  <2>2. Sees(found, FirstPage(n) + Span(k))
    BY <1>10, <2>1, SeesZeroTable
  <2>3. Knows(found, FirstPage(n) + Span(k), -1)
    <3>1. CASE n.frame # last_frame
      <4>1. found.empty_frame
        BY <1>0, <2>1, <3>1 DEF Results
      <4> QED
        BY <4>1 DEF Knows
    <3>2. CASE n.frame = last_frame
      BY <1>7, <1>10, <2>1, <3>2
    <3> QED
      BY <3>1, <3>2
  <2> QED
    BY <2>2, <2>3 DEF found
<1> QED
  BY <1>8, <1>9, <1>10

\* The search is right at every level.
LEMMA SearchesAll == Searching => SearchesLevel(0)
<1> SUFFICES ASSUME Searching PROVE SearchesLevel(0)
  OBVIOUS
<1> DEFINE S == {i \in Nat : i <= TABLES_DEPTH => SearchesLevel(TABLES_DEPTH - i)}
<1>1. 0 \in S
  <2>1. TABLES_DEPTH - 0 = TABLES_DEPTH
    BY Sizes
  <2> QED
    BY <2>1, SearchesPages
<1>2. ASSUME NEW i \in Nat, i \in S PROVE i + 1 \in S
  <2> SUFFICES ASSUME i + 1 <= TABLES_DEPTH PROVE SearchesLevel(TABLES_DEPTH - (i + 1))
    OBVIOUS
  <2> DEFINE k == TABLES_DEPTH - (i + 1)
  <2>1. k \in 0 .. TABLES_DEPTH - 1 /\ k + 1 = TABLES_DEPTH - i /\ i <= TABLES_DEPTH
    BY Sizes
  <2>2. SearchesLevel(TABLES_DEPTH - i)
    BY <1>2, <2>1
  <2> HIDE DEF k
  <2>3. SearchesLevel(k)
    BY <2>1, <2>2, SearchesTables
  <2> QED
    BY <2>3 DEF k
<1>3. TABLES_DEPTH \in S
  <2> HIDE DEF S
  <2> QED
    BY <1>1, <1>2, Induction, Sizes
<1>4. TABLES_DEPTH - TABLES_DEPTH = 0
  BY Sizes
<1> QED
  BY <1>3, <1>4, Sizes

\* Before the search nothing is found; after it, all there is.
LEMMA WholeSearch ==
  ASSUME Searching
  PROVE  LET found == search_frame[TABLES_DEPTH][Root][Nothing]
         IN  /\ Sees(found, Span(0)) /\ Knows(found, Span(0), -1)
             /\ \A m \in All(RAM) : FirstPage(m) < Span(0)
<1>0. /\ Tree(RAM) /\ 0 \in 0 .. TABLES_DEPTH /\ Nodes(RAM)[0] = {Root}
      /\ TABLES_DEPTH - 0 = TABLES_DEPTH /\ Root.frame = 0
  BY Sizes, Levels DEF Searching, Root
<1>1. Span(0) \in Nat \ {0} /\ FirstPage(Root) = 0
  <2>1. FirstPage(Root) = Root.path * Span(0) /\ Span(0) \in Nat \ {0}
    BY <1>0, NodePage
  <2>2. Root.path = 0
    BY DEF Root
  <2> QED
    BY <2>1, <2>2
<1>2. \A m \in All(RAM) : FirstPage(m) \in Nat
  BY <1>0, FirstPageNat
<1>3. Sees(Nothing, 0)
  <2>1. Before(Empty, 0) = {} /\ Before(Candidates, 0) = {}
    BY <1>2, EndsSought DEF Before
  <2>2. Nothing \in Results /\ ~Nothing.empty_frame /\ FoundNothing(Nothing)
    BY DEF Nothing, Results, FoundNothing
  <2> QED
    BY <2>1, <2>2 DEF Sees
<1>4. Knows(Nothing, 0, 0)
  <2>1. Nothing.max_frame = 0 /\ 0 \in InUse(RAM)
    BY <1>0, InUseFrames DEF Nothing
  <2>2. ASSUME NEW m \in All(RAM), FirstPage(m) < 0 \/ (FirstPage(m) = 0 /\ m.depth <= 0)
        PROVE  m.frame <= 0
    <3>1. PICK j \in 0 .. TABLES_DEPTH : m \in Nodes(RAM)[j]
      BY IsNode
    <3>2. m.depth = j
      BY <1>0, <3>1, NodePage
    <3>3. j = 0
      BY <1>2, <2>2, <3>2
    <3> QED
      BY <1>0, <3>1, <3>3
  <2> QED
    BY <2>1, <2>2 DEF Knows
<1>5. ASSUME NEW m \in All(RAM) PROVE FirstPage(m) < Span(0)
  <2>1. PICK j \in 0 .. TABLES_DEPTH : m \in Nodes(RAM)[j]
    BY IsNode
  <2>2. PICK a \in Nodes(RAM)[0] : Covers(a, FirstPage(m))
    BY <1>0, <2>1, Above
  <2>3. a = Root /\ a.depth = 0
    BY <1>0 DEF Root
  <2> QED
    BY <1>1, <2>2, <2>3 DEF Covers
<1>6. SearchesLevel(0)
  BY SearchesAll
<1> DEFINE found == search_frame[TABLES_DEPTH][Root][Nothing]
<1>7. Sees(found, FirstPage(Root) + Span(0)) /\ Knows(found, FirstPage(Root) + Span(0), -1)
  BY <1>0, <1>1, <1>3, <1>4, <1>6 DEF SearchesLevel
<1>8. FirstPage(Root) + Span(0) = Span(0)
  BY <1>1
<1> HIDE DEF found
<1> QED
  BY <1>5, <1>7, <1>8 DEF found

-----------------------------------------------------------------------------
(* The theorem. *)

\* First is the first of some ends: there is only one.
LEMMA FirstEnd ==
  ASSUME Tree(RAM), NEW nodes, nodes \subseteq Ends, NEW e, FirstOf(nodes, e)
  PROVE  First(nodes) = e
<1>1. e \in nodes /\ \A m \in nodes : FirstPage(e) <= FirstPage(m)
  BY DEF FirstOf
<1>2. ASSUME NEW n \in nodes, \A m \in nodes : FirstPage(n) <= FirstPage(m)
      PROVE  n = e
  <2>1. FirstPage(n) \in Nat /\ FirstPage(e) \in Nat
    BY <1>1, EndPage
  <2>2. FirstPage(n) = FirstPage(e)
    BY <1>1, <1>2, <2>1
  <2> QED
    BY <1>1, <2>2, EndsApart
<1> QED
  BY <1>1, <1>2 DEF First

\* Victim is the first of the farthest pages.
LEMMA VictimFound ==
  ASSUME Searching
  PROVE  /\ Candidates = {} => Victim(RAM, last_frame, pageIn) = Root
         /\ \A e : FarthestOf(Candidates, e) => Victim(RAM, last_frame, pageIn) = e
<1> DEFINE farthest == {n \in Candidates : \A m \in Candidates : Distance(m) <= Distance(n)}
<1>1. Victim(RAM, last_frame, pageIn) = IF Candidates = {} THEN Root ELSE First(farthest)
  BY DEF Victim, Candidates, Distance
<1>2. ASSUME NEW e, FarthestOf(Candidates, e)
      PROVE  Victim(RAM, last_frame, pageIn) = e
  <2>1. \A n \in Candidates : Distance(n) \in Nat /\ FirstPage(n) \in Nat
    BY DistanceNat, EndsSought, EndPage DEF Candidates, Searching
  <2>2. e \in Candidates /\ \A m \in Candidates :
          \/ Distance(m) < Distance(e)
          \/ Distance(m) = Distance(e) /\ FirstPage(e) <= FirstPage(m)
    BY <1>2 DEF FarthestOf
  <2>3. e \in farthest
    BY <2>1, <2>2
  <2>4. ASSUME NEW m \in farthest PROVE FirstPage(e) <= FirstPage(m)
    <3>1. m \in Candidates /\ Distance(e) <= Distance(m)
      BY <2>2
    <3> QED
      BY <2>1, <2>2, <3>1
  <2>5. FirstOf(farthest, e)
    BY <2>3, <2>4 DEF FirstOf
  <2>6. farthest \subseteq Ends
    BY EndsSought
  <2> HIDE DEF farthest
  <2>7. First(farthest) = e
    BY <2>5, <2>6, FirstEnd DEF Searching
  <2> QED
    BY <1>1, <2>2, <2>7
<1> QED
  BY <1>1, <1>2

\* In every state in which a walk has to make room, the search finds what VirtualMemory
\* chooses.
LEMMA FrameFound ==
  ASSUME IInv, Missing
  PROVE  SearchFindsFrame
<1> DEFINE out == search_frame[TABLES_DEPTH][Root][Nothing]
<1>1. Searching /\ Tree(RAM)
  BY WalkNode DEF IInv, TreeInv, SwapInv, Missing, Searching
<1>2. /\ Sees(out, Span(0)) /\ Knows(out, Span(0), -1)
      /\ \A m \in All(RAM) : FirstPage(m) < Span(0)
  BY <1>1, WholeSearch
<1> HIDE DEF out
<1>3. Before(Empty, Span(0)) = Empty /\ Before(Candidates, Span(0)) = Candidates
  BY <1>2, EndsSought DEF Before
<1>4. CASE out.empty_frame
  <2>1. PICK e : FirstOf(Empty, e) /\ FoundEmpty(out, e)
    BY <1>2, <1>3, <1>4 DEF Sees
  <2>2. Empty # {} /\ First(Empty) = e
    BY <1>1, <2>1, EndsSought, FirstEnd DEF FirstOf
  <2>3. out.empty_frame = TRUE
    BY <1>2, <1>4 DEF Sees, Results
  <2> QED
    BY <1>4, <2>1, <2>2, <2>3 DEF SearchFindsFrame, FoundEmpty, Empty, out
<1>5. CASE ~out.empty_frame
  <2>1. Empty = {} /\ out.empty_frame = FALSE
    BY <1>2, <1>3, <1>5 DEF Sees, Results
  <2>2. out.max_frame = max_frame(RAM)
    <3>1. /\ max_frame(RAM) \in Nat /\ InUse(RAM) = 0 .. max_frame(RAM)
      BY PackedFrames, Sizes DEF IInv, TreeInv, Frames
    <3>2. out.max_frame \in 0 .. max_frame(RAM)
      BY <1>2, <1>5, <3>1 DEF Knows
    <3>3. PICK m \in All(RAM) : m.frame = max_frame(RAM)
      <4>1. max_frame(RAM) \in InUse(RAM)
        BY <3>1
      <4> QED
        BY <4>1 DEF InUse
    <3>4. max_frame(RAM) <= out.max_frame
      BY <1>2, <1>5, <3>3 DEF Knows
    <3> QED
      BY <3>1, <3>2, <3>4
  <2> DEFINE victim == Victim(RAM, last_frame, pageIn)
  <2>3. /\ out.result_path = victim.path /\ out.result_frame = victim.frame
        /\ out.prev_frame_add = AddressOf(victim)
    <3>1. CASE Candidates = {}
      <4>1. victim = Root
        BY <1>1, <3>1, VictimFound
      <4>2. FoundNothing(out)
        BY <1>2, <1>3, <1>5, <3>1 DEF Sees
      <4>3. Root.path = 0 /\ Root.frame = 0 /\ AddressOf(Root) = 0
        BY Sizes DEF Root, AddressOf
      <4> HIDE DEF victim
      <4> QED
        BY <4>1, <4>2, <4>3 DEF FoundNothing
    <3>2. CASE Candidates # {}
      <4>1. PICK e : FarthestOf(Candidates, e) /\ FoundPage(out, e)
        BY <1>2, <1>3, <1>5, <3>2 DEF Sees
      <4>2. victim = e
        BY <1>1, <4>1, VictimFound
      <4> HIDE DEF victim
      <4> QED
        BY <4>1, <4>2 DEF FoundPage
    <3> QED
      BY <3>1, <3>2
  <2> HIDE DEF victim
  <2> QED
    BY <1>5, <2>1, <2>2, <2>3 DEF SearchFindsFrame, Empty, out, victim
<1> QED
  BY <1>4, <1>5

\* The depth-first search of search_frame finds the frame that find_frame has to hand
\* out: the first empty table, else the last frame in use, and the farthest page.
THEOREM SearchCorrect == Spec => []SearchFindsFrame
<1>1. IInv => SearchFindsFrame
  BY FrameFound DEF SearchFindsFrame
<1> QED
  BY <1>1, Invariance, PTL
===============================================================================
