------------------------- MODULE PageArithmetic_proofs -------------------------
(***************************************************************************)
(* The arithmetic of addresses: division, powers of two, and the bits of a *)
(* page number that calculate_bits takes out.  The provers know nothing of *)
(* a recursive function: that Pow2 is one, and its laws, are proved from   *)
(* the well-foundedness of the natural numbers.                            *)
(***************************************************************************)
EXTENDS VirtualMemory, WellFoundedInduction, TLAPS

-----------------------------------------------------------------------------
(* Natural numbers. *)

\* A non-empty set of numbers has a least element.
LEMMA Least ==
  ASSUME NEW S \in SUBSET Nat, S # {}
  PROVE  \E m \in S : \A n \in S : m <= n
<1>1. PICK m \in S : \A n \in S : <<n, m>> \notin OpToRel(<, Nat)
  BY NatLessThanWellFounded, WFMin
<1>2. \A n \in S : ~(n < m)
  BY <1>1 DEF OpToRel
<1> QED
  BY <1>2

\* Induction, for a set in place of a predicate.
LEMMA Induction ==
  ASSUME NEW S, 0 \in S, \A n \in Nat : n \in S => n + 1 \in S
  PROVE  Nat \subseteq S
<1> SUFFICES ASSUME Nat \ S # {} PROVE FALSE
  OBVIOUS
<1>1. PICK m \in Nat \ S : \A n \in Nat \ S : m <= n
  BY Least
<1>2. m - 1 \in Nat /\ m - 1 \in S
  <2>1. m # 0
    BY <1>1
  <2>2. m - 1 \in Nat /\ ~(m <= m - 1)
    BY <2>1
  <2> QED
    BY <1>1, <2>2
<1>3. (m - 1) + 1 = m
  OBVIOUS
<1> QED
  BY <1>1, <1>2, <1>3

\* Quotient and remainder.
LEMMA DivMod ==
  ASSUME NEW n \in Nat, NEW d \in Nat \ {0}
  PROVE  /\ n \div d \in Nat
         /\ n % d \in 0 .. d - 1
         /\ n = d * (n \div d) + (n % d)
OBVIOUS

\* Stated alone: the provers do little with products of two unknowns.
LEMMA ProductNat ==
  ASSUME NEW a \in Nat, NEW b \in Nat
  PROVE  a * b \in Nat
OBVIOUS

\* Quotient and remainder are the only such numbers.
LEMMA DivUnique ==
  ASSUME NEW d \in Nat \ {0}, NEW q \in Nat, NEW r \in 0 .. d - 1
  PROVE  (d * q + r) \div d = q /\ (d * q + r) % d = r
OBVIOUS

\* A bound on a quotient.
LEMMA LessByFactor ==
  ASSUME NEW n \in Nat, NEW a \in Nat \ {0}, NEW b \in Nat, n < a * b
  PROVE  n \div a < b
<1> DEFINE q == n \div a
           r == n % a
<1>1. q \in Nat /\ r \in Nat /\ n = a * q + r
  BY DivMod
<1> SUFFICES ASSUME b <= q PROVE FALSE
  BY <1>1
<1> HIDE DEF q, r
<1>2. PICK c \in Nat : q = b + c
  <2>1. q - b \in Nat /\ q = b + (q - b)
    BY <1>1
  <2> QED
    BY <2>1
<1>3. a * q = a * b + a * c /\ a * b \in Nat /\ a * c \in Nat
  BY <1>2
<1> QED
  BY <1>1, <1>3

\* Dividing twice is dividing by the product.
LEMMA DivTwice ==
  ASSUME NEW n \in Nat, NEW a \in Nat \ {0}, NEW b \in Nat \ {0}
  PROVE  (n \div a) \div b = n \div (a * b)
<1> DEFINE q == n \div a
           r == n % a
           s == q \div b
           t == q % b
<1>1. q \in Nat /\ r \in 0 .. a - 1 /\ n = a * q + r
  BY DivMod
<1>2. s \in Nat /\ t \in 0 .. b - 1 /\ q = b * s + t
  BY <1>1, DivMod
<1> HIDE DEF q, r, s, t
<1>3. a * b \in Nat \ {0} /\ a * t + r \in 0 .. a * b - 1
  <2>1. a * b \in Nat \ {0}
    OBVIOUS
  <2>2. PICK c \in Nat : b = t + 1 + c
    <3>1. b - 1 - t \in Nat /\ b = t + 1 + (b - 1 - t)
      BY <1>2
    <3> QED
      BY <3>1
  <2>3. a * b = a * t + a + a * c /\ a * t \in Nat /\ a * c \in Nat
    BY <1>2, <2>2
  <2> QED
    BY <1>1, <2>1, <2>3
<1>4. n = (a * b) * s + (a * t + r)
  <2>1. a * q = (a * b) * s + a * t
    BY <1>2
  <2> QED
    BY <1>1, <1>2, <2>1
<1>5. (n \div (a * b)) = s
  BY <1>2, <1>3, <1>4, DivUnique
<1> QED
  BY <1>5 DEF q, s

-----------------------------------------------------------------------------
(* Powers of two. *)

\* The table of the powers up to n.
PowersTo(f, n) == f = [k \in 0 .. n |-> IF k = 0 THEN 1 ELSE 2 * f[k - 1]]

\* There is such a table for every n.
LEMMA PowersExist == \A n \in Nat : \E f : PowersTo(f, n)
<1> DEFINE S == {n \in Nat : \E f : PowersTo(f, n)}
<1>1. 0 \in S
  <2>1. PowersTo([k \in 0 .. 0 |-> 1], 0)
    BY DEF PowersTo
  <2> QED
    BY <2>1
<1>2. ASSUME NEW n \in Nat, n \in S PROVE n + 1 \in S
  <2>1. PICK f : PowersTo(f, n)
    BY <1>2
  <2> DEFINE g == [k \in 0 .. n + 1 |-> IF k = n + 1 THEN 2 * f[n] ELSE f[k]]
  <2>2. ASSUME NEW k \in 0 .. n + 1
        PROVE  g[k] = IF k = 0 THEN 1 ELSE 2 * g[k - 1]
    BY <2>1 DEF PowersTo
  <2>3. PowersTo(g, n + 1)
    BY <2>2 DEF PowersTo
  <2> QED
    BY <2>3
<1> QED
  BY <1>1, <1>2, Induction

\* Two tables agree where both are defined.
LEMMA PowersUnique ==
  ASSUME NEW m \in Nat, NEW n \in Nat, m <= n, NEW f, NEW g, PowersTo(f, m), PowersTo(g, n)
  PROVE  f[m] = g[m]
<1> DEFINE S == {k \in Nat : k <= m => f[k] = g[k]}
<1>1. 0 \in S
  BY DEF PowersTo
<1>2. ASSUME NEW k \in Nat, k \in S PROVE k + 1 \in S
  <2> SUFFICES ASSUME k + 1 <= m PROVE f[k + 1] = g[k + 1]
    OBVIOUS
  <2>1. f[k] = g[k]
    BY <1>2
  <2>2. k + 1 \in 0 .. m /\ k + 1 \in 0 .. n /\ k + 1 # 0 /\ (k + 1) - 1 = k
    OBVIOUS
  <2>3. f[k + 1] = 2 * f[k]
    BY <2>2 DEF PowersTo
  <2>4. g[k + 1] = 2 * g[k]
    BY <2>2 DEF PowersTo
  <2> QED
    BY <2>1, <2>3, <2>4
<1>3. m \in S
  <2> HIDE DEF S
  <2> QED
    BY <1>1, <1>2, Induction
<1> QED
  BY <1>3

\* Pow2 is what its definition says.
LEMMA Pow2Unfold == Pow2 = [n \in Nat |-> IF n = 0 THEN 1 ELSE 2 * Pow2[n - 1]]
<1> DEFINE To(n) == CHOOSE f : PowersTo(f, n)
           g     == [n \in Nat |-> To(n)[n]]
<1>1. \A n \in Nat : PowersTo(To(n), n)
  BY PowersExist
<1>2. ASSUME NEW n \in Nat PROVE g[n] = IF n = 0 THEN 1 ELSE 2 * g[n - 1]
  <2> HIDE DEF To
  <2>1. CASE n = 0
    BY <1>1, <2>1 DEF PowersTo
  <2>2. CASE n # 0
    <3>1. n - 1 \in Nat /\ n - 1 <= n /\ n \in 0 .. n
      BY <2>2
    <3>2. To(n - 1)[n - 1] = To(n)[n - 1]
      BY <1>1, <3>1, PowersUnique
    <3>3. To(n)[n] = 2 * To(n)[n - 1]
      BY <1>1, <2>2, <3>1 DEF PowersTo
    <3> QED
      BY <2>2, <3>1, <3>2, <3>3
  <2> QED
    BY <2>1, <2>2
<1>3. g = [n \in Nat |-> g[n]]
  OBVIOUS
<1>4. g = [n \in Nat |-> IF n = 0 THEN 1 ELSE 2 * g[n - 1]]
  <2> HIDE DEF g
  <2> QED
    BY <1>2, <1>3
<1> HIDE DEF g
<1> QED
  BY <1>4 DEF Pow2

\* A power is twice the one before.
LEMMA Pow2Step ==
  /\ Pow2[0] = 1
  /\ \A n \in Nat : Pow2[n + 1] = 2 * Pow2[n]
<1>1. Pow2[0] = 1
  BY Pow2Unfold
<1>2. ASSUME NEW n \in Nat PROVE Pow2[n + 1] = 2 * Pow2[n]
  <2>1. n + 1 \in Nat /\ n + 1 # 0 /\ (n + 1) - 1 = n
    OBVIOUS
  <2>2. Pow2[n + 1] = 2 * Pow2[(n + 1) - 1]
    BY <2>1, Pow2Unfold
  <2> QED
    BY <2>1, <2>2
<1> QED
  BY <1>1, <1>2

\* Powers are positive.
LEMMA Pow2Nat == \A n \in Nat : Pow2[n] \in Nat \ {0}
<1> DEFINE S == {n \in Nat : Pow2[n] \in Nat \ {0}}
<1>1. 0 \in S
  BY Pow2Step
<1>2. ASSUME NEW n \in Nat, n \in S PROVE n + 1 \in S
  BY <1>2, Pow2Step
<1> QED
  BY <1>1, <1>2, Induction

\* The law of exponents.
LEMMA Pow2Add ==
  ASSUME NEW a \in Nat, NEW b \in Nat
  PROVE  Pow2[a + b] = Pow2[a] * Pow2[b]
<1> DEFINE S == {n \in Nat : Pow2[a + n] = Pow2[a] * Pow2[n]}
<1>1. 0 \in S
  BY Pow2Step, Pow2Nat
<1>2. ASSUME NEW n \in Nat, n \in S PROVE n + 1 \in S
  <2>1. a + n \in Nat /\ a + (n + 1) = (a + n) + 1
    OBVIOUS
  <2>2. Pow2[a + (n + 1)] = 2 * Pow2[a + n]
    BY <2>1, Pow2Step
  <2>3. Pow2[n + 1] = 2 * Pow2[n]
    BY Pow2Step
  <2>4. Pow2[a] \in Nat /\ Pow2[n] \in Nat
    BY Pow2Nat
  <2> QED
    BY <1>2, <2>2, <2>3, <2>4
<1> QED
  BY <1>1, <1>2, Induction

\* A larger exponent gives a larger power.
LEMMA Pow2Grows ==
  ASSUME NEW a \in Nat, NEW b \in Nat, a <= b
  PROVE  Pow2[a] <= Pow2[b]
<1>1. b - a \in Nat /\ a + (b - a) = b
  OBVIOUS
<1>2. Pow2[b] = Pow2[a] * Pow2[b - a]
  BY <1>1, Pow2Add
<1>3. Pow2[a] \in Nat /\ Pow2[b - a] \in Nat \ {0}
  BY <1>1, Pow2Nat
<1> QED
  BY <1>2, <1>3
-----------------------------------------------------------------------------
(* The sizes of the memory. *)

\* What the assumptions on the widths say of the sizes.
LEMMA Sizes ==
  /\ PAGE_SIZE \in Nat \ {0} /\ PAGE_SIZE >= 2
  /\ TABLES_DEPTH \in Nat \ {0}
  /\ NUM_FRAMES \in Nat /\ NUM_FRAMES >= 2 /\ NUM_FRAMES > TABLES_DEPTH
  /\ VIRTUAL_MEMORY_SIZE \in Nat
  /\ NUM_PAGES = Pow2[VIRTUAL_ADDRESS_WIDTH - OFFSET_WIDTH] /\ NUM_PAGES \in Nat \ {0}
  /\ VIRTUAL_MEMORY_SIZE = PAGE_SIZE * NUM_PAGES
<1>0. /\ OFFSET_WIDTH \in Nat \ {0} /\ VIRTUAL_ADDRESS_WIDTH \in Nat
      /\ PHYSICAL_ADDRESS_WIDTH \in Nat /\ VIRTUAL_ADDRESS_WIDTH > OFFSET_WIDTH
  BY VirtualMemoryAssumption
<1>1. PAGE_SIZE \in Nat \ {0} /\ PAGE_SIZE >= 2
  <2>1. Pow2[1] = 2
    <3>1. Pow2[0 + 1] = 2 * Pow2[0] /\ Pow2[0] = 1
      BY Pow2Step
    <3> QED
      BY <3>1
  <2>2. Pow2[1] <= Pow2[OFFSET_WIDTH]
    BY <1>0, Pow2Grows
  <2> QED
    BY <1>0, <2>1, <2>2, Pow2Nat DEF PAGE_SIZE
<1>2. TABLES_DEPTH \in Nat \ {0}
  <2> DEFINE n == VIRTUAL_ADDRESS_WIDTH - 1
  <2>1. n \in Nat /\ n >= OFFSET_WIDTH
    BY <1>0
  <2> HIDE DEF n
  <2>2. n \div OFFSET_WIDTH \in Nat /\ n \div OFFSET_WIDTH # 0
    BY <1>0, <2>1
  <2> QED
    BY <2>2 DEF TABLES_DEPTH, n
<1>3. NUM_FRAMES \in Nat
  <2>1. Pow2[PHYSICAL_ADDRESS_WIDTH] \in Nat
    BY <1>0, Pow2Nat
  <2> QED
    BY <1>1, <2>1, DivMod DEF NUM_FRAMES
<1>4. VIRTUAL_MEMORY_SIZE \in Nat
  BY <1>0, Pow2Nat DEF VIRTUAL_MEMORY_SIZE
<1>5. VIRTUAL_ADDRESS_WIDTH - OFFSET_WIDTH \in Nat
  BY <1>0
<1>6. VIRTUAL_MEMORY_SIZE = PAGE_SIZE * Pow2[VIRTUAL_ADDRESS_WIDTH - OFFSET_WIDTH]
  <2>1. VIRTUAL_ADDRESS_WIDTH = OFFSET_WIDTH + (VIRTUAL_ADDRESS_WIDTH - OFFSET_WIDTH)
    BY <1>0
  <2> QED
    BY <1>0, <1>5, <2>1, Pow2Add DEF VIRTUAL_MEMORY_SIZE, PAGE_SIZE
<1>7. NUM_PAGES = Pow2[VIRTUAL_ADDRESS_WIDTH - OFFSET_WIDTH]
  <2> DEFINE p == Pow2[VIRTUAL_ADDRESS_WIDTH - OFFSET_WIDTH]
  <2>1. p \in Nat
    BY <1>5, Pow2Nat
  <2>2. VIRTUAL_MEMORY_SIZE = PAGE_SIZE * p + 0
    BY <1>1, <1>6, <2>1
  <2> HIDE DEF p
  <2>3. 0 \in 0 .. PAGE_SIZE - 1
    BY <1>1
  <2>4. VIRTUAL_MEMORY_SIZE \div PAGE_SIZE = p
    BY <1>1, <2>1, <2>2, <2>3, DivUnique
  <2> QED
    BY <2>4 DEF NUM_PAGES, p
<1>8. NUM_PAGES \in Nat \ {0}
  BY <1>5, <1>7, Pow2Nat
<1>9. NUM_FRAMES > TABLES_DEPTH /\ NUM_FRAMES >= 2
  BY <1>2, <1>3, EnoughFrames
<1> QED
  BY <1>1, <1>2, <1>3, <1>4, <1>6, <1>7, <1>8, <1>9

\* The part of an address that leads to depth lvl.
Prefix(va, lvl) == PageOf(va) \div Pow2[(TABLES_DEPTH - lvl) * OFFSET_WIDTH]

\* The bits of the levels below lvl.
LEMMA Depths ==
  ASSUME NEW lvl \in 0 .. TABLES_DEPTH
  PROVE  /\ (TABLES_DEPTH - lvl) * OFFSET_WIDTH \in Nat
         /\ Pow2[(TABLES_DEPTH - lvl) * OFFSET_WIDTH] \in Nat \ {0}
<1>1. TABLES_DEPTH - lvl \in Nat /\ OFFSET_WIDTH \in Nat
  BY Sizes, VirtualMemoryAssumption
<1>2. (TABLES_DEPTH - lvl) * OFFSET_WIDTH \in Nat
  BY <1>1, ProductNat
<1> QED
  BY <1>2, Pow2Nat

\* An address is in the virtual memory when its page is one of the pages.
LEMMA InRange ==
  ASSUME NEW va \in Nat
  PROVE  /\ PageOf(va) \in Nat /\ find_offset(va) \in Rows
         /\ va < VIRTUAL_MEMORY_SIZE <=> PageOf(va) \in Pages
<1> DEFINE p == va \div PAGE_SIZE
           r == va % PAGE_SIZE
<1>1. p \in Nat /\ r \in 0 .. PAGE_SIZE - 1 /\ va = PAGE_SIZE * p + r
  BY Sizes, DivMod
<1>2. PageOf(va) = p /\ find_offset(va) = r
  BY DEF PageOf, find_offset
<1> HIDE DEF p, r
<1>3. ASSUME va < VIRTUAL_MEMORY_SIZE PROVE p < NUM_PAGES
  BY <1>3, Sizes, LessByFactor DEF p
<1>4. ASSUME p < NUM_PAGES PROVE va < VIRTUAL_MEMORY_SIZE
  <2>1. PICK c \in Nat : NUM_PAGES = p + 1 + c
    <3>1. NUM_PAGES - 1 - p \in Nat /\ NUM_PAGES = p + 1 + (NUM_PAGES - 1 - p)
      BY <1>1, <1>4, Sizes
    <3> QED
      BY <3>1
  <2>2. /\ PAGE_SIZE * NUM_PAGES = PAGE_SIZE * p + PAGE_SIZE + PAGE_SIZE * c
        /\ PAGE_SIZE * c \in Nat /\ PAGE_SIZE * p \in Nat
    BY <1>1, <2>1, Sizes
  <2> QED
    BY <1>1, <2>2, Sizes
<1> QED
  BY <1>1, <1>2, <1>3, <1>4, Sizes DEF Pages, Rows

\* At the bottom of the walk the whole page number has been used.
LEMMA PrefixEnd ==
  ASSUME NEW va \in Nat
  PROVE  Prefix(va, TABLES_DEPTH) = PageOf(va)
<1>1. (TABLES_DEPTH - TABLES_DEPTH) * OFFSET_WIDTH = 0
  BY Sizes, VirtualMemoryAssumption
<1>2. PageOf(va) \in Nat
  BY InRange
<1>3. PageOf(va) \div 1 = PageOf(va)
  BY <1>2
<1> QED
  BY <1>1, <1>3, Pow2Step DEF Prefix

\* The width of a page number: whole levels, and what is left over for level 0.
Rest  == VIRTUAL_ADDRESS_WIDTH % OFFSET_WIDTH
Width == IF Rest = 0 THEN OFFSET_WIDTH ELSE Rest

\* TABLES_DEPTH levels take the page number apart, and level 0 is not left empty.
LEMMA PageWidth ==
  /\ Width \in 1 .. OFFSET_WIDTH
  /\ VIRTUAL_ADDRESS_WIDTH - OFFSET_WIDTH = (TABLES_DEPTH - 1) * OFFSET_WIDTH + Width
<1> DEFINE w == OFFSET_WIDTH
           q == VIRTUAL_ADDRESS_WIDTH \div w
           r == VIRTUAL_ADDRESS_WIDTH % w
<1>0. w \in Nat \ {0} /\ VIRTUAL_ADDRESS_WIDTH \in Nat /\ VIRTUAL_ADDRESS_WIDTH > w
  BY VirtualMemoryAssumption
<1>1. q \in Nat /\ r \in 0 .. w - 1 /\ VIRTUAL_ADDRESS_WIDTH = w * q + r
  BY <1>0, DivMod
<1>2. Rest = r
  BY DEF Rest
<1>3. CASE r = 0
  <2> HIDE DEF q, r
  <2>1. q # 0
    BY <1>0, <1>1, <1>3
  <2>2. VIRTUAL_ADDRESS_WIDTH - 1 = w * (q - 1) + (w - 1) /\ q - 1 \in Nat
    BY <1>0, <1>1, <1>3, <2>1
  <2>3. w - 1 \in 0 .. w - 1
    BY <1>0
  <2>4. TABLES_DEPTH = q - 1
    BY <1>0, <2>2, <2>3, DivUnique DEF TABLES_DEPTH
  <2>5. VIRTUAL_ADDRESS_WIDTH - w = (TABLES_DEPTH - 1) * w + w
    BY <1>0, <1>1, <1>3, <2>1, <2>4
  <2> QED
    BY <1>0, <1>2, <1>3, <2>5 DEF Width
<1>4. CASE r # 0
  <2> HIDE DEF q, r
  <2>1. r - 1 \in 0 .. w - 1 /\ VIRTUAL_ADDRESS_WIDTH - 1 = w * q + (r - 1)
    BY <1>0, <1>1, <1>4
  <2>2. TABLES_DEPTH = q
    BY <1>0, <1>1, <2>1, DivUnique DEF TABLES_DEPTH
  <2>3. VIRTUAL_ADDRESS_WIDTH - w = (TABLES_DEPTH - 1) * w + r
    BY <1>0, <1>1, <2>2
  <2> QED
    BY <1>0, <1>1, <1>2, <1>4, <2>3 DEF Width
<1> QED
  BY <1>3, <1>4

\* The row of level 0 is all that is left of the page number.
LEMMA FirstRow ==
  ASSUME NEW va \in Nat, va < VIRTUAL_MEMORY_SIZE
  PROVE  Prefix(va, 0) = 0 /\ Prefix(va, 1) < Pow2[Width]
<1> DEFINE p == PageOf(va)
           n == (TABLES_DEPTH - 1) * OFFSET_WIDTH
<1>1. p \in Nat /\ p < NUM_PAGES
  BY InRange, Sizes DEF Pages
<1>2. n \in Nat /\ Pow2[n] \in Nat \ {0} /\ Prefix(va, 1) = p \div Pow2[n]
  BY Sizes, Depths DEF Prefix
<1>3. Width \in Nat /\ Pow2[Width] \in Nat \ {0}
  BY PageWidth, VirtualMemoryAssumption, Pow2Nat
<1>4. NUM_PAGES = Pow2[n] * Pow2[Width]
  <2>1. NUM_PAGES = Pow2[n + Width]
    BY PageWidth, Sizes
  <2> HIDE DEF n
  <2> QED
    BY <1>2, <1>3, <2>1, Pow2Add
<1>5. Prefix(va, 1) < Pow2[Width]
  <2> HIDE DEF p, n
  <2> QED
    BY <1>1, <1>2, <1>3, <1>4, LessByFactor
<1>6. Prefix(va, 0) = 0
  <2> DEFINE m == TABLES_DEPTH * OFFSET_WIDTH
  <2>1. n + Width <= m /\ m \in Nat /\ n + Width \in Nat
    <3>1. m = n + OFFSET_WIDTH
      BY Sizes, VirtualMemoryAssumption
    <3>2. Width <= OFFSET_WIDTH /\ OFFSET_WIDTH \in Nat
      BY PageWidth, VirtualMemoryAssumption
    <3> HIDE DEF n, m
    <3> QED
      BY <1>2, <1>3, <3>1, <3>2
  <2>2. NUM_PAGES = Pow2[n + Width]
    BY PageWidth, Sizes
  <2>3. Prefix(va, 0) = p \div Pow2[m]
    BY Sizes DEF Prefix
  <2> HIDE DEF p, n, m
  <2>4. Pow2[n + Width] <= Pow2[m] /\ Pow2[n + Width] \in Nat /\ Pow2[m] \in Nat
    BY <2>1, Pow2Grows, Pow2Nat
  <2>5. p < Pow2[m]
    BY <1>1, <2>2, <2>4
  <2> QED
    BY <1>1, <2>3, <2>4, <2>5
<1> QED
  BY <1>5, <1>6

\* calculate_bits takes the page number apart: the part that leads to the next depth is
\* the part that leads to this one, followed by the row.
LEMMA PrefixStep ==
  ASSUME NEW va \in Nat, va < VIRTUAL_MEMORY_SIZE, NEW lvl \in 0 .. TABLES_DEPTH - 1
  PROVE  /\ calculate_bits(va, lvl) \in Rows
         /\ Prefix(va, lvl) \in Nat
         /\ Prefix(va, lvl + 1) = Prefix(va, lvl) * PAGE_SIZE + calculate_bits(va, lvl)
<1> DEFINE n == (TABLES_DEPTH - (lvl + 1)) * OFFSET_WIDTH
           m == (TABLES_DEPTH - lvl) * OFFSET_WIDTH
           y == Prefix(va, lvl + 1)
<1>1. lvl + 1 \in 0 .. TABLES_DEPTH /\ lvl \in 0 .. TABLES_DEPTH
  BY Sizes
<1>2. n \in Nat /\ m \in Nat /\ Pow2[n] \in Nat \ {0} /\ Pow2[m] \in Nat \ {0}
  BY <1>1, Depths
<1>3. m = n + OFFSET_WIDTH
  BY Sizes, VirtualMemoryAssumption
<1>4. PageOf(va) \in Nat /\ PageOf(va) = va \div PAGE_SIZE
  BY InRange DEF PageOf
<1>5. y = PageOf(va) \div Pow2[n] /\ Prefix(va, lvl) = PageOf(va) \div Pow2[m]
  BY DEF Prefix
<1>6. Pow2[m] = Pow2[n] * PAGE_SIZE
  <2> HIDE DEF n, m
  <2> QED
    BY <1>2, <1>3, Pow2Add, VirtualMemoryAssumption DEF PAGE_SIZE
<1>7. y \in Nat
  <2> HIDE DEF n
  <2> QED
    BY <1>2, <1>4, <1>5, DivMod
<1>8. va \div Pow2[m] = y
  <2> HIDE DEF n, m, y
  <2>1. (va \div PAGE_SIZE) \div Pow2[n] = va \div (PAGE_SIZE * Pow2[n])
    BY <1>2, Sizes, DivTwice
  <2>2. PAGE_SIZE * Pow2[n] = Pow2[n] * PAGE_SIZE
    BY <1>2, Sizes
  <2> QED
    BY <1>4, <1>5, <1>6, <2>1, <2>2
<1>9. Prefix(va, lvl) = y \div PAGE_SIZE
  <2> HIDE DEF n, m, y
  <2> QED
    BY <1>2, <1>4, <1>5, <1>6, Sizes, DivTwice
<1>10. y \div PAGE_SIZE \in Nat /\ y % PAGE_SIZE \in Rows
       /\ y = PAGE_SIZE * (y \div PAGE_SIZE) + (y % PAGE_SIZE)
  <2> HIDE DEF y
  <2> QED
    BY <1>7, Sizes, DivMod DEF Rows
<1>11. y = (y \div PAGE_SIZE) * PAGE_SIZE + (y % PAGE_SIZE)
  <2> DEFINE q == y \div PAGE_SIZE
             r == y % PAGE_SIZE
  <2>1. q \in Nat /\ r \in Nat /\ y = PAGE_SIZE * q + r
    BY <1>10 DEF Rows
  <2> HIDE DEF q, r, y
  <2>2. PAGE_SIZE * q = q * PAGE_SIZE
    BY <2>1, Sizes
  <2> QED
    BY <2>1, <2>2 DEF q, r
<1>12. CASE lvl # 0 \/ Rest = 0
  <2>1. calculate_bits(va, lvl) = (va \div Pow2[m]) % PAGE_SIZE
    BY <1>12 DEF calculate_bits, Rest, PAGE_SIZE
  <2> HIDE DEF n, m, y
  <2> QED
    BY <1>8, <1>9, <1>10, <1>11, <2>1 DEF y
<1>13. CASE lvl = 0 /\ Rest # 0
  <2>1. calculate_bits(va, lvl) = (va \div Pow2[m]) % Pow2[Width]
    BY <1>13 DEF calculate_bits, Rest, Width
  <2>2. lvl + 1 = 1
    BY <1>13
  <2>3. y < Pow2[Width] /\ Prefix(va, lvl) = 0
    BY <1>13, <2>2, FirstRow
  <2>4. Width \in Nat /\ Width <= OFFSET_WIDTH /\ OFFSET_WIDTH \in Nat
    BY PageWidth, VirtualMemoryAssumption
  <2>5. Pow2[Width] \in Nat \ {0} /\ Pow2[Width] <= PAGE_SIZE
    BY <2>4, Pow2Nat, Pow2Grows DEF PAGE_SIZE
  <2> HIDE DEF n, m
  <2>6. calculate_bits(va, lvl) = y
    <3> HIDE DEF y
    <3> QED
      BY <1>7, <1>8, <2>1, <2>3, <2>5
  <2>7. y \in Rows
    BY <1>7, <2>3, <2>5, Sizes DEF Rows
  <2>8. 0 * PAGE_SIZE + y = y
    BY <1>7, Sizes
  <2> QED
    BY <2>3, <2>6, <2>7, <2>8
<1> QED
  BY <1>12, <1>13
=============================================================================
