------------------------ MODULE CategoryMatchProofs ------------------------
(***************************************************************************)
(* Proofs about CategoryMatch, for all words over any letters.             *)
(***************************************************************************)
EXTENDS CategoryMatch, SequenceTheorems, WellFoundedInduction, TLAPS

\* What the recursion of Levenshtein puts into a cell of its table.
Cell(a, b, t, i, j) ==
    IF i = 0 THEN j
    ELSE IF j = 0 THEN i
    ELSE IF a[i] = b[j] THEN t[<<i - 1, j - 1>>]
    ELSE 1 + Smallest(t[<<i - 1, j>>], t[<<i, j - 1>>], t[<<i - 1, j - 1>>])

Cells(a, b) == (0..Len(a)) \X (0..Len(b))

\* t follows the recursion of Levenshtein ...
Follows(a, b, t) == \A i \in 0..Len(a), j \in 0..Len(b) : t[<<i, j>>] = Cell(a, b, t, i, j)

\* ... and is a solution of it.
Solution(a, b, t) == t \in [Cells(a, b) -> Nat] /\ Follows(a, b, t)

\* r is the table of a and b, row by row: an entry is made from the one above,
\* the one before and the one in the corner between them.
Entry(c, d, x, up, before, corner) ==
    IF c = d THEN x = corner ELSE x = 1 + Smallest(up, before, corner)

IsTable(a, b, r) ==
    /\ \A i \in 0..Len(a), j \in 0..Len(b) : r[i][j] \in Nat
    /\ \A i \in 0..Len(a) : r[i][0] = i
    /\ \A j \in 0..Len(b) : r[0][j] = j
    /\ \A i \in 1..Len(a), j \in 1..Len(b) :
          Entry(a[i], b[j], r[i][j], r[i - 1][j], r[i][j - 1], r[i - 1][j - 1])

\* Two solutions that are alike as long as the sums of the indices are below s.
AlikeBelow(a, b, t, u, s) ==
    \A i \in 0..Len(a), j \in 0..Len(b) : i + j < s => t[<<i, j>>] = u[<<i, j>>]

-----------------------------------------------------------------------------
(* Numbers.                                                                *)

\* Induction, as a fact about sets.
LEMMA Induction ==
    ASSUME NEW S \in SUBSET Nat, 0 \in S, \A n \in S : n + 1 \in S
    PROVE  \A n \in Nat : n \in S
<1> SUFFICES ASSUME NEW m \in Nat, m \notin S
             PROVE  FALSE
  OBVIOUS
<1> DEFINE R == Nat \ S
<1>1. R \subseteq Nat /\ R # {}
  OBVIOUS
<1>2. \E n \in R : \A k \in R : <<k, n>> \notin OpToRel(<, Nat)
  BY <1>1, WFMin, NatLessThanWellFounded, Zenon
<1>3. PICK n \in R : \A k \in R : <<k, n>> \notin OpToRel(<, Nat)
  BY <1>2
<1>4. \A k \in R : ~(k < n)
  BY <1>1, <1>3, Zenon DEF OpToRel
<1>5. n # 0 /\ n - 1 \in Nat
  OBVIOUS
<1>6. n - 1 \in S
  BY <1>4, <1>5
<1>7. (n - 1) + 1 = n
  OBVIOUS
<1>8. QED
  BY <1>6, <1>7

-----------------------------------------------------------------------------
(* The table of distances.                                                 *)

LEMMA SmallestIs ==
    ASSUME NEW x \in Nat, NEW y \in Nat, NEW z \in Nat
    PROVE  /\ Smallest(x, y, z) \in Nat
           /\ Smallest(x, y, z) <= x /\ Smallest(x, y, z) <= y /\ Smallest(x, y, z) <= z
           /\ Smallest(x, y, z) \in {x, y, z}
BY DEF Smallest

LEMMA CellType ==
    ASSUME NEW a, NEW b, Len(a) \in Nat, Len(b) \in Nat,
           NEW t \in [Cells(a, b) -> Nat],
           NEW i \in 0..Len(a), NEW j \in 0..Len(b)
    PROVE  Cell(a, b, t, i, j) \in Nat
<1>1. CASE i = 0 \/ j = 0
  BY <1>1 DEF Cell
<1>2. CASE i # 0 /\ j # 0
  <2>1. /\ <<i - 1, j - 1>> \in Cells(a, b) /\ <<i - 1, j>> \in Cells(a, b)
        /\ <<i, j - 1>> \in Cells(a, b)
    BY <1>2 DEF Cells
  <2>2. t[<<i - 1, j - 1>>] \in Nat /\ t[<<i - 1, j>>] \in Nat /\ t[<<i, j - 1>>] \in Nat
    BY <2>1
  <2>3. Smallest(t[<<i - 1, j>>], t[<<i, j - 1>>], t[<<i - 1, j - 1>>]) \in Nat
    BY <2>2, SmallestIs
  <2>4. QED
    BY <1>2, <2>2, <2>3 DEF Cell
<1>3. QED
  BY <1>1, <1>2

\* A cell depends on cells of smaller sums only.
LEMMA CellFrame ==
    ASSUME NEW a, NEW b, Len(a) \in Nat, Len(b) \in Nat,
           NEW t, NEW u, NEW s \in Nat, AlikeBelow(a, b, t, u, s),
           NEW i \in 0..Len(a), NEW j \in 0..Len(b), i + j <= s
    PROVE  Cell(a, b, t, i, j) = Cell(a, b, u, i, j)
<1>1. CASE i = 0 \/ j = 0
  BY <1>1 DEF Cell
<1>2. CASE i # 0 /\ j # 0
  <2>1. /\ i - 1 \in 0..Len(a) /\ j - 1 \in 0..Len(b)
        /\ (i - 1) + (j - 1) < s /\ (i - 1) + j < s /\ i + (j - 1) < s
    BY <1>2
  <2>2. /\ t[<<i - 1, j - 1>>] = u[<<i - 1, j - 1>>] /\ t[<<i - 1, j>>] = u[<<i - 1, j>>]
        /\ t[<<i, j - 1>>] = u[<<i, j - 1>>]
    BY <2>1 DEF AlikeBelow
  <2>3. QED
    BY <1>2, <2>2, Zenon DEF Cell
<1>3. QED
  BY <1>1, <1>2

\* The recursion has a solution: the table can be filled sum by sum.
LEMMA SolutionExists ==
    ASSUME NEW a, NEW b, Len(a) \in Nat, Len(b) \in Nat
    PROVE  \E t : Solution(a, b, t)
<1> DEFINE Filled(t, s) ==
             \A i \in 0..Len(a), j \in 0..Len(b) :
                i + j < s => t[<<i, j>>] = Cell(a, b, t, i, j)
           S == {s \in Nat : \E t \in [Cells(a, b) -> Nat] : Filled(t, s)}
<1>1. 0 \in S
  <2>1. [c \in Cells(a, b) |-> 0] \in [Cells(a, b) -> Nat]
    OBVIOUS
  <2>2. Filled([c \in Cells(a, b) |-> 0], 0)
    OBVIOUS
  <2>3. QED
    BY <2>1, <2>2
<1>2. ASSUME NEW s \in S
      PROVE  s + 1 \in S
  <2>1. PICK t \in [Cells(a, b) -> Nat] : Filled(t, s)
    OBVIOUS
  <2>2. DEFINE u == [c \in Cells(a, b) |-> Cell(a, b, t, c[1], c[2])]
  <2>3. \A i \in 0..Len(a), j \in 0..Len(b) : u[<<i, j>>] = Cell(a, b, t, i, j)
    BY DEF Cells
  <2>4. u \in [Cells(a, b) -> Nat]
    BY CellType DEF Cells
  <2> HIDE DEF u
  <2>5. AlikeBelow(a, b, t, u, s)
    BY <2>1, <2>3 DEF AlikeBelow
  <2>6. s \in Nat
    OBVIOUS
  <2>7. ASSUME NEW i \in 0..Len(a), NEW j \in 0..Len(b), i + j < s + 1
        PROVE  u[<<i, j>>] = Cell(a, b, u, i, j)
    <3>1. i + j <= s
      BY <2>6, <2>7
    <3>2. Cell(a, b, t, i, j) = Cell(a, b, u, i, j)
      BY <2>5, <2>6, <3>1, CellFrame
    <3>3. QED
      BY <2>3, <3>2
  <2>8. Filled(u, s + 1)
    BY <2>7
  <2>9. QED
    BY <2>4, <2>6, <2>8
<1> HIDE DEF S
<1>3. Len(a) + Len(b) + 1 \in S
  <2>1. S \in SUBSET Nat
    BY DEF S
  <2>2. \A n \in Nat : n \in S
    BY <1>1, <1>2, <2>1, Induction
  <2>3. QED
    BY <2>2
<1>4. PICK t \in [Cells(a, b) -> Nat] : Filled(t, Len(a) + Len(b) + 1)
  BY <1>3 DEF S
<1>5. ASSUME NEW i \in 0..Len(a), NEW j \in 0..Len(b)
      PROVE  t[<<i, j>>] = Cell(a, b, t, i, j)
  <2>1. i + j < Len(a) + Len(b) + 1
    OBVIOUS
  <2>2. QED
    BY <1>4, <2>1
<1>6. QED
  BY <1>5 DEF Solution, Follows

\* There is only one.
LEMMA SolutionUnique ==
    ASSUME NEW a, NEW b, Len(a) \in Nat, Len(b) \in Nat, NEW t, NEW u,
           Follows(a, b, t), Follows(a, b, u),
           NEW i \in 0..Len(a), NEW j \in 0..Len(b)
    PROVE  t[<<i, j>>] = u[<<i, j>>]
<1> DEFINE S == {s \in Nat : AlikeBelow(a, b, t, u, s)}
<1>1. 0 \in S
  BY DEF AlikeBelow
<1>2. ASSUME NEW s \in S
      PROVE  s + 1 \in S
  <2>1. s \in Nat /\ AlikeBelow(a, b, t, u, s)
    OBVIOUS
  <2>2. ASSUME NEW k \in 0..Len(a), NEW l \in 0..Len(b), k + l < s + 1
        PROVE  t[<<k, l>>] = u[<<k, l>>]
    <3>1. k + l <= s
      BY <2>1, <2>2
    <3>2. Cell(a, b, t, k, l) = Cell(a, b, u, k, l)
      BY <2>1, <3>1, CellFrame
    <3>3. QED
      BY <3>2 DEF Follows
  <2>3. AlikeBelow(a, b, t, u, s + 1)
    BY <2>2 DEF AlikeBelow
  <2>4. QED
    BY <2>1, <2>3
<1>3. S \in SUBSET Nat
  OBVIOUS
<1> HIDE DEF S
<1>4. i + j + 1 \in S
  BY <1>1, <1>2, <1>3, Induction, SMTT(20)
<1>5. AlikeBelow(a, b, t, u, i + j + 1)
  BY <1>4 DEF S
<1>6. i + j < i + j + 1
  OBVIOUS
<1>7. QED
  BY <1>5, <1>6 DEF AlikeBelow

\* Its last cell is what Levenshtein returns.
LEMMA LevenshteinIs ==
    ASSUME NEW a, NEW b, Len(a) \in Nat, Len(b) \in Nat
    PROVE  \E t : Solution(a, b, t) /\ Levenshtein(a, b) = t[<<Len(a), Len(b)>>]
<1> DEFINE Fill(t) == [c \in Cells(a, b) |-> Cell(a, b, t, c[1], c[2])]
           dp == CHOOSE t : t = Fill(t)
<1>1. PICK t : Solution(a, b, t)
  BY SolutionExists
<1>2. t = Fill(t)
  <2>1. \A c \in Cells(a, b) : t[c] = Cell(a, b, t, c[1], c[2])
    BY <1>1 DEF Solution, Follows, Cells
  <2>2. QED
    BY <1>1, <2>1 DEF Solution
<1>3. dp = Fill(dp)
  BY <1>2, Zenon
<1>4. Levenshtein(a, b) = dp[<<Len(a), Len(b)>>]
  BY Zenon DEF Levenshtein, Cell, Cells
<1> HIDE DEF dp
<1>5. Follows(a, b, dp)
  BY <1>3 DEF Follows, Cells
<1>6. Follows(a, b, t)
  BY <1>1 DEF Solution
<1>7. Len(a) \in 0..Len(a) /\ Len(b) \in 0..Len(b)
  OBVIOUS
<1>8. dp[<<Len(a), Len(b)>>] = t[<<Len(a), Len(b)>>]
  BY <1>5, <1>6, <1>7, SolutionUnique
<1>9. QED
  BY <1>1, <1>4, <1>8
LEMMA Table ==
    ASSUME NEW a, NEW b, Len(a) \in Nat, Len(b) \in Nat
    PROVE  \E r : IsTable(a, b, r) /\ Levenshtein(a, b) = r[Len(a)][Len(b)]
<1>1. PICK t : Solution(a, b, t) /\ Levenshtein(a, b) = t[<<Len(a), Len(b)>>]
  BY LevenshteinIs
<1> DEFINE r == [i \in 0..Len(a) |-> [j \in 0..Len(b) |-> t[<<i, j>>]]]
<1>2. ASSUME NEW i \in 0..Len(a), NEW j \in 0..Len(b)
      PROVE  r[i][j] = t[<<i, j>>]
  OBVIOUS
<1> HIDE DEF r
<1>3. ASSUME NEW i \in 0..Len(a), NEW j \in 0..Len(b)
      PROVE  r[i][j] \in Nat /\ r[i][j] = Cell(a, b, t, i, j)
  BY <1>1, <1>2 DEF Solution, Follows, Cells
<1>4. ASSUME NEW i \in 0..Len(a), NEW j \in 0..Len(b)
      PROVE  (i = 0 => r[i][j] = j) /\ (j = 0 => r[i][j] = i)
  BY <1>3, Zenon DEF Cell
<1>5. ASSUME NEW i \in 1..Len(a), NEW j \in 1..Len(b)
      PROVE  Entry(a[i], b[j], r[i][j], r[i - 1][j], r[i][j - 1], r[i - 1][j - 1])
  <2>1. /\ i \in 0..Len(a) /\ j \in 0..Len(b) /\ i # 0 /\ j # 0
        /\ i - 1 \in 0..Len(a) /\ j - 1 \in 0..Len(b)
    OBVIOUS
  <2>2. r[i][j] = Cell(a, b, t, i, j)
    BY <1>3, <2>1
  <2>3. r[i - 1][j] = t[<<i - 1, j>>]
    BY <1>2, <2>1, Zenon
  <2>4. r[i][j - 1] = t[<<i, j - 1>>]
    BY <1>2, <2>1, Zenon
  <2>5. r[i - 1][j - 1] = t[<<i - 1, j - 1>>]
    BY <1>2, <2>1, Zenon
  <2>6. QED
    BY <2>1, <2>2, <2>3, <2>4, <2>5, Zenon DEF Cell, Entry
<1>6. IsTable(a, b, r)
  BY <1>3, <1>4, <1>5 DEF IsTable
<1>7. r[Len(a)][Len(b)] = t[<<Len(a), Len(b)>>]
  BY <1>2
<1>8. QED
  BY <1>1, <1>6, <1>7

\* Two numbers that differ by one at most.
Adjacent(x, y) == x <= y + 1 /\ y <= x + 1

\* A cell and those it is made from.
LEMMA CellNear ==
    ASSUME NEW x \in Nat, NEW up \in Nat, NEW before \in Nat, NEW corner \in Nat,
           NEW c, NEW d, Entry(c, d, x, up, before, corner),
           Adjacent(up, corner), Adjacent(before, corner)
    PROVE  Adjacent(x, up) /\ Adjacent(x, before) /\ corner <= x /\ x <= corner + 1
<1>1. PICK s \in Nat : s = Smallest(up, before, corner)
  BY SmallestIs
<1>2. s <= corner /\ s \in {up, before, corner} /\ s <= up /\ s <= before
  BY <1>1, SmallestIs
<1>3. x = corner \/ x = 1 + s
  BY <1>1 DEF Entry
<1>4. QED
  BY <1>2, <1>3 DEF Adjacent

\* Two cells that are made in the same way from cells that differ by one at most.
LEMMA CellsAlike ==
    ASSUME NEW u1 \in Nat, NEW b1 \in Nat, NEW c1 \in Nat,
           NEW u2 \in Nat, NEW b2 \in Nat, NEW c2 \in Nat,
           Adjacent(u1, u2), Adjacent(b1, b2), Adjacent(c1, c2)
    PROVE  Adjacent(1 + Smallest(u1, b1, c1), 1 + Smallest(u2, b2, c2))
BY DEF Adjacent, Smallest

\* Neighbours in a table up to the sum s: to the left and above they differ by
\* one at most, and along the diagonal nothing gets less.
Smooth(a, b, r, s) ==
    \A i \in 0..Len(a), j \in 0..Len(b) : i + j < s =>
        /\ i # 0 => Adjacent(r[i][j], r[i - 1][j])
        /\ j # 0 => Adjacent(r[i][j], r[i][j - 1])
        /\ i # 0 /\ j # 0 => /\ r[i - 1][j - 1] <= r[i][j]
                             /\ r[i][j] <= r[i - 1][j - 1] + 1

LEMMA TableSmooth ==
    ASSUME NEW a, NEW b, Len(a) \in Nat, Len(b) \in Nat, NEW r, IsTable(a, b, r)
    PROVE  \A s \in Nat : Smooth(a, b, r, s)
<1> DEFINE S == {s \in Nat : Smooth(a, b, r, s)}
<1>1. 0 \in S
  BY DEF Smooth
<1>2. ASSUME NEW s \in S
      PROVE  s + 1 \in S
  <2>1. s \in Nat /\ Smooth(a, b, r, s)
    OBVIOUS
  <2> HIDE DEF S
  <2>2. ASSUME NEW i \in 0..Len(a), NEW j \in 0..Len(b), i + j < s + 1
        PROVE  /\ i # 0 => Adjacent(r[i][j], r[i - 1][j])
               /\ j # 0 => Adjacent(r[i][j], r[i][j - 1])
               /\ i # 0 /\ j # 0 => /\ r[i - 1][j - 1] <= r[i][j]
                                    /\ r[i][j] <= r[i - 1][j - 1] + 1
    <3>1. CASE i = 0
      <4>1. j # 0 => j - 1 \in 0..Len(b)
        OBVIOUS
      <4>2. r[0][j] = j /\ (j # 0 => r[0][j - 1] = j - 1)
        BY <4>1 DEF IsTable
      <4>3. QED
        BY <3>1, <4>2 DEF Adjacent
    <3>2. CASE j = 0
      <4>1. i # 0 => i - 1 \in 0..Len(a)
        OBVIOUS
      <4>2. r[i][0] = i /\ (i # 0 => r[i - 1][0] = i - 1)
        BY <4>1 DEF IsTable
      <4>3. QED
        BY <3>2, <4>2 DEF Adjacent
    <3>3. CASE i # 0 /\ j # 0
      <4>1. /\ i \in 1..Len(a) /\ j \in 1..Len(b)
            /\ i - 1 \in 0..Len(a) /\ j - 1 \in 0..Len(b)
            /\ (i - 1) + j < s /\ i + (j - 1) < s
        BY <2>1, <2>2, <3>3
      <4>2. PICK x \in Nat, up \in Nat, before \in Nat, corner \in Nat :
               /\ x = r[i][j] /\ up = r[i - 1][j]
               /\ before = r[i][j - 1] /\ corner = r[i - 1][j - 1]
        BY <4>1 DEF IsTable
      <4>3. Adjacent(up, corner) /\ Adjacent(before, corner)
        BY <2>1, <3>3, <4>1, <4>2 DEF Smooth
      <4>4. Entry(a[i], b[j], x, up, before, corner)
        BY <4>1, <4>2 DEF IsTable
      <4>5. Adjacent(x, up) /\ Adjacent(x, before) /\ corner <= x /\ x <= corner + 1
        BY <4>3, <4>4, CellNear, Zenon
      <4>6. QED
        BY <4>2, <4>5
    <3>4. QED
      BY <3>1, <3>2, <3>3
  <2>3. Smooth(a, b, r, s + 1)
    BY <2>2 DEF Smooth
  <2>4. QED
    BY <2>1, <2>3 DEF S
<1>3. S \in SUBSET Nat
  OBVIOUS
<1>4. \A s \in Nat : s \in S
  <2> HIDE DEF S
  <2>1. QED
    BY <1>1, <1>2, <1>3, Induction
<1>5. QED
  BY <1>4

\* Neighbours in a table.
LEMMA TableNear ==
    ASSUME NEW a, NEW b, Len(a) \in Nat, Len(b) \in Nat, NEW r, IsTable(a, b, r),
           NEW i \in 0..Len(a), NEW j \in 0..Len(b)
    PROVE  /\ i # 0 => Adjacent(r[i][j], r[i - 1][j])
           /\ i # 0 /\ j # 0 => /\ r[i - 1][j - 1] <= r[i][j]
                                /\ r[i][j] <= r[i - 1][j - 1] + 1
<1>1. i + j + 1 \in Nat /\ i + j < i + j + 1
  OBVIOUS
<1>2. Smooth(a, b, r, i + j + 1)
  BY <1>1, TableSmooth
<1>3. QED
  BY <1>1, <1>2 DEF Smooth

\* A word is no edits away from itself.
LEMMA SelfDistance ==
    ASSUME NEW a, Len(a) \in Nat, NEW r, IsTable(a, a, r)
    PROVE  r[Len(a)][Len(a)] = 0
<1> DEFINE S == {s \in Nat : s <= Len(a) => r[s][s] = 0}
<1>1. 0 \in S
  BY DEF IsTable
<1>2. ASSUME NEW s \in S
      PROVE  s + 1 \in S
  <2>1. s \in Nat /\ (s <= Len(a) => r[s][s] = 0)
    OBVIOUS
  <2>2. CASE s + 1 <= Len(a)
    <3>1. PICK k \in 1..Len(a) : k = s + 1 /\ k - 1 = s /\ s <= Len(a)
      BY <2>1, <2>2
    <3>2. r[k][k] = r[k - 1][k - 1]
      BY DEF IsTable, Entry
    <3>3. QED
      BY <2>1, <3>1, <3>2
  <2>3. QED
    BY <2>1, <2>2
<1>3. S \in SUBSET Nat
  OBVIOUS
<1>4. Len(a) \in S
  <2> HIDE DEF S
  <2>1. QED
    BY <1>1, <1>2, <1>3, Induction
<1>5. QED
  BY <1>4

-----------------------------------------------------------------------------
(* The tables of neighbours.                                               *)

\* Entries that are made from the same cells for the same letters are the same ...
LEMMA EntryUnique ==
    ASSUME NEW c, NEW d, NEW x, NEW y, NEW up, NEW before, NEW corner,
           Entry(c, d, x, up, before, corner), Entry(c, d, y, up, before, corner)
    PROVE  x = y
BY DEF Entry

\* ... and from cells that differ by one they differ by one at most.
LEMMA EntriesAlike ==
    ASSUME NEW c, NEW d,
           NEW x \in Nat, NEW u1 \in Nat, NEW b1 \in Nat, NEW c1 \in Nat,
           NEW y \in Nat, NEW u2 \in Nat, NEW b2 \in Nat, NEW c2 \in Nat,
           Entry(c, d, x, u1, b1, c1), Entry(c, d, y, u2, b2, c2),
           Adjacent(u1, u2), Adjacent(b1, b2), Adjacent(c1, c2)
    PROVE  Adjacent(x, y)
<1>1. CASE c = d
  BY <1>1 DEF Entry
<1>2. CASE c # d
  <2>1. x = 1 + Smallest(u1, b1, c1) /\ y = 1 + Smallest(u2, b2, c2)
    BY <1>2 DEF Entry
  <2>2. QED
    BY <2>1, CellsAlike
<1>3. QED
  BY <1>1, <1>2

\* Up to the sum s the tables of a and of a word that differs from it in the
\* letter at p are the same above row p, and nowhere more than one apart.
Replaced(a, b, r, t, p, s) ==
    \A i \in 0..Len(a), j \in 0..Len(b) : i + j < s =>
        /\ i < p => t[i][j] = r[i][j]
        /\ Adjacent(r[i][j], t[i][j])

LEMMA ReplacedOK ==
    ASSUME NEW a, NEW b, NEW c, Len(a) \in Nat, Len(b) \in Nat, Len(c) = Len(a),
           NEW p \in 1..Len(a), \A q \in 1..Len(a) : q # p => c[q] = a[q],
           NEW r, NEW t, IsTable(a, b, r), IsTable(c, b, t)
    PROVE  \A s \in Nat : Replaced(a, b, r, t, p, s)
<1> DEFINE S == {s \in Nat : Replaced(a, b, r, t, p, s)}
<1>1. 0 \in S
  BY DEF Replaced
<1>2. ASSUME NEW s \in S
      PROVE  s + 1 \in S
  <2>1. s \in Nat /\ Replaced(a, b, r, t, p, s)
    OBVIOUS
  <2> HIDE DEF S
  <2>2. ASSUME NEW i \in 0..Len(a), NEW j \in 0..Len(b), i + j < s + 1
        PROVE  (i < p => t[i][j] = r[i][j]) /\ Adjacent(r[i][j], t[i][j])
    <3>1. CASE i = 0 \/ j = 0
      <4>1. /\ i = 0 => r[i][j] = j /\ t[i][j] = j
            /\ j = 0 => r[i][j] = i /\ t[i][j] = i
        BY DEF IsTable
      <4>2. QED
        BY <3>1, <4>1 DEF Adjacent
    <3>2. CASE i # 0 /\ j # 0
      <4>1. /\ i \in 1..Len(a) /\ j \in 1..Len(b)
            /\ i - 1 \in 0..Len(a) /\ j - 1 \in 0..Len(b)
            /\ (i - 1) + j < s /\ i + (j - 1) < s /\ (i - 1) + (j - 1) < s
        BY <2>1, <2>2, <3>2
      <4>2. PICK x \in Nat, u1 \in Nat, b1 \in Nat, c1 \in Nat :
               x = r[i][j] /\ u1 = r[i - 1][j] /\ b1 = r[i][j - 1] /\ c1 = r[i - 1][j - 1]
        BY <4>1 DEF IsTable
      <4>3. PICK y \in Nat, u2 \in Nat, b2 \in Nat, c2 \in Nat :
               y = t[i][j] /\ u2 = t[i - 1][j] /\ b2 = t[i][j - 1] /\ c2 = t[i - 1][j - 1]
        BY <4>1 DEF IsTable
      <4>4. Entry(a[i], b[j], x, u1, b1, c1)
        BY <4>1, <4>2 DEF IsTable
      <4>5. Entry(c[i], b[j], y, u2, b2, c2)
        BY <4>1, <4>3 DEF IsTable
      <4>6. Adjacent(u1, u2) /\ Adjacent(b1, b2) /\ Adjacent(c1, c2)
        BY <2>1, <4>1, <4>2, <4>3 DEF Replaced
      <4>7. CASE i < p
        <5>1. c[i] = a[i]
          BY <4>1, <4>7
        <5>2. /\ t[i - 1][j] = r[i - 1][j] /\ t[i][j - 1] = r[i][j - 1]
              /\ t[i - 1][j - 1] = r[i - 1][j - 1]
          <6>1. i - 1 < p /\ i < p
            BY <4>7
          <6>2. QED
            BY <2>1, <4>1, <6>1 DEF Replaced
        <5>3. u1 = u2 /\ b1 = b2 /\ c1 = c2
          BY <4>2, <4>3, <5>2
        <5>4. x = y
          BY <4>4, <4>5, <5>1, <5>3, EntryUnique
        <5>5. QED
          BY <4>2, <4>3, <5>4 DEF Adjacent
      <4>8. CASE i = p
        <5>1. c1 = c2
          <6>1. i - 1 < p
            BY <4>8
          <6>2. t[i - 1][j - 1] = r[i - 1][j - 1]
            BY <2>1, <4>1, <6>1 DEF Replaced
          <6>3. QED
            BY <4>2, <4>3, <6>2
        <5>2. c1 <= x /\ x <= c1 + 1
          BY <3>2, <4>2, TableNear
        <5>3. c2 <= y /\ y <= c2 + 1
          BY <3>2, <4>3, TableNear
        <5>4. Adjacent(x, y)
          BY <5>1, <5>2, <5>3 DEF Adjacent
        <5>5. QED
          BY <4>2, <4>3, <4>8, <5>4
      <4>9. CASE i > p
        <5>1. c[i] = a[i]
          BY <4>1, <4>9
        <5>2. Adjacent(x, y)
          <6>1. Entry(a[i], b[j], y, u2, b2, c2)
            BY <4>5, <5>1
          <6>2. QED
            BY <4>4, <4>6, <6>1, EntriesAlike
        <5>3. QED
          BY <4>2, <4>3, <4>9, <5>2
      <4>10. QED
        BY <4>7, <4>8, <4>9
    <3>3. QED
      BY <3>1, <3>2
  <2>3. Replaced(a, b, r, t, p, s + 1)
    BY <2>2 DEF Replaced
  <2>4. QED
    BY <2>1, <2>3 DEF S
<1>3. S \in SUBSET Nat
  OBVIOUS
<1>4. \A s \in Nat : s \in S
  <2> HIDE DEF S
  <2>1. QED
    BY <1>1, <1>2, <1>3, Induction
<1>5. QED
  BY <1>4

\* Up to the sum s the table of a word without the letter of a at p is that of
\* a above row p, and from there on no more than one from the row below.
Shortened(c, b, r, t, p, s) ==
    \A i \in 0..Len(c), j \in 0..Len(b) : i + j < s =>
        /\ i < p => t[i][j] = r[i][j]
        /\ p <= i + 1 => Adjacent(r[i + 1][j], t[i][j])

LEMMA ShortenedOK ==
    ASSUME NEW a, NEW b, NEW c, Len(a) \in Nat, Len(b) \in Nat, Len(c) = Len(a) - 1,
           NEW p \in 1..Len(a),
           \A q \in 1..Len(c) : c[q] = IF q < p THEN a[q] ELSE a[q + 1],
           NEW r, NEW t, IsTable(a, b, r), IsTable(c, b, t)
    PROVE  \A s \in Nat : Shortened(c, b, r, t, p, s)
<1> DEFINE S == {s \in Nat : Shortened(c, b, r, t, p, s)}
<1>1. 0 \in S
  BY DEF Shortened
<1>2. ASSUME NEW s \in S
      PROVE  s + 1 \in S
  <2>1. s \in Nat /\ Shortened(c, b, r, t, p, s)
    OBVIOUS
  <2> HIDE DEF S
  <2>2. ASSUME NEW i \in 0..Len(c), NEW j \in 0..Len(b), i + j < s + 1
        PROVE  /\ i < p => t[i][j] = r[i][j]
               /\ p <= i + 1 => Adjacent(r[i + 1][j], t[i][j])
    <3>1. /\ i \in 0..Len(a) /\ i + 1 \in 1..Len(a) /\ i + 1 \in 0..Len(a) /\ Len(c) \in Nat
          /\ i + 1 # 0 /\ (i + 1) - 1 = i
      OBVIOUS
    <3>2. Adjacent(r[i + 1][j], r[i][j])
      <4>1. PICK k \in 0..Len(a) : k = i + 1 /\ k - 1 = i /\ k # 0
        BY <3>1
      <4>2. Adjacent(r[k][j], r[k - 1][j])
        BY <4>1, TableNear
      <4>3. QED
        BY <4>1, <4>2
    <3>3. CASE i = 0 \/ j = 0
      <4>1. /\ i = 0 => r[i][j] = j /\ t[i][j] = j
            /\ j = 0 => r[i][j] = i /\ t[i][j] = i
        BY <3>1 DEF IsTable
      <4>2. QED
        BY <3>2, <3>3, <4>1
    <3>4. CASE i # 0 /\ j # 0
      <4>1. /\ i \in 1..Len(c) /\ i \in 1..Len(a) /\ j \in 1..Len(b)
            /\ i - 1 \in 0..Len(c) /\ i - 1 \in 0..Len(a) /\ j - 1 \in 0..Len(b)
            /\ (i - 1) + j < s /\ i + (j - 1) < s /\ (i - 1) + (j - 1) < s
        BY <2>1, <2>2, <3>1, <3>4
      <4>2. PICK y \in Nat, u2 \in Nat, b2 \in Nat, c2 \in Nat :
               y = t[i][j] /\ u2 = t[i - 1][j] /\ b2 = t[i][j - 1] /\ c2 = t[i - 1][j - 1]
        BY <4>1 DEF IsTable
      <4>3. Entry(c[i], b[j], y, u2, b2, c2)
        BY <4>1, <4>2 DEF IsTable
      <4>4. CASE i < p
        <5>1. PICK x \in Nat, u1 \in Nat, b1 \in Nat, c1 \in Nat :
                 x = r[i][j] /\ u1 = r[i - 1][j] /\ b1 = r[i][j - 1] /\ c1 = r[i - 1][j - 1]
          BY <3>1, <4>1 DEF IsTable
        <5>2. Entry(a[i], b[j], x, u1, b1, c1)
          BY <4>1, <5>1 DEF IsTable
        <5>3. c[i] = a[i]
          BY <4>1, <4>4
        <5>4. /\ t[i - 1][j] = r[i - 1][j] /\ t[i][j - 1] = r[i][j - 1]
              /\ t[i - 1][j - 1] = r[i - 1][j - 1]
          <6>1. i - 1 < p /\ i < p
            BY <4>4
          <6>2. QED
            BY <2>1, <4>1, <6>1 DEF Shortened
        <5>5. u1 = u2 /\ b1 = b2 /\ c1 = c2
          BY <4>2, <5>1, <5>4
        <5>6. x = y
          BY <4>3, <5>2, <5>3, <5>5, EntryUnique
        <5>7. QED
          BY <3>2, <4>2, <5>1, <5>6
      <4>5. CASE p <= i
        <5>1. PICK k \in 1..Len(a) : k = i + 1 /\ k - 1 = i /\ k \in 0..Len(a)
          BY <3>1
        <5>2. PICK x \in Nat, u1 \in Nat, b1 \in Nat, c1 \in Nat :
                 x = r[k][j] /\ u1 = r[k - 1][j] /\ b1 = r[k][j - 1] /\ c1 = r[k - 1][j - 1]
          <6>1. k - 1 \in 0..Len(a) /\ j \in 0..Len(b)
            BY <5>1
          <6>2. /\ r[k][j] \in Nat /\ r[k - 1][j] \in Nat
                /\ r[k][j - 1] \in Nat /\ r[k - 1][j - 1] \in Nat
            BY <4>1, <5>1, <6>1 DEF IsTable
          <6>3. QED
            BY <6>2
        <5>3. Entry(a[k], b[j], x, u1, b1, c1)
          BY <4>1, <5>2 DEF IsTable
        <5>4. c[i] = a[k]
          BY <4>1, <4>5, <5>1
        <5>5. Adjacent(b1, b2)
          <6>1. Adjacent(r[i + 1][j - 1], t[i][j - 1])
            BY <2>1, <4>1, <4>5 DEF Shortened
          <6>2. QED
            BY <4>2, <5>1, <5>2, <6>1
        <5>6. Adjacent(u1, u2) /\ Adjacent(c1, c2)
          <6>1. PICK h \in 0..Len(c) : h = i - 1 /\ h + 1 = i /\ p <= h + 1
            BY <4>1, <4>5
          <6>2. Adjacent(r[h + 1][j], t[h][j]) /\ Adjacent(r[h + 1][j - 1], t[h][j - 1])
            BY <2>1, <4>1, <6>1 DEF Shortened
          <6>3. QED
            BY <4>2, <5>1, <5>2, <6>1, <6>2
        <5>7. Adjacent(x, y)
          BY <4>3, <5>3, <5>4, <5>5, <5>6, EntriesAlike, ZenonT(30)
        <5>8. QED
          BY <4>2, <4>5, <5>1, <5>2, <5>7
      <4>6. QED
        BY <4>4, <4>5
    <3>5. QED
      BY <3>3, <3>4
  <2>3. Shortened(c, b, r, t, p, s + 1)
    BY <2>2 DEF Shortened
  <2>4. QED
    BY <2>1, <2>3 DEF S
<1>3. S \in SUBSET Nat
  OBVIOUS
<1>4. \A s \in Nat : s \in S
  <2> HIDE DEF S
  <2>1. QED
    BY <1>1, <1>2, <1>3, Induction
<1>5. QED
  BY <1>4

-----------------------------------------------------------------------------
(* Words one edit apart.                                                   *)

Words == Seq(Letters)

\* v is w without the letter at p.
Shorter(w, v, p) ==
    /\ Len(v) = Len(w) - 1
    /\ \A q \in 1..Len(v) : v[q] = IF q < p THEN w[q] ELSE w[q + 1]

\* v differs from w in the letter at p.
Changed(w, v, p) ==
    /\ Len(v) = Len(w)
    /\ \A q \in 1..Len(w) : q # p => v[q] = w[q]

\* v comes from w by one edit.
Edited(w, v) ==
    \/ \E p \in 1..Len(w) : Shorter(w, v, p) \/ Changed(w, v, p)
    \/ \E p \in 1..Len(v) : Shorter(v, w, p)

LEMMA Piece ==
    ASSUME NEW w \in Words, NEW m \in Nat, NEW n \in Nat, 1 <= m, n <= Len(w), m <= n + 1
    PROVE  /\ SubSeq(w, m, n) \in Words
           /\ Len(SubSeq(w, m, n)) = n - m + 1
           /\ \A q \in 1..n - m + 1 : SubSeq(w, m, n)[q] = w[m + q - 1]
<1>1. Len(w) \in Nat /\ \A q \in 1..Len(w) : w[q] \in Letters
  BY LenProperties, ElementOfSeq DEF Words
<1>2. \A q \in m..n : w[q] \in Letters
  BY <1>1
<1>3. m \in Int /\ n \in Int
  OBVIOUS
<1>4. /\ SubSeq(w, m, n) \in Words
      /\ Len(SubSeq(w, m, n)) = IF m <= n THEN n - m + 1 ELSE 0
      /\ \A q \in 1..n - m + 1 : SubSeq(w, m, n)[q] = w[m + q - 1]
  BY <1>2, <1>3, SubSeqProperties DEF Words
<1>5. QED
  BY <1>4

LEMMA WithoutIs ==
    ASSUME NEW w \in Words, NEW p \in 1..Len(w)
    PROVE  Without(w, p) \in Words /\ Shorter(w, Without(w, p), p)
<1>1. Len(w) \in Nat
  BY LenProperties DEF Words
<1>2. PICK s, t : s = SubSeq(w, 1, p - 1) /\ t = SubSeq(w, p + 1, Len(w))
  OBVIOUS
<1>3. /\ s \in Words /\ Len(s) = p - 1
      /\ \A q \in 1..p - 1 : s[q] = w[q]
  <2>1. /\ p - 1 \in Nat /\ 1 <= 1 /\ 1 \in Nat /\ p - 1 <= Len(w) /\ 1 <= (p - 1) + 1
        /\ (p - 1) - 1 + 1 = p - 1
    BY <1>1
  <2>2. /\ s \in Words /\ Len(s) = (p - 1) - 1 + 1
        /\ \A q \in 1..(p - 1) - 1 + 1 : s[q] = w[1 + q - 1]
    BY <1>2, <2>1, Piece
  <2>3. QED
    BY <2>1, <2>2
<1>4. /\ t \in Words /\ Len(t) = Len(w) - p
      /\ \A q \in 1..Len(w) - p : t[q] = w[p + q]
  <2>1. p + 1 \in Nat /\ 1 <= p + 1 /\ Len(w) <= Len(w) /\ p + 1 <= Len(w) + 1
    BY <1>1
  <2>2. /\ t \in Words /\ Len(t) = Len(w) - (p + 1) + 1
        /\ \A q \in 1..Len(w) - (p + 1) + 1 : t[q] = w[(p + 1) + q - 1]
    BY <1>1, <1>2, <2>1, Piece
  <2>3. Len(w) - (p + 1) + 1 = Len(w) - p /\ \A q \in Int : (p + 1) + q - 1 = p + q
    BY <1>1
  <2>4. QED
    BY <2>2, <2>3
<1>5. Without(w, p) = s \o t
  BY <1>2 DEF Without
<1>6. PICK v : v = s \o t
  OBVIOUS
<1>7. /\ v \in Words /\ Len(v) = Len(s) + Len(t)
      /\ \A q \in 1..Len(s) + Len(t) : v[q] = IF q <= Len(s) THEN s[q] ELSE t[q - Len(s)]
  BY <1>3, <1>4, <1>6, ConcatProperties DEF Words
<1>8. Len(v) = Len(w) - 1
  BY <1>1, <1>3, <1>4, <1>7
<1>9. ASSUME NEW q \in 1..Len(v)
      PROVE  v[q] = IF q < p THEN w[q] ELSE w[q + 1]
  <2>1. v[q] = IF q <= p - 1 THEN s[q] ELSE t[q - (p - 1)]
    BY <1>1, <1>3, <1>4, <1>7, <1>8
  <2>2. CASE q < p
    BY <1>3, <2>1, <2>2
  <2>3. CASE ~(q < p)
    <3>1. q - (p - 1) \in 1..Len(w) - p /\ p + (q - (p - 1)) = q + 1
      BY <1>1, <1>8, <2>3
    <3>2. QED
      BY <1>4, <2>1, <2>3, <3>1
  <2>4. QED
    BY <2>2, <2>3
<1>10. QED
  BY <1>5, <1>6, <1>7, <1>8, <1>9 DEF Shorter

LEMMA WithIs ==
    ASSUME NEW w \in Words, NEW p \in 1..Len(w) + 1, NEW x \in Letters
    PROVE  With(w, p, x) \in Words /\ Shorter(With(w, p, x), w, p) /\ With(w, p, x)[p] = x
<1>1. Len(w) \in Nat
  BY LenProperties DEF Words
<1>2. PICK s, t : s = SubSeq(w, 1, p - 1) /\ t = SubSeq(w, p, Len(w))
  OBVIOUS
<1>3. /\ s \in Words /\ Len(s) = p - 1
      /\ \A q \in 1..p - 1 : s[q] = w[q]
  <2>1. /\ p - 1 \in Nat /\ 1 <= 1 /\ 1 \in Nat /\ p - 1 <= Len(w) /\ 1 <= (p - 1) + 1
        /\ (p - 1) - 1 + 1 = p - 1
    BY <1>1
  <2>2. /\ s \in Words /\ Len(s) = (p - 1) - 1 + 1
        /\ \A q \in 1..(p - 1) - 1 + 1 : s[q] = w[1 + q - 1]
    BY <1>2, <2>1, Piece
  <2>3. QED
    BY <2>1, <2>2
<1>4. /\ t \in Words /\ Len(t) = Len(w) - p + 1
      /\ \A q \in 1..Len(w) - p + 1 : t[q] = w[p + q - 1]
  <2>1. p \in Nat /\ 1 <= p /\ Len(w) <= Len(w) /\ p <= Len(w) + 1
    BY <1>1
  <2>2. QED
    BY <1>1, <1>2, <2>1, Piece
<1>5. <<x>> \in Words /\ Len(<<x>>) = 1 /\ <<x>>[1] = x
  BY DEF Words
<1>6. PICK h : h = s \o <<x>>
  OBVIOUS
<1>7. /\ h \in Words /\ Len(h) = p
      /\ \A q \in 1..p : h[q] = IF q <= p - 1 THEN s[q] ELSE x
  <2>1. /\ h \in Words /\ Len(h) = Len(s) + Len(<<x>>)
        /\ \A q \in 1..Len(s) + Len(<<x>>) : h[q] = IF q <= Len(s) THEN s[q] ELSE <<x>>[q - Len(s)]
    BY <1>3, <1>5, <1>6, ConcatProperties DEF Words
  <2>2. \A q \in 1..p : q <= p - 1 \/ q - (p - 1) = 1
    OBVIOUS
  <2>3. QED
    BY <1>3, <1>5, <2>1, <2>2
<1>8. PICK v : v = h \o t
  OBVIOUS
<1>9. /\ v \in Words /\ Len(v) = Len(w) + 1
      /\ \A q \in 1..Len(w) + 1 : v[q] = IF q <= p THEN h[q] ELSE t[q - p]
  <2>1. /\ v \in Words /\ Len(v) = Len(h) + Len(t)
        /\ \A q \in 1..Len(h) + Len(t) : v[q] = IF q <= Len(h) THEN h[q] ELSE t[q - Len(h)]
    BY <1>4, <1>7, <1>8, ConcatProperties DEF Words
  <2>2. QED
    BY <1>1, <1>4, <1>7, <2>1
<1>10. With(w, p, x) = v
  BY <1>2, <1>6, <1>8 DEF With
<1>11. ASSUME NEW q \in 1..Len(w)
       PROVE  w[q] = IF q < p THEN v[q] ELSE v[q + 1]
  <2>1. CASE q < p
    BY <1>1, <1>3, <1>7, <1>9, <2>1
  <2>2. CASE ~(q < p)
    <3>1. /\ q + 1 \in 1..Len(w) + 1 /\ ~(q + 1 <= p)
          /\ (q + 1) - p \in 1..Len(w) - p + 1 /\ p + ((q + 1) - p) - 1 = q
      BY <1>1, <2>2
    <3>2. v[q + 1] = t[(q + 1) - p]
      BY <1>9, <3>1
    <3>3. QED
      BY <1>4, <2>2, <3>1, <3>2
  <2>3. QED
    BY <2>1, <2>2
<1>12. v[p] = x
  BY <1>1, <1>7, <1>9
<1>13. Len(w) = Len(v) - 1
  BY <1>1, <1>9
<1>14. QED
  BY <1>9, <1>10, <1>11, <1>12, <1>13 DEF Shorter

\* Two words without the same letter, or that have it, are the same.
LEMMA ShorterUnique ==
    ASSUME NEW w \in Words, NEW u \in Words, NEW v \in Words, NEW p \in 1..Len(w),
           Shorter(w, u, p), Shorter(w, v, p)
    PROVE  u = v
<1>1. Len(u) = Len(v) /\ \A q \in 1..Len(u) : u[q] = v[q]
  BY DEF Shorter
<1>2. QED
  BY <1>1, SeqEqual DEF Words

LEMMA LongerUnique ==
    ASSUME NEW w \in Words, NEW u \in Words, NEW v \in Words, NEW p \in 1..Len(v),
           Shorter(u, w, p), Shorter(v, w, p), u[p] = v[p]
    PROVE  u = v
<1>1. /\ Len(u) = Len(v) /\ Len(w) = Len(v) - 1
      /\ Len(u) \in Nat /\ Len(v) \in Nat /\ Len(w) \in Nat
  BY LenProperties DEF Shorter, Words
<1>2. ASSUME NEW q \in 1..Len(u)
      PROVE  u[q] = v[q]
  <2>1. CASE q < p
    <3>1. q \in 1..Len(w)
      BY <1>1, <2>1
    <3>2. QED
      BY <2>1, <3>1 DEF Shorter
  <2>2. CASE p < q
    <3>1. PICK k \in 1..Len(w) : k = q - 1 /\ k + 1 = q /\ ~(k < p)
      BY <1>1, <2>2
    <3>2. w[k] = u[k + 1] /\ w[k] = v[k + 1]
      BY <3>1 DEF Shorter
    <3>3. QED
      BY <3>1, <3>2
  <2>3. QED
    BY <1>1, <2>1, <2>2
<1>3. QED
  BY <1>1, <1>2, SeqEqual DEF Words

\* The neighbours of a word are the words that one edit makes of it.
LEMMA NeighboursAre ==
    ASSUME NEW w \in Words, NEW v
    PROVE  v \in Neighbours(w) <=> v \in Words /\ Edited(w, v)
<1>1. Len(w) \in Nat
  BY LenProperties DEF Words
<1>2. ASSUME v \in Neighbours(w)
      PROVE  v \in Words /\ Edited(w, v)
  <2>1. CASE \E p \in 1..Len(w) : v = Without(w, p)
    BY <2>1, WithoutIs DEF Edited
  <2>2. CASE \E p \in 1..Len(w), x \in Letters : v = [w EXCEPT ![p] = x]
    <3>1. PICK p \in 1..Len(w), x \in Letters : v = [w EXCEPT ![p] = x]
      BY <2>2
    <3>2. /\ v \in Words /\ Len(v) = Len(w)
          /\ \A q \in 1..Len(w) : v[q] = IF q = p THEN x ELSE w[q]
      BY <3>1, ExceptSeq DEF Words
    <3>3. QED
      BY <3>2 DEF Edited, Changed
  <2>3. CASE \E p \in 1..Len(w) + 1, x \in Letters : v = With(w, p, x)
    <3>1. PICK p \in 1..Len(w) + 1, x \in Letters : v = With(w, p, x)
      BY <2>3
    <3>2. v \in Words /\ Shorter(v, w, p)
      BY <3>1, WithIs
    <3>3. p \in 1..Len(v)
      <4>1. Len(w) = Len(v) - 1 /\ Len(v) \in Nat
        BY <3>2, LenProperties DEF Shorter, Words
      <4>2. QED
        BY <4>1
    <3>4. QED
      BY <3>2, <3>3 DEF Edited
  <2>4. QED
    BY <1>2, <2>1, <2>2, <2>3 DEF Neighbours
<1>3. ASSUME v \in Words, Edited(w, v)
      PROVE  v \in Neighbours(w)
  <2>1. ASSUME NEW p \in 1..Len(w), Shorter(w, v, p)
        PROVE  v \in Neighbours(w)
    <3>1. v = Without(w, p)
      BY <1>3, <2>1, WithoutIs, ShorterUnique
    <3>2. QED
      BY <3>1 DEF Neighbours
  <2>2. ASSUME NEW p \in 1..Len(w), Changed(w, v, p)
        PROVE  v \in Neighbours(w)
    <3>1. Len(v) = Len(w) /\ v[p] \in Letters
      BY <1>3, <2>2, ElementOfSeq DEF Changed, Words
    <3>2. PICK u : u = [w EXCEPT ![p] = v[p]]
      OBVIOUS
    <3>3. /\ u \in Words /\ Len(u) = Len(w)
          /\ \A q \in 1..Len(w) : u[q] = IF q = p THEN v[p] ELSE w[q]
      BY <3>1, <3>2, ExceptSeq DEF Words
    <3>4. \A q \in 1..Len(u) : u[q] = v[q]
      BY <2>2, <3>3 DEF Changed
    <3>5. u = v
      BY <1>3, <3>1, <3>3, <3>4, SeqEqual DEF Words
    <3>6. QED
      BY <3>1, <3>2, <3>5 DEF Neighbours
  <2>3. ASSUME NEW p \in 1..Len(v), Shorter(v, w, p)
        PROVE  v \in Neighbours(w)
    <3>1. Len(v) \in Nat /\ Len(w) = Len(v) - 1 /\ v[p] \in Letters
      BY <1>3, <2>3, LenProperties, ElementOfSeq DEF Shorter, Words
    <3>2. p \in 1..Len(w) + 1
      BY <3>1
    <3>3. PICK u : u = With(w, p, v[p])
      OBVIOUS
    <3>4. u \in Words /\ Shorter(u, w, p) /\ u[p] = v[p]
      BY <3>1, <3>2, <3>3, WithIs
    <3>5. u = v
      BY <1>3, <2>3, <3>4, LongerUnique
    <3>6. PICK x \in Letters : x = v[p]
      BY <3>1
    <3>7. v = With(w, p, x)
      BY <3>3, <3>5, <3>6
    <3>8. v \in {With(w, q, y) : q \in 1..Len(w) + 1, y \in Letters}
      BY <3>2, <3>7
    <3>9. QED
      BY <3>8 DEF Neighbours
  <2>4. QED
    BY <1>3, <2>1, <2>2, <2>3 DEF Edited
<1>4. QED
  BY <1>2, <1>3

\* Words one edit apart are one apart in their distance from any word.
LEMMA EditMoves ==
    ASSUME NEW a \in Words, NEW c \in Words, NEW b \in Words, Edited(a, c)
    PROVE  Adjacent(Levenshtein(a, b), Levenshtein(c, b))
<1>1. /\ Len(a) \in Nat /\ Len(b) \in Nat /\ Len(c) \in Nat
  BY LenProperties DEF Words
<1>2. PICK r : IsTable(a, b, r) /\ Levenshtein(a, b) = r[Len(a)][Len(b)]
  BY <1>1, Table
<1>3. PICK t : IsTable(c, b, t) /\ Levenshtein(c, b) = t[Len(c)][Len(b)]
  BY <1>1, Table
<1>4. ASSUME NEW p \in 1..Len(a), Changed(a, c, p)
      PROVE  Adjacent(Levenshtein(a, b), Levenshtein(c, b))
  <2>1. PICK s \in Nat : Len(a) + Len(b) < s
    <3>1. Len(a) + Len(b) < Len(a) + Len(b) + 1 /\ Len(a) + Len(b) + 1 \in Nat
      BY <1>1
    <3>2. QED
      BY <3>1
  <2>2. Len(c) = Len(a) /\ \A q \in 1..Len(a) : q # p => c[q] = a[q]
    BY <1>4 DEF Changed
  <2>3. Replaced(a, b, r, t, p, s)
    BY <1>1, <1>2, <1>3, <2>2, ReplacedOK
  <2>4. Len(a) \in 0..Len(a) /\ Len(b) \in 0..Len(b)
    BY <1>1
  <2>5. QED
    BY <1>2, <1>3, <2>1, <2>2, <2>3, <2>4 DEF Replaced
<1>5. ASSUME NEW p \in 1..Len(a), Shorter(a, c, p)
      PROVE  Adjacent(Levenshtein(a, b), Levenshtein(c, b))
  <2>1. PICK s \in Nat : Len(c) + Len(b) < s
    <3>1. Len(c) + Len(b) < Len(c) + Len(b) + 1 /\ Len(c) + Len(b) + 1 \in Nat
      BY <1>1
    <3>2. QED
      BY <3>1
  <2>2. Len(c) = Len(a) - 1 /\ \A q \in 1..Len(c) : c[q] = IF q < p THEN a[q] ELSE a[q + 1]
    BY <1>5 DEF Shorter
  <2>3. Shortened(c, b, r, t, p, s)
    BY <1>1, <1>2, <1>3, <2>2, ShortenedOK
  <2>4. /\ Len(c) \in 0..Len(c) /\ Len(b) \in 0..Len(b)
        /\ p <= Len(c) + 1 /\ Len(c) + 1 = Len(a)
    BY <1>1, <2>2
  <2>5. Adjacent(r[Len(c) + 1][Len(b)], t[Len(c)][Len(b)])
    BY <2>1, <2>3, <2>4 DEF Shortened
  <2>6. QED
    BY <1>2, <1>3, <2>4, <2>5
<1>6. ASSUME NEW p \in 1..Len(c), Shorter(c, a, p)
      PROVE  Adjacent(Levenshtein(a, b), Levenshtein(c, b))
  <2>1. PICK s \in Nat : Len(a) + Len(b) < s
    <3>1. Len(a) + Len(b) < Len(a) + Len(b) + 1 /\ Len(a) + Len(b) + 1 \in Nat
      BY <1>1
    <3>2. QED
      BY <3>1
  <2>2. Len(a) = Len(c) - 1 /\ \A q \in 1..Len(a) : a[q] = IF q < p THEN c[q] ELSE c[q + 1]
    BY <1>6 DEF Shorter
  <2>3. Shortened(a, b, t, r, p, s)
    BY <1>1, <1>2, <1>3, <2>2, ShortenedOK
  <2>4. /\ Len(a) \in 0..Len(a) /\ Len(b) \in 0..Len(b)
        /\ p <= Len(a) + 1 /\ Len(a) + 1 = Len(c)
    BY <1>1, <2>2
  <2>5. Adjacent(t[Len(a) + 1][Len(b)], r[Len(a)][Len(b)])
    BY <2>1, <2>3, <2>4 DEF Shortened
  <2>6. QED
    BY <1>2, <1>3, <2>4, <2>5 DEF Adjacent
<1>7. QED
  BY <1>4, <1>5, <1>6 DEF Edited

-----------------------------------------------------------------------------
(* Words that some edits lead to.                                          *)

\* What the recursion of Reachable makes of the words so far ...
Spread(a, f, k) == IF k = 0 THEN {a} ELSE f[k - 1] \cup UNION {Neighbours(w) : w \in f[k - 1]}

\* ... and a solution of it below s.
Spreads(a, f, s) == \A k \in Nat : k < s => f[k] = Spread(a, f, k)

LEMMA SpreadFrame ==
    ASSUME NEW a, NEW f, NEW g, NEW k \in Nat, k # 0 => f[k - 1] = g[k - 1]
    PROVE  Spread(a, f, k) = Spread(a, g, k)
BY Zenon DEF Spread

LEMMA SpreadExists ==
    ASSUME NEW a, NEW n \in Nat
    PROVE  \E f : f = [k \in 0..n |-> Spread(a, f, k)]
<1> DEFINE Filled(f, s) == \A k \in 0..n : k < s => f[k] = Spread(a, f, k)
           S == {s \in Nat : \E f : Filled(f, s)}
<1>1. 0 \in S
  <2>1. \A f : Filled(f, 0)
    OBVIOUS
  <2>2. QED
    BY <2>1
<1>2. ASSUME NEW s \in S
      PROVE  s + 1 \in S
  <2>1. s \in Nat /\ \E f : Filled(f, s)
    OBVIOUS
  <2>2. PICK f : Filled(f, s)
    BY <2>1
  <2> DEFINE g == [k \in 0..n |-> Spread(a, f, k)]
  <2>3. \A k \in 0..n : g[k] = Spread(a, f, k)
    OBVIOUS
  <2> HIDE DEF g, S
  <2>4. ASSUME NEW k \in 0..n, k < s + 1
        PROVE  g[k] = Spread(a, g, k)
    <3>1. k # 0 => k - 1 \in 0..n /\ k - 1 < s
      BY <2>1, <2>4
    <3>2. k # 0 => f[k - 1] = g[k - 1]
      BY <2>2, <2>3, <3>1
    <3>3. Spread(a, f, k) = Spread(a, g, k)
      BY <3>2, SpreadFrame
    <3>4. QED
      BY <2>3, <3>3
  <2>5. Filled(g, s + 1)
    BY <2>4
  <2>6. QED
    BY <2>1, <2>5 DEF S
<1>3. S \in SUBSET Nat
  OBVIOUS
<1>4. n + 1 \in S
  <2> HIDE DEF S
  <2>1. QED
    BY <1>1, <1>2, <1>3, Induction
<1>5. PICK f : Filled(f, n + 1)
  BY <1>4
<1> DEFINE g == [k \in 0..n |-> f[k]]
<1>6. \A k \in 0..n : g[k] = f[k]
  OBVIOUS
<1> HIDE DEF g
<1>7. ASSUME NEW k \in 0..n
      PROVE  g[k] = Spread(a, g, k)
  <2>1. k < n + 1 /\ (k # 0 => k - 1 \in 0..n)
    OBVIOUS
  <2>2. Spread(a, f, k) = Spread(a, g, k)
    BY <1>6, <2>1, SpreadFrame
  <2>3. QED
    BY <1>5, <1>6, <2>1, <2>2
<1>8. g = [k \in 0..n |-> Spread(a, g, k)]
  <2>1. g = [k \in 0..n |-> g[k]]
    BY DEF g
  <2>2. QED
    BY <1>7, <2>1
<1>9. QED
  BY <1>8

\* Reachable looks at the last set of a solution ...
LEMMA ReachableIs ==
    ASSUME NEW a, NEW n \in Nat
    PROVE  \E f : Spreads(a, f, n + 1) /\ \A b : Reachable(a, b, n) <=> b \in f[n]
<1> DEFINE ball == CHOOSE f : f = [k \in 0..n |-> Spread(a, f, k)]
<1>1. ball = [k \in 0..n |-> Spread(a, ball, k)]
  BY SpreadExists, Zenon
<1>2. \A b : Reachable(a, b, n) <=> b \in ball[n]
  BY Zenon DEF Reachable, Spread
<1> HIDE DEF ball
<1>3. Spreads(a, ball, n + 1)
  <2>1. ASSUME NEW k \in Nat, k < n + 1
        PROVE  ball[k] = Spread(a, ball, k)
    <3>1. k \in 0..n
      BY <2>1
    <3>2. QED
      BY <1>1, <3>1
  <2>2. QED
    BY <2>1 DEF Spreads
<1>4. QED
  BY <1>2, <1>3

\* ... of which there is one.
LEMMA SpreadUnique ==
    ASSUME NEW a, NEW f, NEW g, NEW m \in Nat, NEW n \in Nat,
           Spreads(a, f, m), Spreads(a, g, n)
    PROVE  \A k \in Nat : k < m /\ k < n => f[k] = g[k]
<1> DEFINE S == {k \in Nat : k < m /\ k < n => f[k] = g[k]}
<1>1. 0 \in S
  <2>1. 0 < m /\ 0 < n => f[0] = Spread(a, f, 0) /\ g[0] = Spread(a, g, 0)
    BY DEF Spreads
  <2>2. Spread(a, f, 0) = Spread(a, g, 0)
    BY SpreadFrame
  <2>3. QED
    BY <2>1, <2>2
<1>2. ASSUME NEW k \in S
      PROVE  k + 1 \in S
  <2>1. PICK l \in Nat : l = k + 1 /\ l - 1 = k
    OBVIOUS
  <2>2. ASSUME l < m, l < n
        PROVE  f[l] = g[l]
    <3>1. f[l - 1] = g[l - 1]
      BY <2>1, <2>2
    <3>2. Spread(a, f, l) = Spread(a, g, l)
      BY <3>1, SpreadFrame
    <3>3. QED
      BY <2>2, <3>2 DEF Spreads
  <2>3. QED
    BY <2>1, <2>2
<1>3. S \in SUBSET Nat
  OBVIOUS
<1>4. \A k \in Nat : k \in S
  <2> HIDE DEF S
  <2>1. QED
    BY <1>1, <1>2, <1>3, Induction
<1>5. QED
  BY <1>4

LEMMA ReachableNone ==
    ASSUME NEW a, NEW b
    PROVE  Reachable(a, b, 0) <=> b = a
<1>1. PICK f : Spreads(a, f, 0 + 1) /\ (Reachable(a, b, 0) <=> b \in f[0])
  BY ReachableIs
<1>2. f[0] = Spread(a, f, 0)
  BY <1>1 DEF Spreads
<1>3. Spread(a, f, 0) = {a}
  BY DEF Spread
<1>4. QED
  BY <1>1, <1>2, <1>3

LEMMA ReachableMore ==
    ASSUME NEW a, NEW b, NEW n \in Nat
    PROVE  Reachable(a, b, n + 1) <=>
              Reachable(a, b, n) \/ \E w : Reachable(a, w, n) /\ b \in Neighbours(w)
<1>1. PICK f : Spreads(a, f, n + 1) /\ \A c : Reachable(a, c, n) <=> c \in f[n]
  BY ReachableIs
<1>2. PICK m \in Nat : m = n + 1 /\ m - 1 = n /\ m # 0 /\ m < m + 1 /\ n < m /\ n < m + 1
  OBVIOUS
<1>3. PICK g : Spreads(a, g, m + 1) /\ \A c : Reachable(a, c, m) <=> c \in g[m]
  BY ReachableIs
<1>4. m + 1 \in Nat
  OBVIOUS
<1>5. f[n] = g[n]
  BY <1>1, <1>2, <1>3, <1>4, SpreadUnique
<1>6. g[m] = Spread(a, g, m)
  BY <1>2, <1>3 DEF Spreads
<1>7. Spread(a, g, m) = g[n] \cup UNION {Neighbours(w) : w \in g[n]}
  BY <1>2 DEF Spread
<1>8. Reachable(a, b, m) <=> b \in g[n] \/ \E w \in g[n] : b \in Neighbours(w)
  BY <1>3, <1>6, <1>7
<1>9. QED
  BY <1>1, <1>2, <1>5, <1>8

\* More edits lead further.
LEMMA ReachableMonotone ==
    ASSUME NEW a, NEW b, NEW m \in Nat, Reachable(a, b, m)
    PROVE  \A n \in Nat : m <= n => Reachable(a, b, n)
<1> DEFINE S == {n \in Nat : m <= n => Reachable(a, b, n)}
<1>1. 0 \in S
  <2>1. m <= 0 => m = 0
    OBVIOUS
  <2>2. QED
    BY <2>1
<1>2. ASSUME NEW n \in S
      PROVE  n + 1 \in S
  <2>1. n \in Nat /\ (m <= n => Reachable(a, b, n)) /\ n + 1 \in Nat
    OBVIOUS
  <2>2. m <= n + 1 => m <= n \/ m = n + 1
    BY <2>1
  <2>3. Reachable(a, b, n) => Reachable(a, b, n + 1)
    BY <2>1, ReachableMore
  <2>4. m <= n + 1 => Reachable(a, b, n + 1)
    BY <2>1, <2>2, <2>3
  <2>5. QED
    BY <2>1, <2>4
<1>3. S \in SUBSET Nat
  OBVIOUS
<1>4. \A n \in Nat : n \in S
  <2> HIDE DEF S
  <2>1. QED
    BY <1>1, <1>2, <1>3, Induction
<1>5. QED
  BY <1>4

-----------------------------------------------------------------------------
(* The table counts the fewest edits.                                      *)

LEMMA LevenshteinType ==
    ASSUME NEW a \in Words, NEW b \in Words
    PROVE  Levenshtein(a, b) \in Nat /\ Levenshtein(b, b) = 0
<1>1. Len(a) \in Nat /\ Len(b) \in Nat
  BY LenProperties DEF Words
<1>2. PICK r : IsTable(a, b, r) /\ Levenshtein(a, b) = r[Len(a)][Len(b)]
  BY <1>1, Table
<1>3. PICK t : IsTable(b, b, t) /\ Levenshtein(b, b) = t[Len(b)][Len(b)]
  BY <1>1, Table
<1>4. Len(a) \in 0..Len(a) /\ Len(b) \in 0..Len(b)
  BY <1>1
<1>5. Levenshtein(a, b) \in Nat
  BY <1>2, <1>4 DEF IsTable
<1>6. Levenshtein(b, b) = 0
  BY <1>1, <1>3, SelfDistance
<1>7. QED
  BY <1>5, <1>6

\* An edit brings no word nearer than by one.
Bounded(a, n) ==
    \A b : Reachable(a, b, n) =>
        b \in Words /\ \A c \in Words : Levenshtein(a, c) <= n + Levenshtein(b, c)

LEMMA EditsNeeded ==
    ASSUME NEW a \in Words
    PROVE  \A n \in Nat : Bounded(a, n)
<1> DEFINE S == {n \in Nat : Bounded(a, n)}
<1>1. 0 \in S
  <2>1. \A b : Reachable(a, b, 0) => b = a
    BY ReachableNone
  <2>2. \A c \in Words : Levenshtein(a, c) <= 0 + Levenshtein(a, c)
    BY LevenshteinType
  <2>3. QED
    BY <2>1, <2>2 DEF Bounded
<1>2. ASSUME NEW n \in S
      PROVE  n + 1 \in S
  <2>1. n \in Nat /\ n + 1 \in Nat /\ Bounded(a, n)
    OBVIOUS
  <2> HIDE DEF S
  <2>2. ASSUME NEW b, Reachable(a, b, n + 1)
        PROVE  b \in Words /\ \A c \in Words : Levenshtein(a, c) <= (n + 1) + Levenshtein(b, c)
    <3>1. CASE Reachable(a, b, n)
      <4>1. b \in Words /\ \A c \in Words : Levenshtein(a, c) <= n + Levenshtein(b, c)
        BY <2>1, <3>1 DEF Bounded
      <4>2. \A c \in Words : Levenshtein(a, c) \in Nat /\ Levenshtein(b, c) \in Nat
        BY <4>1, LevenshteinType
      <4>3. QED
        BY <2>1, <4>1, <4>2
    <3>2. CASE \E w : Reachable(a, w, n) /\ b \in Neighbours(w)
      <4>1. PICK w : Reachable(a, w, n) /\ b \in Neighbours(w)
        BY <3>2
      <4>2. w \in Words /\ \A c \in Words : Levenshtein(a, c) <= n + Levenshtein(w, c)
        BY <2>1, <4>1 DEF Bounded
      <4>3. b \in Words /\ Edited(w, b)
        BY <4>1, <4>2, NeighboursAre
      <4>4. ASSUME NEW c \in Words
            PROVE  Levenshtein(a, c) <= (n + 1) + Levenshtein(b, c)
        <5>1. PICK x \in Nat, y \in Nat, z \in Nat :
                 x = Levenshtein(a, c) /\ y = Levenshtein(w, c) /\ z = Levenshtein(b, c)
          BY <4>2, <4>3, LevenshteinType
        <5>2. x <= n + y
          BY <4>2, <5>1
        <5>3. Adjacent(y, z)
          BY <4>2, <4>3, <5>1, EditMoves
        <5>4. QED
          BY <2>1, <5>1, <5>2, <5>3 DEF Adjacent
      <4>5. QED
        BY <4>3, <4>4
    <3>3. QED
      BY <2>1, <2>2, <3>1, <3>2, ReachableMore
  <2>3. Bounded(a, n + 1)
    BY <2>2 DEF Bounded
  <2>4. QED
    BY <2>1, <2>3 DEF S
<1>3. S \in SUBSET Nat
  OBVIOUS
<1>4. \A n \in Nat : n \in S
  <2> HIDE DEF S
  <2>1. QED
    BY <1>1, <1>2, <1>3, Induction
<1>5. QED
  BY <1>4

\* The first j letters of b and what follows the first i of a.
Mixed(a, b, i, j) ==
    [q \in 1..j + Len(a) - i |-> IF q <= j THEN b[q] ELSE a[q - j + i]]

LEMMA MixedIs ==
    ASSUME NEW a \in Words, NEW b \in Words, NEW i \in 0..Len(a), NEW j \in 0..Len(b)
    PROVE  /\ Mixed(a, b, i, j) \in Words
           /\ Len(Mixed(a, b, i, j)) = j + Len(a) - i
           /\ \A q \in 1..j + Len(a) - i :
                 Mixed(a, b, i, j)[q] = IF q <= j THEN b[q] ELSE a[q - j + i]
<1>1. /\ Len(a) \in Nat /\ \A q \in 1..Len(a) : a[q] \in Letters
      /\ Len(b) \in Nat /\ \A q \in 1..Len(b) : b[q] \in Letters
  BY LenProperties, ElementOfSeq DEF Words
<1>2. PICK n \in Nat : n = j + Len(a) - i
  <2>1. j + Len(a) - i \in Nat
    BY <1>1
  <2>2. QED
    BY <2>1
<1>3. ASSUME NEW q \in 1..n
      PROVE  (IF q <= j THEN b[q] ELSE a[q - j + i]) \in Letters
  <2>1. CASE q <= j
    <3>1. q \in 1..Len(b)
      BY <1>1, <2>1
    <3>2. QED
      BY <1>1, <2>1, <3>1
  <2>2. CASE ~(q <= j)
    <3>1. q - j + i \in 1..Len(a)
      BY <1>1, <1>2, <2>2
    <3>2. QED
      BY <1>1, <2>2, <3>1
  <2>3. QED
    BY <2>1, <2>2
<1> DEFINE m == [q \in 1..n |-> IF q <= j THEN b[q] ELSE a[q - j + i]]
<1>4. m \in [1..n -> Letters]
  BY <1>3
<1>5. m \in Words /\ Len(m) = n
  <2> HIDE DEF m
  <2>1. m \in Seq(Letters)
    BY <1>4, SeqDef
  <2>2. DOMAIN m = 1..n /\ DOMAIN m = 1..Len(m) /\ Len(m) \in Nat
    BY <1>4, <2>1, LenProperties
  <2>3. QED
    BY <2>1, <2>2 DEF Words
<1>6. m = Mixed(a, b, i, j)
  BY <1>2 DEF Mixed
<1>7. \A q \in 1..n : m[q] = IF q <= j THEN b[q] ELSE a[q - j + i]
  OBVIOUS
<1> HIDE DEF m
<1>8. QED
  BY <1>2, <1>5, <1>6, <1>7

\* Between two mixtures: take in a letter of b ...
LEMMA MixedInsert ==
    ASSUME NEW a \in Words, NEW b \in Words, NEW i \in 0..Len(a), NEW j \in 1..Len(b)
    PROVE  Edited(Mixed(a, b, i, j - 1), Mixed(a, b, i, j))
<1>1. Len(a) \in Nat /\ Len(b) \in Nat /\ j \in 0..Len(b) /\ j - 1 \in 0..Len(b)
  BY LenProperties DEF Words
<1>2. PICK u : u = Mixed(a, b, i, j - 1)
  OBVIOUS
<1>3. PICK v : v = Mixed(a, b, i, j)
  OBVIOUS
<1>4. /\ Len(u) = (j - 1) + Len(a) - i
      /\ \A q \in 1..(j - 1) + Len(a) - i : u[q] = IF q <= j - 1 THEN b[q] ELSE a[q - (j - 1) + i]
  BY <1>1, <1>2, MixedIs
<1>5. /\ Len(v) = j + Len(a) - i
      /\ \A q \in 1..j + Len(a) - i : v[q] = IF q <= j THEN b[q] ELSE a[q - j + i]
  BY <1>1, <1>3, MixedIs
<1>6. Len(u) = Len(v) - 1 /\ j \in 1..Len(v)
  BY <1>1, <1>4, <1>5
<1>7. ASSUME NEW q \in 1..Len(u)
      PROVE  u[q] = IF q < j THEN v[q] ELSE v[q + 1]
  <2>1. CASE q < j
    <3>1. q \in 1..j + Len(a) - i /\ q <= j
      BY <1>1, <1>4, <2>1
    <3>2. q \in 1..(j - 1) + Len(a) - i /\ q <= j - 1
      BY <1>1, <1>4, <2>1
    <3>3. v[q] = b[q]
      BY <1>5, <3>1
    <3>4. u[q] = b[q]
      BY <1>4, <3>2
    <3>5. QED
      BY <2>1, <3>3, <3>4
  <2>2. CASE ~(q < j)
    <3>1. q + 1 \in 1..j + Len(a) - i /\ ~(q + 1 <= j) /\ (q + 1) - j + i = q - (j - 1) + i
      BY <1>1, <1>4, <2>2
    <3>2. v[q + 1] = a[q - (j - 1) + i]
      BY <1>5, <3>1
    <3>3. u[q] = a[q - (j - 1) + i]
      BY <1>1, <1>4, <2>2
    <3>4. QED
      BY <2>2, <3>2, <3>3
  <2>3. QED
    BY <2>1, <2>2
<1>8. QED
  BY <1>2, <1>3, <1>6, <1>7 DEF Edited, Shorter

\* ... leave out one of a ...
LEMMA MixedDelete ==
    ASSUME NEW a \in Words, NEW b \in Words, NEW i \in 1..Len(a), NEW j \in 0..Len(b)
    PROVE  Edited(Mixed(a, b, i - 1, j), Mixed(a, b, i, j))
<1>1. Len(a) \in Nat /\ Len(b) \in Nat /\ i \in 0..Len(a) /\ i - 1 \in 0..Len(a)
  BY LenProperties DEF Words
<1>2. PICK u : u = Mixed(a, b, i - 1, j)
  OBVIOUS
<1>3. PICK v : v = Mixed(a, b, i, j)
  OBVIOUS
<1>4. /\ Len(u) = j + Len(a) - (i - 1)
      /\ \A q \in 1..j + Len(a) - (i - 1) : u[q] = IF q <= j THEN b[q] ELSE a[q - j + (i - 1)]
  BY <1>1, <1>2, MixedIs
<1>5. /\ Len(v) = j + Len(a) - i
      /\ \A q \in 1..j + Len(a) - i : v[q] = IF q <= j THEN b[q] ELSE a[q - j + i]
  BY <1>1, <1>3, MixedIs
<1>6. Len(v) = Len(u) - 1 /\ j + 1 \in 1..Len(u)
  BY <1>1, <1>4, <1>5
<1>7. ASSUME NEW q \in 1..Len(v)
      PROVE  v[q] = IF q < j + 1 THEN u[q] ELSE u[q + 1]
  <2>1. CASE q < j + 1
    <3>1. q \in 1..j + Len(a) - i /\ q <= j
      BY <1>1, <1>5, <2>1
    <3>2. q \in 1..j + Len(a) - (i - 1)
      BY <1>1, <3>1
    <3>3. v[q] = b[q]
      BY <1>5, <3>1
    <3>4. u[q] = b[q]
      BY <1>4, <3>1, <3>2
    <3>5. QED
      BY <2>1, <3>3, <3>4
  <2>2. CASE ~(q < j + 1)
    <3>1. /\ q + 1 \in 1..j + Len(a) - (i - 1) /\ ~(q + 1 <= j)
          /\ (q + 1) - j + (i - 1) = q - j + i
      BY <1>1, <1>5, <2>2
    <3>2. u[q + 1] = a[q - j + i]
      BY <1>4, <3>1
    <3>3. v[q] = a[q - j + i]
      BY <1>1, <1>5, <2>2
    <3>4. QED
      BY <2>2, <3>2, <3>3
  <2>3. QED
    BY <2>1, <2>2
<1>8. QED
  BY <1>2, <1>3, <1>6, <1>7 DEF Edited, Shorter

\* ... or put one for the other, which changes nothing when they are the same.
LEMMA MixedChange ==
    ASSUME NEW a \in Words, NEW b \in Words, NEW i \in 1..Len(a), NEW j \in 1..Len(b)
    PROVE  /\ Edited(Mixed(a, b, i - 1, j - 1), Mixed(a, b, i, j))
           /\ a[i] = b[j] => Mixed(a, b, i - 1, j - 1) = Mixed(a, b, i, j)
<1>1. /\ Len(a) \in Nat /\ Len(b) \in Nat
      /\ i \in 0..Len(a) /\ i - 1 \in 0..Len(a) /\ j \in 0..Len(b) /\ j - 1 \in 0..Len(b)
  BY LenProperties DEF Words
<1>2. PICK u : u = Mixed(a, b, i - 1, j - 1)
  OBVIOUS
<1>3. PICK v : v = Mixed(a, b, i, j)
  OBVIOUS
<1>4. /\ u \in Words /\ Len(u) = (j - 1) + Len(a) - (i - 1)
      /\ \A q \in 1..(j - 1) + Len(a) - (i - 1) :
            u[q] = IF q <= j - 1 THEN b[q] ELSE a[q - (j - 1) + (i - 1)]
  BY <1>1, <1>2, MixedIs, ZenonT(40)
<1>5. /\ v \in Words /\ Len(v) = j + Len(a) - i
      /\ \A q \in 1..j + Len(a) - i : v[q] = IF q <= j THEN b[q] ELSE a[q - j + i]
  BY <1>1, <1>3, MixedIs
<1>6. /\ Len(u) = Len(v) /\ j \in 1..Len(u)
      /\ (j - 1) + Len(a) - (i - 1) = j + Len(a) - i
  BY <1>1, <1>4, <1>5
<1>7. \A q \in Int : q - (j - 1) + (i - 1) = q - j + i
  BY <1>1
<1>8. ASSUME NEW q \in 1..Len(u), q # j
      PROVE  v[q] = u[q]
  <2>1. u[q] = IF q <= j - 1 THEN b[q] ELSE a[q - j + i]
    BY <1>4, <1>6, <1>7
  <2>2. v[q] = IF q <= j THEN b[q] ELSE a[q - j + i]
    BY <1>4, <1>5, <1>6
  <2>3. q <= j - 1 <=> q <= j
    BY <1>1, <1>4, <1>8
  <2>4. QED
    BY <2>1, <2>2, <2>3
<1>9. Edited(u, v)
  BY <1>6, <1>8 DEF Edited, Changed
<1>10. ASSUME a[i] = b[j]
       PROVE  u = v
  <2>1. u[j] = a[i]
    <3>1. ~(j <= j - 1) /\ j - (j - 1) + (i - 1) = i /\ j \in 1..(j - 1) + Len(a) - (i - 1)
      BY <1>1, <1>4, <1>6
    <3>2. QED
      BY <1>4, <3>1
  <2>2. v[j] = b[j]
    <3>1. j <= j /\ j \in 1..j + Len(a) - i
      BY <1>1, <1>4, <1>6
    <3>2. QED
      BY <1>5, <3>1
  <2>3. \A q \in 1..Len(u) : u[q] = v[q]
    BY <1>8, <1>10, <2>1, <2>2
  <2>4. QED
    BY <1>4, <1>5, <1>6, <2>3, SeqEqual DEF Words
<1>11. QED
  BY <1>2, <1>3, <1>9, <1>10

LEMMA MixedEnds ==
    ASSUME NEW a \in Words, NEW b \in Words
    PROVE  Mixed(a, b, 0, 0) = a /\ Mixed(a, b, Len(a), Len(b)) = b
<1>1. /\ Len(a) \in Nat /\ Len(b) \in Nat
      /\ 0 \in 0..Len(a) /\ 0 \in 0..Len(b)
      /\ Len(a) \in 0..Len(a) /\ Len(b) \in 0..Len(b)
  BY LenProperties DEF Words
<1>2. Mixed(a, b, 0, 0) = a
  <2>1. PICK u : u = Mixed(a, b, 0, 0)
    OBVIOUS
  <2>2. /\ u \in Words /\ Len(u) = 0 + Len(a) - 0
        /\ \A q \in 1..0 + Len(a) - 0 : u[q] = IF q <= 0 THEN b[q] ELSE a[q - 0 + 0]
    BY <1>1, <2>1, MixedIs
  <2>3. Len(u) = Len(a) /\ \A q \in 1..Len(u) : u[q] = a[q]
    BY <1>1, <2>2
  <2>4. QED
    BY <2>1, <2>2, <2>3, SeqEqual DEF Words
<1>3. Mixed(a, b, Len(a), Len(b)) = b
  <2>1. PICK u : u = Mixed(a, b, Len(a), Len(b))
    OBVIOUS
  <2>2. /\ u \in Words /\ Len(u) = Len(b) + Len(a) - Len(a)
        /\ \A q \in 1..Len(b) + Len(a) - Len(a) :
              u[q] = IF q <= Len(b) THEN b[q] ELSE a[q - Len(b) + Len(a)]
    BY <1>1, <2>1, MixedIs, ZenonT(40)
  <2>3. Len(u) = Len(b) /\ \A q \in 1..Len(u) : u[q] = b[q]
    BY <1>1, <2>2
  <2>4. QED
    BY <2>1, <2>2, <2>3, SeqEqual DEF Words
<1>4. QED
  BY <1>2, <1>3

\* One more edit.
LEMMA Hop ==
    ASSUME NEW a, NEW u \in Words, NEW v \in Words, NEW n \in Nat,
           Reachable(a, u, n), Edited(u, v)
    PROVE  Reachable(a, v, 1 + n)
<1>1. v \in Neighbours(u)
  BY NeighboursAre
<1>2. Reachable(a, v, n + 1)
  BY <1>1, ReachableMore
<1>3. 1 + n = n + 1
  OBVIOUS
<1>4. QED
  BY <1>2, <1>3

\* Below the sum s each entry is enough for its mixture.
Enough(a, b, r, s) ==
    \A i \in 0..Len(a), j \in 0..Len(b) :
        i + j < s => Reachable(a, Mixed(a, b, i, j), r[i][j])

LEMMA EditsSuffice ==
    ASSUME NEW a \in Words, NEW b \in Words, NEW r, IsTable(a, b, r)
    PROVE  \A s \in Nat : Enough(a, b, r, s)
<1> DEFINE S == {s \in Nat : Enough(a, b, r, s)}
<1>1. 0 \in S
  <2>1. \A i \in 0..Len(a), j \in 0..Len(b) : ~(i + j < 0)
    OBVIOUS
  <2>2. QED
    BY <2>1 DEF Enough
<1>2. ASSUME NEW s \in S
      PROVE  s + 1 \in S
  <2>1. s \in Nat /\ Enough(a, b, r, s)
    OBVIOUS
  <2>2. Len(a) \in Nat /\ Len(b) \in Nat
    BY LenProperties DEF Words
  <2> HIDE DEF S
  <2>3. ASSUME NEW i \in 0..Len(a), NEW j \in 0..Len(b), i + j < s + 1
        PROVE  Reachable(a, Mixed(a, b, i, j), r[i][j])
    <3>1. Mixed(a, b, i, j) \in Words
      BY MixedIs
    <3>2. CASE i = 0 /\ j = 0
      <4>1. r[i][j] = 0 /\ Mixed(a, b, i, j) = a
        BY <3>2, MixedEnds DEF IsTable
      <4>2. QED
        BY <4>1, ReachableNone
    <3>3. CASE i = 0 /\ j # 0
      <4>1. j \in 1..Len(b) /\ j - 1 \in 0..Len(b) /\ i + (j - 1) < s /\ j - 1 \in Nat /\ 1 + (j - 1) = j
        BY <2>1, <2>2, <2>3, <3>3
      <4>2. r[i][j] = j /\ r[i][j - 1] = j - 1
        BY <3>3, <4>1 DEF IsTable
      <4>3. Reachable(a, Mixed(a, b, i, j - 1), j - 1)
        BY <2>1, <4>1, <4>2 DEF Enough
      <4>4. Mixed(a, b, i, j - 1) \in Words
        BY <4>1, MixedIs
      <4>5. Reachable(a, Mixed(a, b, i, j), 1 + (j - 1))
        BY <3>1, <4>1, <4>3, <4>4, MixedInsert, Hop
      <4>6. QED
        BY <4>1, <4>2, <4>5
    <3>4. CASE i # 0 /\ j = 0
      <4>1. i \in 1..Len(a) /\ i - 1 \in 0..Len(a) /\ (i - 1) + j < s /\ i - 1 \in Nat /\ 1 + (i - 1) = i
        BY <2>1, <2>2, <2>3, <3>4
      <4>2. r[i][j] = i /\ r[i - 1][j] = i - 1
        BY <3>4, <4>1 DEF IsTable
      <4>3. Reachable(a, Mixed(a, b, i - 1, j), i - 1)
        BY <2>1, <4>1, <4>2 DEF Enough
      <4>4. Mixed(a, b, i - 1, j) \in Words
        BY <4>1, MixedIs
      <4>5. Reachable(a, Mixed(a, b, i, j), 1 + (i - 1))
        BY <3>1, <4>1, <4>3, <4>4, MixedDelete, Hop
      <4>6. QED
        BY <4>1, <4>2, <4>5
    <3>5. CASE i # 0 /\ j # 0
      <4>1. /\ i \in 1..Len(a) /\ i - 1 \in 0..Len(a) /\ j \in 1..Len(b) /\ j - 1 \in 0..Len(b)
            /\ (i - 1) + j < s /\ i + (j - 1) < s /\ (i - 1) + (j - 1) < s
        BY <2>1, <2>2, <2>3, <3>5
      <4>2. PICK x \in Nat, up \in Nat, before \in Nat, corner \in Nat :
               x = r[i][j] /\ up = r[i - 1][j] /\ before = r[i][j - 1] /\ corner = r[i - 1][j - 1]
        BY <4>1 DEF IsTable
      <4>3. Entry(a[i], b[j], x, up, before, corner)
        BY <4>1, <4>2 DEF IsTable
      <4>4. /\ Mixed(a, b, i - 1, j) \in Words /\ Mixed(a, b, i, j - 1) \in Words
            /\ Mixed(a, b, i - 1, j - 1) \in Words
        BY <4>1, MixedIs
      <4>5. Reachable(a, Mixed(a, b, i - 1, j), up)
        BY <2>1, <4>1, <4>2 DEF Enough
      <4>6. Reachable(a, Mixed(a, b, i, j - 1), before)
        BY <2>1, <4>1, <4>2 DEF Enough
      <4>7. Reachable(a, Mixed(a, b, i - 1, j - 1), corner)
        BY <2>1, <4>1, <4>2 DEF Enough
      <4>8. CASE a[i] = b[j]
        <5>1. x = corner
          BY <4>3, <4>8 DEF Entry
        <5>2. Mixed(a, b, i - 1, j - 1) = Mixed(a, b, i, j)
          BY <4>1, <4>8, MixedChange
        <5>3. QED
          BY <4>2, <4>7, <5>1, <5>2
      <4>9. CASE a[i] # b[j]
        <5>1. x = 1 + Smallest(up, before, corner)
          BY <4>3, <4>9 DEF Entry
        <5>2. Smallest(up, before, corner) \in {up, before, corner}
          BY SmallestIs
        <5>3. Reachable(a, Mixed(a, b, i, j), 1 + up)
          BY <3>1, <4>1, <4>4, <4>5, MixedDelete, Hop
        <5>4. Reachable(a, Mixed(a, b, i, j), 1 + before)
          BY <3>1, <4>1, <4>4, <4>6, MixedInsert, Hop
        <5>5. Reachable(a, Mixed(a, b, i, j), 1 + corner)
          BY <3>1, <4>1, <4>4, <4>7, MixedChange, Hop
        <5>6. QED
          BY <4>2, <5>1, <5>2, <5>3, <5>4, <5>5
      <4>10. QED
        BY <4>8, <4>9
    <3>6. QED
      BY <3>2, <3>3, <3>4, <3>5
  <2>4. Enough(a, b, r, s + 1)
    BY <2>3 DEF Enough
  <2>5. QED
    BY <2>1, <2>4 DEF S
<1>3. S \in SUBSET Nat
  OBVIOUS
<1>4. \A s \in Nat : s \in S
  <2> HIDE DEF S
  <2>1. QED
    BY <1>1, <1>2, <1>3, Induction
<1>5. QED
  BY <1>4

-----------------------------------------------------------------------------
(* The theorems.                                                           *)

\* levenshtein returns the least number of insertions, deletions and changes of
\* a letter that make one name of the other, for words of any length.
THEOREM LevenshteinCountsEdits ==
    \A a, b \in Seq(Letters), n \in Nat : Reachable(a, b, n) <=> Levenshtein(a, b) <= n
<1> SUFFICES ASSUME NEW a \in Words, NEW b \in Words, NEW n \in Nat
             PROVE  Reachable(a, b, n) <=> Levenshtein(a, b) <= n
  BY DEF Words
<1>1. Levenshtein(a, b) \in Nat /\ Levenshtein(b, b) = 0
  BY LevenshteinType
<1>2. ASSUME Reachable(a, b, n)
      PROVE  Levenshtein(a, b) <= n
  <2>1. Levenshtein(a, b) <= n + Levenshtein(b, b)
    BY <1>2, EditsNeeded DEF Bounded
  <2>2. QED
    BY <1>1, <2>1
<1>3. Reachable(a, b, Levenshtein(a, b))
  <2>1. Len(a) \in Nat /\ Len(b) \in Nat
    BY LenProperties DEF Words
  <2>2. PICK r : IsTable(a, b, r) /\ Levenshtein(a, b) = r[Len(a)][Len(b)]
    BY <2>1, Table
  <2>3. PICK s \in Nat : Len(a) + Len(b) < s
    <3>1. Len(a) + Len(b) < Len(a) + Len(b) + 1 /\ Len(a) + Len(b) + 1 \in Nat
      BY <2>1
    <3>2. QED
      BY <3>1
  <2>4. Enough(a, b, r, s)
    BY <2>2, EditsSuffice
  <2>5. Len(a) \in 0..Len(a) /\ Len(b) \in 0..Len(b)
    BY <2>1
  <2>6. QED
    BY <2>2, <2>3, <2>4, <2>5, MixedEnds DEF Enough
<1>4. QED
  BY <1>1, <1>2, <1>3, ReachableMonotone
=============================================================================
