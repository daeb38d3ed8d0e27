---------------------------- MODULE MatrixProofs ----------------------------
(***************************************************************************)
(* What the operators on the matrix table return and preserve, for every   *)
(* number of slots, every table and every set of geometry failures.        *)
(***************************************************************************)
EXTENDS Matrix, Integers, FiniteSetTheorems, TLAPS

\* A table is a function from some of the cells to the classes.
LEMMA TableShape ==
  ASSUME NEW t
  PROVE  t \in Tables <=> DOMAIN t \subseteq Cells /\ t \in [DOMAIN t -> Class]
BY DEF Tables

LEMMA TableValues ==
  ASSUME NEW t \in Tables, NEW c \in DOMAIN t
  PROVE  t[c] \in Class /\ c \in Cells /\ c[1] \in Trays
BY TableShape DEF Cells

\* CheckTrayFullOrEmpty answers a class only for a complete tray of that class.
LEMMA FullTray ==
  ASSUME NEW t \in Tables, NEW k \in Trays, NEW x \in Class,
         CheckTrayFullOrEmpty(t, k) = x
  PROVE  TrayCells(k) \subseteq DOMAIN t /\ \A c \in TrayCells(k) : t[c] = x
<1> DEFINE one(y) == \A c \in TrayCells(k) : t[c] = y
<1>1. TrayCells(k) \subseteq DOMAIN t /\ \E y \in Class : one(y)
  <2>1. x # Mixed BY DEF Class, Mixed
  <2>2. QED BY <2>1 DEF CheckTrayFullOrEmpty
<1>2. CheckTrayFullOrEmpty(t, k) = CHOOSE y \in Class : one(y)
  BY <1>1 DEF CheckTrayFullOrEmpty
<1> HIDE DEF one
<1>3. one(CHOOSE y \in Class : one(y))
  BY <1>1
<1>4. QED BY <1>1, <1>2, <1>3 DEF one

\* A complete tray of one class is recognised.
LEMMA FullTrayRecognised ==
  ASSUME NEW t \in Tables, NEW k \in Trays, NEW x \in Class,
         TrayCells(k) \subseteq DOMAIN t, \A c \in TrayCells(k) : t[c] = x
  PROVE  CheckTrayFullOrEmpty(t, k) = x
<1>1. PICK s \in Slots : TRUE BY SlotsAssumption
<1>2. <<k, s>> \in TrayCells(k) BY DEF TrayCells
<1> DEFINE one(y) == \A c \in TrayCells(k) : t[c] = y
<1>3. CheckTrayFullOrEmpty(t, k) = CHOOSE y \in Class : one(y)
  BY DEF CheckTrayFullOrEmpty
<1>4. \A y \in Class : one(y) => y = x
  BY <1>2
<1>5. one(x) OBVIOUS
<1> HIDE DEF one
<1>6. QED BY <1>3, <1>4, <1>5

\* A transfer gives a table over the same rows.
LEMMA TransferTable ==
  ASSUME NEW t \in Tables, NEW src \in DOMAIN t, NEW dst \in DOMAIN t
  PROVE  /\ ApplyTransfer(t, src, dst) \in Tables
         /\ DOMAIN ApplyTransfer(t, src, dst) = DOMAIN t
<1>1. t \in [DOMAIN t -> Class] /\ DOMAIN t \subseteq Cells BY TableShape
<1>2. ApplyTransfer(t, src, dst) \in [DOMAIN t -> Class]
  <2>1. 0 \in Class BY DEF Class
  <2>2. QED BY <1>1, <2>1 DEF ApplyTransfer
<1>3. DOMAIN ApplyTransfer(t, src, dst) = DOMAIN t BY DEF ApplyTransfer
<1>4. QED BY <1>1, <1>2, <1>3, TableShape

\* A transfer from a row of another class to an empty one: what every row holds.
LEMMA TransferValues ==
  ASSUME NEW t \in Tables, NEW src \in DOMAIN t, NEW dst \in DOMAIN t,
         t[dst] = 0, t[src] # 0, NEW c \in DOMAIN t
  PROVE  ApplyTransfer(t, src, dst)[c]
           = IF c = src THEN 0 ELSE IF c = dst THEN t[src] ELSE t[c]
<1>1. t \in [DOMAIN t -> Class] BY TableShape
<1>2. QED BY <1>1 DEF ApplyTransfer

\* The rows of any class on any trays form a finite set.
LEMMA CellsOfFinite ==
  ASSUME NEW t \in Tables, NEW x, NEW ks
  PROVE  IsFiniteSet(CellsOf(t, x, ks)) /\ Cardinality(CellsOf(t, x, ks)) \in Nat
<1>1. IsFiniteSet(Trays)
  <2>1. 1 \in Int /\ 3 \in Int OBVIOUS
  <2>2. IsFiniteSet(1..3) BY <2>1, FS_Interval, Zenon
  <2>3. QED BY <2>2 DEF Trays
<1>2. IsFiniteSet(Cells)
  BY <1>1, SlotsAssumption, FS_Product DEF Cells
<1>3. CellsOf(t, x, ks) \subseteq Cells
  BY TableShape DEF CellsOf
<1>4. QED BY <1>2, <1>3, FS_Subset, FS_CardinalityType

\* Replacing one element of a finite set by a new one keeps its size.
LEMMA Exchange ==
  ASSUME NEW S, IsFiniteSet(S), NEW a \in S, NEW b, b \notin S
  PROVE  Cardinality((S \ {a}) \cup {b}) = Cardinality(S)
<1>1. /\ IsFiniteSet(S \ {a}) /\ Cardinality(S \ {a}) = Cardinality(S) - 1
  BY FS_RemoveElement
<1>2. Cardinality((S \ {a}) \cup {b}) = Cardinality(S \ {a}) + 1
  BY <1>1, FS_AddElement
<1>3. Cardinality(S) \in Nat BY FS_CardinalityType
<1>4. QED BY <1>1, <1>2, <1>3

\* A transfer keeps the number of rows of every class: no seedling is lost and
\* none invented.
LEMMA TransferKeepsCounts ==
  ASSUME NEW t \in Tables, NEW src \in DOMAIN t, NEW dst \in DOMAIN t,
         t[dst] = 0, t[src] # 0, NEW x \in Class
  PROVE  Cardinality(CellsOf(ApplyTransfer(t, src, dst), x, Trays))
           = Cardinality(CellsOf(t, x, Trays))
<1> DEFINE u == ApplyTransfer(t, src, dst)
<1>1. DOMAIN u = DOMAIN t BY TransferTable
<1>2. \A c \in DOMAIN t : u[c] = IF c = src THEN 0 ELSE IF c = dst THEN t[src] ELSE t[c]
  BY TransferValues
<1>3. \A c \in DOMAIN t : c[1] \in Trays BY TableValues
<1>4. IsFiniteSet(CellsOf(t, x, Trays)) BY CellsOfFinite
<1> HIDE DEF u
<1>5. CASE x = 0
  <2>1. CellsOf(u, x, Trays) = (CellsOf(t, x, Trays) \ {dst}) \cup {src}
    BY <1>1, <1>2, <1>3, <1>5 DEF CellsOf
  <2>2. dst \in CellsOf(t, x, Trays) /\ src \notin CellsOf(t, x, Trays)
    BY <1>3, <1>5 DEF CellsOf
  <2>3. QED BY <1>4, <2>1, <2>2, Exchange DEF u
<1>6. CASE x = t[src]
  <2>1. CellsOf(u, x, Trays) = (CellsOf(t, x, Trays) \ {src}) \cup {dst}
    BY <1>1, <1>2, <1>3, <1>6 DEF CellsOf
  <2>2. src \in CellsOf(t, x, Trays) /\ dst \notin CellsOf(t, x, Trays)
    BY <1>3, <1>6 DEF CellsOf
  <2>3. QED BY <1>4, <2>1, <2>2, Exchange DEF u
<1>7. CASE x # 0 /\ x # t[src]
  <2>1. CellsOf(u, x, Trays) = CellsOf(t, x, Trays)
    BY <1>1, <1>2, <1>7 DEF CellsOf
  <2>2. QED BY <2>1 DEF u
<1>8. QED BY <1>5, <1>6, <1>7

\* A transfer that takes a row of class x away from the trays ks, to a row
\* elsewhere, leaves one row less of that class there.
LEMMA TransferTakesAway ==
  ASSUME NEW t \in Tables, NEW src \in DOMAIN t, NEW dst \in DOMAIN t,
         t[dst] = 0, t[src] # 0, NEW ks, src[1] \in ks, dst[1] \notin ks
  PROVE  Cardinality(CellsOf(ApplyTransfer(t, src, dst), t[src], ks))
           = Cardinality(CellsOf(t, t[src], ks)) - 1
<1> DEFINE u == ApplyTransfer(t, src, dst)
<1>1. DOMAIN u = DOMAIN t BY TransferTable
<1>2. \A c \in DOMAIN t : u[c] = IF c = src THEN 0 ELSE IF c = dst THEN t[src] ELSE t[c]
  BY TransferValues
<1> HIDE DEF u
<1>3. CellsOf(u, t[src], ks) = CellsOf(t, t[src], ks) \ {src}
  BY <1>1, <1>2 DEF CellsOf
<1>4. src \in CellsOf(t, t[src], ks) BY DEF CellsOf
<1>5. IsFiniteSet(CellsOf(t, t[src], ks)) BY CellsOfFinite
<1>6. Cardinality(CellsOf(t, t[src], ks) \ {src}) = Cardinality(CellsOf(t, t[src], ks)) - 1
  BY <1>4, <1>5, FS_RemoveElement
<1>7. QED BY <1>3, <1>6 DEF u

\* A transfer of another class leaves the rows of class x as they are.
LEMMA TransferKeepsOthers ==
  ASSUME NEW t \in Tables, NEW src \in DOMAIN t, NEW dst \in DOMAIN t,
         t[dst] = 0, t[src] # 0, NEW x, x # 0, x # t[src], NEW ks
  PROVE  CellsOf(ApplyTransfer(t, src, dst), x, ks) = CellsOf(t, x, ks)
<1> DEFINE u == ApplyTransfer(t, src, dst)
<1>1. DOMAIN u = DOMAIN t BY TransferTable
<1>2. \A c \in DOMAIN t : u[c] = IF c = src THEN 0 ELSE IF c = dst THEN t[src] ELSE t[c]
  BY TransferValues
<1> HIDE DEF u
<1>3. CellsOf(u, x, ks) = CellsOf(t, x, ks)
  BY <1>1, <1>2 DEF CellsOf
<1>4. QED BY <1>3 DEF u
=============================================================================
