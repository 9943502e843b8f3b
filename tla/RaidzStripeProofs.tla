------------------------- MODULE RaidzStripeProofs --------------------------
(***************************************************************************)
(* The RAID-Z1 column map for every width, ashift, offset and size.        *)
(***************************************************************************)
EXTENDS RaidzStripe, SequenceTheorems, TLAPS

\* raidz_map's shifts: inside the accepted range a vdev sector is a positive
\* number of units.
LEMMA SecsizePositive ==
  ASSUME NEW a \in SECTOR_SHIFT .. ASHIFT_MAX
  PROVE  Secsize(a) \in Nat \ {0}
<1> DEFINE k == a - 9
<1>1. k \in 0 .. 7
  BY DEF SECTOR_SHIFT, ASHIFT_MAX
<1>2. Secsize(a) = 2 ^ k
  BY DEF Secsize, SECTOR_SHIFT
<1> HIDE DEF k
<1>3. CASE k = 0
  <2>1. Secsize(a) = 2 ^ 0  BY <1>2, <1>3
  <2> QED  BY <2>1, SMT
<1>4. CASE k = 1
  <2>1. Secsize(a) = 2 ^ 1  BY <1>2, <1>4
  <2> QED  BY <2>1, SMT
<1>5. CASE k = 2
  <2>1. Secsize(a) = 2 ^ 2  BY <1>2, <1>5
  <2> QED  BY <2>1, SMT
<1>6. CASE k = 3
  <2>1. Secsize(a) = 2 ^ 3  BY <1>2, <1>6
  <2> QED  BY <2>1, SMT
<1>7. CASE k = 4
  <2>1. Secsize(a) = 2 ^ 4  BY <1>2, <1>7
  <2> QED  BY <2>1, SMT
<1>8. CASE k = 5
  <2>1. Secsize(a) = 2 ^ 5  BY <1>2, <1>8
  <2> QED  BY <2>1, SMT
<1>9. CASE k = 6
  <2>1. Secsize(a) = 2 ^ 6  BY <1>2, <1>9
  <2> QED  BY <2>1, SMT
<1>10. CASE k = 7
  <2>1. Secsize(a) = 2 ^ 7  BY <1>2, <1>10
  <2> QED  BY <2>1, SMT
<1> QED
  BY <1>1, <1>3, <1>4, <1>5, <1>6, <1>7, <1>8, <1>9, <1>10

\* Division with remainder by a positive number, the form raidz_map uses.
LEMMA Euclid ==
  ASSUME NEW s \in Nat, NEW n \in Nat, n > 0
  PROVE  /\ s \div n \in Nat
         /\ s - (s \div n) * n \in 0 .. n - 1
BY Z3

\* A number is q times n plus what is left of it.
LEMMA Split ==
  ASSUME NEW s \in Nat, NEW q \in Nat, NEW n \in Nat
  PROVE  s = q * n + (s - q * n)
BY Z3

\* raidz_map's q and r: s sectors are q full rows and r < dcols - 1 more.
LEMMA RowsAndRemainder ==
  ASSUME NEW s \in Nat, NEW d \in Nat, d > 1
  PROVE  /\ FullRows(s, d, 1) \in Nat
         /\ Remainder(s, d, 1) \in 0 .. d - 2
         /\ s = FullRows(s, d, 1) * (d - 1) + Remainder(s, d, 1)
<1>1. d - 1 \in Nat /\ d - 1 > 0 /\ (d - 1) - 1 = d - 2
  OBVIOUS
<1>2. /\ s \div (d - 1) \in Nat
      /\ s - (s \div (d - 1)) * (d - 1) \in 0 .. (d - 1) - 1
  BY <1>1, Euclid
<1>3. s = (s \div (d - 1)) * (d - 1) + (s - (s \div (d - 1)) * (d - 1))
  BY <1>1, <1>2, Split
<1> QED
  BY <1>1, <1>2, <1>3 DEF FullRows, Remainder

\* raidz_map's bc and acols: a block has its parity column and at most one
\* column per child, and no more tall columns than columns.
LEMMA ColumnCounts ==
  ASSUME NEW s \in Nat \ {0}, NEW d \in Nat, d > 1
  PROVE  /\ BigCols(s, d, 1) \in {0} \cup 2 .. d - 1
         /\ ActiveCols(s, d, 1) \in 2 .. d
<1>1. /\ FullRows(s, d, 1) \in Nat
      /\ Remainder(s, d, 1) \in 0 .. d - 2
      /\ s = FullRows(s, d, 1) * (d - 1) + Remainder(s, d, 1)
  BY RowsAndRemainder
<1> DEFINE q == FullRows(s, d, 1)
           m == Remainder(s, d, 1)
<1>2. q = 0 => m # 0
  BY <1>1
<1>3. q \in Nat /\ m \in 0 .. d - 2
  BY <1>1
<1> HIDE DEF q, m
<1>4. BigCols(s, d, 1) = IF m = 0 THEN 0 ELSE m + 1
  BY DEF BigCols, m
<1>5. ActiveCols(s, d, 1) = IF q = 0 THEN BigCols(s, d, 1) ELSE d
  BY DEF ActiveCols, q
<1>6. BigCols(s, d, 1) \in {0} \cup 2 .. d - 1
  BY <1>3, <1>4
<1> QED
  BY <1>2, <1>3, <1>4, <1>5, <1>6

\* raidz_map's devidx: the columns go round the children once.
LEMMA DevicesDistinct ==
  ASSUME NEW b \in Nat, NEW d \in Nat, d > 1,
         NEW c \in 0 .. d - 1, NEW e \in 0 .. d - 1
  PROVE  /\ ColDev(b, c, d) \in 0 .. d - 1
         /\ ColDev(b, c, d) = ColDev(b, e, d) => c = e
<1>1. b % d \in 0 .. d - 1
  BY SMT
<1> QED
  BY <1>1 DEF ColDev, Wraps

\* raidz_map's size: a whole number of sectors per column, most of all in the
\* parity column.
LEMMA ParityTallest ==
  ASSUME NEW s \in Nat \ {0}, NEW d \in Nat, d > 1,
         NEW sec \in Nat \ {0}, NEW c \in Nat
  PROVE  /\ ColSize(s, c, d, 1, sec) \in Nat
         /\ ColSize(s, c, d, 1, sec) <= ColSize(s, 0, d, 1, sec)
<1> DEFINE q == FullRows(s, d, 1)
<1>1. q \in Nat /\ BigCols(s, d, 1) \in Nat
  <2>1. q \in Nat
    BY RowsAndRemainder
  <2>2. BigCols(s, d, 1) \in {0} \cup 2 .. d - 1
    BY ColumnCounts
  <2> QED
    BY <2>1, <2>2
<1>2. BigCols(s, d, 1) = 0 \/ 0 < BigCols(s, d, 1)
  BY <1>1
<1>3. /\ q * sec \in Nat
      /\ (q + 1) * sec \in Nat
      /\ q * sec <= (q + 1) * sec
  BY <1>1, SMT
<1> QED
  BY <1>1, <1>2, <1>3 DEF ColSize

\* raidz_map's offset: reduced to the word, never negative.
LEMMA OffsetInWord ==
  ASSUME NEW b \in Nat, NEW c \in Nat, NEW d \in Nat, d > 1,
         NEW sec \in Nat \ {0}, OffsetRange \in Nat \ {0}
  PROVE  ColOffset(b, c, d, sec) \in Nat
<1> DEFINE o == ((b \div d) * sec) % OffsetRange
<1>1. (b \div d) * sec \in Nat
  BY SMT
<1>2. o \in Nat
  BY <1>1, SMT
<1> HIDE DEF o
<1>3. (o + sec) % OffsetRange \in Nat
  BY <1>2, SMT
<1> QED
  BY <1>2, <1>3 DEF ColOffset, o

Column == [devidx : Nat, offset : Nat, size : Nat, parity : BOOLEAN]

\* A result for request r: the geometry error, or columns on distinct children,
\* the first of them parity and as tall as any other.
ColumnList(r, res) ==
  \/ res = Err("Inconsistent", "raidz_geom")
  \/ /\ res.ok = TRUE
     /\ res.val \in Seq(Column)
     /\ 1 \in DOMAIN res.val
     /\ \A i \in DOMAIN res.val :
          /\ res.val[i].devidx \in 0 .. r.width - 1
          /\ \A j \in DOMAIN res.val :
               res.val[i].devidx = res.val[j].devidx => i = j
          /\ res.val[i].parity <=> i = 1
          /\ res.val[i].size <= res.val[1].size

\* What raidz_map returns for a request of any width, ashift, offset and size.
LEMMA MapFacts ==
  ASSUME NEW r \in Requests,
         NEW res, res = raidz_map(r.offset, r.ashift, r.width, 1, r.psize)
  PROVE  ColumnList(r, res)
<1> USE DEF ColumnList
<1> DEFINE sec == Secsize(r.ashift)
           b == r.offset \div sec
           s == DataSectors(r.psize, sec)
           d == r.width
           n == ActiveCols(s, d, 1)
           col(i) == [devidx |-> ColDev(b, i - 1, d),
                      offset |-> ColOffset(b, i - 1, d, sec),
                      size   |-> ColSize(s, i - 1, d, 1, sec),
                      parity |-> i - 1 < 1]
           list == [i \in 1 .. n |-> col(i)]
<1>1. /\ d \in Nat /\ r.ashift \in Nat
      /\ r.offset \in Nat /\ r.psize \in Nat \ {0}
  BY InputsAssumption DEF Requests
<1>2. CASE ~GeometryOk(r.ashift, d, 1) \/ s = 0
  BY <1>2 DEF raidz_map
<1>3. CASE GeometryOk(r.ashift, d, 1) /\ s # 0
  <2>1. d > 1 /\ r.ashift \in SECTOR_SHIFT .. ASHIFT_MAX
    BY <1>3 DEF GeometryOk
  <2>2. res = Ok(list)
    BY <1>3 DEF raidz_map
  <2>3. sec \in Nat \ {0}
    BY <2>1, SecsizePositive
  <2> HIDE DEF sec
  <2>4. r.psize + sec - 1 \in Nat /\ sec \in Nat /\ sec > 0
    BY <1>1, <2>3
  <2>5. s \in Nat \ {0}
    BY <1>3, <2>4, Euclid DEF DataSectors
  <2>6. b \in Nat
    BY <1>1, <2>4, Euclid
  <2> HIDE DEF b, s, d
  <2>7. n \in 2 .. d
    BY <1>1, <2>1, <2>5, ColumnCounts
  <2> HIDE DEF n
  <2>8. \A i \in 1 .. n : i - 1 \in 0 .. d - 1 /\ i - 1 \in Nat
    BY <1>1, <2>7
  <2>9. \A i \in 1 .. n : /\ ColDev(b, i - 1, d) \in 0 .. d - 1
                          /\ ColDev(b, i - 1, d) \in Nat
    <3> SUFFICES ASSUME NEW i \in 1 .. n
                 PROVE  ColDev(b, i - 1, d) \in 0 .. d - 1
      BY <1>1
    <3> QED  BY <1>1, <2>1, <2>6, <2>8, DevicesDistinct
  <2>10. \A i \in 1 .. n : ColOffset(b, i - 1, d, sec) \in Nat
    BY <1>1, <2>1, <2>3, <2>6, <2>8, OffsetInWord, InputsAssumption
  <2>11. \A i \in 1 .. n : /\ ColSize(s, i - 1, d, 1, sec) \in Nat
                           /\ ColSize(s, i - 1, d, 1, sec) <= ColSize(s, 0, d, 1, sec)
    BY <1>1, <2>1, <2>3, <2>5, <2>8, ParityTallest
  <2>12. \A i \in 1 .. n : col(i) \in Column
    BY <2>9, <2>10, <2>11 DEF Column
  <2> HIDE DEF col
  <2>13. list \in Seq(Column)
    <3>1. n \in Nat
      BY <1>1, <2>7
    <3> QED  BY <2>12, <3>1, IsASeq
  <2>14. DOMAIN list = 1 .. n /\ \A i \in 1 .. n : list[i] = col(i)
    OBVIOUS
  <2> HIDE DEF list
  <2>15. res.ok = TRUE /\ res.val = list /\ DOMAIN res.val = 1 .. n /\ 1 \in 1 .. n
    BY <1>1, <2>2, <2>7, <2>14 DEF Ok
  <2>16. \A i \in 1 .. n : /\ res.val[i].devidx = ColDev(b, i - 1, d)
                           /\ res.val[i].size = ColSize(s, i - 1, d, 1, sec)
                           /\ res.val[i].parity = (i - 1 < 1)
    <3>1. \A i \in 1 .. n : /\ col(i).devidx = ColDev(b, i - 1, d)
                            /\ col(i).size = ColSize(s, i - 1, d, 1, sec)
                            /\ col(i).parity = (i - 1 < 1)
      BY DEF col
    <3> QED  BY <2>14, <2>15, <3>1
  <2>17. \A i \in 1 .. n : \A j \in 1 .. n :
           res.val[i].devidx = res.val[j].devidx => i = j
    <3> SUFFICES ASSUME NEW i \in 1 .. n, NEW j \in 1 .. n,
                        res.val[i].devidx = res.val[j].devidx
                 PROVE  i = j
      OBVIOUS
    <3>0. ColDev(b, i - 1, d) = ColDev(b, j - 1, d)
      BY <2>16
    <3>1. i - 1 = j - 1
      BY <1>1, <2>1, <2>6, <2>8, <3>0, DevicesDistinct
    <3> QED  BY <2>7, <3>1
  <2>18. \A i \in 1 .. n : res.val[i].parity <=> i = 1
    <3>1. \A i \in 1 .. n : (i - 1 < 1) <=> i = 1
      BY <2>7
    <3> QED  BY <2>16, <3>1
  <2>19. \A i \in 1 .. n : res.val[i].size <= res.val[1].size
    <3>0. 1 - 1 = 0
      OBVIOUS
    <3>1. res.val[1].size = ColSize(s, 0, d, 1, sec)
      BY <2>15, <2>16, <3>0, Zenon
    <3> QED  BY <2>11, <2>16, <3>1
  <2>20. \A i \in 1 .. n : res.val[i].devidx \in 0 .. r.width - 1
    BY <2>9, <2>16 DEF d
  <2> QED
    BY <2>13, <2>15, <2>17, <2>18, <2>19, <2>20, Zenon
<1> QED
  BY <1>2, <1>3

\* What MapFacts says of the columns one call of Map computes.
LEMMA MapStep ==
  ASSUME req \in Requests, Map
  PROVE  req' = req /\ ColumnList(req, cols')
<1>1. cols' = raidz_map(req.offset, req.ashift, req.width, 1, req.psize)
      /\ req' = req
  BY DEF Map
<1> QED  BY <1>1, MapFacts

\* The result raidz_map hands to raidz1_read is a list of columns or the
\* geometry error, whatever the label and the pointer say.
THEOREM TypeCorrect == StripeSpec => []StripeTypeOK
<1>1. StripeInit => StripeTypeOK
  BY DEF StripeInit, StripeTypeOK, Returned
<1>2. StripeTypeOK /\ [StripeNext]_stripeVars => StripeTypeOK'
  <2> SUFFICES ASSUME StripeTypeOK, [StripeNext]_stripeVars  PROVE StripeTypeOK'
    OBVIOUS
  <2>1. CASE Map
    <3>1. req' = req /\ req \in Requests
      BY <2>1, MapStep DEF StripeTypeOK
    <3>2. CASE cols' = Err("Inconsistent", "raidz_geom")
      BY <3>1, <3>2 DEF StripeTypeOK, IsResult, IsErr, Err, ErrorKind
    <3>3. CASE cols' # Err("Inconsistent", "raidz_geom")
      BY <2>1, <3>1, <3>3, MapStep DEF StripeTypeOK, IsResult, Column, ColumnList
    <3> QED  BY <3>2, <3>3
  <2>2. CASE UNCHANGED stripeVars
    BY <2>2 DEF StripeTypeOK, Returned, stripeVars
  <2> QED  BY <2>1, <2>2 DEF StripeNext
<1> QED  BY <1>1, <1>2, PTL DEF StripeSpec

\* Losing one child of a RAID-Z1 of any width costs any block one column.
THEOREM DistinctDevices == StripeSpec => []ColumnsOnDistinctDevices
<1>1. StripeInit => ColumnsOnDistinctDevices
  BY DEF StripeInit, ColumnsOnDistinctDevices, Mapped, Returned
<1>2. StripeTypeOK /\ ColumnsOnDistinctDevices /\ [StripeNext]_stripeVars => ColumnsOnDistinctDevices'
  <2> SUFFICES ASSUME StripeTypeOK, ColumnsOnDistinctDevices, [StripeNext]_stripeVars
               PROVE  ColumnsOnDistinctDevices'
    OBVIOUS
  <2>1. CASE Map
    <3>1. req \in Requests
      BY DEF StripeTypeOK
    <3>2. CASE cols' = Err("Inconsistent", "raidz_geom")
      BY <3>2 DEF ColumnsOnDistinctDevices, Mapped, Err
    <3>3. CASE cols' # Err("Inconsistent", "raidz_geom")
      BY <2>1, <3>1, <3>3, MapStep DEF ColumnsOnDistinctDevices, Columns, ColumnList
    <3> QED  BY <3>2, <3>3
  <2>2. CASE UNCHANGED stripeVars
    BY <2>2 DEF ColumnsOnDistinctDevices, Mapped, Returned, Columns, stripeVars
  <2> QED  BY <2>1, <2>2 DEF StripeNext
<1> QED  BY <1>1, <1>2, TypeCorrect, PTL DEF StripeSpec

\* Every data sector of any block has parity: the parity column comes first
\* and no column is taller.
THEOREM ParityCovers == StripeSpec => []ParityCoversData
<1>1. StripeInit => ParityCoversData
  BY DEF StripeInit, ParityCoversData, Mapped, Returned
<1>2. StripeTypeOK /\ ParityCoversData /\ [StripeNext]_stripeVars => ParityCoversData'
  <2> SUFFICES ASSUME StripeTypeOK, ParityCoversData, [StripeNext]_stripeVars
               PROVE  ParityCoversData'
    OBVIOUS
  <2>1. CASE Map
    <3>1. req \in Requests
      BY DEF StripeTypeOK
    <3>2. CASE cols' = Err("Inconsistent", "raidz_geom")
      BY <3>2 DEF ParityCoversData, Mapped, Err
    <3>3. CASE cols' # Err("Inconsistent", "raidz_geom")
      BY <2>1, <3>1, <3>3, MapStep DEF ParityCoversData, Columns, ColumnList
    <3> QED  BY <3>2, <3>3
  <2>2. CASE UNCHANGED stripeVars
    BY <2>2 DEF ParityCoversData, Mapped, Returned, Columns, stripeVars
  <2> QED  BY <2>1, <2>2 DEF StripeNext
<1> QED  BY <1>1, <1>2, TypeCorrect, PTL DEF StripeSpec
=============================================================================
