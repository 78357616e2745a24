----------------------------- MODULE Grid_proofs -----------------------------
(***************************************************************************)
(* What the other proofs know of the iteration spaces: the division of     *)
(* work loses no item and gives none away twice, for every amount of work, *)
(* chunk size and pool; the numbering of the tiles is a bijection with the *)
(* elements of the policy; and so is that of the offsets with the cells of *)
(* the padded image.                                                       *)
(***************************************************************************)
EXTENDS Grid, HostTiles, TLAPS

-----------------------------------------------------------------------------
(* The division of work, and the tiles of a policy.                        *)

\* Division of naturals: quotient and remainder are the unique solution.
LEMMA DivModDef ==
  ASSUME NEW n \in Nat, NEW d \in Nat \ {0}
  PROVE  /\ n \div d \in Nat
         /\ n % d \in 0 .. d - 1
         /\ n = (n \div d) * d + (n % d)
         /\ (n \div d) * d <= n
         /\ n < ((n \div d) + 1) * d
  BY SMT

LEMMA DivModUnique ==
  ASSUME NEW d \in Nat \ {0}, NEW q \in Nat, NEW r \in 0 .. d - 1
  PROVE  /\ (q * d + r) \div d = q
         /\ (q * d + r) % d = r
         /\ q * d + r \in Nat
  BY SMT

LEMMA DivLess ==
  ASSUME NEW a \in Nat, NEW b \in Nat, NEW d \in Nat \ {0}, a < b * d
  PROVE  a \div d < b
  BY SMT

LEMMA RowMajorLess ==
  ASSUME NEW b \in Nat, NEW d \in Nat \ {0},
         NEW q \in 0 .. b - 1, NEW r \in 0 .. d - 1
  PROVE  q * d + r \in 0 .. b * d - 1
  BY SMT

LEMMA MultMono ==
  ASSUME NEW a \in Int, NEW b \in Int, NEW d \in Nat, a <= b
  PROVE  a * d <= b * d
  BY SMT

\* CeilDiv rounds up: its blocks are enough to hold everything.
LEMMA CeilDivEnough ==
  ASSUME NEW a \in Nat, NEW b \in Nat \ {0}
  PROVE  /\ CeilDiv(a, b) \in Nat
         /\ a <= CeilDiv(a, b) * b
  BY SMT DEF CeilDiv

LEMMA PartTypes ==
  ASSUME NEW length \in Nat, NEW chunk \in Nat \ {0},
         NEW pool \in Nat \ {0}, NEW rank \in 0 .. pool - 1
  PROVE  /\ PartSize(length, chunk, pool) \in Nat
         /\ PartFirst(length, chunk, pool, rank) \in Nat
         /\ PartEnd(length, chunk, pool, rank) \in Nat
         /\ PartEnd(length, chunk, pool, rank) <= length
<1> DEFINE P == PartSize(length, chunk, pool)
<1>1. P \in Nat
  BY CeilDivEnough DEF PartSize
<1>2. P * rank \in Nat /\ P * rank * chunk \in Nat
  BY <1>1, SMT
<1>3. (P * rank + P) * chunk \in Nat
  BY <1>1, <1>2, SMT
<1> QED
  BY <1>1, <1>2, <1>3 DEF PartFirst, PartEnd

\* Every item of the work belongs to the block of some rank ...
LEMMA PartitionCovers ==
  ASSUME NEW length \in Nat, NEW chnk \in Nat \ {0}, NEW pl \in Nat \ {0},
         NEW n \in 0 .. length - 1
  PROVE  \E rank \in 0 .. pl - 1 :
           /\ PartFirst(length, chnk, pl, rank) <= n
           /\ n < PartEnd(length, chnk, pl, rank)
<1> DEFINE num == CeilDiv(length, chnk)
           P == PartSize(length, chnk, pl)
           q == n \div chnk
           rank == q \div P
<1>1. num \in Nat /\ length <= num * chnk
  BY CeilDivEnough
<1>2. P \in Nat /\ num <= P * pl
  BY <1>1, CeilDivEnough DEF PartSize
<1>3. q \in Nat /\ q * chnk <= n /\ n < (q + 1) * chnk
  BY DivModDef
<1>4. q < num
  BY <1>1, DivLess
<1>5. P # 0
  <2> HIDE DEF q, P, num
  <2> QED BY <1>1, <1>2, <1>3, <1>4, SMT
<1>6. rank \in Nat /\ rank * P <= q /\ q + 1 <= (rank + 1) * P
  <2> HIDE DEF q, P
  <2>1. P \in Nat \ {0} /\ q \in Nat
    BY <1>2, <1>3, <1>5
  <2>2. rank \in Nat /\ rank * P <= q /\ q < (rank + 1) * P
    BY <2>1, DivModDef
  <2> HIDE DEF rank
  <2> QED BY <2>1, <2>2, SMT
<1>7. rank < pl
  <2> HIDE DEF q, P, num
  <2>1. q < pl * P
    BY <1>1, <1>2, <1>3, <1>4, SMT
  <2> QED BY <2>1, <1>2, <1>3, <1>5, DivLess
<1> HIDE DEF rank, q, P, num
<1>8. P * rank * chnk <= n
  <2>1. P * rank <= q
    BY <1>2, <1>6, SMT
  <2>2. (P * rank) * chnk <= q * chnk
    BY <2>1, <1>2, <1>3, <1>6, MultMono
  <2> QED BY <2>2, <1>2, <1>3, <1>6, SMT
<1>9. n < (P * rank + P) * chnk
  <2>1. q + 1 <= P * rank + P
    BY <1>2, <1>3, <1>6, SMT
  <2>2. (q + 1) * chnk <= (P * rank + P) * chnk
    BY <2>1, <1>2, <1>3, <1>6, MultMono
  <2> QED BY <2>2, <1>2, <1>3, <1>6, SMT
<1>10. PartFirst(length, chnk, pl, rank) <= n
  BY <1>8 DEF PartFirst, P
<1>11. n < PartEnd(length, chnk, pl, rank)
  BY <1>9 DEF PartEnd, P
<1> QED
  BY <1>6, <1>7, <1>10, <1>11

\* ... and to no other: the block of a rank ends where the next one begins.
LEMMA PartitionOrdered ==
  ASSUME NEW length \in Nat, NEW chnk \in Nat \ {0}, NEW pl \in Nat \ {0},
         NEW r1 \in 0 .. pl - 1, NEW r2 \in 0 .. pl - 1, r1 < r2
  PROVE  PartEnd(length, chnk, pl, r1) <= PartFirst(length, chnk, pl, r2)
           \/ PartFirst(length, chnk, pl, r2) >= length
<1> DEFINE P == PartSize(length, chnk, pl)
<1>1. P \in Nat
  BY CeilDivEnough DEF PartSize
<1>2. (r1 + 1) * P <= r2 * P
  BY <1>1, MultMono
<1> HIDE DEF P
<1>3. P * r1 + P <= P * r2
  BY <1>1, <1>2, SMT
<1>4. (P * r1 + P) * chnk <= P * r2 * chnk
  <2>1. P * r1 + P \in Int /\ P * r2 \in Int
    BY <1>1, SMT
  <2> QED BY <1>3, <2>1, MultMono
<1>5. P * r2 * chnk \in Nat /\ (P * r1 + P) * chnk \in Nat
  BY <1>1, SMT
<1> QED
  BY <1>4, <1>5 DEF PartEnd, PartFirst, P

LEMMA PartitionDisjoint ==
  ASSUME NEW length \in Nat, NEW chnk \in Nat \ {0}, NEW pl \in Nat \ {0},
         NEW r1 \in 0 .. pl - 1, NEW r2 \in 0 .. pl - 1,
         NEW n \in 0 .. length - 1,
         PartFirst(length, chnk, pl, r1) <= n, n < PartEnd(length, chnk, pl, r1),
         PartFirst(length, chnk, pl, r2) <= n, n < PartEnd(length, chnk, pl, r2)
  PROVE  r1 = r2
<1>1. /\ PartFirst(length, chnk, pl, r1) \in Nat
      /\ PartFirst(length, chnk, pl, r2) \in Nat
      /\ PartEnd(length, chnk, pl, r1) \in Nat
      /\ PartEnd(length, chnk, pl, r2) \in Nat
  BY PartTypes
<1>2. ~ (r1 < r2)
  BY <1>1, PartitionOrdered
<1>3. ~ (r2 < r1)
  BY <1>1, PartitionOrdered
<1> QED
  BY <1>2, <1>3

(***************************************************************************)
(* The row-major number of the element at offsets i, j, k, and its         *)
(* decoding by repeated division.                                          *)
(***************************************************************************)
LEMMA RowMajorDecode ==
  ASSUME NEW R \in Nat \ {0}, NEW C \in Nat \ {0}, NEW D \in Nat \ {0},
         NEW i \in 0 .. R - 1, NEW j \in 0 .. C - 1, NEW k \in 0 .. D - 1
  PROVE  /\ (i * C + j) * D + k \in 0 .. R * C * D - 1
         /\ ((i * C + j) * D + k) % D = k
         /\ ((i * C + j) * D + k) \div D = i * C + j
         /\ (((i * C + j) * D + k) \div D) % C = j
         /\ (((i * C + j) * D + k) \div D) \div C = i
<1>1. i * C + j \in 0 .. R * C - 1
  BY RowMajorLess
<1>2. R * C \in Nat
  BY SMT
<1>3. (i * C + j) * D + k \in 0 .. R * C * D - 1
  BY <1>1, <1>2, RowMajorLess
<1>4. /\ ((i * C + j) * D + k) \div D = i * C + j
      /\ ((i * C + j) * D + k) % D = k
  BY <1>1, DivModUnique
<1>5. (i * C + j) \div C = i /\ (i * C + j) % C = j
  BY DivModUnique
<1> QED
  BY <1>3, <1>4, <1>5

LEMMA RowMajorEncode ==
  ASSUME NEW R \in Nat \ {0}, NEW C \in Nat \ {0}, NEW D \in Nat \ {0},
         NEW n \in 0 .. R * C * D - 1
  PROVE  /\ (n \div D) \div C \in 0 .. R - 1
         /\ (n \div D) % C \in 0 .. C - 1
         /\ n % D \in 0 .. D - 1
         /\ n = (((n \div D) \div C) * C + ((n \div D) % C)) * D + (n % D)
<1>1. R * C \in Nat /\ R * C * D \in Nat /\ n \in Nat /\ n < (R * C) * D
  BY SMT
<1>2. /\ n \div D \in Nat
      /\ n % D \in 0 .. D - 1
      /\ n = (n \div D) * D + (n % D)
  BY <1>1, DivModDef
<1>3. n \div D < R * C
  BY <1>1, DivLess
<1>4. /\ (n \div D) \div C \in Nat
      /\ (n \div D) % C \in 0 .. C - 1
      /\ n \div D = ((n \div D) \div C) * C + ((n \div D) % C)
  BY <1>2, DivModDef
<1>5. (n \div D) \div C < R
  BY <1>2, <1>3, DivLess
<1> QED
  BY <1>2, <1>4, <1>5

(***************************************************************************)
(* The number of the tile that holds element e: the inverse of TileOffset. *)
(***************************************************************************)
TileNumber(e, cols, depth, lower) ==
  ((e[1] - lower[1]) * cols + (e[2] - lower[2])) * depth + (e[3] - lower[3])

LEMMA TileOffsetCoordinates ==
  ASSUME NEW R \in Nat \ {0}, NEW C \in Nat \ {0}, NEW D \in Nat \ {0},
         NEW lower \in Int \X Int \X Int,
         NEW n \in 0 .. R * C * D - 1
  PROVE  /\ TileOffset(n, R, C, D, lower) \in Elements(R, C, D, lower)
         /\ TileNumber(TileOffset(n, R, C, D, lower), C, D, lower) = n
<1> DEFINE i == (n \div D) \div C
           j == (n \div D) % C
           k == n % D
<1>1. R * C \in Nat /\ n \in Nat /\ n < (R * C) * D
  BY SMT
<1>2. n \div D \in Nat /\ k \in 0 .. D - 1 /\ n = (n \div D) * D + k
  BY <1>1, DivModDef
<1>3. n \div D < R * C
  BY <1>1, DivLess
<1>4. i \in Nat /\ j \in 0 .. C - 1 /\ n \div D = i * C + j
  BY <1>2, DivModDef
<1>5. i < R
  BY <1>2, <1>3, DivLess
<1>6. TileOffset(n, R, C, D, lower)
        = <<(i % R) + lower[1], j + lower[2], k + lower[3]>>
  BY DEF TileOffset
<1>7. lower[1] \in Int /\ lower[2] \in Int /\ lower[3] \in Int
  OBVIOUS
<1> HIDE DEF i, j, k
<1>8. i % R = i
  BY <1>4, <1>5, SMT
<1> DEFINE e == <<i + lower[1], j + lower[2], k + lower[3]>>
<1>9. TileOffset(n, R, C, D, lower) = e
  BY <1>6, <1>8
<1>10. e \in Elements(R, C, D, lower)
  BY <1>2, <1>4, <1>5, <1>7 DEF Elements
<1>11. TileNumber(e, C, D, lower) = n
  <2>1. /\ (i + lower[1]) - lower[1] = i
        /\ (j + lower[2]) - lower[2] = j
        /\ (k + lower[3]) - lower[3] = k
    BY <1>2, <1>4, <1>7
  <2>2. n = (i * C + j) * D + k
    BY <1>2, <1>4
  <2> QED
    BY <2>1, <2>2 DEF TileNumber
<1> QED
  BY <1>9, <1>10, <1>11

LEMMA TileNumberDecode ==
  ASSUME NEW R \in Nat \ {0}, NEW C \in Nat \ {0}, NEW D \in Nat \ {0},
         NEW lower \in Int \X Int \X Int,
         NEW e \in Elements(R, C, D, lower)
  PROVE  /\ TileNumber(e, C, D, lower) \in 0 .. R * C * D - 1
         /\ TileOffset(TileNumber(e, C, D, lower), R, C, D, lower) = e
<1>1. PICK i \in 0 .. R - 1, j \in 0 .. C - 1, k \in 0 .. D - 1 :
        /\ e = <<i + lower[1], j + lower[2], k + lower[3]>>
        /\ e[1] - lower[1] = i /\ e[2] - lower[2] = j /\ e[3] - lower[3] = k
  <2>1. /\ lower[1] \in Int /\ lower[2] \in Int /\ lower[3] \in Int
        /\ e[1] \in lower[1] .. lower[1] + R - 1
        /\ e[2] \in lower[2] .. lower[2] + C - 1
        /\ e[3] \in lower[3] .. lower[3] + D - 1
        /\ e = <<e[1], e[2], e[3]>>
    BY DEF Elements
  <2>2. /\ e[1] - lower[1] \in 0 .. R - 1
        /\ e[2] - lower[2] \in 0 .. C - 1
        /\ e[3] - lower[3] \in 0 .. D - 1
        /\ e[1] = (e[1] - lower[1]) + lower[1]
        /\ e[2] = (e[2] - lower[2]) + lower[2]
        /\ e[3] = (e[3] - lower[3]) + lower[3]
    BY <2>1
  <2> QED
    BY <2>1, <2>2
<1> DEFINE n == (i * C + j) * D + k
<1>2. TileNumber(e, C, D, lower) = n
  BY <1>1 DEF TileNumber
<1>3. /\ n \in 0 .. R * C * D - 1
      /\ n % D = k
      /\ (n \div D) % C = j
      /\ (n \div D) \div C = i
  BY RowMajorDecode
<1> HIDE DEF n
<1>4. i % R = i
  BY SMT
<1>5. TileOffset(n, R, C, D, lower)
        = <<i + lower[1], j + lower[2], k + lower[3]>>
  BY <1>3, <1>4 DEF TileOffset
<1> QED
  BY <1>1, <1>2, <1>3, <1>5

-----------------------------------------------------------------------------
(* The padded image: its cells, their offsets, and the mean of a cell.     *)

LEMMA GridTypes ==
  /\ Rows \in Nat \ {0} /\ Cols \in Nat \ {0} /\ Channels \in Nat \ {0}
  /\ PadRows \in Nat \ {0} /\ PadCols \in Nat \ {0}
  /\ PadRows = Rows + 2 /\ PadCols = Cols + 2
  BY GridAssumption DEF PadRows, PadCols, PADDING

LEMMA PadTypes ==
  PadRows \in Nat \ {0} /\ PadCols \in Nat \ {0} /\ Channels \in Nat \ {0}
  BY GridTypes

LEMMA CellIsTriple ==
  ASSUME NEW c \in Cells
  PROVE  /\ c[1] \in 0 .. PadRows - 1
         /\ c[2] \in 0 .. PadCols - 1
         /\ c[3] \in 0 .. Channels - 1
         /\ c = <<c[1], c[2], c[3]>>
  BY DEF Cells

LEMMA InnerIsCell ==
  /\ Inner \subseteq Cells
  /\ \A c \in Cells : c \in Inner \/ c \in Ring
  BY GridTypes DEF Inner, Cells, Ring, PADDING

\* The offset arithmetic of the fill and write-back loops is a bijection.
LEMMA CellAtIndex ==
  ASSUME NEW c \in Cells
  PROVE  /\ Index(c) \in 0 .. PadSize - 1
         /\ CellAt(Index(c)) = c
<1>1. PICK i \in 0 .. PadRows - 1, j \in 0 .. PadCols - 1,
           k \in 0 .. Channels - 1 :
        c = <<i, j, k>> /\ c[1] = i /\ c[2] = j /\ c[3] = k
  BY CellIsTriple
<1> DEFINE n == (i * PadCols + j) * Channels + k
<1>2. Index(c) = n
  BY <1>1 DEF Index
<1>3. /\ n \in 0 .. PadRows * PadCols * Channels - 1
      /\ n % Channels = k
      /\ (n \div Channels) % PadCols = j
      /\ (n \div Channels) \div PadCols = i
  BY PadTypes, RowMajorDecode
<1> HIDE DEF n
<1> QED
  BY <1>1, <1>2, <1>3 DEF CellAt, PadSize

LEMMA CellAtIsCell ==
  ASSUME NEW n \in 0 .. PadSize - 1
  PROVE  CellAt(n) \in Cells
<1>1. /\ (n \div Channels) \div PadCols \in 0 .. PadRows - 1
      /\ (n \div Channels) % PadCols \in 0 .. PadCols - 1
      /\ n % Channels \in 0 .. Channels - 1
  BY PadTypes, RowMajorEncode DEF PadSize
<1> QED
  BY <1>1 DEF CellAt, Cells

LEMMA NeighboursAreCells ==
  ASSUME NEW c \in Inner
  PROVE  /\ <<c[1], c[2], c[3]>> \in Cells
         /\ <<c[1], c[2] - 1, c[3]>> \in Cells
         /\ <<c[1], c[2] + 1, c[3]>> \in Cells
         /\ <<c[1] - 1, c[2], c[3]>> \in Cells
         /\ <<c[1] + 1, c[2], c[3]>> \in Cells
  BY GridTypes DEF Inner, Cells, PADDING

\* The mean of five bytes fits in the uint8_t it is stored in.
LEMMA MeanIsByte ==
  ASSUME NEW img \in Views, NEW c \in Inner
  PROVE  Mean5(img, c) \in Byte
<1>1. \A a, b, d, e, f \in Byte : (a + b + d + e + f) \div 5 \in Byte
  BY SMT DEF Byte
<1>2. \A d \in Cells : img[d] \in Byte
  BY DEF Views
<1> QED
  BY <1>1, <1>2, NeighboursAreCells DEF Mean5

LEMMA ShiftedIsPixel ==
  ASSUME NEW c \in Inner
  PROVE  Shifted(c) \in Pixels
  BY GridTypes DEF Inner, Pixels, Shifted, PADDING

LEMMA PixelIsCell ==
  ASSUME NEW p \in Pixels
  PROVE  <<p[1] + PADDING, p[2] + PADDING, p[3]>> \in Cells
  BY GridTypes DEF Pixels, Cells, PADDING

\* The crop of bytes is an image of bytes.
LEMMA CropOfMat ==
  ASSUME NEW m \in Mats
  PROVE  Crop(m) \in [Pixels -> Byte]
<1> SUFFICES ASSUME NEW p \in Pixels
             PROVE  m[Index(<<p[1] + PADDING, p[2] + PADDING, p[3]>>)] \in Byte
  BY DEF Crop
<1>1. Index(<<p[1] + PADDING, p[2] + PADDING, p[3]>>) \in 0 .. PadSize - 1
  BY PixelIsCell, CellAtIndex
<1> QED
  BY <1>1 DEF Mats

\* Filling a view from a Mat and a Mat from a view.
LEMMA ImageConversions ==
  /\ [c \in Cells |-> 0] \in Views
  /\ \A p \in Mats : [c \in Cells |-> p[Index(c)]] \in Views
  /\ \A v \in Views : [n \in 0 .. PadSize - 1 |-> v[CellAt(n)]] \in Mats
<1>1. [c \in Cells |-> 0] \in Views
  BY DEF Views, Byte
<1>2. \A p \in Mats : [c \in Cells |-> p[Index(c)]] \in Views
  BY CellAtIndex DEF Mats, Views
<1>3. \A v \in Views : [n \in 0 .. PadSize - 1 |-> v[CellAt(n)]] \in Mats
  BY CellAtIsCell DEF Mats, Views
<1> QED
  BY <1>1, <1>2, <1>3
=============================================================================
