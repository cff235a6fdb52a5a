---------------------------- MODULE SurfaceProofs ----------------------------
(***************************************************************************)
(* A valid region is written where it lies, on either path, and nothing    *)
(* outside the surface or the data is touched.                             *)
(***************************************************************************)
EXTENDS Surface, TLAPS

-----------------------------------------------------------------------------
(* Rows and columns. *)
LEMMA LaterRow ==
    ASSUME NEW w \in Nat, NEW a \in Nat, NEW b \in Nat, a < b
    PROVE  a * w + w <= b * w
<1>1. PICK d \in Nat : b = a + 1 + d
  <2>1. b - a - 1 \in Nat /\ b = a + 1 + (b - a - 1)
    OBVIOUS
  <2> QED
    BY <2>1
<1>2. b * w = a * w + w + d * w
  BY <1>1
<1>3. d * w \in Nat /\ a * w \in Nat /\ b * w \in Nat
  OBVIOUS
<1> QED
  BY <1>2, <1>3

LEMMA InsideTheRows ==
    ASSUME NEW w \in Nat, NEW h \in Nat, NEW row \in 0..h - 1, NEW column \in 0..w - 1
    PROVE  row * w + column \in 0..w * h - 1
<1>1. row * w + w <= h * w
  BY LaterRow
<1>2. row * w \in Nat /\ h * w \in Nat /\ h * w = w * h
  OBVIOUS
<1> QED
  BY <1>1, <1>2

LEMMA RowsApart ==
    ASSUME NEW w \in Nat, NEW a \in Nat, NEW b \in Nat, NEW m \in 0..w - 1, NEW n \in 0..w - 1,
           a * w + m = b * w + n
    PROVE  a = b /\ m = n
<1>0. a * w \in Nat /\ b * w \in Nat
  OBVIOUS
<1>1. ~(a < b)
  <2> SUFFICES ASSUME a < b PROVE FALSE
    OBVIOUS
  <2>1. a * w + w <= b * w
    BY LaterRow
  <2> QED
    BY <1>0, <2>1
<1>2. ~(b < a)
  <2> SUFFICES ASSUME b < a PROVE FALSE
    OBVIOUS
  <2>1. b * w + w <= a * w
    BY LaterRow
  <2> QED
    BY <1>0, <2>1
<1>3. a = b
  BY <1>1, <1>2
<1> QED
  BY <1>0, <1>3

(* An offset is the number of pixels before it, times their size. *)
LEMMA OffsetIs ==
    ASSUME NEW row \in Nat, NEW column \in Nat, NEW width \in Nat, NEW bpp \in {1, 2, 4}
    PROVE  /\ Offset(row, column, width, bpp) = bpp * (row * width + column)
           /\ row * width + column \in Nat
           /\ Offset(row, column, width, bpp) \in Nat
<1>1. row * width \in Nat
  OBVIOUS
<1>2. CASE bpp = 1
  BY <1>1, <1>2 DEF Offset, RowOffset, ColumnOffset
<1>3. CASE bpp = 2
  BY <1>1, <1>3 DEF Offset, RowOffset, ColumnOffset
<1>4. CASE bpp = 4
  BY <1>1, <1>4 DEF Offset, RowOffset, ColumnOffset
<1> QED
  BY <1>2, <1>3, <1>4

(* Going on from the start of a row by four bytes for a column reaches the pixel. *)
LEMMA ColumnsFollow ==
    ASSUME NEW width \in Nat, NEW y \in Nat, NEW x \in Nat, NEW column \in Nat
    PROVE  Offset(y, x, width, 4) + 4 * column = Offset(y, x + column, width, 4)
<1>0. x + column \in Nat /\ 4 \in {1, 2, 4}
  OBVIOUS
<1>1. Offset(y, x, width, 4) = 4 * (y * width + x)
  BY <1>0, OffsetIs, Zenon
<1>3. Offset(y, x + column, width, 4) = 4 * (y * width + (x + column))
  BY <1>0, OffsetIs, Zenon
<1>2. y * width \in Nat
  OBVIOUS
<1> QED
  BY <1>1, <1>2, <1>3

LEMMA PixelOfRow ==
    ASSUME MaxUInt16 \in Nat, NEW r \in Rectangles, NEW width \in Nat,
           NEW row \in Rows(r), NEW column \in Columns(r)
    PROVE  /\ RowStart(r, row, width) \in Nat
           /\ RowStart(r, row, width) + 4 * column = Offset(r.y + row, r.x + column, width, 4)
<1>1. r.x \in Nat /\ row + r.y \in Nat /\ column \in Nat /\ row + r.y = r.y + row
  BY DEF Rectangles, UInt16, Rows, Columns
<1>2. RowStart(r, row, width) = Offset(row + r.y, r.x, width, 4)
  BY DEF RowStart
<1>3. Offset(row + r.y, r.x, width, 4) \in Nat
  BY <1>1, OffsetIs, 4 \in {1, 2, 4}, Zenon
<1>4. Offset(row + r.y, r.x, width, 4) + 4 * column = Offset(row + r.y, r.x + column, width, 4)
  <2> DEFINE y == row + r.y
             x == r.x
  <2>1. x \in Nat /\ y \in Nat
    BY <1>1
  <2> HIDE DEF x, y
  <2>2. Offset(y, x, width, 4) + 4 * column = Offset(y, x + column, width, 4)
    BY <1>1, <2>1, ColumnsFollow
  <2> QED
    BY <2>2 DEF x, y
<1> QED
  BY <1>1, <1>2, <1>3, <1>4

-----------------------------------------------------------------------------
(* A byte of a row is a byte of one of its pixels, and the other way round. *)
LEMMA BytesOfARow ==
    ASSUME NEW columns \in Nat, NEW bpp \in {1, 2, 4}
    PROVE  /\ \A k \in 0..columns * bpp - 1 :
                 \E n \in 0..columns - 1, i \in 0..bpp - 1 : k = bpp * n + i
           /\ \A n \in 0..columns - 1, i \in 0..bpp - 1 : bpp * n + i \in 0..columns * bpp - 1
<1>1. ASSUME NEW k \in 0..columns * bpp - 1
      PROVE  \E n \in 0..columns - 1, i \in 0..bpp - 1 : k = bpp * n + i
  <2> DEFINE n == k \div bpp
             i == k % bpp
  <2>1. CASE bpp = 1
    BY <2>1
  <2>2. CASE bpp = 2
    <3>1. n \in 0..columns - 1 /\ i \in 0..1 /\ k = 2 * n + i
      BY <2>2
    <3> QED
      BY <2>2, <3>1
  <2>3. CASE bpp = 4
    <3>1. n \in 0..columns - 1 /\ i \in 0..3 /\ k = 4 * n + i
      BY <2>3
    <3> QED
      BY <2>3, <3>1
  <2> QED
    BY <2>1, <2>2, <2>3
<1>2. ASSUME NEW n \in 0..columns - 1, NEW i \in 0..bpp - 1
      PROVE  bpp * n + i \in 0..columns * bpp - 1
  <2>1. CASE bpp = 1
    BY <2>1
  <2>2. CASE bpp = 2
    BY <2>2
  <2>3. CASE bpp = 4
    BY <2>3
  <2> QED
    BY <2>1, <2>2, <2>3
<1> QED
  BY <1>1, <1>2

(* The region's pixels, counted along the rows. *)
LEMMA PixelsAlongRows ==
    ASSUME MaxUInt16 \in Nat, NEW r \in Rectangles, NEW width \in Nat
    PROVE  PixelsOf(r, width) =
              {RowStart(r, row, width) + 4 * n + i :
                  row \in Rows(r), n \in Columns(r), i \in 0..3}
<1>1. ASSUME NEW row \in Rows(r), NEW n \in Columns(r)
      PROVE  PixelAt(r.x + n, r.y + row, width) =
                {RowStart(r, row, width) + 4 * n + i : i \in 0..3}
  <2>1. RowStart(r, row, width) + 4 * n = Offset(r.y + row, r.x + n, width, 4)
    BY PixelOfRow
  <2> QED
    BY <2>1, Zenon DEF PixelAt
<1>2. ASSUME NEW a
      PROVE  a \in PixelsOf(r, width) <=>
                \E row \in Rows(r), n \in Columns(r) : a \in PixelAt(r.x + n, r.y + row, width)
  BY DEF PixelsOf
<1>3. ASSUME NEW a
      PROVE  a \in PixelsOf(r, width) <=>
                \E row \in Rows(r), n \in Columns(r) :
                   \E i \in 0..3 : a = RowStart(r, row, width) + 4 * n + i
  <2>1. ASSUME NEW row \in Rows(r), NEW n \in Columns(r)
        PROVE  a \in PixelAt(r.x + n, r.y + row, width) <=>
                  \E i \in 0..3 : a = RowStart(r, row, width) + 4 * n + i
    <3>1. PixelAt(r.x + n, r.y + row, width) =
             {RowStart(r, row, width) + 4 * n + i : i \in 0..3}
      BY <1>1
    <3> HIDE DEF PixelAt
    <3> QED
      BY <3>1, Zenon
  <2>2. a \in PixelsOf(r, width) <=>
           \E row \in Rows(r), n \in Columns(r) : a \in PixelAt(r.x + n, r.y + row, width)
    BY <1>2
  <2> DEFINE At(row, n) == a \in PixelAt(r.x + n, r.y + row, width)
             Byte(row, n) == \E i \in 0..3 : a = RowStart(r, row, width) + 4 * n + i
  <2>3. \A row \in Rows(r), n \in Columns(r) : At(row, n) <=> Byte(row, n)
    BY <2>1
  <2>4. a \in PixelsOf(r, width) <=> \E row \in Rows(r), n \in Columns(r) : At(row, n)
    BY <2>2
  <2>5. a \in PixelsOf(r, width) <=> \E row \in Rows(r), n \in Columns(r) : Byte(row, n)
    <3> HIDE DEF At, Byte
    <3> QED
      BY <2>3, <2>4
  <2> QED
    BY <2>5
<1> QED
  BY <1>3

(* On the fast path a row is one run of bytes, on the slow path and in a fill it is
   written pixel by pixel.                                                         *)
LEMMA RowsInOneRun ==
    ASSUME MaxUInt16 \in Nat, NEW r \in Rectangles, NEW width \in Nat
    PROVE  PixelsOf(r, width) =
              {RowStart(r, row, width) + i : row \in Rows(r), i \in 0..r.width * 4 - 1}
<1>0. r.width \in Nat /\ 4 \in {1, 2, 4} /\ Columns(r) = 0..r.width - 1 /\ 4 - 1 = 3
  BY DEF Rectangles, UInt16, Columns
<1>1. /\ \A k \in 0..r.width * 4 - 1 : \E n \in Columns(r), i \in 0..3 : k = 4 * n + i
      /\ \A n \in Columns(r), i \in 0..3 : 4 * n + i \in 0..r.width * 4 - 1
  <2>1. /\ \A k \in 0..r.width * 4 - 1 : \E n \in 0..r.width - 1, i \in 0..4 - 1 : k = 4 * n + i
        /\ \A n \in 0..r.width - 1, i \in 0..4 - 1 : 4 * n + i \in 0..r.width * 4 - 1
    BY <1>0, BytesOfARow, Zenon
  <2>2. ASSUME NEW k \in 0..r.width * 4 - 1
        PROVE  \E n \in Columns(r), i \in 0..3 : k = 4 * n + i
    <3>1. PICK n \in 0..r.width - 1, i \in 0..4 - 1 : k = 4 * n + i
      BY <2>1, Zenon
    <3>2. n \in Columns(r) /\ i \in 0..3
      BY <1>0, <3>1
    <3> QED
      BY <3>1, <3>2, Zenon
  <2>3. ASSUME NEW n \in Columns(r), NEW i \in 0..3
        PROVE  4 * n + i \in 0..r.width * 4 - 1
    <3>1. n \in 0..r.width - 1 /\ i \in 0..4 - 1
      BY <1>0
    <3> QED
      BY <2>1, <3>1, Zenon
  <2> QED
    BY <2>2, <2>3, Zenon
<1>2. ASSUME NEW row \in Rows(r)
      PROVE  \A n \in Columns(r), i \in 0..3 :
                RowStart(r, row, width) + 4 * n + i = RowStart(r, row, width) + (4 * n + i)
  <2>1. ASSUME NEW n \in Columns(r) PROVE RowStart(r, row, width) \in Nat
    BY PixelOfRow
  <2> QED
    BY <2>1, <1>0
<1>3. ASSUME NEW a
      PROVE  a \in PixelsOf(r, width) <=>
                \E row \in Rows(r), k \in 0..r.width * 4 - 1 : a = RowStart(r, row, width) + k
  <2>1. ASSUME NEW row \in Rows(r), NEW n \in Columns(r), NEW i \in 0..3,
               a = RowStart(r, row, width) + 4 * n + i
        PROVE  \E k \in 0..r.width * 4 - 1 : a = RowStart(r, row, width) + k
    BY <1>1, <1>2, <2>1
  <2>2. ASSUME NEW row \in Rows(r), NEW k \in 0..r.width * 4 - 1,
               a = RowStart(r, row, width) + k
        PROVE  \E n \in Columns(r), i \in 0..3 : a = RowStart(r, row, width) + 4 * n + i
    <3>1. PICK n \in Columns(r), i \in 0..3 : k = 4 * n + i
      BY <1>1
    <3> QED
      BY <1>2, <2>2, <3>1
  <2>3. a \in PixelsOf(r, width) <=>
           \E row \in Rows(r), n \in Columns(r), i \in 0..3 :
              a = RowStart(r, row, width) + 4 * n + i
    BY PixelsAlongRows
  <2> QED
    BY <2>1, <2>2, <2>3, Zenon
<1> QED
  BY <1>3

(* An update writes the pixels of its region and nothing else, on the fast and on the
   slow path; so does a fill.                                                        *)
THEOREM UpdateWritesTheRegion ==
    ASSUME MaxUInt16 \in Nat, NEW r \in Rectangles, NEW width \in Nat, NEW bpp \in {1, 2, 4}
    PROVE  UpdateWrites(r, width, bpp) = PixelsOf(r, width)
<1>1. CASE bpp = 4
  <2>1. {move[2] : move \in FastMoves(r, width)} = PixelsOf(r, width)
    <3> DEFINE Move(row, i) == <<Offset(row, 0, r.width, 4) + i, RowStart(r, row, width) + i>>
               Bytes == 0..r.width * 4 - 1
    <3>0. FastMoves(r, width) = {Move(row, i) : row \in Rows(r), i \in Bytes}
      BY DEF FastMoves
    <3>1. ASSUME NEW row, NEW i PROVE Move(row, i)[2] = RowStart(r, row, width) + i
      OBVIOUS
    <3>2. ASSUME NEW a
          PROVE  a \in {move[2] : move \in FastMoves(r, width)} <=>
                    \E row \in Rows(r), i \in Bytes : a = RowStart(r, row, width) + i
      <4> HIDE DEF Move, Bytes
      <4>1. a \in {move[2] : move \in FastMoves(r, width)} <=>
               \E row \in Rows(r), i \in Bytes : a = Move(row, i)[2]
        BY <3>0
      <4> QED
        BY <3>1, <4>1
    <3>3. ASSUME NEW a
          PROVE  a \in PixelsOf(r, width) <=>
                    \E row \in Rows(r), i \in Bytes : a = RowStart(r, row, width) + i
      BY RowsInOneRun
    <3> HIDE DEF Bytes
    <3> QED
      BY <3>2, <3>3
  <2>2. FastAlphas(r, width) \subseteq PixelsOf(r, width)
    <3> SUFFICES ASSUME NEW row \in Rows(r), NEW n \in Columns(r)
                 PROVE  RowStart(r, row, width) + 3 + 4 * n \in PixelsOf(r, width)
      BY DEF FastAlphas
    <3>1. RowStart(r, row, width) \in Nat /\ n \in Int
      BY PixelOfRow DEF Columns
    <3>2. RowStart(r, row, width) + 3 + 4 * n = RowStart(r, row, width) + 4 * n + 3
      BY <3>1
    <3> QED
      BY <3>2, PixelsAlongRows, 3 \in 0..3
  <2> QED
    BY <1>1, <2>1, <2>2 DEF UpdateWrites, NeedsColorConversion
<1>2. CASE bpp # 4
  <2>1. ASSUME NEW row \in Rows(r), NEW n \in Columns(r)
        PROVE  Offset(row + r.y, n + r.x, width, 4) = RowStart(r, row, width) + 4 * n
    <3>1. row + r.y = r.y + row /\ n + r.x = r.x + n
      BY DEF Rectangles, UInt16, Rows, Columns
    <3> QED
      BY <3>1, PixelOfRow
  <2>2. SlowWrites(r, width) = PixelsOf(r, width)
    BY <2>1, PixelsAlongRows DEF SlowWrites
  <2> QED
    BY <1>2, <2>2 DEF UpdateWrites, NeedsColorConversion
<1> QED
  BY <1>1, <1>2

THEOREM FillWritesTheRegion ==
    ASSUME MaxUInt16 \in Nat, NEW r \in Rectangles, NEW width \in Nat
    PROVE  FillWrites(r, width) = PixelsOf(r, width)
BY PixelsAlongRows DEF FillWrites

LEMMA ByteInSurface ==
    ASSUME NEW width \in Nat, NEW height \in Nat,
           NEW x \in 0..width - 1, NEW y \in 0..height - 1, NEW i \in 0..3
    PROVE  Offset(y, x, width, 4) + i \in 0..SurfaceByteCount(width, height) - 1
<1>1. Offset(y, x, width, 4) = 4 * (y * width + x)
  <2>1. y \in Nat /\ x \in Nat /\ 4 \in {1, 2, 4}
    OBVIOUS
  <2> QED
    BY <2>1, OffsetIs, Zenon
<1>2. y * width + x \in 0..width * height - 1
  BY InsideTheRows
<1>3. width * height \in Nat
  OBVIOUS
<1> QED
  BY <1>1, <1>2, <1>3 DEF SurfaceByteCount

(* A valid region's pixels lie in the memory that was allocated: whatever the server
   sends, update and fill write nowhere else.                                       *)
THEOREM StaysInSurface ==
    ASSUME MaxUInt16 \in Nat, NEW r \in Rectangles, NEW width \in Nat, NEW height \in Nat,
           IsValidRegion(r, width, height)
    PROVE  PixelsOf(r, width) \subseteq 0..SurfaceByteCount(width, height) - 1
<1>1. SUFFICES ASSUME NEW row \in Rows(r), NEW column \in Columns(r), NEW i \in 0..3
               PROVE  Offset(r.y + row, r.x + column, width, 4) + i
                         \in 0..SurfaceByteCount(width, height) - 1
  <2> SUFFICES ASSUME NEW a \in PixelsOf(r, width)
               PROVE  a \in 0..SurfaceByteCount(width, height) - 1
    OBVIOUS
  <2>1. PICK row \in Rows(r), column \in Columns(r) : a \in PixelAt(r.x + column, r.y + row, width)
    BY DEF PixelsOf
  <2>2. PICK i \in 0..3 : a = Offset(r.y + row, r.x + column, width, 4) + i
    BY <2>1 DEF PixelAt
  <2> QED
    BY <1>1, <2>2, Zenon
<1>2. r.y + row \in 0..height - 1 /\ r.x + column \in 0..width - 1
  BY DEF IsValidRegion, Rectangles, UInt16, Rows, Columns
<1> QED
  BY <1>2, ByteInSurface, Zenon

(* Different pixels of a framebuffer share no byte, so a region that is written leaves
   every pixel around it alone.                                                       *)
THEOREM PixelsApart ==
    ASSUME NEW width \in Nat, NEW px \in 0..width - 1, NEW qx \in 0..width - 1,
           NEW py \in Nat, NEW qy \in Nat,
           PixelAt(px, py, width) \cap PixelAt(qx, qy, width) # {}
    PROVE  px = qx /\ py = qy
<1>1. PICK i \in 0..3, j \in 0..3 : Offset(py, px, width, 4) + i = Offset(qy, qx, width, 4) + j
  BY DEF PixelAt
<1>2. px \in Nat /\ qx \in Nat /\ 4 \in {1, 2, 4}
  OBVIOUS
<1>3. /\ Offset(py, px, width, 4) = 4 * (py * width + px)
      /\ Offset(qy, qx, width, 4) = 4 * (qy * width + qx)
      /\ py * width + px \in Nat /\ qy * width + qx \in Nat
  BY <1>2, OffsetIs, Zenon
<1>4. py * width + px = qy * width + qx
  BY <1>1, <1>3
<1> QED
  BY <1>4, RowsApart

LEMMA RunWithinData ==
    ASSUME NEW w \in Nat, NEW h \in Nat, NEW bpp \in {1, 2, 4},
           NEW row \in 0..h - 1, NEW k \in 0..w * bpp - 1
    PROVE  Offset(row, 0, w, bpp) + k \in 0..(w * h) * bpp - 1
<1>1. Offset(row, 0, w, bpp) = bpp * (row * w)
  <2>1. Offset(row, 0, w, bpp) = bpp * (row * w + 0)
    BY 0 \in Nat, row \in Nat, OffsetIs, ZenonT(30)
  <2>2. row * w + 0 = row * w
    OBVIOUS
  <2> QED
    BY <2>1, <2>2, Zenon
<1>2. row * w + w <= h * w /\ h * w = w * h /\ row * w \in Nat /\ w * h \in Nat
  BY LaterRow
<1> DEFINE before == row * w
           all == w * h
<1>3. /\ before + w <= all /\ before \in Nat /\ all \in Nat
      /\ Offset(row, 0, w, bpp) = bpp * before
  BY <1>1, <1>2
<1> HIDE DEF before, all
<1>4. CASE bpp = 1
  <2>1. bpp * before + k \in 0..all * bpp - 1
    BY <1>3, <1>4
  <2> QED
    BY <1>3, <2>1 DEF all
<1>5. CASE bpp = 2
  <2>1. bpp * before + k \in 0..all * bpp - 1
    BY <1>3, <1>5
  <2> QED
    BY <1>3, <2>1 DEF all
<1>6. CASE bpp = 4
  <2>1. bpp * before + k \in 0..all * bpp - 1
    BY <1>3, <1>6
  <2> QED
    BY <1>3, <2>1 DEF all
<1> QED
  BY <1>4, <1>5, <1>6

LEMMA PixelWithinData ==
    ASSUME NEW w \in Nat, NEW h \in Nat, NEW bpp \in {1, 2, 4},
           NEW row \in 0..h - 1, NEW column \in 0..w - 1, NEW i \in 0..bpp - 1
    PROVE  Offset(row, column, w, bpp) + i \in 0..(w * h) * bpp - 1
<1>1. bpp * column + i \in 0..w * bpp - 1
  BY BytesOfARow, Zenon
<1>2. Offset(row, 0, w, bpp) + (bpp * column + i) \in 0..(w * h) * bpp - 1
  BY <1>1, RunWithinData
<1>3. Offset(row, 0, w, bpp) + (bpp * column + i) = Offset(row, column, w, bpp) + i
  <2>1. bpp * row * w \in Int /\ bpp * column \in Int /\ bpp * 0 = 0
    OBVIOUS
  <2> QED
    BY <2>1 DEF Offset, RowOffset, ColumnOffset
<1> QED
  BY <1>2, <1>3, Zenon

(* No byte past the end of the data is read, if the encoding read width times height
   pixels of the server's format; with four bytes for a pixel that goes for a copy's
   data as well.                                                                     *)
THEOREM ReadsWithinData ==
    ASSUME MaxUInt16 \in Nat, NEW r \in Rectangles, NEW width \in Nat, NEW bpp \in {1, 2, 4}
    PROVE  UpdateReads(r, width, bpp) \subseteq 0..(r.width * r.height) * bpp - 1
<1>0. r.width \in Nat /\ r.height \in Nat
  BY DEF Rectangles, UInt16
<1>1. ASSUME NEW row \in Rows(r), NEW k \in 0..r.width * bpp - 1
      PROVE  Offset(row, 0, r.width, bpp) + k \in 0..(r.width * r.height) * bpp - 1
  BY <1>0, RunWithinData, Zenon DEF Rows
<1>2. CASE bpp = 4
  <2> SUFFICES ASSUME NEW row \in Rows(r), NEW k \in 0..r.width * 4 - 1
               PROVE  Offset(row, 0, r.width, 4) + k \in 0..(r.width * r.height) * bpp - 1
    BY <1>2 DEF UpdateReads, NeedsColorConversion, FastMoves
  <2> QED
    BY <1>1, <1>2
<1>3. CASE bpp # 4
  <2> SUFFICES ASSUME NEW row \in Rows(r), NEW column \in Columns(r), NEW i \in 0..bpp - 1
               PROVE  Offset(row, column, r.width, bpp) + i \in 0..(r.width * r.height) * bpp - 1
    BY <1>3 DEF UpdateReads, NeedsColorConversion, SlowReads
  <2> QED
    BY <1>0, PixelWithinData, Zenon DEF Columns, Rows
<1> QED
  BY <1>2, <1>3

(* A copy takes each byte from its place in the source to the same place in the
   destination, also where the two overlap.                                    *)
THEOREM CopyKeepsPixels ==
    ASSUME MaxUInt16 \in Nat, NEW s \in Rectangles, NEW t \in Rectangles, NEW width \in Nat,
           s.width = t.width, s.height = t.height
    PROVE  CopyMoves(s, t, width) =
              {<<RowStart(s, row, width) + i, RowStart(t, row, width) + i>> :
                  row \in Rows(t), i \in 0..t.width * 4 - 1}
<1> DEFINE R == Rows(t)
           K == 0..t.width * 4 - 1
           B(row, i) == <<Offset(s.y + row, s.x, width, 4) + i, row * (t.width * 4) + i>>
           F(row, i) == <<Offset(row, 0, t.width, 4) + i, RowStart(t, row, width) + i>>
<1>1. BufferMoves(s, width) = {B(row, i) : row \in R, i \in K}
  BY DEF BufferMoves, Rows
<1>2. FastMoves(t, width) = {F(row, i) : row \in R, i \in K}
  BY DEF FastMoves
<1>3. ASSUME NEW row \in R, NEW other \in R, NEW i \in K, NEW j \in K,
             B(row, i)[2] = F(other, j)[1]
      PROVE  row = other /\ i = j
  <2> DEFINE w == t.width * 4
  <2>1. t.width \in Nat /\ row \in Nat /\ other \in Nat
    BY DEF Rectangles, UInt16, Rows
  <2>2. Offset(other, 0, t.width, 4) = other * w
    BY <2>1 DEF Offset, RowOffset, ColumnOffset
  <2>3. row * w + i = other * w + j
    BY <1>3, <2>2
  <2>4. w \in Nat /\ i \in 0..w - 1 /\ j \in 0..w - 1
    BY <2>1
  <2> HIDE DEF w
  <2> QED
    BY <2>1, <2>3, <2>4, RowsApart
<1>4. ASSUME NEW row \in R, NEW i \in K
      PROVE  B(row, i)[2] = F(row, i)[1]
  <2>1. t.width \in Nat /\ row \in Nat /\ i \in Int
    BY DEF Rectangles, UInt16, Rows
  <2>2. Offset(row, 0, t.width, 4) = row * (t.width * 4)
    BY <2>1 DEF Offset, RowOffset, ColumnOffset
  <2> QED
    BY <2>2
<1>5. ASSUME NEW row \in R, NEW i \in K
      PROVE  /\ B(row, i)[1] = RowStart(s, row, width) + i
             /\ F(row, i)[2] = RowStart(t, row, width) + i
  <2>1. s.y + row = row + s.y
    BY DEF Rectangles, UInt16, Rows
  <2> QED
    BY <2>1 DEF RowStart
<1>6. ASSUME NEW a
      PROVE  a \in CopyMoves(s, t, width) <=>
                \E row \in R, i \in K : a = <<B(row, i)[1], F(row, i)[2]>>
  <2> HIDE DEF R, K, B, F
  <2>1. a \in CopyMoves(s, t, width) <=>
           \E m \in BufferMoves(s, width), n \in FastMoves(t, width) :
              m[2] = n[1] /\ a = <<m[1], n[2]>>
    BY DEF CopyMoves
  <2>2. a \in CopyMoves(s, t, width) <=>
           \E row \in R, i \in K, other \in R, j \in K :
              B(row, i)[2] = F(other, j)[1] /\ a = <<B(row, i)[1], F(other, j)[2]>>
    BY <1>1, <1>2, <2>1
  <2> QED
    BY <1>3, <1>4, <2>2
<1>7. ASSUME NEW a
      PROVE  a \in CopyMoves(s, t, width) <=>
                \E row \in R, i \in K :
                   a = <<RowStart(s, row, width) + i, RowStart(t, row, width) + i>>
  <2> HIDE DEF R, K, B, F
  <2> QED
    BY <1>5, <1>6
<1> QED
  BY <1>7

-----------------------------------------------------------------------------
(* Colours. *)
LEMMA Division ==
    ASSUME NEW n \in Nat, NEW k \in Nat \ {0}, NEW m \in Nat \ {0}
    PROVE  (n \div k) % m \in 0..m - 1
<1>1. n \div k \in Int
  OBVIOUS
<1> QED
  BY <1>1

(* UInt8(value) does not trap: a channel of whatever the server sends fits in a byte,
   in each of the three depths.                                                      *)
THEOREM ChannelFits ==
    ASSUME NEW pixel \in Nat, NEW depth \in ColorDepths, NEW channel \in {"red", "green", "blue"}
    PROVE  ChannelValue(pixel, depth, channel) \in 0..255
<1>1. ChannelShift(depth, channel) \in Nat \ {0} /\ ChannelMax(depth) + 1 \in Nat \ {0}
  BY DEF ChannelShift, ChannelUnit, ChannelMax, ColorDepths
<1> DEFINE k == ChannelShift(depth, channel)
           m == ChannelMax(depth) + 1
           value == (pixel \div k) % m
<1>2. k \in Nat \ {0} /\ m \in Nat \ {0}
  BY <1>1
<1> HIDE DEF k, m
<1>3. value \in 0..m - 1
  BY <1>2, Division
<1> HIDE DEF value
<1>4. value * Widening(depth) \in 0..255
  BY <1>3 DEF m, ChannelMax, Widening, ColorDepths
<1> QED
  BY <1>4 DEF value, k, m, ChannelValue

(* The three channels of a pixel share no bit: what the server packed comes out as it
   was, widened to eight bits.                                                       *)
THEOREM ChannelsApart ==
    ASSUME NEW depth \in ColorDepths, NEW red \in 0..ChannelMax(depth),
           NEW green \in 0..ChannelMax(depth), NEW blue \in 0..ChannelMax(depth),
           NEW pixel, pixel = Packed(red, green, blue, depth)
    PROVE  /\ ChannelValue(pixel, depth, "red")   = red * Widening(depth)
           /\ ChannelValue(pixel, depth, "green") = green * Widening(depth)
           /\ ChannelValue(pixel, depth, "blue")  = blue * Widening(depth)
<1>1. CASE depth = 8
  <2>1. /\ ChannelMax(depth) = 3
        /\ ChannelShift(depth, "red") = 16
        /\ ChannelShift(depth, "green") = 4
        /\ ChannelShift(depth, "blue") = 1
    BY <1>1 DEF ChannelMax, ChannelShift, ChannelUnit
  <2>2. /\ red \in 0..3 /\ green \in 0..3 /\ blue \in 0..3
        /\ pixel = red * 16 + green * 4 + blue
    BY <2>1 DEF Packed
  <2>3. /\ (pixel \div 16) % 4 = red
        /\ (pixel \div 4) % 4 = green
        /\ (pixel \div 1) % 4 = blue
    BY <2>2
  <2> QED
    BY <2>1, <2>3 DEF ChannelValue
<1>2. CASE depth = 16
  <2>1. /\ ChannelMax(depth) = 31
        /\ ChannelShift(depth, "red") = 1024
        /\ ChannelShift(depth, "green") = 32
        /\ ChannelShift(depth, "blue") = 1
    BY <1>2 DEF ChannelMax, ChannelShift, ChannelUnit
  <2>2. /\ red \in 0..31 /\ green \in 0..31 /\ blue \in 0..31
        /\ pixel = red * 1024 + green * 32 + blue
    BY <2>1 DEF Packed
  <2>3. /\ (pixel \div 1024) % 32 = red
        /\ (pixel \div 32) % 32 = green
        /\ (pixel \div 1) % 32 = blue
    BY <2>2
  <2> QED
    BY <2>1, <2>3 DEF ChannelValue
<1>3. CASE depth = 24
  <2>1. /\ ChannelMax(depth) = 255
        /\ ChannelShift(depth, "red") = 65536
        /\ ChannelShift(depth, "green") = 256
        /\ ChannelShift(depth, "blue") = 1
    BY <1>3 DEF ChannelMax, ChannelShift, ChannelUnit
  <2>2. /\ red \in 0..255 /\ green \in 0..255 /\ blue \in 0..255
        /\ pixel = red * 65536 + green * 256 + blue
    BY <2>1 DEF Packed
  <2>3. /\ (pixel \div 65536) % 256 = red
        /\ (pixel \div 256) % 256 = green
        /\ (pixel \div 1) % 256 = blue
    BY <2>2
  <2> QED
    BY <2>1, <2>3 DEF ChannelValue
<1> QED
  BY <1>1, <1>2, <1>3 DEF ColorDepths
=============================================================================
