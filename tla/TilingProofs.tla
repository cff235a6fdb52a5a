----------------------------- MODULE TilingProofs -----------------------------
(***************************************************************************)
(* Hextile's and ZRLE's tiles partition every rectangle, and in a          *)
(* framebuffer that is not too large none of the sums traps.               *)
(***************************************************************************)
EXTENDS Tiling, TLAPS

(* One direction of Hextile: position p of a line of size pixels is in tile p \div 16. *)
LEMMA HextileCovers ==
    ASSUME NEW size \in Nat, NEW p \in 0..size - 1
    PROVE  \E i \in 0..TileCount(size) - 1 :
              i * 16 <= p /\ p < i * 16 + TileSize(i, TileCount(size), size)
<1> DEFINE i == p \div 16
<1>1. i \in Nat /\ 16 * i <= p /\ p < 16 * i + 16
  OBVIOUS
<1>2. i <= TileCount(size) - 1 /\ TileCount(size) \in Nat
  BY <1>1 DEF TileCount
<1>3. CASE i = TileCount(size) - 1 /\ size % 16 # 0
  <2>1. size = 16 * i + (size % 16)
    BY <1>3 DEF TileCount
  <2> QED
    BY <1>1, <1>2, <1>3, <2>1 DEF TileSize
<1>4. CASE ~(i = TileCount(size) - 1 /\ size % 16 # 0)
  BY <1>1, <1>2, <1>4 DEF TileSize
<1> QED
  BY <1>3, <1>4

(* No tile reaches past the end, none is empty or larger than 16. *)
LEMMA HextileFits ==
    ASSUME NEW size \in Nat, NEW i \in 0..TileCount(size) - 1
    PROVE  /\ TileSize(i, TileCount(size), size) \in 1..16
           /\ i * 16 + TileSize(i, TileCount(size), size) <= size
<1>1. CASE i = TileCount(size) - 1 /\ size % 16 # 0
  BY <1>1 DEF TileCount, TileSize
<1>2. CASE ~(i = TileCount(size) - 1 /\ size % 16 # 0)
  BY <1>2 DEF TileCount, TileSize
<1> QED
  BY <1>1, <1>2

(* Two tiles that contain the same position are the same. *)
LEMMA HextileApart ==
    ASSUME NEW size \in Nat, NEW p \in Int,
           NEW i \in 0..TileCount(size) - 1, NEW j \in 0..TileCount(size) - 1,
           i * 16 <= p, p < i * 16 + TileSize(i, TileCount(size), size),
           j * 16 <= p, p < j * 16 + TileSize(j, TileCount(size), size)
    PROVE  i = j
<1>1. p < i * 16 + 16 /\ p < j * 16 + 16
  BY HextileFits
<1> QED
  BY <1>1

(* Hextile's tiles partition the rectangle, whatever its size and place: no pixel is
   left out at the right and lower edge, and none is written twice.                 *)
THEOREM HextilePartitions ==
    ASSUME MaxUInt16 \in Nat, NEW r \in Rectangles
    PROVE  Partition(r, HextileTiles(r))
<1>0. r.x \in Nat /\ r.y \in Nat /\ r.width \in Nat /\ r.height \in Nat
  BY DEF Rectangles, UInt16
<1> SUFFICES ASSUME NEW px \in Int, NEW py \in Int
             PROVE  /\ Contains(r, px, py) <=> \E t \in HextileTiles(r) : Contains(t, px, py)
                    /\ \A t, u \in HextileTiles(r) :
                          Contains(t, px, py) /\ Contains(u, px, py) => t = u
  BY DEF Partition
<1> DEFINE xs == 0..TileCount(r.width) - 1
           ys == 0..TileCount(r.height) - 1
<1>1. ASSUME NEW i \in xs, NEW j \in ys
      PROVE  Contains(HextileTile(r, i, j), px, py) <=>
               /\ i * 16 <= px - r.x
               /\ px - r.x < i * 16 + TileSize(i, TileCount(r.width), r.width)
               /\ j * 16 <= py - r.y
               /\ py - r.y < j * 16 + TileSize(j, TileCount(r.height), r.height)
  <2>1. /\ TileSize(i, TileCount(r.width), r.width) \in 1..16
        /\ TileSize(j, TileCount(r.height), r.height) \in 1..16
    BY <1>0, HextileFits
  <2> QED
    BY <1>0, <2>1 DEF Contains, HextileTile
<1>2. ASSUME Contains(r, px, py)
      PROVE  \E t \in HextileTiles(r) : Contains(t, px, py)
  <2>1. px - r.x \in 0..r.width - 1 /\ py - r.y \in 0..r.height - 1
    BY <1>0, <1>2 DEF Contains
  <2>2. PICK i \in xs : /\ i * 16 <= px - r.x
                        /\ px - r.x < i * 16 + TileSize(i, TileCount(r.width), r.width)
    BY <1>0, <2>1, HextileCovers
  <2>3. PICK j \in ys : /\ j * 16 <= py - r.y
                        /\ py - r.y < j * 16 + TileSize(j, TileCount(r.height), r.height)
    BY <1>0, <2>1, HextileCovers
  <2>4. HextileTile(r, i, j) \in HextileTiles(r)
    BY DEF HextileTiles
  <2> QED
    BY <1>1, <2>2, <2>3, <2>4
<1>3. ASSUME NEW t \in HextileTiles(r), Contains(t, px, py)
      PROVE  Contains(r, px, py)
  <2>1. PICK i \in xs, j \in ys : t = HextileTile(r, i, j)
    BY DEF HextileTiles
  <2>2. /\ i * 16 + TileSize(i, TileCount(r.width), r.width) <= r.width
        /\ j * 16 + TileSize(j, TileCount(r.height), r.height) <= r.height
        /\ TileSize(i, TileCount(r.width), r.width) \in 1..16
        /\ TileSize(j, TileCount(r.height), r.height) \in 1..16
    BY <1>0, HextileFits
  <2> QED
    BY <1>0, <1>1, <1>3, <2>1, <2>2 DEF Contains
<1>4. ASSUME NEW t \in HextileTiles(r), NEW u \in HextileTiles(r),
             Contains(t, px, py), Contains(u, px, py)
      PROVE  t = u
  <2>1. PICK i \in xs, j \in ys : t = HextileTile(r, i, j)
    BY DEF HextileTiles
  <2>2. PICK k \in xs, l \in ys : u = HextileTile(r, k, l)
    BY DEF HextileTiles
  <2>3. i = k
    BY <1>0, <1>1, <1>4, <2>1, <2>2, HextileApart
  <2>4. j = l
    BY <1>0, <1>1, <1>4, <2>1, <2>2, HextileApart
  <2> QED
    BY <2>1, <2>2, <2>3, <2>4
<1> QED
  BY <1>2, <1>3, <1>4

(* A rectangle that ends 16 pixels before the largest coordinate makes none of Hextile's
   sums trap, those for the corners of subrectangles included.  At the left
   edge the bound is sharp: the count of tiles begins with width + 16.                  *)
THEOREM HextileDoesNotTrap ==
    ASSUME MaxUInt16 \in Nat, NEW r \in Rectangles,
           r.x + r.width + 16 <= MaxUInt16, r.y + r.height + 16 <= MaxUInt16
    PROVE  /\ HextileSafe(r)
           /\ \A t \in HextileTiles(r) : SubrectCorners(t) \subseteq UInt16 \X UInt16
<1>0. r.x \in Nat /\ r.y \in Nat /\ r.width \in Nat /\ r.height \in Nat
  BY DEF Rectangles, UInt16
<1>1. ASSUME NEW t \in HextileTiles(r)
      PROVE  /\ t.x \in Nat /\ t.x + 16 <= MaxUInt16
             /\ t.y \in Nat /\ t.y + 16 <= MaxUInt16
  <2>1. PICK i \in 0..TileCount(r.width) - 1, j \in 0..TileCount(r.height) - 1 :
          t = HextileTile(r, i, j)
    BY DEF HextileTiles
  <2>2. i \in Nat /\ j \in Nat /\ i * 16 <= r.width /\ j * 16 <= r.height
    <3>1. /\ TileSize(i, TileCount(r.width), r.width) \in 1..16
          /\ i * 16 + TileSize(i, TileCount(r.width), r.width) <= r.width
      BY <1>0, HextileFits
    <3>2. /\ TileSize(j, TileCount(r.height), r.height) \in 1..16
          /\ j * 16 + TileSize(j, TileCount(r.height), r.height) <= r.height
      BY <1>0, HextileFits
    <3>3. TileCount(r.width) \in Int /\ TileCount(r.height) \in Int
      BY <1>0 DEF TileCount
    <3> QED
      BY <1>0, <3>1, <3>2, <3>3
  <2> QED
    BY <1>0, <2>1, <2>2 DEF HextileTile
<1>2. HextileSafe(r)
  BY <1>0, <1>1 DEF HextileSafe, UInt16
<1>3. ASSUME NEW t \in HextileTiles(r) PROVE SubrectCorners(t) \subseteq UInt16 \X UInt16
  BY <1>1 DEF SubrectCorners, UInt16
<1> QED
  BY <1>2, <1>3

-----------------------------------------------------------------------------
(* ZRLE's tiles partition the rectangle as well: the walk and the count agree. *)
THEOREM ZRLEPartitions ==
    ASSUME MaxUInt16 \in Nat, NEW r \in Rectangles
    PROVE  Partition(r, ZRLETiles(r))
<1>0. r.x \in Nat /\ r.y \in Nat /\ r.width \in Nat /\ r.height \in Nat
  BY DEF Rectangles, UInt16
<1> SUFFICES ASSUME NEW px \in Int, NEW py \in Int
             PROVE  /\ Contains(r, px, py) <=> \E t \in ZRLETiles(r) : Contains(t, px, py)
                    /\ \A t, u \in ZRLETiles(r) :
                          Contains(t, px, py) /\ Contains(u, px, py) => t = u
  BY DEF Partition
<1>1. ASSUME NEW m \in Steps(r.x, r.width), NEW n \in Steps(r.y, r.height)
      PROVE  /\ m \in Nat /\ n \in Nat
             /\ Contains(ZRLETile(r, m, n), px, py) <=>
                  /\ 64 * m <= px - r.x /\ px - r.x < 64 * m + 64 /\ px - r.x < r.width
                  /\ 64 * n <= py - r.y /\ py - r.y < 64 * n + 64 /\ py - r.y < r.height
  BY <1>0 DEF Steps, Contains, ZRLETile, Smaller
<1>2. ASSUME Contains(r, px, py)
      PROVE  \E t \in ZRLETiles(r) : Contains(t, px, py)
  <2> DEFINE m == (px - r.x) \div 64
             n == (py - r.y) \div 64
  <2>1. px - r.x \in 0..r.width - 1 /\ py - r.y \in 0..r.height - 1
    BY <1>0, <1>2 DEF Contains
  <2>2. /\ m \in Nat /\ 64 * m <= px - r.x /\ px - r.x < 64 * m + 64
        /\ n \in Nat /\ 64 * n <= py - r.y /\ py - r.y < 64 * n + 64
    BY <1>0, <2>1
  <2> HIDE DEF m, n
  <2>3. m \in Steps(r.x, r.width) /\ n \in Steps(r.y, r.height)
    BY <1>0, <2>1, <2>2 DEF Steps
  <2>4. ZRLETile(r, m, n) \in ZRLETiles(r)
    BY <2>3 DEF ZRLETiles
  <2> QED
    BY <1>0, <1>1, <2>1, <2>2, <2>3, <2>4
<1>3. ASSUME NEW t \in ZRLETiles(r), Contains(t, px, py)
      PROVE  Contains(r, px, py)
  <2>1. PICK m \in Steps(r.x, r.width), n \in Steps(r.y, r.height) : t = ZRLETile(r, m, n)
    BY DEF ZRLETiles
  <2> QED
    BY <1>0, <1>1, <1>3, <2>1 DEF Contains
<1>4. ASSUME NEW t \in ZRLETiles(r), NEW u \in ZRLETiles(r),
             Contains(t, px, py), Contains(u, px, py)
      PROVE  t = u
  <2>1. PICK m \in Steps(r.x, r.width), n \in Steps(r.y, r.height) : t = ZRLETile(r, m, n)
    BY DEF ZRLETiles
  <2>2. PICK k \in Steps(r.x, r.width), l \in Steps(r.y, r.height) : u = ZRLETile(r, k, l)
    BY DEF ZRLETiles
  <2>3. m = k /\ n = l
    BY <1>0, <1>1, <1>4, <2>1, <2>2
  <2> QED
    BY <2>1, <2>2, <2>3
<1> QED
  BY <1>2, <1>3, <1>4

(* A rectangle that ends 63 pixels before the largest coordinate lets ZRLE's loops end:
   the tileX += 64 that leaves the rectangle does not trap.                             *)
THEOREM ZRLEDoesNotTrap ==
    ASSUME MaxUInt16 \in Nat, NEW r \in Rectangles,
           r.x + r.width + 63 <= MaxUInt16, r.y + r.height + 63 <= MaxUInt16
    PROVE  ZRLESafe(r)
<1>0. r.x \in Nat /\ r.y \in Nat /\ r.width \in Nat /\ r.height \in Nat
  BY DEF Rectangles, UInt16
<1>1. ASSUME NEW t \in ZRLETiles(r) PROVE t.x + 64 \in UInt16 /\ t.y + 64 \in UInt16
  <2>1. PICK m \in Steps(r.x, r.width), n \in Steps(r.y, r.height) : t = ZRLETile(r, m, n)
    BY DEF ZRLETiles
  <2> QED
    BY <1>0, <2>1 DEF Steps, ZRLETile, UInt16
<1> QED
  BY <1>0, <1>1 DEF ZRLESafe, UInt16

-----------------------------------------------------------------------------
(* A framebuffer that has room for the rectangle has room for each of its tiles: fill and
   update, which skip a region they consider invalid, skip none of them.                 *)
THEOREM NoTileIsSkipped ==
    ASSUME MaxUInt16 \in Nat, NEW r \in Rectangles, NEW width \in Nat, NEW height \in Nat,
           IsValidRegion(r, width, height)
    PROVE  \A t \in HextileTiles(r) \cup ZRLETiles(r) : IsValidRegion(t, width, height)
<1>0. r.x \in Nat /\ r.y \in Nat /\ r.width \in Nat /\ r.height \in Nat
  BY DEF Rectangles, UInt16
<1>1. ASSUME NEW t \in HextileTiles(r) PROVE IsValidRegion(t, width, height)
  <2>1. PICK i \in 0..TileCount(r.width) - 1, j \in 0..TileCount(r.height) - 1 :
          t = HextileTile(r, i, j)
    BY DEF HextileTiles
  <2>2. /\ TileSize(i, TileCount(r.width), r.width) \in 1..16
        /\ i * 16 + TileSize(i, TileCount(r.width), r.width) <= r.width
    BY <1>0, HextileFits
  <2>3. /\ TileSize(j, TileCount(r.height), r.height) \in 1..16
        /\ j * 16 + TileSize(j, TileCount(r.height), r.height) <= r.height
    BY <1>0, HextileFits
  <2>4. i \in Nat /\ j \in Nat
    <3>1. TileCount(r.width) \in Int /\ TileCount(r.height) \in Int
      BY <1>0 DEF TileCount
    <3> QED
      BY <3>1
  <2> QED
    BY <1>0, <2>1, <2>2, <2>3, <2>4 DEF HextileTile, IsValidRegion
<1>2. ASSUME NEW t \in ZRLETiles(r) PROVE IsValidRegion(t, width, height)
  <2>1. PICK m \in Steps(r.x, r.width), n \in Steps(r.y, r.height) : t = ZRLETile(r, m, n)
    BY DEF ZRLETiles
  <2> QED
    BY <1>0, <2>1 DEF Steps, ZRLETile, Smaller, IsValidRegion
<1> QED
  BY <1>1, <1>2
=============================================================================
