-------------------------------- MODULE Tiling --------------------------------
(***************************************************************************)
(* How Hextile and ZRLE cut a rectangle into tiles.  A decoder that leaves *)
(* a row out, or takes a tile for a pixel wider than the server did, reads *)
(* the rest of the stream out of step.  The two compute the tiles          *)
(* differently: Hextile counts them first and asks for the size of the     *)
(* last one, ZRLE walks until it has left the rectangle.                   *)
(*                                                                         *)
(* Coordinates are UInt16, and + traps when a sum does not fit; the sums   *)
(* are named here, so that it can be said which rectangles are safe.       *)
(***************************************************************************)
EXTENDS Integers

CONSTANT MaxUInt16     \* 65535

UInt16 == 0..MaxUInt16
Rectangles == [x : UInt16, y : UInt16, width : UInt16, height : UInt16]

(* What both promise: every pixel of the rectangle is in exactly one tile, and no tile
   reaches out of the rectangle.                                                      *)
Contains(r, px, py) ==
    /\ r.x <= px /\ px < r.x + r.width
    /\ r.y <= py /\ py < r.y + r.height

Partition(rectangle, tiles) ==
    \A px, py \in Int :
        /\ Contains(rectangle, px, py) <=> \E t \in tiles : Contains(t, px, py)
        /\ \A t, u \in tiles : Contains(t, px, py) /\ Contains(u, px, py) => t = u

(* VNCFramebuffer.isValidRegion: update and fill skip a region that is not. *)
IsValidRegion(region, width, height) ==
    /\ region.x >= 0 /\ region.y >= 0
    /\ region.width >= 1 /\ region.height >= 1
    /\ region.x + region.width <= width /\ region.y + region.height <= height

-----------------------------------------------------------------------------
(* HextileEncoding. *)
TileCount(rectangleSize) == (rectangleSize + 16 - 1) \div 16

TileSize(tileNumber, tileCount, rectangleSize) ==
    LET overlap == rectangleSize % 16
    IN  IF tileNumber = tileCount - 1 /\ overlap # 0 THEN overlap ELSE 16

HextileTile(r, tileX, tileY) ==
    [x |-> r.x + tileX * 16,
     y |-> r.y + tileY * 16,
     width  |-> TileSize(tileX, TileCount(r.width), r.width),
     height |-> TileSize(tileY, TileCount(r.height), r.height)]

HextileTiles(r) ==
    {HextileTile(r, tileX, tileY) : tileX \in 0..TileCount(r.width) - 1,
                                    tileY \in 0..TileCount(r.height) - 1}

(* Every sum the decoder makes fits. *)
HextileSafe(r) ==
    /\ r.width + 16 \in UInt16 /\ r.height + 16 \in UInt16
    /\ \A t \in HextileTiles(r) : t.x \in UInt16 /\ t.y \in UInt16

(* A subrectangle lies at 0..15 in the tile: its corner must fit as well. *)
SubrectCorners(t) == {<<t.x + x, t.y + y>> : x \in 0..15, y \in 0..15}

-----------------------------------------------------------------------------
(* ZRLEEncoding: the values tileX and tileY take in the two loops. *)
Steps(first, size) == {n \in Nat : first + 64 * n < first + size}

Smaller(a, b) == IF a < b THEN a ELSE b

ZRLETile(r, m, n) ==
    [x |-> r.x + 64 * m,
     y |-> r.y + 64 * n,
     width  |-> Smaller(64, r.x + r.width  - (r.x + 64 * m)),
     height |-> Smaller(64, r.y + r.height - (r.y + 64 * n))]

ZRLETiles(r) ==
    {ZRLETile(r, m, n) : m \in Steps(r.x, r.width), n \in Steps(r.y, r.height)}

(* The last += tileSize is made when the loop is about to end. *)
ZRLESafe(r) ==
    /\ r.x + r.width \in UInt16 /\ r.y + r.height \in UInt16
    /\ \A t \in ZRLETiles(r) : t.x + 64 \in UInt16 /\ t.y + 64 \in UInt16
=============================================================================
