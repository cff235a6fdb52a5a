------------------------------- MODULE Surface -------------------------------
(***************************************************************************)
(* The memory of a framebuffer.  update, fill and copy compute addresses   *)
(* from rows, columns and byte counts and write through an unsafe pointer, *)
(* so a wrong sum would not trap, it would write somewhere else.           *)
(*                                                                         *)
(* The surface has four bytes for a pixel, blue, green, red and alpha.     *)
(* What the server sends has bpp bytes for a pixel.  If they are four as   *)
(* well, rows are copied at once; otherwise each pixel is converted.       *)
(* An operation is described by the addresses it touches, and a copy of    *)
(* memory by its pairs <<from, to>>.                                       *)
(***************************************************************************)
EXTENDS Tiling

SurfaceByteCount(width, height) == width * height * 4

(* PixelUtils.offsetOf(row:width:bytesPerPixel:) and offsetOf(column:bytesPerPixel:). *)
RowOffset(row, width, bpp) == bpp * row * width
ColumnOffset(column, bpp)  == bpp * column
Offset(row, column, width, bpp) == RowOffset(row, width, bpp) + ColumnOffset(column, bpp)

NeedsColorConversion(bpp) == bpp # 4

Rows(region)    == 0..region.height - 1
Columns(region) == 0..region.width - 1

(* Where a row of the region begins in the surface. *)
RowStart(region, row, width) == Offset(row + region.y, region.x, width, 4)

-----------------------------------------------------------------------------
(* updatePixelBufferWithData: the bytes of the data that are read, the bytes of the
   surface that are written.  On the fast path alpha is set after the row was copied. *)
FastMoves(region, width) ==
    {<<Offset(row, 0, region.width, 4) + i, RowStart(region, row, width) + i>> :
        row \in Rows(region), i \in 0..region.width * 4 - 1}

FastAlphas(region, width) ==
    {RowStart(region, row, width) + 3 + 4 * n : row \in Rows(region), n \in Columns(region)}

SlowReads(region, bpp) ==
    {Offset(row, column, region.width, bpp) + i :
        row \in Rows(region), column \in Columns(region), i \in 0..bpp - 1}

SlowWrites(region, width) ==
    {Offset(row + region.y, column + region.x, width, 4) + i :
        row \in Rows(region), column \in Columns(region), i \in 0..3}

UpdateReads(region, width, bpp) ==
    IF NeedsColorConversion(bpp) THEN SlowReads(region, bpp)
    ELSE {move[1] : move \in FastMoves(region, width)}

UpdateWrites(region, width, bpp) ==
    IF NeedsColorConversion(bpp) THEN SlowWrites(region, width)
    ELSE {move[2] : move \in FastMoves(region, width)} \cup FastAlphas(region, width)

(* fillPixelBufferWithPixel: idx goes on by four from the start of the row. *)
FillWrites(region, width) ==
    {RowStart(region, row, width) + 4 * n + i :
        row \in Rows(region), n \in Columns(region), i \in 0..3}

(* bufferData: copy's first half.  Its data has four bytes for a pixel, whatever the
   server's format is.                                                              *)
BufferMoves(region, width) ==
    {<<Offset(region.y + row, region.x, width, 4) + i, row * (region.width * 4) + i>> :
        row \in Rows(region), i \in 0..region.width * 4 - 1}

(* copyPixelBufferRegion for four bytes for a pixel: what bufferData took is read by the
   update of the destination.                                                          *)
CopyMoves(source, destination, width) ==
    UNION {{<<taken[1], put[2]>> : put \in {p \in FastMoves(destination, width) : p[1] = taken[2]}} :
              taken \in BufferMoves(source, width)}

-----------------------------------------------------------------------------
(* What is meant. *)
PixelAt(px, py, width) == {Offset(py, px, width, 4) + i : i \in 0..3}

PixelsOf(region, width) ==
    UNION {PixelAt(region.x + column, region.y + row, width) :
              row \in Rows(region), column \in Columns(region)}

-----------------------------------------------------------------------------
(* PixelFormat(depth:) for the depths of Settings.ColorDepth, and one channel of a pixel
   on the slow path: shifted down, masked, widened to eight bits.  UInt8(...) traps if
   the result does not fit.                                                             *)
ColorDepths == {8, 16, 24}

ChannelMax(depth)  == CASE depth = 8 -> 3   [] depth = 16 -> 31 [] depth = 24 -> 255
ChannelUnit(depth) == CASE depth = 8 -> 4   [] depth = 16 -> 32 [] depth = 24 -> 256
Widening(depth)    == CASE depth = 8 -> 64  [] depth = 16 -> 8  [] depth = 24 -> 1

(* 1 << shift for the blue, green and red channel. *)
ChannelShift(depth, channel) ==
    CASE channel = "blue"  -> 1
      [] channel = "green" -> ChannelUnit(depth)
      [] channel = "red"   -> ChannelUnit(depth) * ChannelUnit(depth)

ChannelValue(pixel, depth, channel) ==
    ((pixel \div ChannelShift(depth, channel)) % (ChannelMax(depth) + 1)) * Widening(depth)

(* A pixel of the format, put together by the server. *)
Packed(red, green, blue, depth) ==
    red * ChannelShift(depth, "red") + green * ChannelShift(depth, "green") + blue
=============================================================================
