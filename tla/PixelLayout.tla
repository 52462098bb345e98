---------------------------- MODULE PixelLayout ----------------------------
(***************************************************************************)
(* The planes of a picture in memory: the sizes of its planes, and the     *)
(* copies into and out of a buffer whose planes JavaScript laid out        *)
(* (shared/buffer_utils.h, shared/format_converter.h).                     *)
(*                                                                         *)
(* A pixel format is the sequence of its planes' descriptors: the factors w*)
(* and h by which planes after the first are subsampled, 1 << log2_chroma, *)
(* and bytes per component.  A frame has four planes at the most.  The     *)
(* formats modelled have one component per plane and no alpha plane: the   *)
(* code takes the bytes of a row to be its pixels times the bytes of ONE   *)
(* component, and every later plane to be subsampled.  A byte of a picture *)
(* is the triple of its plane, row and place in the row; a buffer maps     *)
(* addresses to bytes.  A layout is a sequence of offsets and strides.     *)
(***************************************************************************)
EXTENDS Integers, Sequences, FiniteSetsExt

CONSTANTS
  Formats,    \* the pixel formats of the pictures there are
  Pictures,   \* their widths and heights
  Layouts     \* the layouts copyTo() and the constructor are given

MaxPlanes == 4

PlaneDescriptor == [w : Nat \ {0}, h : Nat \ {0}, depth : Nat \ {0}]
PlaneLayout     == [offset : Nat, stride : Nat]

(* The constructor refuses a picture without rows or columns.              *)
ASSUME LayoutsAssumption ==
  /\ \A format \in Formats :
       format \in Seq(PlaneDescriptor) /\ Len(format) \in 1 .. MaxPlanes
  /\ Pictures \subseteq [width : Nat \ {0}, height : Nat \ {0}]
  /\ Layouts \subseteq Seq(PlaneLayout)

(* AV_CEIL_RSHIFT; only later planes are subsampled.                       *)
Subsampled(plane, size, factor) ==
  IF plane = 1 THEN size ELSE (size + factor - 1) \div factor

PlaneHeight(format, plane, picture) == Subsampled(plane, picture.height, format[plane].h)
RowBytes(format, plane, picture) ==
  Subsampled(plane, picture.width, format[plane].w) * format[plane].depth

(* Every byte of a picture.                                                *)
Bytes(format, picture) ==
  UNION {{p} \X (0 .. PlaneHeight(format, p, picture) - 1)
             \X (0 .. RowBytes(format, p, picture) - 1) : p \in DOMAIN format}

(* The first address after a plane that is laid out so.                    *)
PlaneEnd(format, plane, picture, layout) ==
  layout[plane].offset + (PlaneHeight(format, plane, picture) - 1) * layout[plane].stride
    + RowBytes(format, plane, picture)

-----------------------------------------------------------------------------
(* CalculateFrameBufferSize with alignment 1: the planes one after another.*)
PlaneBytes(format, plane, picture) ==
  IF plane \in DOMAIN format
  THEN PlaneHeight(format, plane, picture) * RowBytes(format, plane, picture)
  ELSE 0

(* Where a plane starts when those before it are packed.                   *)
PlaneStart(format, plane, picture) ==
  LET bytes(p) == IF p < plane THEN PlaneBytes(format, p, picture) ELSE 0
  IN  bytes(1) + bytes(2) + bytes(3) + bytes(4)

BufferSize(format, picture) == PlaneStart(format, MaxPlanes + 1, picture)

(* Mutant: the last plane decides.                                         *)
SizeOfLastPlane(format, picture, layout) ==
  PlaneEnd(format, Len(format), picture, layout)

(* CalculateSizeWithLayout: the plane that ends last decides.              *)
SizeWithLayout(format, picture, layout) ==
  Max({PlaneEnd(format, p, picture, layout) : p \in DOMAIN format})

(* Offsets and strides for which copyTo() does not refuse the layout.      *)
LayoutAccepted(format, picture, layout) ==
  /\ Len(layout) = Len(format)
  /\ \A p \in DOMAIN format : layout[p].stride >= RowBytes(format, p, picture)

(* Mutant: the rows of a plane are packed, whatever its stride.            *)
AddressPacked(format, picture, layout, byte) ==
  layout[byte[1]].offset + byte[2] * RowBytes(format, byte[1], picture) + byte[3]

(* Where a byte of the picture lies in the buffer.                         *)
Address(format, picture, layout, byte) ==
  layout[byte[1]].offset + byte[2] * layout[byte[1]].stride + byte[3]

(* CopyFrameWithLayout: the bytes the destination has afterwards.  Planes  *)
(* are written in order, and where they overlap the last one stays.        *)
CopyWithLayout(format, picture, layout) ==
  LET at(a) == {b \in Bytes(format, picture) : Address(format, picture, layout, b) = a}
      last(bytes) == CHOOSE b \in bytes : \A c \in bytes : c[1] <= b[1]
  IN  [a \in {Address(format, picture, layout, b) : b \in Bytes(format, picture)} |-> last(at(a))]

(* CreateFrameFromBufferWithLayout: every byte of the new picture, read    *)
(* from a buffer, whose bytes that no picture was copied to are of none.   *)
FrameFromBuffer(format, picture, layout, buffer) ==
  LET source(b) == layout[b[1]].offset + b[2] * layout[b[1]].stride + b[3]
  IN  [b \in Bytes(format, picture) |->
        IF source(b) \in DOMAIN buffer THEN buffer[source(b)] ELSE <<0, 0, 0>>]

-----------------------------------------------------------------------------
(* A copy stays within the size that was asked of the destination, and one *)
(* without a layout, whose planes follow each other, fills it.             *)
Packed(format, picture) ==
  [p \in DOMAIN format |->
    [offset |-> PlaneStart(format, p, picture),
     stride |-> RowBytes(format, p, picture)]]

CopyFits(format, picture, layout) ==
  LayoutAccepted(format, picture, layout) =>
    \A b \in Bytes(format, picture) :
      Address(format, picture, layout, b) \in 0 .. SizeWithLayout(format, picture, layout) - 1

PackedFills(format, picture) ==
  /\ SizeWithLayout(format, picture, Packed(format, picture)) = BufferSize(format, picture)
  /\ DOMAIN CopyWithLayout(format, picture, Packed(format, picture))
       = 0 .. BufferSize(format, picture) - 1

LayoutsFit ==
  \A format \in Formats, picture \in Pictures :
    /\ PackedFills(format, picture)
    /\ \A layout \in Layouts : CopyFits(format, picture, layout)

(* A picture copied out with a layout and read in again with the same one  *)
(* is the same picture, unless its planes overlap.                         *)
Overlap(format, picture, layout) ==
  \E p, q \in DOMAIN format :
    /\ p # q
    /\ layout[p].offset <= layout[q].offset
    /\ PlaneEnd(format, p, picture, layout) > layout[q].offset

RoundTrip(format, picture, layout) ==
  LayoutAccepted(format, picture, layout) /\ ~Overlap(format, picture, layout) =>
    FrameFromBuffer(format, picture, layout, CopyWithLayout(format, picture, layout))
      = [b \in Bytes(format, picture) |-> b]

PicturesSurvive ==
  \A format \in Formats, picture \in Pictures, layout \in Layouts :
    RoundTrip(format, picture, layout)
=============================================================================
