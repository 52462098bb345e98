--------------------------- MODULE MCMediaObjects ---------------------------
(* MediaObjects with four objects, and small inputs of the copies and      *)
(* conversions, for TLC.                                                   *)
EXTENDS MediaObjects, SequencesExt

MCInits ==
  {[rotation |-> 0, flip |-> FALSE, timestamp |-> 0],
   [rotation |-> 90, flip |-> FALSE, timestamp |-> Unchanged],
   [rotation |-> 180, flip |-> TRUE, timestamp |-> 1],
   [rotation |-> 270, flip |-> TRUE, timestamp |-> 0]}
MCNoTurns == {[rotation |-> 0, flip |-> FALSE, timestamp |-> 0]}

MCAudios == [planar : BOOLEAN, channels : 1 .. 3, frames : 1 .. 4]
MCCopyOptions ==
  [planar : BOOLEAN, same : BOOLEAN, plane : -1 .. 3, offset : -2 .. 4,
   rest : BOOLEAN, count : -1 .. 5]

Plane(w, h, d) == [w |-> w, h |-> h, depth |-> d]
MCFormats ==
  {<<Plane(1, 1, 1), Plane(2, 2, 1), Plane(2, 2, 1)>>,
   <<Plane(1, 1, 2), Plane(2, 1, 2), Plane(2, 1, 2)>>,
   <<Plane(1, 1, 1), Plane(1, 1, 1), Plane(1, 1, 1)>>}
MCPictures == [width : 1 .. 3, height : 1 .. 3]

(* The planes of each picture one after another or in reverse, with padding*)
(* at the ends of rows, and those of others: too small, or overlapping.    *)
Strided(format, picture, first, pad) ==
  [p \in DOMAIN format |->
    [offset |-> first + Packed(format, picture)[p].offset + pad * p * picture.height,
     stride |-> RowBytes(format, p, picture) + pad]]
MCLayouts ==
  {Strided(format, picture, first, pad) :
     format \in MCFormats, picture \in MCPictures, first \in 0 .. 1, pad \in 0 .. 2}
    \cup {Reverse(Strided(format, picture, 1, 2)) :
            format \in MCFormats, picture \in MCPictures}

MCTimebases == [num : 1 .. 3, den : {1, 3, 4, 25, 90}]
MCTicks == -20 .. 40
=============================================================================
