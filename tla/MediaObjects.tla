---------------------------- MODULE MediaObjects ----------------------------
(***************************************************************************)
(* VideoFrame and AudioData (video_frame.cpp, audio_data.cpp): JavaScript  *)
(* objects over reference-counted AVFrames.  An object is constructed from *)
(* a BufferSource, from another frame or from a decoder's output, cloned,  *)
(* transferred, given to an encoder, closed, and collected; the buffer it  *)
(* shares with its clones and with codecs is freed with its last reference.*)
(*                                                                         *)
(* Everything happens on the JS thread but the codecs' releases.  Of the   *)
(* attributes the timestamp and the orientation are kept; rectangles,      *)
(* sizes, formats and metadata are values copied along with them.          *)
(***************************************************************************)
EXTENDS AudioCopy, PixelLayout, Timebase, FiniteSets

CONSTANTS
  MaxObjects,  \* bound on the objects ever created
  Inits,       \* the VideoFrameInits used, a subset of VideoFrameInit
  MaxWrites,   \* bound on the writes of JavaScript to the BufferSource
  MaxHeld      \* bound on the references a codec has to one buffer

Kinds       == {"video", "audio"}
Rotations   == {0, 90, 180, 270}
Unchanged   == -1   \* a timestamp that init does not override
Timestamps  == Nat
VideoFrameInit ==
  [rotation : Rotations, flip : BOOLEAN, timestamp : Timestamps \cup {Unchanged}]

Corners == 0 .. 3   \* of the picture, clockwise from the top left

ASSUME ObjectsAssumption ==
  MaxObjects \in Nat /\ MaxWrites \in Nat /\ MaxHeld \in Nat
ASSUME InitsAssumption == Inits \subseteq VideoFrameInit

VARIABLES
  objects,  \* the objects created so far, by the order of their creation
  buffers,  \* the buffers allocated so far: AVBufferRef's counts
  held,     \* how many of the references to each buffer are a codec's
  array     \* the contents of JavaScript's BufferSource, as a version

vars == <<objects, buffers, held, array>>

(* closed_ tells whether the object still has its frame_; the picture is   *)
(* what frame_->data points to: a copied version, or the BufferSource      *)
(* itself.  The view is history: where each corner was put by the inits.   *)
Object ==
  [kind : Kinds, closed : BOOLEAN, buffer : Nat, timestamp : Timestamps,
   rotation : Rotations, flip : BOOLEAN,
   aliases : BOOLEAN, view : [Corners -> Corners]]

Init ==
  /\ objects = <<>>
  /\ buffers = <<>>
  /\ held = <<>>
  /\ array = 0

Existing == DOMAIN objects
Open(h)  == h \in Existing /\ ~objects[h].closed

-----------------------------------------------------------------------------
(* Orientation.                                                            *)

(* Where a corner is shown: turned clockwise, then mirrored.               *)
Shown(rotation, flip, corner) ==
  LET turned == (corner + rotation \div 90) % 4
  IN  IF flip THEN (5 - turned) % 4 ELSE turned

(* Mutant: mirroring does not reverse the turn.                            *)
AddRotationsUnflipped(rotation, flip, more) == (rotation + more) % 360

AddRotations(rotation, flip, more) ==
  IF flip THEN (rotation - more) % 360 ELSE (rotation + more) % 360

AddFlips(flip, more) == flip # more

-----------------------------------------------------------------------------
(* References.                                                             *)

NewBuffer(codecs) ==
  /\ buffers' = Append(buffers, 1 + codecs)
  /\ held' = Append(held, codecs)

(* CloneAvFrame: another reference to the same buffer.                     *)
AddReference(b) == buffers' = [buffers EXCEPT ![b] = @ + 1]

NewObject(object) ==
  /\ Len(objects) < MaxObjects
  /\ objects' = Append(objects, object)

(* Mutant: the frame is unreferenced although it is gone already.          *)
ReleaseAgain(h) ==
  /\ objects' = [objects EXCEPT ![h].closed = TRUE]
  /\ buffers' = [buffers EXCEPT ![objects[h].buffer] = @ - 1]

(* Release: the flag is raised; frame_ is unreferenced if it is there.     *)
Release(h) ==
  /\ objects' = [objects EXCEPT ![h].closed = TRUE]
  /\ buffers' = IF objects[h].closed THEN buffers
                ELSE [buffers EXCEPT ![objects[h].buffer] = @ - 1]

-----------------------------------------------------------------------------
(* Constructors.  One that throws after it has its frame releases it with  *)
(* the object nobody got; so do a clone that fails and the other refusals. *)

FromArray(kind, init, aliases) ==
  /\ init.timestamp # Unchanged
  /\ NewObject([kind |-> kind, closed |-> FALSE, buffer |-> Len(buffers) + 1,
                timestamp |-> init.timestamp, rotation |-> init.rotation,
                flip |-> init.flip, aliases |-> aliases,
                view |-> [c \in Corners |-> Shown(init.rotation, init.flip, c)]])
  /\ NewBuffer(0)
  /\ UNCHANGED array

(* VideoFrame(data, init): without a layout, the frame's data pointers are *)
(* set to the caller's bytes.                                              *)
VideoFrameFromData(init)   == FromArray("video", init, TRUE)
VideoFrameFromLayout(init) == FromArray("video", init, FALSE)

(* AudioData(init) copies the samples.                                     *)
AudioDataFromData(init) ==
  /\ init.rotation = 0 /\ ~init.flip
  /\ FromArray("audio", init, FALSE)

(* VideoFrame(frame, init): a clone whose orientation is added to.         *)
VideoFrameFromFrame(h, init) ==
  /\ Open(h) /\ objects[h].kind = "video"
  /\ LET source == objects[h] IN
     /\ NewObject([source EXCEPT
          !.timestamp = IF init.timestamp = Unchanged THEN @ ELSE init.timestamp,
          !.rotation = AddRotations(source.rotation, source.flip, init.rotation),
          !.flip = AddFlips(source.flip, init.flip),
          !.view = [c \in Corners |-> Shown(init.rotation, init.flip, source.view[c])]])
     /\ AddReference(source.buffer)
  /\ UNCHANGED <<held, array>>

(* CreateFromAVFrame, CreateFromFrame: a decoder's output, of which the    *)
(* codec may keep a reference.                                             *)
CreateFromAVFrame(kind, codecs) ==
  /\ NewObject([kind |-> kind, closed |-> FALSE, buffer |-> Len(buffers) + 1,
                timestamp |-> 0, rotation |-> 0, flip |-> FALSE, aliases |-> FALSE,
                view |-> [c \in Corners |-> c]])
  /\ NewBuffer(codecs)
  /\ UNCHANGED array

-----------------------------------------------------------------------------
(* Methods.                                                                *)

(* CloneFrom: all slots are the source's.                                  *)
Clone(h) ==
  /\ Open(h)
  /\ NewObject(objects[h])
  /\ AddReference(objects[h].buffer)
  /\ UNCHANGED <<held, array>>

(* serializeForTransfer(true): the source is released once it is cloned.   *)
Transfer(h) ==
  /\ Open(h)
  /\ Len(objects) < MaxObjects
  /\ objects' = [Append(objects, objects[h]) EXCEPT ![h].closed = TRUE]
  /\ UNCHANGED <<buffers, held, array>>

(* close(), as often as one likes, and the destructor at last.             *)
Close(h) ==
  /\ h \in Existing
  /\ Release(h)
  /\ UNCHANGED <<held, array>>

(* encode() clones the frame for its worker.                               *)
Encode(h) ==
  /\ Open(h)
  /\ held[objects[h].buffer] < MaxHeld
  /\ AddReference(objects[h].buffer)
  /\ held' = [held EXCEPT ![objects[h].buffer] = @ + 1]
  /\ UNCHANGED <<objects, array>>

(* A codec has no more use of a buffer.                                    *)
CodecReleases(b) ==
  /\ held[b] > 0
  /\ held' = [held EXCEPT ![b] = @ - 1]
  /\ buffers' = [buffers EXCEPT ![b] = @ - 1]
  /\ UNCHANGED <<objects, array>>

(* JavaScript goes on to use the bytes it made a frame of.                 *)
ArrayWrite ==
  /\ array < MaxWrites
  /\ array' = array + 1
  /\ UNCHANGED <<objects, buffers, held>>

-----------------------------------------------------------------------------

Construct ==
  \/ \E init \in Inits :
       VideoFrameFromData(init) \/ VideoFrameFromLayout(init) \/ AudioDataFromData(init)
  \/ \E h \in Existing, init \in Inits : VideoFrameFromFrame(h, init)
  \/ \E kind \in Kinds, codecs \in 0 .. MaxHeld : CreateFromAVFrame(kind, codecs)

Next ==
  \/ Construct
  \/ \E h \in Existing : Clone(h) \/ Transfer(h) \/ Close(h) \/ Encode(h)
  \/ \E b \in DOMAIN buffers : CodecReleases(b)
  \/ ArrayWrite

Spec == Init /\ [][Next]_vars

-----------------------------------------------------------------------------
(* Properties.                                                             *)

(* The types of all variables; an object's buffer was allocated.           *)
TypeOK ==
  /\ objects \in Seq(Object) /\ Len(objects) <= MaxObjects
  /\ buffers \in Seq(Nat) /\ held \in Seq(Nat)
  /\ Len(held) = Len(buffers)
  /\ \A h \in Existing : objects[h].buffer \in DOMAIN buffers
  /\ array \in Nat

(* A buffer has a reference for every open object and every codec that use *)
(* it and none besides: it is freed no earlier, and no later, than the last*)
(* of them lets go of it.                                                  *)
Users(b) == {h \in Existing : ~objects[h].closed /\ objects[h].buffer = b}

RefsExact ==
  \A b \in DOMAIN buffers : buffers[b] = Cardinality(Users(b)) + held[b]

(* Rotation and flip of a frame, however it was derived from other frames, *)
(* show its picture as the transformations asked for do, one after another *)
(* (Add Rotations).                                                        *)
OrientationComposes ==
  \A h \in Existing :
    objects[h].view = [c \in Corners |-> Shown(objects[h].rotation, objects[h].flip, c)]

(* copyTo() of an open AudioData, whatever its samples, writes what was    *)
(* asked for if and only if that is inside the audio (CopyTo,              *)
(* ComputeCopyElementCount, and the constructor's layout of the samples).  *)
AudioCopiesAreSlices ==
  \A h \in Existing : Open(h) /\ objects[h].kind = "audio" => CopiesAreSlices

(* copyTo() of an open VideoFrame, whatever its picture, writes within the *)
(* size it checked the destination for, and without a layout all of it     *)
(* (CalculateSizeWithLayout against CopyFrameWithLayout,                   *)
(* CalculateFrameBufferSize against CopyFrameToBuffer).                    *)
VideoCopiesFit == \A h \in Existing : Open(h) /\ objects[h].kind = "video" => LayoutsFit

(* What an open VideoFrame copies out with a layout makes the same picture *)
(* when a frame is constructed with that layout (CopyFrameWithLayout,      *)
(* CreateFrameFromBufferWithLayout).                                       *)
LayoutsRoundTrip ==
  \A h \in Existing : Open(h) /\ objects[h].kind = "video" => PicturesSurvive

(* The timestamp an object may get from a stream survives its conversion,  *)
(* and the order of two of them a wrap (Rescale, PtsLessThan, PtsDiffUs).  *)
TimestampsSurvive == Existing # {} => ConversionsRight

(* Nothing done to one object changes another one: its attributes stay for *)
(* as long as it is open, whatever is derived from it.                     *)
Attributes(object) == [object EXCEPT !.closed = FALSE]

ObjectsIndependent ==
  [][\A h \in Existing : Attributes(objects'[h]) = Attributes(objects[h])]_vars

(* Violated claim.  "The returned frame owns its own buffer (not a         *)
(* reference to source)" (buffer_utils.h:219): the picture of an open      *)
(* frame does not change.                                                  *)
Picture(h) == IF objects[h].aliases THEN <<"array", array>> ELSE <<"own">>

FrameOwnsItsBuffer ==
  [][\A h \in Existing : ~objects[h].closed /\ ~objects'[h].closed
       => Picture(h)' = Picture(h)]_vars
=============================================================================
