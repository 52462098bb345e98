----------------------------- MODULE AudioCopy -----------------------------
(***************************************************************************)
(* The samples of an AudioData: how the constructor lays them out in the   *)
(* planes of an AVFrame, and which of them allocationSize() counts and     *)
(* copyTo() writes (audio_data.cpp).                                       *)
(*                                                                         *)
(* Audio is a record: planar or interleaved, how many channels and frames. *)
(* A sample is the pair of its channel and frame, both from 0; its bytes   *)
(* are not modelled.  Options are a record too: the layout of the format   *)
(* asked for, whether that is the audio's own format, planeIndex,          *)
(* frameOffset, whether frameCount is left out, and frameCount.  The three *)
(* numbers are what Int32Value() made of JavaScript's, so they may be      *)
(* negative; that a sum or a product of them overflows is left out.        *)
(***************************************************************************)
EXTENDS Integers

CONSTANTS
  Audios,       \* the audio there is
  CopyOptions   \* the options copyTo() is given

(* The constructor refuses audio without channels or frames.  Planar audio *)
(* with more channels than an AVFrame has plane pointers is left out.      *)
MaxPlanarChannels == 8   \* AV_NUM_DATA_POINTERS

Audio ==
  {audio \in [planar : BOOLEAN, channels : Nat \ {0}, frames : Nat \ {0}] :
     audio.planar => audio.channels <= MaxPlanarChannels}

(* The format asked for can only be the audio's own with the same layout.  *)
AudioDataCopyToOptions ==
  [planar : BOOLEAN, same : BOOLEAN, plane : Int, offset : Int, rest : BOOLEAN, count : Int]

ASSUME CopiesAssumption ==
  Audios \subseteq Audio /\ CopyOptions \subseteq AudioDataCopyToOptions

(* The samples as the caller of the constructor gives them, and as a       *)
(* destination receives them: plane after plane or interleaved.            *)
SampleAt(audio, k) ==
  IF audio.planar
  THEN <<k \div audio.frames, k % audio.frames>>
  ELSE <<k % audio.channels, k \div audio.channels>>

(* The constructor's memcpy into frame_->data: data[p][i], both from 0.    *)
Planes(audio) ==
  IF audio.planar
  THEN [p \in 0 .. audio.channels - 1 |->
         [i \in 0 .. audio.frames - 1 |-> SampleAt(audio, p * audio.frames + i)]]
  ELSE [p \in {0} |->
         [i \in 0 .. audio.frames * audio.channels - 1 |-> SampleAt(audio, i)]]

-----------------------------------------------------------------------------
(* ComputeCopyElementCount.                                                *)

CopyFrameCount(audio, options) ==
  IF options.rest THEN audio.frames - options.offset ELSE options.count

(* Only the upper bounds are checked.                                      *)
CopyRefused(audio, options) ==
  \/ ~options.planar /\ options.plane > 0
  \/ options.planar /\ options.plane >= audio.channels
  \/ options.offset >= audio.frames
  \/ CopyFrameCount(audio, options) > audio.frames - options.offset

ElementCount(audio, options) ==
  CopyFrameCount(audio, options) * (IF options.planar THEN 1 ELSE audio.channels)

-----------------------------------------------------------------------------
(* copyTo().                                                               *)

(* NotSupportedError: there is no conversion buffer of no frames.          *)
CopyFails(audio, options) ==
  ~options.same /\ options.planar /\ CopyFrameCount(audio, options) = 0

(* Mutant: the offset into interleaved samples is not per channel.         *)
FirstSampleUnscaled(audio, options) == options.offset

(* The pointers into frame_->data start at the frame asked for.            *)
FirstSample(audio, options) ==
  IF audio.planar THEN options.offset ELSE options.offset * audio.channels

(* A read outside the plane, or of a plane that is not there, gives no     *)
(* sample of the audio.                                                    *)
NoSample == <<-1, -1>>

Sample(audio, plane, i) ==
  IF i \in DOMAIN Planes(audio)[plane] THEN Planes(audio)[plane][i] ELSE NoSample

(* What the copy and the converter read as a frame of a channel.           *)
Input(audio, options, channel, frame) ==
  IF channel < 0
  THEN NoSample
  ELSE IF audio.planar
  THEN Sample(audio, channel, FirstSample(audio, options) + frame)
  ELSE Sample(audio, 0, FirstSample(audio, options) + frame * audio.channels + channel)

(* What is written at the destination, from 0: one plane, or all channels, *)
(* as one run when they are interleaved already.  With a negative element  *)
(* count copyTo() returns, and throws nothing.                             *)
Copied(audio, options) ==
  LET n == CopyFrameCount(audio, options) IN
  IF options.planar
  THEN [k \in 0 .. n - 1 |-> Input(audio, options, options.plane, k)]
  ELSE IF options.same
  THEN [k \in 0 .. n * audio.channels - 1 |->
         Sample(audio, 0, FirstSample(audio, options) + k)]
  ELSE [k \in 0 .. n * audio.channels - 1 |->
         Input(audio, options, k % audio.channels, k \div audio.channels)]

-----------------------------------------------------------------------------
(* The frames that were asked for, of one channel or of all channels       *)
(* interleaved, as many samples as allocationSize() counts.                *)
Slice(audio, options) ==
  [k \in 0 .. ElementCount(audio, options) - 1 |->
    IF options.planar
    THEN <<options.plane, options.offset + k>>
    ELSE <<k % audio.channels, options.offset + k \div audio.channels>>]

AsksInside(options) == options.offset >= 0 /\ (options.planar => options.plane >= 0)

(* copyTo() writes what was asked for if that is inside the audio.  If it  *)
(* accepts a negative offset or plane, something it writes, unless it      *)
(* writes nothing, is no sample of the audio.                              *)
CopyIsSlice(audio, options) ==
  ~CopyRefused(audio, options) /\ ~CopyFails(audio, options) =>
    IF AsksInside(options) \/ CopyFrameCount(audio, options) <= 0
    THEN Copied(audio, options) = Slice(audio, options)
    ELSE \E k \in DOMAIN Copied(audio, options) : Copied(audio, options)[k] = NoSample

CopiesAreSlices ==
  \A audio \in Audios, options \in CopyOptions :
    (options.same => options.planar = audio.planar) => CopyIsSlice(audio, options)
=============================================================================
