------------------------- MODULE ImageDecoderWorker -------------------------
(***************************************************************************)
(* ImageDecoderWorker (image_decoder_worker.h, image_decoder_worker.cpp):  *)
(* the thread that probes the image, decodes its frames one after the      *)
(* other, and posts what it finds to the four thread-safe functions of the *)
(* ImageDecoder.  The message handlers are one step each, but for OnDecode,*)
(* which takes a step per packet it reads.                                 *)
(*                                                                         *)
(* FFmpeg is external.  The image is a file of packets, each a frame of    *)
(* one track; the demuxer reads them in order, and the codec holds back    *)
(* CodecDelay of them before it returns a frame (frame threads do that).   *)
(***************************************************************************)
EXTENDS ImageControlQueue, FiniteSets

CONSTANTS
  File,        \* File[p]: the track the p-th packet of the image belongs to
  FrameCount,  \* FrameCount[t]: nb_frames of track t, as the container says
  Best,        \* the track OnConfigure scores best
  Chunks,      \* chunks the image may come in
  Readable,    \* Readable[n]: packets complete within the first n chunks
  CodecDelay,  \* packets the codec holds back
  Faults,      \* which FFmpeg calls may fail, a subset of FaultKinds
  MaxDecodes,  \* bound on the decode() calls
  MaxIndex     \* bound on the frameIndex they ask for

Tracks     == DOMAIN FrameCount
Packets    == 1 .. Len(File)
Ids        == 1 .. MaxDecodes
Indexes    == 0 .. MaxIndex
FaultKinds == {"open", "switch", "seek", "decode"}

ASSUME ImageAssumption ==
  /\ FrameCount \in Seq(Nat)
  /\ Best \in Tracks
  /\ File \in Seq(Tracks)
  /\ Chunks \in Nat \ {0}
  /\ Readable \in [0 .. Chunks -> 0 .. Len(File)]
  /\ Readable[0] = 0 /\ Readable[Chunks] = Len(File)
ASSUME BoundsAssumption ==
  CodecDelay \in Nat /\ MaxDecodes \in Nat /\ MaxIndex \in Nat
ASSUME ImageFaultsAssumption == Faults \subseteq FaultKinds

VARIABLES
  wpc,         \* where the thread is: a loop point, or the type of the message
  msg,         \* the message being handled, NoMessage between messages
  shouldExit,  \* should_exit_
  streaming,   \* is_streaming_, fixed by the constructor
  data,        \* image_data_: chunks received; a BufferSource holds them all
  io,          \* chunks the IOContext was built over, 0 when there is none
  ctx,         \* codec_ctx_: none, open, or draining after a NULL packet
  configured,  \* configured_
  sel,         \* selected_stream_index_: the track
  current,     \* current_frame_index_
  pos,         \* packets the demuxer has read
  buf,         \* packets in the codec
  drifted,     \* current_frame_index_ may be wrong (see RightFrame)
  results,     \* decode_result_tsfn_: results on their way to the JS thread
  errors,      \* error_tsfn_: promise ids of errors, 0 for the general ones
  tracksReady, \* tracks_ready_tsfn_: the selected tracks reported
  completions  \* completed_tsfn_

ioVars     == <<data, io, configured>>
codecVars  == <<ctx, sel, current, pos, buf, drifted>>
postVars   == <<results, errors, tracksReady, completions>>
workerVars == <<wpc, msg, shouldExit, streaming, ioVars, codecVars>>

NoMessage == [type |-> "none"]

(* Packets complete within n chunks.                                       *)
Visible(n) == IF n > Chunks THEN Len(File) ELSE Readable[n]

(* The empty flag of a configure message: a BufferSource without bytes.    *)
Messages ==
  [type : {"configure"}, empty : BOOLEAN]
    \cup [type : {"reset", "close", "data", "end", "error"}]
    \cup [type : {"decode"}, id : Ids, index : Indexes]
    \cup [type : {"track"}, index : Tracks \cup {0}]

HandlerPoints ==
  {"configure", "decode", "read", "reset", "close", "track", "data", "end", "error"}

WorkerInit ==
  /\ wpc = "top"
  /\ msg = NoMessage
  /\ shouldExit = FALSE
  /\ streaming \in BOOLEAN
  /\ data = 0 /\ io = 0 /\ configured = FALSE
  /\ ctx = "none" /\ sel = Best /\ current = 0
  /\ pos = 0 /\ buf = <<>> /\ drifted = FALSE
  /\ results = <<>> /\ errors = <<>> /\ tracksReady = <<>> /\ completions = 0

Return == wpc' = "top" /\ msg' = NoMessage /\ UNCHANGED shouldExit
Stay(point) == wpc' = point /\ UNCHANGED <<msg, shouldExit>>

OutputError(id) ==
  /\ errors' = Append(errors, id)
  /\ UNCHANGED <<results, tracksReady, completions>>

-----------------------------------------------------------------------------
(* WorkerLoop.                                                             *)

LoopTest ==
  /\ wpc = "top"
  /\ Stay(IF shouldExit THEN "exited" ELSE "wait")
  /\ UNCHANGED <<queueVars, streaming, ioVars, codecVars, postVars>>

Dispatch ==
  /\ wpc = "wait"
  /\ TakeFront
  /\ msg' = Head(queue)
  /\ wpc' = Head(queue).type
  /\ UNCHANGED <<shouldExit, streaming, ioVars, codecVars, postVars>>

Timeout ==
  /\ wpc = "wait"
  /\ TakeNothing
  /\ Stay("top")
  /\ UNCHANGED <<streaming, ioVars, codecVars, postVars>>

-----------------------------------------------------------------------------
(* OnConfigure, OnStreamData, OnStreamEnd, OnStreamError.                  *)

(* TryConfigureFromBuffer over n chunks: there is an image in it and FFmpeg*)
(* opens it, or an error is reported.                                      *)
Opens(n) ==
  /\ Visible(n) > 0
  /\ io' = n /\ configured' = TRUE
  /\ ctx' = "open" /\ sel' = Best /\ current' = 0 /\ pos' = 0 /\ buf' = <<>>
  /\ drifted' = FALSE
  /\ tracksReady' = Append(tracksReady, Best)

FailsToOpen(n) ==
  /\ Visible(n) = 0 \/ "open" \in Faults
  /\ io' = 0 /\ ctx' = "none"
  /\ UNCHANGED <<configured, sel, current, pos, buf, drifted, tracksReady>>

(* A BufferSource is complete when it is opened; a stream is waited for.   *)
OnConfigure ==
  /\ wpc = "configure"
  /\ Return
  /\ IF streaming
     THEN UNCHANGED <<ioVars, codecVars, postVars>>
     ELSE IF msg.empty
     THEN OutputError(0) /\ UNCHANGED <<ioVars, codecVars>>
     ELSE /\ data' = Chunks
          /\ \/ /\ Opens(Chunks)
                /\ completions' = completions + 1
                /\ UNCHANGED <<results, errors>>
             \/ /\ FailsToOpen(Chunks)
                /\ OutputError(0)
  /\ UNCHANGED <<queueVars, streaming>>

(* Each chunk is another attempt, and each failing attempt an error.  Once *)
(* configured, the new data only moves the bytes the IOContext points to.  *)
OnStreamData ==
  /\ wpc = "data"
  /\ Return
  /\ data' = data + 1
  /\ IF configured
     THEN UNCHANGED <<io, configured, codecVars, postVars>>
     ELSE \/ Opens(data + 1) /\ UNCHANGED <<results, errors, completions>>
          \/ FailsToOpen(data + 1) /\ OutputError(0)
  /\ UNCHANGED <<queueVars, streaming>>

(* Mutant: the end of an image that was never opened is not reported.      *)
OnStreamEndSilently ==
  /\ wpc = "end"
  /\ Return
  /\ IF configured
     THEN completions' = completions + 1 /\ UNCHANGED <<results, errors, tracksReady>>
     ELSE UNCHANGED postVars
  /\ UNCHANGED <<queueVars, streaming, ioVars, codecVars>>

(* The last attempt; that it failed is reported a second time.  Without    *)
(* data there is no attempt.                                               *)
OnStreamEnd ==
  /\ wpc = "end"
  /\ Return
  /\ \/ /\ configured
        /\ completions' = completions + 1
        /\ UNCHANGED <<results, errors, tracksReady, ioVars, codecVars>>
     \/ /\ ~configured /\ data = 0
        /\ OutputError(0)
        /\ UNCHANGED <<ioVars, codecVars>>
     \/ /\ ~configured /\ data > 0
        /\ Opens(data)
        /\ completions' = completions + 1
        /\ UNCHANGED <<results, errors, data>>
     \/ /\ ~configured /\ data > 0
        /\ FailsToOpen(data)
        /\ errors' = errors \o <<0, 0>>
        /\ UNCHANGED <<results, completions, data>>
  /\ UNCHANGED <<queueVars, streaming>>

(* The decoder is not closed, only told.                                   *)
OnStreamError ==
  /\ wpc = "error"
  /\ Return
  /\ OutputError(0)
  /\ UNCHANGED <<queueVars, streaming, ioVars, codecVars>>

-----------------------------------------------------------------------------
(* OnReset, OnClose, OnUpdateTrack.                                        *)

(* avcodec_flush_buffers and av_seek_frame, whose failure nobody sees.     *)
Rewind ==
  /\ ctx' = IF ctx = "none" THEN "none" ELSE "open"
  /\ buf' = <<>>
  /\ current' = 0
  /\ \/ pos' = 0 /\ drifted' = FALSE
     \/ "seek" \in Faults /\ drifted' = TRUE /\ UNCHANGED pos
  /\ UNCHANGED sel

OnReset ==
  /\ wpc = "reset"
  /\ Return
  /\ Rewind
  /\ UNCHANGED <<queueVars, streaming, ioVars, postVars>>

(* The close message also ends the thread.                                 *)
OnClose ==
  /\ wpc = "close"
  /\ wpc' = "top" /\ msg' = NoMessage /\ shouldExit' = TRUE
  /\ ctx' = "none" /\ buf' = <<>> /\ io' = 0 /\ data' = 0
  /\ UNCHANGED <<queueVars, streaming, configured, sel, current, pos, drifted, postVars>>

(* Deselecting is ignored, and so are the selected track and any track of  *)
(* an image that is not open.  Another track gets a codec of its own; the  *)
(* demuxer stays where it is.                                              *)
OnUpdateTrack ==
  /\ wpc = "track"
  /\ Return
  /\ IF msg.index \in {0, sel} \/ io = 0
     THEN UNCHANGED <<codecVars, postVars>>
     ELSE /\ sel' = msg.index
          /\ buf' = <<>>
          /\ drifted' = TRUE
          /\ \/ ctx' = "open" /\ current' = 0 /\ UNCHANGED postVars
             \/ /\ "switch" \in Faults
                /\ ctx' = "none"
                /\ OutputError(0)
                /\ UNCHANGED current
          /\ UNCHANGED pos
  /\ UNCHANGED <<queueVars, streaming, ioVars>>

-----------------------------------------------------------------------------
(* OnDecode.                                                               *)

(* Nothing to decode with, or no such frame.                               *)
OnDecodeRefuses ==
  /\ wpc = "decode"
  /\ ctx = "none" \/ msg.index >= FrameCount[sel]
  /\ OutputError(msg.id)
  /\ Return
  /\ UNCHANGED <<queueVars, streaming, ioVars, codecVars>>

(* Mutant: current_frame_index_ taken for the frame decoded last.          *)
OnDecodeSeeksLate ==
  /\ wpc = "decode"
  /\ ctx # "none" /\ msg.index < FrameCount[sel]
  /\ IF msg.index + 1 < current
     THEN Rewind
     ELSE UNCHANGED codecVars
  /\ Stay("read")
  /\ UNCHANGED <<queueVars, streaming, ioVars, postVars>>

(* SeekToFrame: frame 0 and the frames behind start from the beginning.    *)
OnDecodeSeeks ==
  /\ wpc = "decode"
  /\ ctx # "none" /\ msg.index < FrameCount[sel]
  /\ IF msg.index < current
     THEN Rewind
     ELSE UNCHANGED codecVars
  /\ Stay("read")
  /\ UNCHANGED <<queueVars, streaming, ioVars, postVars>>

(* DecodeNextFrame returned a frame: one that SeekToFrame passes over, or  *)
(* the one that was asked for.  The result is sure unless the position may *)
(* have been wrong.                                                        *)
UseFrame(frame, sure) ==
  IF current < msg.index
  THEN /\ current' = current + 1
       /\ Stay("read")
       /\ UNCHANGED postVars
  ELSE /\ current' = msg.index + 1
       /\ results' = Append(results, [id |-> msg.id, index |-> msg.index,
                                      frame |-> frame, sure |-> sure])
       /\ Return
       /\ UNCHANGED <<errors, tracksReady, completions>>

(* Image data that grew under the IOContext may have moved: what is read   *)
(* then is undefined.                                                      *)
Stale == data > io

(* What the codec holds once it was sent the next packet.                  *)
Sent == IF File[pos + 1] = sel THEN Append(buf, pos + 1) ELSE buf

MayRead == wpc = "read" /\ ~shouldExit /\ ctx # "none"

(* A packet of another track, or one the codec needs more input after.     *)
OnDecodeReads ==
  /\ MayRead /\ pos < Visible(io)
  /\ Len(Sent) <= CodecDelay
  /\ pos' = pos + 1
  /\ buf' = Sent
  /\ UNCHANGED <<queueVars, wpc, msg, shouldExit, streaming, ioVars, ctx, sel, current, drifted,
                 postVars>>

(* A packet the codec returns a frame after.                               *)
OnDecodeReceives ==
  /\ MayRead /\ pos < Visible(io)
  /\ Len(Sent) > CodecDelay
  /\ pos' = pos + 1
  /\ buf' = Tail(Sent)
  /\ UseFrame(Head(Sent), ~drifted)
  /\ UNCHANGED <<queueVars, streaming, ioVars, ctx, sel, drifted>>

(* At the end of the data the codec is drained.                            *)
OnDecodeDrains ==
  /\ MayRead /\ pos >= Visible(io)
  /\ buf # <<>>
  /\ ctx' = "draining"
  /\ buf' = Tail(buf)
  /\ UseFrame(Head(buf), ~drifted)
  /\ UNCHANGED <<queueVars, streaming, ioVars, sel, pos, drifted>>

(* Mutant: nothing is said about a frame that could not be decoded.        *)
OnDecodeFailsSilently ==
  /\ wpc = "read"
  /\ \/ shouldExit \/ "decode" \in Faults
     \/ MayRead /\ pos >= Visible(io) /\ buf = <<>>
  /\ Return
  /\ UNCHANGED <<queueVars, streaming, ioVars, codecVars, postVars>>

(* A read, send or receive failed before the end of the data.  Nothing was *)
(* read; or a packet was lost, the one that was read or, when it came from *)
(* the codec, the next one to come out.  current_frame_index_ is as before:*)
(* it is wrong from here on if the packet was of the track.                *)
ReadFails ==
  /\ MayRead /\ pos < Visible(io)
  /\ "decode" \in Faults
  /\ \/ UNCHANGED <<pos, buf, drifted>>
     \/ /\ pos' = pos + 1
        /\ drifted' = IF File[pos + 1] = sel THEN TRUE ELSE drifted
        /\ UNCHANGED buf
     \/ /\ File[pos + 1] = sel
        /\ pos' = pos + 1
        /\ buf' = Tail(Sent)
        /\ drifted' = TRUE
  /\ UNCHANGED <<ctx, sel, current>>

(* A call that drains the codec failed: the NULL packet was not accepted,  *)
(* or a frame the codec held back is lost, and nobody counts it.           *)
DrainFails ==
  /\ MayRead /\ pos >= Visible(io)
  /\ "decode" \in Faults
  /\ \/ UNCHANGED <<ctx, buf, drifted>>
     \/ /\ buf # <<>>
        /\ ctx' = "draining"
        /\ buf' = Tail(buf)
        /\ drifted' = TRUE
  /\ UNCHANGED <<sel, current, pos>>

(* The codec is empty.                                                     *)
NoMoreFrames ==
  /\ MayRead /\ pos >= Visible(io)
  /\ buf = <<>>
  /\ ctx' = "draining"
  /\ UNCHANGED <<sel, current, pos, buf, drifted>>

(* DecodeNextFrame returned null: the worker must exit, the image has no   *)
(* more frames, or FFmpeg failed.                                          *)
OnDecodeFails ==
  /\ wpc = "read"
  /\ \/ shouldExit /\ UNCHANGED codecVars
     \/ NoMoreFrames
     \/ ReadFails
     \/ DrainFails
  /\ OutputError(msg.id)
  /\ Return
  /\ UNCHANGED <<queueVars, streaming, ioVars>>

(* The read of data that moved returns anything, noted as packet 0.        *)
OnDecodeReadsStale ==
  /\ MayRead /\ Stale
  /\ \/ UseFrame(0, FALSE) /\ drifted' = TRUE
     \/ OutputError(msg.id) /\ Return /\ drifted' = TRUE /\ UNCHANGED current
  /\ UNCHANGED <<queueVars, streaming, ioVars, ctx, sel, pos, buf>>

OnDecode ==
  \/ OnDecodeRefuses \/ OnDecodeSeeks
  \/ OnDecodeReads \/ OnDecodeReceives \/ OnDecodeDrains
  \/ OnDecodeFails \/ OnDecodeReadsStale

Handlers ==
  \/ OnConfigure \/ OnStreamData \/ OnStreamEnd \/ OnStreamError
  \/ OnReset \/ OnClose \/ OnUpdateTrack \/ OnDecode

WorkerStep == LoopTest \/ Dispatch \/ Timeout \/ Handlers
=============================================================================
