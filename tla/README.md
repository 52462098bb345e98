# node-webcodecs: TLA+ models and proofs

node-webcodecs implements the W3C WebCodecs API for Node.js as a native C++
addon over FFmpeg. This directory holds TLA+ modules that model it, TLC
configurations that check them on small instances, and proofs checked by
TLAPS. File names of the repository are relative to its `src/` directory of C++
sources unless they begin with `docs/`.

## 1. The system

### 1.1 Components

| Component | Source | State it keeps | Operations |
|---|---|---|---|
| `VideoDecoder`, `AudioDecoder`, `VideoEncoder`, `AudioEncoder` | `video_decoder.*`, `audio_decoder.*`, `video_encoder.*`, `audio_encoder.*` | codec state, queue-size attribute, dequeue flag, key-chunk flag or orientation, pending flush promises, active config, four TSFNs, the JS callbacks | `configure`, `decode`/`encode`, `flush`, `reset`, `close`, `isConfigSupported`; TSFN handlers `OnOutput…`, `OnError`, `OnFlushComplete`, `OnDequeue`; `Release` (close and destructor) |
| `CodecWorker` | `shared/codec_worker.h` | thread, `running_`, `should_exit_`, FFmpeg context (in the subclass) | `Start`, `Stop`, `WorkerLoop` and the handlers `OnConfigure`, `OnDecode`/`OnEncode`, `OnFlush`, `OnReset`, `OnClose` |
| `ControlMessageQueue` | `shared/control_message_queue.h` | FIFO, `closed_`, `blocked_` | `Enqueue`, `DequeueFor`, `Clear`/`ClearFrames`, `Shutdown`, `SetBlocked` |
| `ImageDecoder` with its worker, queue, track list and tracks | `image_decoder*.cpp`, `image_track*.cpp` | queue, worker, bytes received, demuxer and codec position, decode promises, `ready`, `completed`, tracks | constructor, `decode`, `reset`, `close`, stream reading, track selection, five worker tasks |
| `VideoFrame`, `AudioData` | `video_frame.*`, `audio_data.*` | an AVFrame over reference-counted buffers, orientation, timestamp | five ways to construct, `clone`, transfer, `close`, `copyTo`, `allocationSize`, getters |
| buffer and format helpers | `shared/buffer_utils.h`, `shared/format_converter.h` | none | sizes, layouts, copies into and out of frames |
| `FramePool`, `PacketPool` | `shared/frame_pool.h`, `packet_pool.h` | pools by size, statistics | `Acquire`, the deleter, `Clear`, `Trim`, `SetMaxPoolSize`, `ResetStats` |
| `PromiseTracker` | `shared/promise_utils.h` | promises by id | `CreatePromise`, `Resolve`, `Reject`, `RejectAll` |
| timebase | `shared/timebase.h` | none | conversions, comparison, difference |
| `SafeThreadSafeFunction` | `shared/safe_tsfn.h` | `initialized_`, `released_`, `unrefed_` | `Init`, `Call`, `Release`, `Unref` |
| `AtomicCodecState` | `ffmpeg_raii.h` | one atomic | `transition` (compare-and-swap), `Close`, queries |
| codec registry, encoded chunks, `VideoColorSpace`, N-API guards, entry point | `shared/codec_registry.h` … | none, or immutable | pure |
| TypeScript wrappers | `lib/*.ts` | a handle to the native object | forward every call |

### 1.2 How they interact

**The codecs.** A codec object lives on the JS thread and owns a queue and a
worker. Methods check `state_`, change the codec's own bookkeeping and put a
message in the queue; the worker takes messages one at a time, drives FFmpeg and
posts what comes out through four thread-safe functions (TSFNs): outputs,
errors, flush completions and dequeue events. The event loop delivers each
TSFN's calls in order, but nothing orders the calls of different TSFNs. `close()`
runs on the JS thread and joins the worker, so the JS thread is blocked while
the worker finishes its message. Shared by both threads: the queue (mutex), the
atomics `state_`, `decode_queue_size_`, `dequeue_event_scheduled_`,
`codec_saturated_`, `should_exit_`, and, with no synchronisation at all,
`active_config_`.

**`ImageDecoder`** has the same plan and its own code for it: a queue of six kinds
of message, a worker that opens a demuxer over the bytes it was sent and counts
frames as they come out, and TSFNs for results, errors, the track list and
completeness. Data of a `ReadableStream` is read by a chain of JS promises that
runs beside the application's calls.

**Media objects** share buffers by reference count with their clones and with the
codecs that were given them. The **pools** may be used from any thread; no class of
the addon takes frames from them yet (`VideoDecoder` has a handle it does not
use), nor includes `timebase.h` or `PromiseTracker`: these three are covered by
the repository's tests only.

### 1.3 What is hard about it

- the worker is always behind the JS thread's bookkeeping, and `reset()` rewrites
  that bookkeeping under it (queue size, promises, state, the queue itself);
- results of old work keep arriving after `reset()`, `flush()`, an error or
  `close()`; an encoder's packet may be delivered under another configuration;
- JavaScript can call any method from within a callback, before the native
  handler that called it is done;
- `close()` blocks on a thread that may be in the middle of a long drain;
- every FFmpeg call may fail, and each failure path has to leave the counters
  and the promises right;
- an FFmpeg codec is itself a state machine: full, draining, ended; and it holds
  frames back, so what comes out is not what went in last;
- an image may be incomplete when it is opened, and grow under the demuxer;
- pool statistics are read and reset without the lock that pools are changed
  under.

The full list, line by line, is `hazards` in `PROJECT.json`.

### 1.4 What makes each component correct

- **Codec**: queue size counts pending requests; one dequeue event at a time
  and none lost; every flush promise settled once, after its work has left the
  codec; outputs in order, none lost, none after close; errors close; a key chunk
  first after configure, flush and reset; close leaves nothing behind. For an
  encoder: JavaScript knows how to decode what it gets.
- **Worker and queue**: FIFO, nothing taken twice or dropped except by reset;
  `Stop` terminates and leaves no thread.
- **ImageDecoder**: each decode promise settled once and with the frame asked for;
  a track selection reaches the worker; `ready` and `completed` settle.
- **Media objects**: a buffer lives exactly as long as it has users; derived objects
  are independent; copies are exact and stay within the size they announce.
- **Pools**: a pooled frame is nobody else's; statistics agree with the pools.
- **Timebase**: a round trip of a timestamp changes nothing; order survives a wrap.

## 2. The modules

| Module | Extends | Models |
|---|---|---|
| `ControlMessageQueue` | | `shared/control_message_queue.h`: queue variables and one operator per method |
| `CodecWorker` | `ControlMessageQueue` | `shared/codec_worker.h`: `Start`, `Stop` in two halves, `WorkerLoop` |
| `CodecCore` | `CodecWorker` | the state the four codec classes share, and operations smaller than a step: queue size and dequeue flag, TSFNs, flush promises |
| `Codec` | `CodecCore` | the frame every codec class is built on: the abstract codec `CodecSpec`, and the properties stated over the shared state |
| `CodecHandlers` | `Codec` | the FFmpeg codec and what the workers' handlers have in common |
| `Decoder` | `CodecHandlers` | what the decoders share: key-chunk requirement, configuration |
| `Encoder` | `CodecHandlers` | what the encoders share: required members, decoder config with the first output |
| `VideoDecoder`, `AudioDecoder` | `Decoder` | the classes: one action per method and handler, `Spec` (`FairSpec` for video) |
| `VideoEncoder`, `AudioEncoder` | `Encoder` | the same |
| `PromiseTracker` | | `shared/promise_utils.h`, and thereby the specification of every promise map |
| `ImageControlQueue` | | the queue of `ImageDecoder` |
| `ImageDecoderWorker` | `ImageControlQueue` | `image_decoder_worker.cpp`: loop, eight handlers, demuxer and codec |
| `ImageDecoder` | `ImageDecoderWorker` | `image_decoder.cpp`, `image_track_list.cpp`, `image_track.cpp`: methods, stream, TSFN handlers, destructor |
| `AudioCopy` | | samples of an `AudioData`: layout, `allocationSize`, `copyTo`; the audio and the options there are, are constants, the options any integers |
| `PixelLayout` | | planes of a picture: sizes, and copies into and out of layouts, of the constant formats, pictures and layouts |
| `Timebase` | | `shared/timebase.h`: rescaling and wrapped comparison |
| `MediaObjects` | the three above | `VideoFrame` and `AudioData` over reference-counted buffers |
| `ResourcePool` | | `frame_pool.h`, `packet_pool.h`: pools under a mutex, statistics beside it |
| `CodecProofs` | `CodecHandlers` | theorems about `CodecSpec`; every handler step is a `HandlerStep` of the abstract codec; the order of requests, outputs and flushes, the queue size and the conservation of work (`PipelineSpec`) |
| `VideoDecoderProofs`, `AudioDecoderProofs`, `VideoEncoderProofs`, `AudioEncoderProofs` | the class, `CodecProofs` | type correctness, `Spec => CodecSpec`, `Spec => PipelineSpec`, and what follows; the key-chunk requirement of the video decoder, the decoder configs of the encoders |
| `ImageDecoderProofs`, `MediaObjectsProofs`, `ResourcePoolProofs` | the component | its theorems |
| `MC…` | the component | the values of the constants for TLC |

**The abstract codec.** The source has the same frame four times: the methods as
far as they touch state, queue, counters and promises; the TSFN handlers;
`Release`; `WorkerLoop`. `Codec` has it once, over the shared variables
(`coreVars`). It knows nothing of configs, key chunks or FFmpeg: of a message
handler it only says, in `HandlerStep`, that a step may post an output or an
error, count one request and signal a dequeue, that it does not touch what the
JS thread owns, and that a handler returns to the loop with a flush completion
if and only if its message was a flush. A class conjoins the actions of `Codec`
with what it adds and puts its own handlers in the place of `HandlerStep`; the
variables keep their names, so that the refinement mapping is the identity and
`CodecSpec` itself is a `PROPERTY` of `decoder_faults` and the conclusion of the
four refinement theorems.

**The abstract promises.** `PromiseTracker` is the class of that name. Nothing uses
it, but all five components that hand out promises keep the same map by hand.
`Codec` and `ImageDecoder` instantiate it,

    Promises == INSTANCE PromiseTracker WITH
      FirstId <- 0, MaxPromises <- MaxFlushes,
      nextId <- nextFlush, pending <- pending, outcome <- settled

and `FlushPromises`, `DecodePromises` say that the flush promises and the decode
promises implement it: ids are given out in order, only a pending promise is
settled, and settling removes it from the map.

**The four codec classes** differ where the source does. `close()` of the audio
codecs rejects the pending flush promises before `Release`, that of the video codecs
does not. Every exit of the audio `OnDecode` and `OnEncode` counts the request
(`signal_dequeue_on_exit`), some exits of the video ones do not. Only the video
codecs block the queue while they configure and track saturation. The video
encoder's worker copies into `OutputData` what it takes to describe a packet; the
audio encoder only sets a flag, and `OnOutputChunk` looks at `active_config_` on
delivery. The lines that `map` gives for shared definitions are those of one
class; the code in the others is the same up to names.

Definitions whose comment begins with `Mutant:` are plausible mistakes in the
code, kept beside the definition they vary. They are part of no specification;
each shows that a property would notice the mistake.

### 2.1 State and code

| Variable | Code |
|---|---|
| `queue`, `qclosed`, `blocked` | `ControlMessageQueue::queue_`, `closed_`, `blocked_` |
| `running`, `shouldExit` | `CodecWorker::running_`, `should_exit_` |
| `wpc`, `msg` | where the worker thread is, and the message it handles |
| `state` | `AtomicCodecState` |
| `outQ`, `errs`, `flushQ`, `deqs` | calls posted to the four TSFNs and not delivered; errors and dequeue events carry nothing that matters, so they are counted |
| `size`, `deqFlag` | `decode_queue_size_` (modulo `SizeModulus`, for 2^32), `dequeue_event_scheduled_` |
| `pending`, `nextFlush` | keys of `pending_flushes_`, `next_flush_id_` |
| `closing`, `jsIn` | how far `Release` has come; the callback the JS thread is in |
| `ctx`, `buf` | `codec_ctx_` with FFmpeg's draining mode; inputs inside the codec |
| `keyReq`, `saturated`, `active` | `key_chunk_required_`, `codec_saturated_`, `active_config_` |
| `received`, `ctxCfg` | the local of `OnDecode`/`OnEncode`; what the context was set up with |
| `firstOut`, `orientation`, `copies`, `meta`, `included` | `first_output_after_configure_`, `active_orientation_`, the worker's copies of the config, the decoder config in an `OutputData` |
| `data`, `io`, `current`, `pos`, `sel` | `image_data_`, what the IOContext was built over, `current_frame_index_`, the demuxer's position, `selected_stream_index_` |
| `established`, `ready`, `complete`, `completed`, `listed`, `selected` | the members of `ImageDecoder` and of its track list of these names |
| `objects`, `buffers`, `held` | open and closed JS objects, AVBufferRef counts, references codecs have |
| `pools`, `place`, `holder`, `stats` | `pools_`, where each frame is, who holds `mutex_`, `stats_` |

`inputs`, `configures`, `resets`, `chunks`, `selects` bound the runs. `settled`,
`flushMark`, `resetMark`, `lastOut`, `encCfg`, `told`, `drifted`, `lost`, and the
field `view` of an object, record history for the properties. No guard of an
action that stands for code reads a history variable.

### 2.2 What is one step

- **A codec's method is one step**, except `close()`. Each touches the queue
  once (`reset()` twice, and what the worker can do between `Clear` and
  `Enqueue` - finish the message it has, find the queue empty - commutes with
  the second half), so worker steps between its other statements can be moved
  before or after it. `decode()` raises the queue size before it enqueues, so the
  worker never sees the message without the count.
- **`Release` is three steps**: the state, `Stop`'s signal, and everything after
  the join. The worker runs between them; JavaScript does not.
- **`OnError` and `OnDequeue` are two steps each**, around the JavaScript
  callback, because they write shared state after it returns: in between, any
  method may be called, also `close()`. `OnOutputFrame` and `OnFlushComplete`
  write nothing after the callback, so what a callback does there is the same
  as doing it next.
- **A worker handler is one step per FFmpeg call and per access to what it
  shares with the JS thread.** The decrement of the queue size and the dequeue
  callback are two steps. The callback's check of `state_`, its compare-and-swap
  and the post are one: a `close()` between the check and the post leaves one
  more delivery that its handler drops. `active_config_` is read in two steps
  (the codec string, then the rest): it is read without a lock while
  `configure()` may write it, and two reads are enough to tell a torn
  configuration from a whole one.
- **`reset()` and `close()` of `ImageDecoder`** take the queue apart under its lock and
  then reject the dropped decodes one after another, each in a step of its own,
  and put the messages they keep back, while the worker goes on. `OnDecode` is
  one step per packet it reads.
- **Methods of the media objects are one step**: everything but the codecs' releases
  happens on the JS thread.
- **The pools** take a step per update of an atomic, with or without the mutex as the
  code has it.

### 2.3 What is outside

FFmpeg is modelled from how the workers use it: a FIFO that holds back at most
`CodecDelay` frames, refuses input when full (`EAGAIN`) or draining (`EOF`), and
can fail at open, allocation, clone, send and receive as far as `Faults` allows.
Decode order and presentation order are taken to be the same. An encoder may or
may not have `AV_CODEC_CAP_ENCODER_FLUSH`, without which `avcodec_flush_buffers`
does nothing. A demuxer reads the packets of a file in order and sees as many as
the bytes it has contain.

Node.js is modelled by three rules: methods are called when the JS thread is not
inside native code; a TSFN delivery starts when no JavaScript runs; a posted call is
delivered unless the process exits. TSFN queues are unbounded
(`video_decoder.cpp:129`), and every TSFN is unref'd when it is created, which
turns `SafeThreadSafeFunction::Release` into a no-op; so `Call` does not fail.
`OnClose` and `CloseMessage` of the codecs do not occur: nothing queues that message.

## 3. The runs

| Run | Expect | Question |
|---|---|---|
| `decoder_safety` | pass | 3 chunks, 2 flushes, 2 configures, 1 reset, no faults: order, conservation, key chunks, dequeue events, close |
| `decoder_faults` | pass | counting, flushes, and that every step is one of `CodecSpec`, when the thread may not start, every FFmpeg call may fail, chunks may be malformed and codec strings unknown |
| `decoder_liveness` | pass | the four liveness properties under `FairSpec`, receiving may fail |
| `audio_faults` | pass | exact counting on all paths, order, `close()` settles every flush, under every fault |
| `video_encoder` | pass | counting, order, metadata and promises with two different descriptions, under every fault but a failing clone |
| `audio_encoder` | pass | the same for the audio encoder |
| `image_decoder` | pass | two tracks, three packets, whole or in two chunks; 2 decodes, a reset, a selection, close and destruction at any time, every fault |
| `image_liveness` | pass | its promises settle, under `FairSpec` |
| `media_objects` | pass | four objects in any order of construction, cloning, transfer, encoding, closing, collection; copies of audio, pictures and timestamps of small sizes |
| `resource_pools` | pass | three frames of two sizes, any threads |
| `decode_after_flush`, `frame_aliases_buffer` | violation | one statement of a document or comment each, which the code does not keep (section 5) |

**Bounds.** Two chunks are needed to have one in the worker and one in the
queue; the third, with `CodecDelay = 1`, lets the codec hold one back while
another comes out. Two flushes let a completion meet an older promise; two
configures replace an open context and follow a reset; one reset is enough for
every way of crossing a chunk, a flush, a configure and a callback. Close is not
bounded. `SizeModulus` only has to exceed the number of chunks: the wrap below
zero needs no more. For an image, two tracks of two and one frames, interleaved,
let a decode skip a packet of another track, go forward, go back and go past the
end; the first of its two chunks holds one frame in `image_decoder`, so that the decoder
may open it and read on through the pointer when the second arrives, and no frame in
`image_liveness`, so that the first attempt to open it fails. Three frames of two sizes let a pool reach its limit of 0, 1 or 2
while another frame is in flight and one has just been dropped. Four media objects
are a frame, a clone of a clone and an unrelated one. Formats have 8- or 16-bit
components, with and without subsampling, pictures up to 3 by 3, copies of audio every small
plane, offset and count from below zero to above the limit, layouts with
offsets, padding and reversed planes; timebases have denominators that divide a
second and that do not. There is no symmetry on chunks (they are numbered because
their order matters); the descriptions of `video_encoder` are symmetric.

**Deadlock.** For the codecs `CloseTwice` is always possible after a close, and
before it some method is; TLC's deadlock check stays on, as it does for the pools.
It is off where the system may really stop: an `ImageDecoder` that was destroyed,
and media objects that are all closed.

**Fairness.** `FairSpec` assumes that the operating system runs the worker
(its `DequeueFor` has a timeout of 100 ms and the condition variable is
notified), that the JS thread goes on with a method or a `Release` it is in, that
JavaScript callbacks return, and that the event loop serves every TSFN that has
calls queued. JavaScript itself need not call anything, a stream need not give
anything, and nothing need be collected.

**The failing clone.** An encoder that fails to clone a packet for its output drops
it without a report. Under that fault `KnowsDecoderConfigWithoutFlush` does not hold
(`video_encoder.cpp:1046` lowers the flag first), so the encoders' runs have every
fault but this one; the decoders' have all.

### 3.1 Properties

| Property | Says |
|---|---|
| `ReleaseIsFinal` | after `close()`: no thread, no pending promise, size zero; the queue of an open codec is never shut down |
| `DequeueCoalesced` | at most one dequeue event under way; the flag of an open codec says exactly whether there is one |
| `CodecSpec` | every step is a step of the abstract codec |
| `FlushPromises`, `DecodePromises` | the promises are those of a `PromiseTracker` |
| `QueueSizeExact` | unless an error is on its way, the size is the number of requests queued or in hand, less at most one for each `reset()` |
| `QueueSizeAlwaysExact` | (audio) the same whatever fails |
| `CloseSettlesFlushes` | (audio) after `close()` every flush promise is settled |
| `FlushTracked` | every pending promise has its message queued, in hand, or completed |
| `FlushDrains` | a successful completion is posted only when nothing from before the flush is left in queue, worker or codec |
| `ResetDiscards` | once a decoder's worker has handled a reset, nothing from before it is left |
| `OutputOrder` | everything from the last output to the last queued request is in the order of the calls |
| `PipelineInOrder` | `FlushDrains` and `OutputOrder`, for the classes whose runs check them together |
| `WorkConserved` | no chunk disappears between `decode()` and the output; the codec never refuses one for good |
| `KeyChunkFirst` | the first chunk the worker gets after a configure, flush or reset is a key chunk |
| `KnowsDecoderConfigWithoutFlush` | (video encoder) the decoder config JavaScript was told last is that of the packet it got last, as long as nobody flushes |
| `MetadataDescribesPacket` | (video encoder) a decoder config on its way belongs to its packet |
| `KnowsOnlyDecoderConfig` | (audio encoder) as the first, with a single `configure()` |
| `CloseReturns`, `FlushSettles`, `ErrorCloses`, `DequeueFires` | liveness: close returns, flushes settle, errors close, events fire |
| `DecodesTracked` | every pending decode is queued, being dropped, in hand, or answered |
| `RightFrame` | a result holds the frame that was asked for |
| `SelectionReachesWorker` | no `reset()` or `close()` loses a change of track |
| `PromisesAgree` | `ready` and `completed` agree with tracks, completeness and close |
| `DecodeSettles`, `LoadingSettles` | liveness: decodes settle; once all data was given, `ready` and `completed` do |
| `RefsExact` | the count of a buffer is its open objects and codec references |
| `OrientationComposes` | rotation and flip show the picture as the inits ask for, one after another |
| `AudioCopiesAreSlices` | a `copyTo` that is not refused writes the samples asked for, as many as `allocationSize` says, if these are inside the audio; with a negative `frameOffset` or `planeIndex` some of what it writes is not a sample of it |
| `VideoCopiesFit`, `LayoutsRoundTrip` | copies stay within the size that was checked; copying out and in again gives the same picture |
| `TimestampsSurvive` | to microseconds and back, where a tick is no shorter than one; order and difference across a wrap |
| `PooledFramesIdle` | a pooled frame is in one pool, its own, and has no user and no data |
| `StatsExact` | whenever the lock is free, the statistics are right, or wrong by what a reset overwrote |

`RightFrame` is about results that are `sure`. The code counts frames as they come
out, and the model says where the count goes wrong: a packet lost to a failed read,
send or receive (`ReadFails`), a frame the codec held back that is lost when draining it
fails (`DrainFails`; the count stays as it was, and the next decode would take the frame
behind it), a failed seek, a change of track, and data that was moved under the
IOContext; from there until the next rewind results are not `sure`. A call that fails
without losing a packet or frame of the track leaves the count right.

## 4. What is proved

The theorems hold for every value of the constants that satisfies the named
assumptions: `SizeModulusAssumption`, `BoundsAssumption`, `ThreadStartsAssumption`,
`AbsentAssumption` (no codec string is empty, `shared/codec_registry.cpp:154`) and those on
codecs and faults for the codecs; `ImageAssumption` (a file of packets, what
is readable of it grows to the whole) for images; `ObjectsAssumption` and
`InitsAssumption` for media objects, and for their data `CopiesAssumption`,
`LayoutsAssumption` and `TimebaseAssumption`, which say what a record is and nothing of its
size, but that planar audio has no more channels than an `AVFrame` has plane pointers, and
that the range of MPEG-TS timestamps is even; the options of a copy are any integers; `PoolAssumption` (a counter can count every
frame) for the pools. All of them are evaluated by the runs. Five theorems say `ASSUME "clone" \notin Faults`:
a clone that fails is a packet or frame lost without a report (section 3), and what
they state is false then.

| Theorem | States | Rests on |
|---|---|---|
| `CodecProofs!TypeCorrect` | `CodecSpec => []CoreTypeOK` | one lemma per action; `CoreTypeOK` is inductive because `WorkerType` ties the worker's message to its program point and the thread to `running_` |
| `ReleaseFinal` | `CodecSpec => []ReleaseIsFinal` | `CoreTypeOK`: a thread exists exactly while `running_` is set; without that a `Release` that finds `running_` clear could leave a thread behind |
| `ReleasePostsNothing` | `CodecSpec => NoPostAfterRelease` (no TSFN grows once `close()` returned) | `ReleaseIsFinal` and: only worker steps make a TSFN grow, and they need a thread |
| `DequeueIsCoalesced` | `CodecSpec => []DequeueCoalesced` | itself inductive, once closed is known to be for ever (`ClosedStays`) |
| `FlushSettledOnce` | `CodecSpec => SettledOnce` | `PendingUnset`: a pending promise, or one not yet made, is unset |
| `FlushNeverLost` | `CodecSpec => []FlushTracked` | a handler gives its message up only with a completion, and appending to a queue and taking its head keep the other elements |
| `FlushesArePromises` | `CodecSpec => FlushPromises` | `PendingUnset` again, and a case per action: each is a step of `PromiseTracker` or a stutter |
| `VideoDecoderImplementsCodec` and its three siblings | `Spec => CodecSpec` | `TypeOK` of the class, and the second part of `CodecProofs`: one lemma per handler operator shows it to be a `HandlerStep` |
| `VideoDecoderTypeCorrect` and its three siblings | `Spec => []TypeOK` | the same step lemmas |
| `…ReleaseFinal` etc., `VideoEncoderFlushes` | the properties above for each class | refinement and the theorem about `CodecSpec` |
| `AudioDecoderCloseSettles`, `AudioEncoderCloseSettles` | `Spec => []CloseSettlesFlushes` | `FlushesAnswered`: a requested flush is pending until settled, and nothing is pending during `Release`; needs `ReleaseIsFinal`, because a `flush()` on a queue already shut down would return a promise nobody settles |
| `PipelineOrder` | `PipelineSpec => []PipelineInOrder` | `OrderInv` and `FlushInv`, below |
| `PipelineResets` | `PipelineSpec /\ ResetsEmpty => []ResetDiscards` | `ResetInv`, below |
| `VideoDecoderOrder`, `VideoDecoderDrains`, `VideoDecoderDiscards`, `AudioDecoderOrder`, `VideoEncoderOrder`, `AudioEncoderOrder` | `OutputOrder`, `FlushDrains`, `PipelineInOrder` and, of the decoders, `ResetDiscards` | `Spec => PipelineSpec`, and for the decoders `Spec => ResetsEmpty`: one lemma per handler operator |
| `PipelineSizes` | `PipelineSpec => []QueueSizeExact` | `SizeOrTrouble`, below |
| `PipelineAlwaysSizes` | `PipelineSpec /\ AlwaysCounts => []QueueSizeAlwaysExact` | the same invariant without the trouble |
| `PipelineConserves` | `PipelineSpec => []WorkConserved` | `Conserved`, below; `"clone" \notin Faults` |
| `VideoDecoderSizes`, `VideoEncoderSizes`; `AudioDecoderSizes`, `AudioEncoderSizes` | `QueueSizeExact`; `QueueSizeAlwaysExact` | `Spec => PipelineSpec`, and for audio `Spec => AlwaysCounts`: every exit of `OnDecode` and `OnEncode` passes the program point `count` |
| `VideoDecoderConserves` and its three siblings | `Spec => []WorkConserved` | `Spec => PipelineSpec` |
| `VideoEncoderMetadata` | `Spec => []MetadataDescribesPacket` | `SetUp` and `PacketInv`, below |
| `VideoEncoderKnows` | `Spec => []KnowsDecoderConfigWithoutFlush` | `ChainInv`, below; `"clone" \notin Faults` |
| `AudioEncoderKnows` | `Spec => []KnowsOnlyDecoderConfig` | `OnlyConfig` and `KnowsOnly`, below; `"clone" \notin Faults` |
| `VideoDecoderKeyFirst` | `~MalformedChunks /\ Spec => []KeyChunkFirst` | `KeyInv`, below; with malformed chunks the property does not hold, because one of them clears the requirement |
| `ImageDecoderTypeCorrect` | `Spec => []TypeOK` | a codec context has data to decode, and a thread in a handler has the message of it |
| `DecodesArePromises` | `Spec => DecodePromises` | pending ids are below `nextId` and unset |
| `ImageDecodesTracked` | `Spec => []DecodesTracked` | the strengthening `Tracked`: the list of decodes that `reset()` or `close()` has dropped is empty when neither is under way, and the queue refuses messages only when the decoder is closed |
| `ImageSelectionConsistent` | `Spec => []SelectionConsistent` (the `selected` flags agree with `selected_index_`) | `Unlisted`: before the tracks are listed nothing is selected |
| `ImageRightFrame` | `Spec => []RightFrame` | `Framed`, below |
| `ImagePromisesAgree` | `Spec => []PromisesAgree` | `CompletesOnce` and `Promising`, below |
| `ImageSelectionReaches` | `Spec => []SelectionReachesWorker` | `Selecting` and `Closing`, below |
| `PoolFramesIdle` | `Spec => []PooledFramesIdle` | `PoolType`: the holder of the mutex has its frame to itself, and only a frame a user has holds data |
| `PoolStatsExact` | `Spec => []StatsExact` | `Counted`, below; arithmetic modulo the counters' range |
| `MediaTypeCorrect`, `MediaRefsExact` | `Spec => []TypeOK`, `Spec => []RefsExact` | how the set of users of a buffer changes when an object is added, closed or moved, and cardinalities |
| `MediaOrientationComposes` | `Spec => []OrientationComposes` | rotations and flips of a square are a group: one lemma over the four corners |
| `MediaObjectsIndependent` | `Spec => ObjectsIndependent` (an operation on one object changes the attributes of no other) | that new objects are appended and `close` changes one flag |
| `MediaAudioCopies` | `Spec => []AudioCopiesAreSlices` | `CopyInside`, `CopyOfNothing` and `CopyOutside`, below |
| `MediaVideoCopies`, `MediaRoundTrips` | `Spec => []VideoCopiesFit`, `Spec => []LayoutsRoundTrip` | `CopyWithinSize`, `PackedCopyFills`, `PictureRoundTrip`, below |
| `MediaTimestampsSurvive` | `Spec => []TimestampsSurvive` | `RescaleBack` and `OrderSurvives`, below |

The case split `StepCases` and the lemmas `WorkerStep` and `QuietStep` (what a
step of the worker, or of the JS thread outside the life cycle, leaves alone)
carry most of the proofs about `CodecSpec`. Type correctness, `NoPostAfterRelease`,
`SettledOnce`, `SelectionConsistent` and `ObjectsIndependent` are proved and not
part of a run.

**The pipeline.** `PipelineSpec` is what the four codecs have in common in the order
of things: the steps outside the handlers are those of the abstract codec
(`FrameNext`) and leave the FFmpeg codec alone; a handler step leaves its FIFO
alone, empties it, sends the request in hand or receives its front
(`PipelineStep`), and completes a flush successfully only when the FIFO is empty or
the worker must exit. `FrameCases` says what each step outside the handlers does to
the pipeline: nothing, append a message, clear the queue, take its front, or deliver.
The three properties are not inductive alone:

- `OutputOrder` speaks of the last output, the TSFN, the codec, the worker's hand and
  the queue one after another; `OrderInv` says it pairwise, of sets (`InLine`), and adds
  that no id is beyond `inputs`, so that the next request is after all of them.
- `FlushDrains` speaks of completed flushes. `FlushInv` follows a flush from the
  queue to the worker's hand to the TSFN: no request behind its message is older than
  it, and ids of flushes are those given out, so that the mark of one under way
  does not change.
- `ResetDiscards` speaks of codec and hand after the reset message is gone.
  `ResetInv` adds that what is queued is always younger than the last reset, so that
  emptying the codec is all the message has to do. An encoder may ignore
  `avcodec_flush_buffers`, and then `ResetsEmpty` and `ResetDiscards` fail.

**The key chunk.** `KeyChunkFirst` says nothing of the chunk that comes next;
`KeyInv` adds that `key_chunk_required_` is set whenever the last configure, flush or
reset message among those the worker has and will get has no chunk behind it yet.

**The queue size.** The code counts on the JS thread, discounts on the worker, and lets
`reset()` store zero in between; and every exit of a video handler that does not discount
reports an error. So `QueueSizeExact` is about open codecs with no error on its way,
and `SizeOrTrouble` makes it inductive: the size plus one for each of at most `resets`
requests equals the requests queued or in hand, up to as many wraps of the counter, or
there is trouble (an error posted and not delivered, the error callback running, or the
codec closed) that only the closing of the codec ends. `CountsFirst` says of a step
that it returns with a request only after counting it; for audio that is every step.

**No work is lost.** `WorkConserved` has a premise about all that happened before (one
configure, no reset, no error, nothing closed). `Disturbed` is its negation, is never
undone, and `Conserved` is what holds until then: before the `configure()` there is nothing
at all, its message is the first and finds no context, no reset message exists, the
FFmpeg codec is full only while it is received from, and the ids from `lastOut` to
`inputs` are exactly those in TSFN, codec, hand and queue. That they are in order
(`OrderInv`) is what lets a delivery move `lastOut` by one.

**Decoder configs.** Both encoders tell JavaScript how to decode with the first packet of
a configuration. `encCfg` is what the encoder that took a frame was set up with.
- Video: an encoder that is set up agrees with the worker's `copies` (`SetUp`); what is in
  it was sent to it, so it has that config too, and a decoder config on its way is its own
  packet's (`PacketInv`). An output without a decoder config has the config of the one
  before it, from the last one delivered (`lastOut`) through the TSFN to the context that
  will make the next, unless the flag is raised (`ChainInv`); so what was told last is
  what is needed, at each delivery.
- Audio: `OnOutputChunk` reads `active_config_`, so a second `configure()` breaks it. With a
  single one, the first output carries the config (`KnowsOnly`), and everything there is
  was made under the one config ever given (`OnlyConfig`), because before it there was
  nothing to make anything with (`NoConfigureYet`).

**The right frame.** The code decides by a count, `current_frame_index_`, whether a frame that
comes out of the codec is the one asked for. `Counted` says why that is right: the packets the
codec holds back are the next frames of the selected track, in order, the first has the
index that was counted, and the demuxer's position is behind the last of them (`Frames`
counts the frames of a track among the first packets of a file). Every way of losing a
packet or a held frame, among them the drains that fail, sets `drifted`; a failing call that
loses none leaves codec and position as they are, or only moves past a packet of another
track, which `Frames` does not count. A rewind empties the codec and makes the statement true again. `Approaching` adds
that the worker rewinds before it looks for a frame it has passed.

**Promises of images.** `completed` is reported with the last message, that of the end of
the stream or the configure message when there is no stream. `CompletesOnce` says that it is in
one place at most: still to come, queued, kept aside by `ClearDecodes`, in the worker's
hand, or reported; so it is reported once, and not before.

**The selected track.** `Selecting` looks at the last change of track among the messages:
it is to the selected track wherever it is, in the queue, in what `ClearDecodes` keeps and
puts back in front, or in hand; and when there is none the worker has that track.
Before the tracks are listed nobody selects one, and the worker has the best
(`Best`). A close message is queued by `close()` only (`Closing`), so that the worker of an open
decoder does not leave changes behind.

**The pools.** `StatsExact` is about the moments when nobody holds the mutex. `Counted` says
at all others what the holder owes to the counters: a frame that left or reached its
pool and is not counted yet, or one that is counted and not yet in its user's hands. A
reset moves a counter's value to `lost` and leaves their sum. That the counters are
exactly what they count, and not only modulo their range, follows since no more than
`MaxFrames` exist; the number of pooled frames and of places in the pools agree by
a bijection, which is `PooledFramesIdle`.

**Data.** The four properties of copies and conversions speak of constants: whatever the
objects do, audio, pictures, layouts and timestamps of any size are treated right. They
rest on a few lemmas on quotients and remainders (`Divides`, `RowOf`, `InRows`: a number
below `n * m` is at one place in one of `n` rows of `m`).
- Audio: a sample is where the constructor put it (`SamplesPlaced`), and the pointers of
  `copyTo()` arrive there if the frames and the plane asked for are inside (`CopyInside`).
  An offset below zero, whatever it is multiplied by, leads before the first sample
  (`InputOutside`), so a copy that begins there is no slice (`CopyOutside`), unless it is
  of nothing (`CopyOfNothing`). What a read outside gives is not said, only that it is
  `NoSample`.
- Pictures: an address lies between the offset and the end of its plane (`AddressInPlane`),
  and the size is the largest end. Packed planes follow each other (`StartsFollow`), so
  every address below the size is in one of them. When no planes overlap, different
  bytes have different addresses (`AddressesDiffer`; a stride is no less than a row), so
  the copy forgets nothing. A frame has four planes at most, which is why no induction
  is needed.
- Timestamps: rescaling is to the nearest microsecond, so with longer ticks the error is
  less than half a tick and the way back finds the same one; when a tick is a microsecond
  there is no error. Remainders of two timestamps less
  than half the range apart differ by their difference, or by that less the range.

**Only model-checked**: liveness under fairness, which with `ENABLED` is beyond the prover.
Every safety invariant and every refinement that a run checks is a theorem.

## 5. What the code does not keep

Each run with `expect: violation` checks one sentence of the repository's
documents or comments, quoted in `PROJECT.json` under `findings`:

1. `decode_after_flush`: after a flush the FFmpeg codec stays in draining mode;
   the next key chunk is reported as an error and closes the decoder.
2. `frame_aliases_buffer`: a `VideoFrame` constructed from a `BufferSource` points into
   it, and shows what is written there later.

**Noted while modelling.** The models do what the code does in these places too, or
leave the place out where it says so; none has a run of its own.

*Codecs.*
- `reset()` stores 0 in the queue size under a worker that still has a request to
  count: `decodeQueueSize` becomes 2^32 - 1. `QueueSizeExact` says "less at most
  one for each reset" for this reason.
- A flush promise can resolve before its outputs arrive: they are in another TSFN.
- The worker reads `active_config_` and not its own message, without a lock, so
  a second `configure()`, even one that throws, changes what the first sets up.
- `close()` of the video codecs forgets pending flush promises, under a comment
  "Reject all pending flush promises" (`video_decoder.cpp:96`).
- A decrement of the queue size during the `ondequeue` callback is not announced,
  and `reset()` lowers it without an event (`docs/specs/4-videodecoder-interface/4.6-algorithms.md:48-52`).
- Outputs from before a `reset()` are delivered after it, if they were in the TSFN.
- The error callback runs before the state is closed (`4.6-algorithms.md:65-69`).
- A malformed key chunk clears `key_chunk_required_` before it is refused.
- `reset()` after an `avcodec_open2` that failed flushes a codec that is not open.

*Encoders.*
- The packets a flush drains never carry a decoder config, also when they are the
  first after `configure()` (`docs/specs/6-videoencoder-interface/6.1-internal-slots.md:27-28`).
- A packet whose clone fails takes the decoder config with it.
- The audio encoder pairs a packet with the `active_config_` of the moment it is
  delivered (`audio_encoder.cpp:195-213`), and reads the worker's codec context from the JS
  thread while the worker may be replacing it (`audio_encoder.h:227-231`).
- An encoder without `AV_CODEC_CAP_ENCODER_FLUSH` keeps its frames over a `reset()`.

*ImageDecoder.*
- A streamed image whose first bytes do not suffice to open it has `ready` rejected
  (`image_decoder_worker.cpp:421`; the comment there says more data is awaited),
  and its tracks are listed later all the same.
- A decode in the worker's hand when `close()` is called is never settled
  (`image_decoder.cpp:424`), and the destructor, under "Reject pending decode
  promises" (254), only clears the map.
- The wrong frame after a lost packet, a frame lost to a drain that fails
  (`image_decoder_worker.cpp:686-688`), a failed seek or a change of track, until
  the next rewind; a stale pointer when `image_data_` grows (`image_decoder_worker.cpp:415`).
- An error of the stream does not close the decoder.
- Not modelled: frames leak on one path of `OnDecodeResult` (446-449), and stream
  callbacks hold a raw pointer to a decoder that may be collected (793).

*Media objects and helpers.*
- `CopyFrameWithLayout`, `CreateFrameFromBufferWithLayout` and `ConvertRect` take the bytes
  of a pixel from the depth of one component: rows of RGBA and NV12 are copied in
  part, and an alpha plane is taken to be subsampled. `PixelLayout` is about formats
  with one component per plane.
- Overlapping layouts are accepted; a layout with fewer entries than planes leaves
  the other planes uninitialised; the `PlaneLayout` that `copyTo` returns has the
  frame's stride and not that of what it wrote (`video_frame.cpp:1087-1106`).
- `VideoFrame(frame, {rotation})` keeps the source's display size; `copyTo` ignores an
  overridden visible rectangle, and `allocationSize` its options.
- A clone that fails in `AudioData::CreateFromFrame` gives an empty value and no
  exception (`audio_data.cpp:257`); planar audio of more than 8 channels indexes
  `data` and not `extended_data`.
- `planeIndex`, `frameOffset` and `frameCount` of `AudioData` have upper bounds only
  (`audio_data.cpp:360-410`), and `lib/AudioData.ts:65-70` passes on what it is given, where
  the specification says `[EnforceRange] unsigned long`
  (`docs/specs/9-raw-media-interfaces/9.2-audiodata-interface/9.2.7-audiodatacopytooptions.md:5-7`).
  Negative offsets and planes are accepted, and `copyTo` then does not write a slice of the
  audio: `AudioCopiesAreSlices` says so. With a negative count `copyTo` and
  `allocationSize` return `undefined` and throw nothing, under a comment "Exception
  already thrown" (447, 507).
- `AudioData::copyTo` of no frames, converted to a planar format, throws a
  `NotSupportedError`: FFmpeg allocates no buffer for them (`audio_data.cpp:619-627`).
- `PtsDiffUs` treats the half-way difference differently in its two directions.

*Pools.* `ResetStats` stores without the lock (`frame_pool.h:265`, `packet_pool.h:197`), so
the statistics stay wrong, and wrap below zero when frames come back;
`SetInitialPoolSize` stores a number nobody reads.

## 6. Plan

Done: the four codecs, their abstract codec and promise refinement, images, media
objects, copies, timebase, pools. Left, in this order:

1. `CodecService`, what a codec promises to JavaScript without queue and worker,
   implemented by `CodecSpec` through a refinement mapping.
2. `SafeTsfn`: `Call` against `Release` and `Unref`; `CodecWorker` on its own with restart
   and `CloseMessage`.
3. Scaling and timestamps of images; pixel formats with several
   components per plane.

## 7. Not modelled

- `codec_registry`, `napi_guards`, `error_builder` and most of `utils`: stateless
  tables and conversions; their answers appear as constants or as choices.
- Encoded chunks and `VideoColorSpace`: they never change after construction.
- Pixel and sample format conversion, scaling and resampling: FFmpeg's work.
- Rectangles, display sizes, colour spaces and metadata of media objects: copied
  along, never compared.
- The life time of codec objects (garbage collection and the destructor's
  `Release`), chunk payloads, and the setting and clearing of `ondequeue` (a missing
  callback is a callback that does nothing).
- `SafeThreadSafeFunction` beyond what the codecs do with it, and the parts of
  `codec_worker.h` nobody calls (restart, `CloseMessage`).
- `addon.cpp`, `lib/index.ts` and `scripts/` have no behaviour of their own, and the
  build files, tests and documents are not program code.

## 8. Running

    tlc -config VideoDecoderSafety.cfg MCVideoDecoder.tla
    tlapm CodecProofs.tla
    tlapm ImageDecoderProofs.tla

The largest run (`image_decoder`) explores 14.8 million states in some two minutes on
two cores, the slowest on two is `decoder_liveness`; all the proofs together take
some ten minutes.
