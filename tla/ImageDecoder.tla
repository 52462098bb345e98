---------------------------- MODULE ImageDecoder ----------------------------
(***************************************************************************)
(* ImageDecoder with its ImageTrackList and ImageTracks (image_decoder.h,  *)
(* image_decoder.cpp, image_track_list.cpp, image_track.cpp): the methods  *)
(* and the thread-safe functions' handlers, on the JS thread, over the     *)
(* worker of ImageDecoderWorker.                                           *)
(*                                                                         *)
(* A method is one step, except that reset() and close() take the queue    *)
(* apart and then reject the promises one by one while the worker runs on, *)
(* and that Release blocks at the join.  Tracks are numbered from 1, and 0 *)
(* is the index -1 of the code.                                            *)
(***************************************************************************)
EXTENDS ImageDecoderWorker

CONSTANTS
  MaxResets,    \* bound on the reset() calls
  MaxSelects    \* bound on the assignments to ImageTrack.selected

ASSUME CallsAssumption == MaxResets \in Nat /\ MaxSelects \in Nat

VARIABLES
  closed,       \* closed_
  life,         \* alive, or in Release (the destructor), or destroyed
  aborting,     \* reset() or close() has not returned yet
  stream,       \* the read loop of a ReadableStream: none, reading, over
  chunks,       \* chunks the stream has given
  nextId,       \* next_promise_id_
  pending,      \* the keys of pending_decodes_
  outcome,      \* what JavaScript sees of each decode promise
  established,  \* tracks_established_
  ready,        \* ready_resolved_ and ready_rejected_ of the track list
  complete,     \* complete_
  completed,    \* completed_deferred_: unset while it is there
  listed,       \* the tracks added to the track list
  selectedIndex,\* selected_index_ of the track list
  selected,     \* the tracks whose selected_ is set
  resets, selects

promiseVars == <<nextId, pending, outcome>>
trackVars   == <<established, ready, complete, completed>>
listVars    == <<listed, selectedIndex, selected>>
jsVars == <<closed, life, aborting, stream, chunks, promiseVars, trackVars, listVars,
            resets, selects>>
vars   == <<queueVars, workerVars, postVars, jsVars>>

(* The constructor: the worker runs and has its configure message.  A      *)
(* BufferSource may be empty; of a stream the first read is under way.     *)
Init ==
  /\ \E empty \in BOOLEAN : QueueInit([type |-> "configure", empty |-> empty])
  /\ WorkerInit
  /\ closed = FALSE /\ life = "alive" /\ aborting = FALSE
  /\ stream = IF streaming THEN "reading" ELSE "none"
  /\ chunks = 0
  /\ nextId = 1 /\ pending = {} /\ outcome = [id \in Ids |-> "unset"]
  /\ established = FALSE /\ ready = "unset"
  /\ complete = FALSE /\ completed = "unset"
  /\ listed = {} /\ selectedIndex = 0 /\ selected = {}
  /\ resets = 0 /\ selects = 0

(* The JS thread is not inside a method or the destructor.                 *)
Idle == life = "alive" /\ ~aborting

Settle(id, how) ==
  /\ id \in pending
  /\ outcome' = [outcome EXCEPT ![id] = how]
  /\ pending' = pending \ {id}
  /\ UNCHANGED nextId

(* A promise that is settled only once: later attempts are ignored.        *)
Once(promise, how) == IF promise = "unset" THEN how ELSE promise

-----------------------------------------------------------------------------
(* decode(), reset(), close().                                             *)

(* The promise is stored before the message is queued.                     *)
Decode(index) ==
  /\ Idle /\ ~closed
  /\ nextId \in Ids
  /\ nextId' = nextId + 1
  /\ pending' = pending \cup {nextId}
  /\ Enqueue([type |-> "decode", id |-> nextId, index |-> index])
  /\ UNCHANGED <<dropped, workerVars, postVars, closed, life, aborting, stream,
                 chunks, outcome, trackVars, listVars, resets, selects>>

Reset ==
  /\ Idle /\ ~closed
  /\ resets < MaxResets
  /\ resets' = resets + 1
  /\ aborting' = TRUE
  /\ BeginClear
  /\ UNCHANGED <<workerVars, postVars, closed, life, stream, chunks, promiseVars,
                 trackVars, listVars, selects>>

Close ==
  /\ Idle /\ ~closed
  /\ closed' = TRUE
  /\ aborting' = TRUE
  /\ BeginClear
  /\ UNCHANGED <<workerVars, postVars, life, stream, chunks, promiseVars, trackVars,
                 listVars, resets, selects>>

AbortClears ==
  /\ aborting
  /\ ClearDecodes
  /\ UNCHANGED <<workerVars, postVars, jsVars>>

(* The promises of the dropped messages are rejected with AbortError.      *)
AbortRejects ==
  /\ aborting /\ ~clearing
  /\ dropped # <<>>
  /\ dropped' = Tail(dropped)
  /\ IF Head(dropped) \in pending
     THEN Settle(Head(dropped), "rejected")
     ELSE UNCHANGED promiseVars
  /\ UNCHANGED <<queue, qclosed, clearing, remaining, workerVars, postVars, closed,
                 life, aborting, stream, chunks, trackVars, listVars, resets, selects>>

(* Mutant: close() leaves the completed promise alone.                     *)
AbortEndsIncomplete ==
  /\ aborting /\ ~clearing
  /\ dropped = <<>>
  /\ aborting' = FALSE
  /\ Enqueue([type |-> IF closed THEN "close" ELSE "reset"])
  /\ ready' = IF closed /\ ~established THEN Once(ready, "rejected") ELSE ready
  /\ UNCHANGED <<dropped, workerVars, postVars, closed, life, stream, chunks,
                 promiseVars, established, complete, completed, listVars, resets, selects>>

(* close() also rejects what will now never happen; then the worker is     *)
(* told.                                                                   *)
AbortEnds ==
  /\ aborting /\ ~clearing
  /\ dropped = <<>>
  /\ aborting' = FALSE
  /\ Enqueue([type |-> IF closed THEN "close" ELSE "reset"])
  /\ ready' = IF closed /\ ~established THEN Once(ready, "rejected") ELSE ready
  /\ completed' = IF closed /\ ~complete THEN Once(completed, "rejected") ELSE completed
  /\ UNCHANGED <<dropped, workerVars, postVars, closed, life, stream, chunks,
                 promiseVars, established, complete, listVars, resets, selects>>

Abort == AbortClears \/ AbortRejects \/ AbortEnds

-----------------------------------------------------------------------------
(* Selecting a track: ImageTrack.selected, OnTrackSelectedChanged and      *)
(* OnTrackSelectionChanged.                                                *)

SelectTrack(t, value) ==
  /\ Idle
  /\ t \in listed
  /\ selects < MaxSelects
  /\ selects' = selects + 1
  /\ value # (t \in selected)
  /\ LET others == selected \ {selectedIndex, t}
     IN  selected' = IF value THEN others \cup {t} ELSE others
  /\ selectedIndex' = IF value THEN t ELSE 0
  /\ IF closed
     THEN UNCHANGED <<queue, qclosed, clearing, remaining>>
     ELSE Enqueue([type |-> "track", index |-> selectedIndex'])
  /\ UNCHANGED <<dropped, workerVars, postVars, closed, life, aborting, stream, chunks,
                 promiseVars, trackVars, listed, resets>>

-----------------------------------------------------------------------------
(* The handlers of the stream's read() promises.                           *)

(* Only the handler of a failed read does not look at closed_.             *)
Heard(message) == ~closed \/ message.type = "error"

StreamGives(message) ==
  /\ Idle
  /\ stream = "reading"
  /\ IF Heard(message)
     THEN Enqueue(message)
     ELSE UNCHANGED <<queue, qclosed, clearing, remaining>>
  /\ UNCHANGED <<dropped, workerVars, postVars, closed, life, aborting, promiseVars,
                 trackVars, listVars, resets, selects>>

(* A chunk is passed on and the next one asked for, unless closed.         *)
StreamChunk ==
  /\ chunks < Chunks
  /\ chunks' = chunks + 1
  /\ stream' = IF closed THEN "over" ELSE stream
  /\ StreamGives([type |-> "data"])

StreamEnds ==
  /\ StreamGives([type |-> "end"])
  /\ stream' = "over"
  /\ UNCHANGED chunks

(* The read fails, or gives something that is not bytes (which, once       *)
(* closed, is ignored as the end of the stream is).                        *)
StreamFails ==
  /\ StreamGives([type |-> "error"])
  /\ stream' = "over"
  /\ UNCHANGED chunks

-----------------------------------------------------------------------------
(* Handlers of the thread-safe functions.                                  *)

(* Mutant: the promise is not erased.                                      *)
OnDecodeResultKeeps ==
  /\ Idle
  /\ results # <<>>
  /\ results' = Tail(results)
  /\ outcome' = IF ~closed /\ Head(results).id \in pending
                THEN [outcome EXCEPT ![Head(results).id] = "resolved"] ELSE outcome
  /\ UNCHANGED <<queueVars, workerVars, errors, tracksReady, completions, closed, life,
                 aborting, stream, chunks, nextId, pending, trackVars, listVars, resets,
                 selects>>

(* Once closed a result is thrown away, and its promise stays as it is.    *)
OnDecodeResult ==
  /\ Idle
  /\ results # <<>>
  /\ results' = Tail(results)
  /\ IF ~closed /\ Head(results).id \in pending
     THEN Settle(Head(results).id, "resolved")
     ELSE UNCHANGED promiseVars
  /\ UNCHANGED <<queueVars, workerVars, errors, tracksReady, completions, closed, life,
                 aborting, stream, chunks, trackVars, listVars, resets, selects>>

(* The error of a decode rejects its promise; a general one whatever of    *)
(* ready and completed has not happened yet.                               *)
OnError ==
  /\ Idle
  /\ errors # <<>>
  /\ errors' = Tail(errors)
  /\ LET id == Head(errors) IN
     /\ IF ~closed /\ id \in pending
        THEN Settle(id, "rejected")
        ELSE UNCHANGED promiseVars
     /\ IF ~closed /\ id = 0
        THEN /\ ready' = IF established THEN ready ELSE Once(ready, "rejected")
             /\ completed' = IF complete THEN completed ELSE Once(completed, "rejected")
        ELSE UNCHANGED <<ready, completed>>
  /\ UNCHANGED <<queueVars, workerVars, results, tracksReady, completions, closed, life,
                 aborting, stream, chunks, established, complete, listVars, resets, selects>>

(* The tracks are listed and the selected one marked, even if ready was    *)
(* rejected before.                                                        *)
OnTracksReady ==
  /\ Idle
  /\ tracksReady # <<>>
  /\ tracksReady' = Tail(tracksReady)
  /\ IF closed
     THEN UNCHANGED <<established, ready, listVars>>
     ELSE /\ listed' = Tracks
          /\ selectedIndex' = Head(tracksReady)
          /\ selected' = selected \cup {Head(tracksReady)}
          /\ established' = TRUE
          /\ ready' = Once(ready, "resolved")
  /\ UNCHANGED <<queueVars, workerVars, results, errors, completions, closed, life,
                 aborting, stream, chunks, promiseVars, complete, completed, resets, selects>>

OnCompleted ==
  /\ Idle
  /\ completions > 0
  /\ completions' = completions - 1
  /\ IF closed
     THEN UNCHANGED <<complete, completed>>
     ELSE complete' = TRUE /\ completed' = Once(completed, "resolved")
  /\ UNCHANGED <<queueVars, workerVars, results, errors, tracksReady, closed, life,
                 aborting, stream, chunks, promiseVars, established, ready, listVars,
                 resets, selects>>

Callbacks == OnDecodeResult \/ OnError \/ OnTracksReady \/ OnCompleted

-----------------------------------------------------------------------------
(* Release: the destructor, once JavaScript has dropped the decoder.  What *)
(* is still in the thread-safe functions has nobody to go to.              *)

ReleaseStops ==
  /\ Idle
  /\ life' = "releasing"
  /\ closed' = TRUE
  /\ shouldExit' = TRUE
  /\ Shutdown
  /\ UNCHANGED <<wpc, msg, streaming, ioVars, codecVars, postVars, aborting, stream,
                 chunks, promiseVars, trackVars, listVars, resets, selects>>

ReleaseEnds ==
  /\ life = "releasing"
  /\ wpc = "exited"
  /\ life' = "destroyed"
  /\ pending' = {}
  /\ listed' = {} /\ selectedIndex' = 0
  /\ stream' = IF stream = "reading" THEN "over" ELSE stream
  /\ UNCHANGED <<queueVars, workerVars, postVars, closed, aborting, chunks, nextId,
                 outcome, trackVars, selected, resets, selects>>

Release == ReleaseStops \/ ReleaseEnds

-----------------------------------------------------------------------------

Worker == WorkerStep /\ UNCHANGED jsVars

Next ==
  \/ \E index \in Indexes : Decode(index)
  \/ Reset \/ Close \/ Abort
  \/ \E t \in Tracks, value \in BOOLEAN : SelectTrack(t, value)
  \/ StreamChunk \/ StreamEnds \/ StreamFails
  \/ Callbacks
  \/ Release
  \/ Worker

Spec == Init /\ [][Next]_vars

(* The operating system runs the worker, a method that was called goes on, *)
(* and the event loop serves every thread-safe function.  Neither the      *)
(* stream nor the garbage collector need do anything.                      *)
Fairness ==
  /\ WF_vars(Worker)
  /\ WF_vars(Abort)
  /\ WF_vars(ReleaseEnds)
  /\ WF_vars(OnDecodeResult)
  /\ WF_vars(OnError)
  /\ WF_vars(OnTracksReady)
  /\ WF_vars(OnCompleted)

FairSpec == Spec /\ Fairness

-----------------------------------------------------------------------------
(* Invariants.                                                             *)

QueueType ==
  /\ queue \in Seq(Messages)
  /\ remaining \in Seq(Messages)
  /\ dropped \in Seq(Ids)
  /\ qclosed \in BOOLEAN /\ clearing \in BOOLEAN
  /\ clearing => aborting

WorkerType ==
  /\ wpc \in {"top", "wait", "exited"} \cup HandlerPoints
  /\ IF wpc \in HandlerPoints
     THEN msg \in Messages /\ msg.type = IF wpc = "read" THEN "decode" ELSE wpc
     ELSE msg = NoMessage
  /\ shouldExit \in BOOLEAN /\ streaming \in BOOLEAN
  /\ wpc = "exited" => shouldExit

IoType ==
  /\ data \in Nat /\ io \in Nat /\ configured \in BOOLEAN
  /\ ctx \in {"none", "open", "draining"}
  /\ ctx # "none" => io > 0
  /\ sel \in Tracks /\ current \in Nat /\ drifted \in BOOLEAN
  /\ pos \in 0 .. Len(File)
  /\ buf \in Seq(Packets)

PostType ==
  /\ results \in Seq([id : Ids, index : Indexes, frame : Packets \cup {0}, sure : BOOLEAN])
  /\ errors \in Seq(Ids \cup {0})
  /\ tracksReady \in Seq(Tracks)
  /\ completions \in Nat

JsType ==
  /\ closed \in BOOLEAN /\ aborting \in BOOLEAN
  /\ life \in {"alive", "releasing", "destroyed"}
  /\ stream \in {"none", "reading", "over"}
  /\ chunks \in Nat /\ resets \in Nat /\ selects \in Nat
  /\ nextId \in Nat /\ pending \subseteq Ids
  /\ outcome \in [Ids -> {"unset", "resolved", "rejected"}]
  /\ established \in BOOLEAN /\ complete \in BOOLEAN
  /\ ready \in {"unset", "resolved", "rejected"}
  /\ completed \in {"unset", "resolved", "rejected"}
  /\ listed \subseteq Tracks /\ selected \subseteq Tracks
  /\ selectedIndex \in Tracks \cup {0}

(* The types of all variables; a codec context has data to decode, and a   *)
(* thread in a handler has the message of it.                              *)
TypeOK == QueueType /\ WorkerType /\ IoType /\ PostType /\ JsType

(* As long as the decoder is open no decode promise is forgotten: its      *)
(* message is queued, just being dropped or in the worker's hand, or its   *)
(* result or error is on the way (OnDecode, ClearDecodes).                 *)
Handled(id) ==
  \/ \E i \in DOMAIN queue : queue[i].type = "decode" /\ queue[i].id = id
  \/ \E i \in DOMAIN dropped : dropped[i] = id
  \/ msg.type = "decode" /\ msg.id = id
  \/ \E i \in DOMAIN results : results[i].id = id
  \/ \E i \in DOMAIN errors : errors[i] = id

DecodesTracked == ~closed => \A id \in pending : Handled(id)

(* A result holds the frame that was asked for: frames are counted as they *)
(* come out of the codec, and the count agrees with the demuxer, however   *)
(* decodes for other frames, resets and frames held back by the codec come *)
(* in between.  Only a packet or a held frame lost to a failing call, a    *)
(* failed seek, a change of track and data that moved set the count wrong, *)
(* until the next rewind.                                                  *)
IndexOf(p) == Cardinality({q \in 1 .. p - 1 : File[q] = File[p]})

RightFrame ==
  \A i \in DOMAIN results : results[i].sure => IndexOf(results[i].frame) = results[i].index

(* The track list agrees with its tracks (OnTrackSelectedChanged).         *)
SelectionConsistent ==
  life = "alive" =>
    /\ selected = {selectedIndex} \ {0}
    /\ selectedIndex \in listed \cup {0}

ChangeUnderWay ==
  \/ \E i \in DOMAIN queue : queue[i].type = "track"
  \/ \E i \in DOMAIN remaining : remaining[i].type = "track"
  \/ msg.type = "track"

(* The worker decodes the selected track once no change is on its way to   *)
(* it: no reset() or close() loses the message (ClearDecodes).             *)
SelectionReachesWorker ==
  ~closed /\ selectedIndex # 0 /\ ~ChangeUnderWay => sel = selectedIndex

(* Nothing is awaited for ever once close() has returned, and no report of *)
(* the worker is lost before: an image that was opened has its tracks      *)
(* listed or on the way, and what they settle is settled with them.        *)
PromisesAgree ==
  /\ configured /\ ~closed => established \/ tracksReady # <<>>
  /\ established => ready # "unset" /\ Len(tracksReady) = 0
  /\ complete => completed # "unset" /\ completions = 0
  /\ closed /\ Idle => ready # "unset" /\ completed # "unset"

-----------------------------------------------------------------------------
(* Action and temporal properties.                                         *)

(* The decode promises are those of a PromiseTracker: ids are given out in *)
(* order, only a pending promise is settled, and it is gone from the map   *)
(* when it is (pending_decodes_).                                          *)
Decodes == INSTANCE PromiseTracker WITH
  FirstId <- 1, MaxPromises <- MaxDecodes

DecodePromises == Decodes!TrackerSpec

(* A decode promise is settled, unless the decoder is closed first.        *)
DecodeSettles == \A id \in Ids : id \in pending ~> outcome[id] # "unset" \/ closed

(* Once all its data was given, the decoder tells whether it is an image,  *)
(* and that it is complete: tracks.ready and completed both settle.        *)
LoadingSettles ==
  /\ stream # "reading" ~> ready # "unset" \/ closed
  /\ stream # "reading" ~> completed # "unset" \/ closed
=============================================================================
