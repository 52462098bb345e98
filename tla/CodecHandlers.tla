--------------------------- MODULE CodecHandlers ---------------------------
(***************************************************************************)
(* The FFmpeg codec context a worker drives, and the message handlers as   *)
(* far as the four workers have them in common: one step per FFmpeg call,  *)
(* and one per access to what the handler shares with the JS thread.       *)
(*                                                                         *)
(* FFmpeg is modelled from how the workers use it: a FIFO in presentation  *)
(* order that holds back at most CodecDelay inputs, refuses more when it   *)
(* is full, drains after a NULL packet, and may fail as Faults allows.     *)
(*                                                                         *)
(* Two things are left to the codec's own module: what `blocked` becomes,  *)
(* and, for the steps that end a decode or an encode early, whether the    *)
(* handler returns at once or still counts the request as done.            *)
(***************************************************************************)
EXTENDS Codec

CONSTANTS
  CodecDelay,    \* frames the FFmpeg codec holds back before it must output
  Faults         \* which FFmpeg calls may fail, a subset of FaultKinds

FaultKinds == {"open", "alloc", "clone", "send", "receive"}

ASSUME CodecDelayAssumption == CodecDelay \in Nat
ASSUME FaultsAssumption == Faults \subseteq FaultKinds

VARIABLES
  active,   \* active_config_, written by configure(), read by the worker
  ctx,      \* codec_ctx_: none, open, or draining after a NULL packet
  ctxCfg,   \* what codec_ctx_ was set up with
  buf       \* inputs accepted by the FFmpeg codec and not yet output

ctxVars     == <<ctx, ctxCfg, buf>>
handlerVars == <<active, ctxVars>>

HandlerInit ==
  /\ active = NoConfig
  /\ ctx = "none"
  /\ ctxCfg = NoConfig
  /\ buf = <<>>

(* What no handler changes.                                                *)
Untouched == <<queue, qclosed, active, JsOwned>>

-----------------------------------------------------------------------------
(* The FFmpeg codec.                                                       *)

CodecFull == Len(buf) > CodecDelay

(* send_packet / send_frame with data: taken, refused until outputs are    *)
(* received, or refused for good because the codec is draining.            *)
SendTakes    == ctx = "open" /\ ~CodecFull
SendRefuses  == ctx = "open" /\ CodecFull
SendAfterEnd == ctx = "draining"

(* Mutant: draining counts as ended before the codec is empty.             *)
ReceiveEndEarly == ctx = "draining"

(* receive_frame / receive_packet: an output, AVERROR(EAGAIN), or          *)
(* AVERROR_EOF once a draining codec is empty.                             *)
ReceiveOutput == buf # <<>>
ReceiveAgain  == ctx = "open" /\ ~CodecFull
ReceiveEnd    == ctx = "draining" /\ buf = <<>>

-----------------------------------------------------------------------------
(* OnConfigure.                                                            *)

(* The members of a config are copied one by one into active_config_; an   *)
(* absent optional one keeps the value of an earlier call.                 *)
Assign(cfg) ==
  [codec |-> cfg.codec,
   desc  |-> IF cfg.desc = Absent THEN active.desc ELSE cfg.desc]

(* The handler sets up what it is given as config, never the config of the *)
(* message.  An unknown codec string is an error.                          *)
ConfigureRejects(config) ==
  /\ wpc = "configure"
  /\ config.codec \notin SupportedCodecs
  /\ OutputError
  /\ Return
  /\ UNCHANGED <<Untouched, outQ, flushQ, deqs, sizeVars, ctxVars>>

(* A fresh context replaces the old one, whose frames are gone.            *)
ConfigureAllocates(config) ==
  /\ wpc = "configure"
  /\ config.codec \in SupportedCodecs
  /\ ctx' = "none"
  /\ buf' = <<>>
  /\ \/ /\ ctxCfg' = [codec |-> config.codec, desc |-> Absent]
        /\ Goto("open")
        /\ UNCHANGED errs
     \/ /\ "alloc" \in Faults
        /\ OutputError
        /\ Return
        /\ UNCHANGED ctxCfg
  /\ UNCHANGED <<Untouched, outQ, flushQ, deqs, sizeVars>>

(* Mutant: a failing avcodec_open2 is not reported.                        *)
ConfigureOpensSilently(config) ==
  /\ wpc = "open"
  /\ ctxCfg' = [ctxCfg EXCEPT !.desc = config.desc]
  /\ ctx' = "open" \/ ("open" \in Faults /\ UNCHANGED ctx)
  /\ Return
  /\ UNCHANGED <<Untouched, tsfnVars, sizeVars, buf>>

ConfigureOpens(config) ==
  /\ wpc = "open"
  /\ ctxCfg' = [ctxCfg EXCEPT !.desc = config.desc]
  /\ \/ ctx' = "open" /\ UNCHANGED errs
     \/ "open" \in Faults /\ OutputError /\ UNCHANGED ctx
  /\ Return
  /\ UNCHANGED <<Untouched, outQ, flushQ, deqs, sizeVars, buf>>

-----------------------------------------------------------------------------
(* OnDecode, OnEncode.                                                     *)

AtWork == wpc \in {"decode", "encode"}

(* Without a context or during shutdown the request is dropped.            *)
WorkSkips ==
  /\ AtWork
  /\ ctx = "none" \/ shouldExit
  /\ UNCHANGED <<Untouched, tsfnVars, sizeVars, ctxVars>>

(* avcodec_send_packet: taken, or EAGAIN, which loses the packet.          *)
SendInput ==
  \/ SendTakes /\ buf' = Append(buf, msg.id)
  \/ SendRefuses /\ UNCHANGED buf

WorkSends ==
  /\ AtWork
  /\ ~shouldExit
  /\ SendInput
  /\ Goto("receive")
  /\ UNCHANGED <<Untouched, tsfnVars, sizeVars, ctx, ctxCfg>>

(* Any other failure of the send is an error.                              *)
WorkSendFails ==
  /\ AtWork
  /\ ~shouldExit
  /\ SendAfterEnd \/ (ctx = "open" /\ "send" \in Faults)
  /\ OutputError
  /\ UNCHANGED <<Untouched, outQ, flushQ, deqs, sizeVars, ctxVars>>

(* So is the failure to allocate what to receive into, after the send.     *)
WorkAllocFails ==
  /\ AtWork
  /\ ~shouldExit
  /\ "alloc" \in Faults
  /\ SendInput
  /\ OutputError
  /\ UNCHANGED <<Untouched, outQ, flushQ, deqs, sizeVars, ctx, ctxCfg>>

(* avcodec_receive_frame returned a frame, and a clone of it (unless that  *)
(* could not be allocated) is output.                                      *)
ReceiveFrame ==
  /\ ~shouldExit
  /\ ReceiveOutput
  /\ buf' = Tail(buf)
  /\ OutputFrame(Head(buf)) \/ ("clone" \in Faults /\ UNCHANGED outQ)
  /\ UNCHANGED <<workerVars, Untouched, errs, flushQ, deqs, sizeVars, ctx, ctxCfg>>

WorkReceives == wpc = "receive" /\ ReceiveFrame

WorkReceiveFails ==
  /\ wpc = "receive"
  /\ ~shouldExit
  /\ "receive" \in Faults
  /\ OutputError
  /\ UNCHANGED <<Untouched, outQ, flushQ, deqs, sizeVars, ctxVars>>

(* Mutant: the loop is left before the codec asks for more input.          *)
WorkReceivesSome ==
  /\ wpc = "receive"
  /\ Goto("count")
  /\ UNCHANGED <<Untouched, tsfnVars, sizeVars, ctxVars>>

(* The loop ends: the codec needs more input, or the worker must exit.     *)
WorkReceivesNoMore ==
  /\ wpc = "receive"
  /\ shouldExit \/ ReceiveAgain
  /\ Goto("count")
  /\ UNCHANGED <<Untouched, tsfnVars, sizeVars, ctxVars>>

WorkCounts ==
  /\ wpc = "count"
  /\ size' = Dec(size)
  /\ Goto("signal")
  /\ UNCHANGED <<Untouched, tsfnVars, deqFlag, ctxVars>>

WorkSignals ==
  /\ wpc = "signal"
  /\ SignalDequeue
  /\ Return
  /\ UNCHANGED <<Untouched, outQ, errs, flushQ, size, ctxVars>>

-----------------------------------------------------------------------------
(* OnFlush and OnReset.                                                    *)

(* Mutant: a flush without a context, or one that fails, is not completed. *)
FlushEndsAtOnceSilently ==
  /\ wpc = "flush"
  /\ ctx = "none" \/ SendRefuses
  /\ Return
  /\ UNCHANGED <<Untouched, tsfnVars, sizeVars, ctxVars>>

(* A flush without a context has nothing to drain; one whose NULL packet   *)
(* the codec refuses, or that finds no memory after it, fails.             *)
FlushEndsAtOnce ==
  /\ wpc = "flush"
  /\ \/ ctx = "none" /\ FlushComplete(msg.id, TRUE) /\ UNCHANGED ctx
     \/ /\ SendRefuses \/ (ctx # "none" /\ "send" \in Faults)
        /\ FlushComplete(msg.id, FALSE)
        /\ UNCHANGED ctx
     \/ /\ SendTakes \/ SendAfterEnd
        /\ "alloc" \in Faults
        /\ FlushComplete(msg.id, FALSE)
        /\ ctx' = "draining"
  /\ Return
  /\ UNCHANGED <<Untouched, outQ, errs, deqs, sizeVars, ctxCfg, buf>>

(* The NULL packet is accepted, or was sent before (AVERROR_EOF): the      *)
(* codec drains, and nothing takes it out of that mode but OnReset.        *)
FlushSends ==
  /\ wpc = "flush"
  /\ SendTakes \/ SendAfterEnd
  /\ ctx' = "draining"
  /\ Goto("drain")
  /\ UNCHANGED <<Untouched, tsfnVars, sizeVars, ctxCfg, buf>>

FlushDrainsOne == wpc = "drain" /\ ReceiveFrame

(* Mutant: a flush interrupted by shutdown is not completed.               *)
FlushEndsUnlessExiting ==
  /\ wpc = "drain"
  /\ \/ ~shouldExit /\ ReceiveEnd /\ FlushComplete(msg.id, TRUE)
     \/ shouldExit /\ UNCHANGED flushQ
  /\ Return
  /\ UNCHANGED <<Untouched, outQ, errs, deqs, sizeVars, ctxVars>>

(* Mutant: a flush that failed is reported as successful.                  *)
FlushEndsWell ==
  /\ wpc = "drain"
  /\ \/ shouldExit \/ ReceiveEnd
     \/ "receive" \in Faults
  /\ FlushComplete(msg.id, TRUE)
  /\ Return
  /\ UNCHANGED <<Untouched, outQ, errs, deqs, sizeVars, ctxVars>>

(* Mutant: a drained flush is never reported.                              *)
FlushEndsSilently ==
  /\ wpc = "drain"
  /\ shouldExit \/ ReceiveEnd
  /\ Return
  /\ UNCHANGED <<Untouched, tsfnVars, sizeVars, ctxVars>>

FlushEnds ==
  /\ wpc = "drain"
  /\ \/ (shouldExit \/ ReceiveEnd) /\ FlushComplete(msg.id, TRUE)
     \/ ~shouldExit /\ "receive" \in Faults /\ FlushComplete(msg.id, FALSE)
  /\ Return
  /\ UNCHANGED <<Untouched, outQ, errs, deqs, sizeVars, ctxVars>>

HandleFlush == FlushEndsAtOnce \/ FlushSends \/ FlushDrainsOne \/ FlushEnds

(* Mutant: the codec keeps what it holds.                                  *)
FlushBuffersEndsDraining ==
  /\ ctx' = IF ctx = "none" THEN "none" ELSE "open"
  /\ buf' = buf

(* avcodec_flush_buffers empties the codec and ends draining.              *)
FlushBuffers ==
  /\ ctx' = IF ctx = "none" THEN "none" ELSE "open"
  /\ buf' = <<>>

HandleReset ==
  /\ wpc = "reset"
  /\ Return
  /\ UNCHANGED <<Untouched, tsfnVars, sizeVars, ctxCfg>>

-----------------------------------------------------------------------------
(* Invariants.                                                             *)

HandlerType ==
  /\ active \in Config
  /\ ctx \in {"none", "open", "draining"}
  /\ ctxCfg \in Config
  /\ buf \in Seq(Inputs)
  /\ ctx = "none" => buf = <<>>

(* The requests that are not yet with the codec: the one in the worker's   *)
(* hand, before its send, and the queued ones.                             *)
InHandIds == IF AtWork THEN {msg.id} ELSE {}
WorkIds(messages) ==
  {messages[i].id : i \in {j \in DOMAIN messages : IsWork(messages[j])}}

Members(s) == {s[i] : i \in DOMAIN s}

InWorks == Members(buf) \cup InHandIds \cup WorkIds(queue)

(* When a flush is reported successful, every request queued before it has *)
(* left the queue, the worker and the codec (OnFlush drains to the end).   *)
FlushDrains ==
  shouldExit \/ \A i \in DOMAIN flushQ :
    flushQ[i].ok => \A n \in InWorks : n > flushMark[flushQ[i].id]

(* Once the worker has handled the message of a reset(), nothing from      *)
(* before the reset is left in the queue, the worker or the codec: what JS *)
(* still receives of it was in the TSFN by then.                           *)
ResetUnderway ==
  msg.type = "reset" \/ \E i \in DOMAIN queue : queue[i].type = "reset"

ResetDiscards ==
  state = "closed" \/ ResetUnderway \/ \A n \in InWorks : n > resetMark

(* From the last output JS saw to the last request queued, everything is   *)
(* in the order of the decode() or encode() calls: outputs are neither     *)
(* reordered nor repeated, whatever reset(), configure() and close() do in *)
(* between.                                                                *)
Increasing(s) == \A i, j \in DOMAIN s : i < j => s[i] < s[j]
Precede(S, T) == \A m \in S, n \in T : m < n

WorkIncreases(messages) ==
  \A i, j \in DOMAIN messages :
    i < j /\ IsWork(messages[i]) /\ IsWork(messages[j])
      => messages[i].id < messages[j].id

OutputOrder ==
  /\ Increasing(<<lastOut>> \o outQ \o buf)
  /\ Precede({lastOut} \cup Members(outQ) \cup Members(buf), InHandIds)
  /\ Precede({lastOut} \cup Members(outQ) \cup Members(buf) \cup InHandIds,
             WorkIds(queue))
  /\ WorkIncreases(queue)

(* Both orders together, those of every codec: flushes and outputs pass    *)
(* nothing on their way through queue, worker, codec and TSFN, whichever   *)
(* FFmpeg calls fail.  An encoder need not keep ResetDiscards (Encoder).   *)
PipelineInOrder == FlushDrains /\ OutputOrder

(* No request is lost on the way: with one configure, no reset and no      *)
(* error on its way, every one is in the queue, in the worker's hand, in   *)
(* the codec, in the TSFN, or was output.  In particular the send never    *)
(* answers EAGAIN, which would lose the packet (video_decoder.cpp:784).    *)
WorkConserved ==
  state = "configured" /\ configures = 1 /\ resets = 0
    /\ errs = 0 /\ jsIn # "onerror"
    => {lastOut} \cup Members(outQ) \cup InWorks = lastOut .. inputs

(* Violated claim.  "configured --flush()--> configured" (docs/todos/16-   *)
(* codec-state-machine.md:50): a flush leaves the codec usable, so that    *)
(* without any failing FFmpeg call no error is reported.                   *)
NoErrorWithoutFault == Faults = {} => errs = 0
=============================================================================
