------------------------- MODULE ImageDecoderProofs -------------------------
(***************************************************************************)
(* What holds of an ImageDecoder for every image, fault and bound: its     *)
(* types, that its decode promises are those of a PromiseTracker, that none*)
(* is forgotten, that the track list agrees with its tracks and the worker *)
(* gets the selected one, that a result holds the frame that was asked for,*)
(* and that ready and completed are settled when they should be.           *)
(***************************************************************************)
EXTENDS ImageDecoder, FiniteSetTheorems, SequenceTheorems, TLAPS

-----------------------------------------------------------------------------
(* Parts of the type invariant that a step leaves alone.                   *)

LEMMA QueueKept ==
  ASSUME QueueType, UNCHANGED <<queueVars, aborting>>
  PROVE  QueueType'
  BY DEF QueueType, queueVars

LEMMA WorkerKept ==
  ASSUME WorkerType, UNCHANGED <<wpc, msg, shouldExit, streaming>>
  PROVE  WorkerType'
  BY DEF WorkerType

LEMMA IoKept ==
  ASSUME IoType, UNCHANGED <<ioVars, codecVars>>
  PROVE  IoType'
  BY DEF IoType, ioVars, codecVars

LEMMA PostKept ==
  ASSUME PostType, UNCHANGED postVars
  PROVE  PostType'
  BY DEF PostType, postVars

LEMMA JsKept ==
  ASSUME JsType, UNCHANGED jsVars
  PROVE  JsType'
  BY DEF JsType, jsVars, promiseVars, trackVars, listVars

-----------------------------------------------------------------------------
(* Messages, and what handlers do in common.                               *)

LEMMA MessageTypes ==
  ASSUME NEW m \in Messages
  PROVE  /\ m.type \in HandlerPoints \ {"read"}
         /\ m.type = "decode" => m.id \in Ids /\ m.index \in Indexes
         /\ m.type = "track" => m.index \in Tracks \cup {0}
  BY DEF Messages, HandlerPoints

LEMMA HandledMessage ==
  ASSUME WorkerType, wpc \in HandlerPoints
  PROVE  /\ msg \in Messages
         /\ wpc \in {"decode", "read"} => msg.id \in Ids /\ msg.index \in Indexes
         /\ wpc = "track" => msg.index \in Tracks \cup {0}
<1>1. msg \in Messages /\ msg.type = IF wpc = "read" THEN "decode" ELSE wpc
  BY DEF WorkerType
<1> QED
  BY <1>1, MessageTypes

LEMMA ReturnTyped ==
  ASSUME WorkerType, Return, UNCHANGED streaming
  PROVE  WorkerType'
  BY DEF WorkerType, Return, HandlerPoints

LEMMA ReadTyped ==
  ASSUME WorkerType, wpc \in {"decode", "read"}, Stay("read"), UNCHANGED streaming
  PROVE  WorkerType'
  BY DEF WorkerType, Stay, HandlerPoints

LEMMA OutputErrorTyped ==
  ASSUME PostType, NEW id \in Ids \cup {0}, OutputError(id)
  PROVE  PostType'
  BY DEF PostType, OutputError

LEMMA VisibleTyped ==
  ASSUME NEW n \in Nat
  PROVE  Visible(n) \in 0 .. Len(File) /\ (Visible(n) > 0 => n > 0)
  BY ImageAssumption DEF Visible

LEMMA OpensTyped ==
  ASSUME IoType, PostType, NEW n \in Nat, Opens(n), data' \in Nat
  PROVE  IoType' /\ tracksReady' \in Seq(Tracks)
<1>1. n > 0
  BY VisibleTyped DEF Opens
<1>2. tracksReady' \in Seq(Tracks)
  BY ImageAssumption DEF Opens, PostType
<1>3. /\ io' = n /\ configured' = TRUE /\ ctx' = "open" /\ sel' = Best /\ current' = 0
      /\ pos' = 0 /\ buf' = <<>> /\ drifted' = FALSE
  BY DEF Opens
<1>4. 0 \in 0 .. Len(File) /\ Best \in Tracks
  BY ImageAssumption
<1>5. configured' \in BOOLEAN /\ drifted' \in BOOLEAN
  BY <1>3
<1>6. buf' \in Seq(Packets) /\ ctx' \in {"none", "open", "draining"}
  BY <1>3
<1>7. io' \in Nat /\ io' > 0 /\ sel' \in Tracks /\ current' \in Nat /\ pos' \in 0 .. Len(File)
  BY <1>1, <1>3, <1>4
<1>8. IoType'
  BY <1>5, <1>6, <1>7 DEF IoType
<1> QED
  BY <1>2, <1>8

LEMMA FailsTyped ==
  ASSUME IoType, NEW n \in Nat, FailsToOpen(n), data' \in Nat
  PROVE  IoType'
  BY DEF IoType, FailsToOpen

LEMMA RewindTyped ==
  ASSUME IoType, Rewind, UNCHANGED ioVars
  PROVE  IoType'
<1>1. ctx' \in {"none", "open", "draining"} /\ (ctx' # "none" => io' > 0)
  BY DEF IoType, Rewind, ioVars
<1>2. pos' \in 0 .. Len(File)
  BY ImageAssumption DEF IoType, Rewind
<1>3. drifted' \in BOOLEAN
  BY DEF IoType, Rewind
<1>4. sel' \in Tracks /\ current' \in Nat /\ buf' \in Seq(Packets)
  BY DEF IoType, Rewind
<1> QED
  BY <1>1, <1>2, <1>3, <1>4 DEF IoType, ioVars

LEMMA UseFrameTyped ==
  ASSUME WorkerType, PostType, current \in Nat, wpc = "read",
         NEW frame \in Packets \cup {0}, NEW sure \in BOOLEAN,
         UseFrame(frame, sure), UNCHANGED streaming
  PROVE  WorkerType' /\ PostType' /\ current' \in Nat
<1>1. msg.id \in Ids /\ msg.index \in Indexes
  BY HandledMessage DEF HandlerPoints
<1>2. msg.index \in Nat
  BY <1>1, BoundsAssumption DEF Indexes
<1>3. CASE current < msg.index
  <2>1. current' = current + 1 /\ Stay("read") /\ UNCHANGED postVars
    BY <1>3 DEF UseFrame
  <2> QED
    BY <2>1, ReadTyped, PostKept
<1>4. CASE ~(current < msg.index)
  <2> DEFINE result == [id |-> msg.id, index |-> msg.index, frame |-> frame, sure |-> sure]
  <2>1. /\ current' = msg.index + 1 /\ Return /\ results' = Append(results, result)
        /\ UNCHANGED <<errors, tracksReady, completions>>
    BY <1>4 DEF UseFrame
  <2>2. result \in [id : Ids, index : Indexes, frame : Packets \cup {0}, sure : BOOLEAN]
    BY <1>1
  <2> HIDE DEF result
  <2>3. PostType'
    BY <2>1, <2>2 DEF PostType
  <2> QED
    BY <1>2, <2>1, <2>3, ReturnTyped
<1> QED
  BY <1>3, <1>4

-----------------------------------------------------------------------------
(* The worker's steps.                                                     *)

LEMMA LoopTestTyped ==
  ASSUME TypeOK, LoopTest, UNCHANGED jsVars
  PROVE  TypeOK'
<1>1. QueueType'
  BY QueueKept DEF TypeOK, LoopTest, jsVars
<1>2. WorkerType'
  BY DEF TypeOK, WorkerType, LoopTest, Stay, HandlerPoints
<1>3. IoType'
  BY IoKept DEF TypeOK, LoopTest
<1>4. PostType'
  BY PostKept DEF TypeOK, LoopTest
<1>5. JsType'
  BY JsKept DEF TypeOK, LoopTest
<1> QED
  BY <1>1, <1>2, <1>3, <1>4, <1>5 DEF TypeOK

LEMMA DispatchTyped ==
  ASSUME TypeOK, Dispatch, UNCHANGED jsVars
  PROVE  TypeOK'
<1>1. QueueType'
  BY DEF TypeOK, QueueType, Dispatch, TakeFront, jsVars
<1>2. WorkerType'
  <2>1. Head(queue) \in Messages
    BY DEF TypeOK, QueueType, Dispatch, TakeFront
  <2>2. /\ wpc' \in HandlerPoints /\ wpc' # "read" /\ wpc' # "exited"
        /\ msg' \in Messages /\ msg'.type = wpc'
    BY <2>1, MessageTypes DEF Dispatch, HandlerPoints
  <2>3. shouldExit' \in BOOLEAN /\ streaming' \in BOOLEAN
    BY DEF TypeOK, WorkerType, Dispatch
  <2> QED
    BY <2>2, <2>3 DEF WorkerType
<1>3. IoType'
  BY IoKept DEF TypeOK, Dispatch
<1>4. PostType'
  BY PostKept DEF TypeOK, Dispatch
<1>5. JsType'
  BY JsKept DEF TypeOK, Dispatch
<1> QED
  BY <1>1, <1>2, <1>3, <1>4, <1>5 DEF TypeOK

LEMMA TimeoutTyped ==
  ASSUME TypeOK, Timeout, UNCHANGED jsVars
  PROVE  TypeOK'
<1>1. QueueType'
  BY QueueKept DEF TypeOK, Timeout, TakeNothing, jsVars
<1>2. WorkerType'
  BY DEF TypeOK, WorkerType, Timeout, Stay, HandlerPoints
<1>3. IoType'
  BY IoKept DEF TypeOK, Timeout
<1>4. PostType'
  BY PostKept DEF TypeOK, Timeout
<1>5. JsType'
  BY JsKept DEF TypeOK, Timeout
<1> QED
  BY <1>1, <1>2, <1>3, <1>4, <1>5 DEF TypeOK

LEMMA OnConfigureTyped ==
  ASSUME TypeOK, OnConfigure, UNCHANGED jsVars
  PROVE  TypeOK'
<1>1. QueueType'
  BY QueueKept DEF TypeOK, OnConfigure, jsVars
<1>2. WorkerType'
  BY ReturnTyped DEF TypeOK, OnConfigure
<1>3. IoType'
  <2>1. CASE UNCHANGED <<ioVars, codecVars>>
    BY <2>1, IoKept DEF TypeOK
  <2>2. CASE data' = Chunks /\ (Opens(Chunks) \/ FailsToOpen(Chunks))
    BY <2>2, ImageAssumption, OpensTyped, FailsTyped DEF TypeOK
  <2> QED
    BY <2>1, <2>2 DEF OnConfigure
<1>4. PostType'
  <2>1. CASE UNCHANGED postVars
    BY <2>1, PostKept DEF TypeOK
  <2>2. CASE OutputError(0)
    BY <2>2, OutputErrorTyped DEF TypeOK
  <2>3. CASE /\ data' = Chunks /\ Opens(Chunks)
             /\ completions' = completions + 1 /\ UNCHANGED <<results, errors>>
    BY <2>3, ImageAssumption, OpensTyped DEF TypeOK, PostType
  <2> QED
    BY <2>1, <2>2, <2>3 DEF OnConfigure
<1>5. JsType'
  BY JsKept DEF TypeOK, OnConfigure
<1> QED
  BY <1>1, <1>2, <1>3, <1>4, <1>5 DEF TypeOK

LEMMA OnStreamDataTyped ==
  ASSUME TypeOK, OnStreamData, UNCHANGED jsVars
  PROVE  TypeOK'
<1>1. QueueType'
  BY QueueKept DEF TypeOK, OnStreamData, jsVars
<1>2. WorkerType'
  BY ReturnTyped DEF TypeOK, OnStreamData
<1>3. IoType'
  <2>1. data + 1 \in Nat /\ data' = data + 1
    BY DEF TypeOK, IoType, OnStreamData
  <2>2. CASE UNCHANGED <<io, configured, codecVars>>
    BY <2>1, <2>2 DEF TypeOK, IoType, codecVars
  <2>3. CASE Opens(data + 1) \/ FailsToOpen(data + 1)
    BY <2>1, <2>3, OpensTyped, FailsTyped DEF TypeOK
  <2> QED
    BY <2>2, <2>3 DEF OnStreamData
<1>4. PostType'
  <2>1. data + 1 \in Nat /\ data' = data + 1
    BY DEF TypeOK, IoType, OnStreamData
  <2>2. CASE UNCHANGED postVars
    BY <2>2, PostKept DEF TypeOK
  <2>3. CASE OutputError(0)
    BY <2>3, OutputErrorTyped DEF TypeOK
  <2>4. CASE Opens(data + 1) /\ UNCHANGED <<results, errors, completions>>
    BY <2>1, <2>4, OpensTyped DEF TypeOK, PostType
  <2> QED
    BY <2>2, <2>3, <2>4 DEF OnStreamData
<1>5. JsType'
  BY JsKept DEF TypeOK, OnStreamData
<1> QED
  BY <1>1, <1>2, <1>3, <1>4, <1>5 DEF TypeOK

LEMMA OnStreamEndTyped ==
  ASSUME TypeOK, OnStreamEnd, UNCHANGED jsVars
  PROVE  TypeOK'
<1>1. QueueType'
  BY QueueKept DEF TypeOK, OnStreamEnd, jsVars
<1>2. WorkerType'
  BY ReturnTyped DEF TypeOK, OnStreamEnd
<1>3. IoType'
  <2>1. CASE UNCHANGED <<ioVars, codecVars>>
    BY <2>1, IoKept DEF TypeOK
  <2>2. CASE data' = data /\ (Opens(data) \/ FailsToOpen(data))
    BY <2>2, OpensTyped, FailsTyped DEF TypeOK, IoType
  <2> QED
    BY <2>1, <2>2 DEF OnStreamEnd
<1>4. PostType'
  <2>1. CASE completions' = completions + 1 /\ UNCHANGED <<results, errors, tracksReady>>
    BY <2>1 DEF TypeOK, PostType
  <2>2. CASE OutputError(0)
    BY <2>2, OutputErrorTyped DEF TypeOK
  <2>3. CASE /\ Opens(data) /\ data' = data
             /\ completions' = completions + 1 /\ UNCHANGED <<results, errors>>
    BY <2>3, OpensTyped DEF TypeOK, PostType, IoType
  <2>4. CASE FailsToOpen(data) /\ errors' = errors \o <<0, 0>>
               /\ UNCHANGED <<results, completions>>
    <3>1. <<0, 0>> \in Seq(Ids \cup {0})
      OBVIOUS
    <3>2. errors' \in Seq(Ids \cup {0})
      BY <2>4, <3>1 DEF TypeOK, PostType
    <3> QED
      BY <2>4, <3>2 DEF TypeOK, PostType, FailsToOpen
  <2> QED
    BY <2>1, <2>2, <2>3, <2>4 DEF OnStreamEnd
<1>5. JsType'
  BY JsKept DEF TypeOK, OnStreamEnd
<1> QED
  BY <1>1, <1>2, <1>3, <1>4, <1>5 DEF TypeOK

LEMMA OnStreamErrorTyped ==
  ASSUME TypeOK, OnStreamError, UNCHANGED jsVars
  PROVE  TypeOK'
<1>1. QueueType'
  BY QueueKept DEF TypeOK, OnStreamError, jsVars
<1>2. WorkerType'
  BY ReturnTyped DEF TypeOK, OnStreamError
<1>3. IoType'
  BY IoKept DEF TypeOK, OnStreamError
<1>4. PostType'
  BY OutputErrorTyped DEF TypeOK, OnStreamError
<1>5. JsType'
  BY JsKept DEF TypeOK, OnStreamError
<1> QED
  BY <1>1, <1>2, <1>3, <1>4, <1>5 DEF TypeOK

LEMMA OnResetTyped ==
  ASSUME TypeOK, OnReset, UNCHANGED jsVars
  PROVE  TypeOK'
<1>1. QueueType'
  BY QueueKept DEF TypeOK, OnReset, jsVars
<1>2. WorkerType'
  BY ReturnTyped DEF TypeOK, OnReset
<1>3. IoType'
  BY RewindTyped DEF TypeOK, OnReset
<1>4. PostType'
  BY PostKept DEF TypeOK, OnReset
<1>5. JsType'
  BY JsKept DEF TypeOK, OnReset
<1> QED
  BY <1>1, <1>2, <1>3, <1>4, <1>5 DEF TypeOK

LEMMA OnCloseTyped ==
  ASSUME TypeOK, OnClose, UNCHANGED jsVars
  PROVE  TypeOK'
<1>1. QueueType'
  BY QueueKept DEF TypeOK, OnClose, jsVars
<1>2. WorkerType'
  BY DEF TypeOK, WorkerType, OnClose, HandlerPoints
<1>3. IoType'
  BY DEF TypeOK, IoType, OnClose
<1>4. PostType'
  BY PostKept DEF TypeOK, OnClose
<1>5. JsType'
  BY JsKept DEF TypeOK, OnClose
<1> QED
  BY <1>1, <1>2, <1>3, <1>4, <1>5 DEF TypeOK

LEMMA OnUpdateTrackTyped ==
  ASSUME TypeOK, OnUpdateTrack, UNCHANGED jsVars
  PROVE  TypeOK'
<1>1. QueueType'
  BY QueueKept DEF TypeOK, OnUpdateTrack, jsVars
<1>2. WorkerType'
  BY ReturnTyped DEF TypeOK, OnUpdateTrack
<1>3. IoType'
  <2>1. CASE UNCHANGED codecVars
    BY <2>1, IoKept DEF TypeOK, OnUpdateTrack
  <2>2. CASE msg.index \notin {0, sel} /\ io # 0
    <3>1. msg.index \in Tracks
      BY <2>2, HandledMessage DEF TypeOK, OnUpdateTrack, HandlerPoints
    <3>2. /\ sel' = msg.index /\ buf' = <<>> /\ drifted' = TRUE /\ pos' = pos
          /\ current' \in {0, current} /\ ctx' \in {"open", "none"}
          /\ UNCHANGED ioVars
      BY <2>2 DEF OnUpdateTrack
    <3>3. buf' \in Seq(Packets) /\ drifted' \in BOOLEAN /\ configured' \in BOOLEAN
      BY <3>2 DEF TypeOK, IoType, ioVars
    <3>4. ctx' \in {"open", "none"} /\ (ctx' # "none" => io' > 0)
      BY <2>2, <3>2 DEF TypeOK, IoType, ioVars
    <3> QED
      BY <3>1, <3>2, <3>3, <3>4 DEF TypeOK, IoType, ioVars
  <2> QED
    BY <2>1, <2>2 DEF OnUpdateTrack
<1>4. PostType'
  <2>1. UNCHANGED postVars \/ OutputError(0)
    BY DEF OnUpdateTrack
  <2> QED
    BY <2>1, PostKept, OutputErrorTyped DEF TypeOK
<1>5. JsType'
  BY JsKept DEF TypeOK, OnUpdateTrack
<1> QED
  BY <1>1, <1>2, <1>3, <1>4, <1>5 DEF TypeOK

LEMMA OnDecodeRefusesTyped ==
  ASSUME TypeOK, OnDecodeRefuses, UNCHANGED jsVars
  PROVE  TypeOK'
<1>1. QueueType'
  BY QueueKept DEF TypeOK, OnDecodeRefuses, jsVars
<1>2. WorkerType'
  BY ReturnTyped DEF TypeOK, OnDecodeRefuses
<1>3. IoType'
  BY IoKept DEF TypeOK, OnDecodeRefuses
<1>4. PostType'
  <2>1. msg.id \in Ids
    BY HandledMessage DEF TypeOK, OnDecodeRefuses, HandlerPoints
  <2> QED
    BY <2>1, OutputErrorTyped DEF TypeOK, OnDecodeRefuses
<1>5. JsType'
  BY JsKept DEF TypeOK, OnDecodeRefuses
<1> QED
  BY <1>1, <1>2, <1>3, <1>4, <1>5 DEF TypeOK

LEMMA OnDecodeSeeksTyped ==
  ASSUME TypeOK, OnDecodeSeeks, UNCHANGED jsVars
  PROVE  TypeOK'
<1>1. QueueType'
  BY QueueKept DEF TypeOK, OnDecodeSeeks, jsVars
<1>2. WorkerType'
  BY ReadTyped DEF TypeOK, OnDecodeSeeks
<1>3. IoType'
  <2>1. (Rewind \/ UNCHANGED codecVars) /\ UNCHANGED ioVars
    BY DEF OnDecodeSeeks
  <2> QED
    BY <2>1, RewindTyped, IoKept DEF TypeOK
<1>4. PostType'
  BY PostKept DEF TypeOK, OnDecodeSeeks
<1>5. JsType'
  BY JsKept DEF TypeOK, OnDecodeSeeks
<1> QED
  BY <1>1, <1>2, <1>3, <1>4, <1>5 DEF TypeOK

LEMMA SentTyped ==
  ASSUME TypeOK, pos < Visible(io)
  PROVE  pos + 1 \in Packets /\ Sent \in Seq(Packets)
<1>1. pos + 1 \in Packets
  BY VisibleTyped DEF TypeOK, IoType, Packets
<1> QED
  BY <1>1 DEF TypeOK, IoType, Sent


LEMMA OnDecodeReadsTyped ==
  ASSUME TypeOK, OnDecodeReads, UNCHANGED jsVars
  PROVE  TypeOK'
<1>1. QueueType'
  BY QueueKept DEF TypeOK, OnDecodeReads, jsVars
<1>2. WorkerType'
  BY WorkerKept DEF TypeOK, OnDecodeReads
<1>3. IoType'
  <2>1. pos + 1 \in Packets /\ Sent \in Seq(Packets)
    BY SentTyped DEF OnDecodeReads
  <2>2. pos' \in 0 .. Len(File) /\ buf' \in Seq(Packets)
    BY <2>1 DEF OnDecodeReads, Packets, TypeOK, IoType
  <2> QED
    BY <2>2 DEF TypeOK, IoType, OnDecodeReads, ioVars
<1>4. PostType'
  BY PostKept DEF TypeOK, OnDecodeReads
<1>5. JsType'
  BY JsKept DEF TypeOK, OnDecodeReads
<1> QED
  BY <1>1, <1>2, <1>3, <1>4, <1>5 DEF TypeOK

LEMMA OnDecodeReceivesTyped ==
  ASSUME TypeOK, OnDecodeReceives, UNCHANGED jsVars
  PROVE  TypeOK'
<1>1. /\ Head(Sent) \in Packets \cup {0} /\ Tail(Sent) \in Seq(Packets)
      /\ pos + 1 \in Packets
  BY SentTyped, BoundsAssumption DEF OnDecodeReceives
<1>2. WorkerType' /\ PostType' /\ current' \in Nat
  <2>1. wpc = "read" /\ current \in Nat /\ UNCHANGED streaming
    BY DEF OnDecodeReceives, MayRead, TypeOK, IoType
  <2>2. (~drifted) \in BOOLEAN
    BY DEF TypeOK, IoType
  <2> QED
    BY <1>1, <2>1, <2>2, UseFrameTyped DEF TypeOK, OnDecodeReceives
<1>3. IoType'
  <2>1. pos' \in 0 .. Len(File) /\ buf' \in Seq(Packets)
    BY <1>1 DEF OnDecodeReceives, Packets, TypeOK, IoType
  <2> QED
    BY <1>2, <2>1 DEF TypeOK, IoType, OnDecodeReceives, ioVars
<1>4. QueueType'
  BY QueueKept DEF TypeOK, OnDecodeReceives, jsVars
<1>5. JsType'
  BY JsKept DEF TypeOK, OnDecodeReceives
<1> QED
  BY <1>2, <1>3, <1>4, <1>5 DEF TypeOK


LEMMA OnDecodeDrainsTyped ==
  ASSUME TypeOK, OnDecodeDrains, UNCHANGED jsVars
  PROVE  TypeOK'
<1>1. Head(buf) \in Packets \cup {0} /\ Tail(buf) \in Seq(Packets)
  BY DEF OnDecodeDrains, TypeOK, IoType
<1>2. WorkerType' /\ PostType' /\ current' \in Nat
  <2>1. wpc = "read" /\ current \in Nat /\ UNCHANGED streaming
    BY DEF OnDecodeDrains, MayRead, TypeOK, IoType
  <2>2. (~drifted) \in BOOLEAN
    BY DEF TypeOK, IoType
  <2> QED
    BY <1>1, <2>1, <2>2, UseFrameTyped DEF TypeOK, OnDecodeDrains
<1>3. IoType'
  <2>1. io > 0 /\ ctx' = "draining" /\ buf' \in Seq(Packets)
    BY <1>1 DEF OnDecodeDrains, MayRead, TypeOK, IoType
  <2> QED
    BY <1>2, <2>1 DEF TypeOK, IoType, OnDecodeDrains, ioVars
<1>4. QueueType'
  BY QueueKept DEF TypeOK, OnDecodeDrains, jsVars
<1>5. JsType'
  BY JsKept DEF TypeOK, OnDecodeDrains
<1> QED
  BY <1>2, <1>3, <1>4, <1>5 DEF TypeOK


LEMMA OnDecodeFailsTyped ==
  ASSUME TypeOK, OnDecodeFails, UNCHANGED jsVars
  PROVE  TypeOK'
<1>1. QueueType'
  BY QueueKept DEF TypeOK, OnDecodeFails, jsVars
<1>2. WorkerType'
  BY ReturnTyped DEF TypeOK, OnDecodeFails
<1>3. IoType'
  <2>1. CASE UNCHANGED codecVars
    BY <2>1, IoKept DEF TypeOK, OnDecodeFails
  <2>2. CASE NoMoreFrames
    BY <2>2 DEF TypeOK, IoType, OnDecodeFails, NoMoreFrames, MayRead, ioVars
  <2>3. CASE ReadFails
    <3>1. pos + 1 \in 0 .. Len(File) /\ Sent \in Seq(Packets)
      BY <2>3, SentTyped DEF ReadFails, Packets
    <3>2. File[pos + 1] = sel => Tail(Sent) \in Seq(Packets)
      BY <3>1 DEF Sent, TypeOK, IoType
    <3>3. /\ pos' \in 0 .. Len(File) /\ buf' \in Seq(Packets)
          /\ drifted' \in BOOLEAN /\ UNCHANGED <<ctx, sel, current>>
      BY <2>3, <3>1, <3>2 DEF TypeOK, IoType, ReadFails
    <3> QED
      BY <3>3 DEF TypeOK, IoType, OnDecodeFails, ioVars
  <2>4. CASE DrainFails
    <3>1. buf # <<>> => Tail(buf) \in Seq(Packets)
      BY DEF TypeOK, IoType
    <3>2. /\ buf' \in Seq(Packets) /\ drifted' \in BOOLEAN
          /\ ctx' \in {ctx, "draining"} /\ io > 0 /\ UNCHANGED <<sel, current, pos>>
      BY <2>4, <3>1 DEF TypeOK, IoType, DrainFails, MayRead
    <3> QED
      BY <3>2 DEF TypeOK, IoType, OnDecodeFails, ioVars
  <2> QED
    BY <2>1, <2>2, <2>3, <2>4 DEF OnDecodeFails
<1>4. PostType'
  <2>1. msg.id \in Ids
    BY HandledMessage DEF TypeOK, OnDecodeFails, HandlerPoints
  <2> QED
    BY <2>1, OutputErrorTyped DEF TypeOK, OnDecodeFails
<1>5. JsType'
  BY JsKept DEF TypeOK, OnDecodeFails
<1> QED
  BY <1>1, <1>2, <1>3, <1>4, <1>5 DEF TypeOK

LEMMA OnDecodeReadsStaleTyped ==
  ASSUME TypeOK, OnDecodeReadsStale, UNCHANGED jsVars
  PROVE  TypeOK'
<1>1. /\ wpc = "read" /\ current \in Nat /\ UNCHANGED <<streaming, queueVars>>
      /\ UNCHANGED <<ioVars, ctx, sel, pos, buf>> /\ drifted' = TRUE
  BY DEF OnDecodeReadsStale, MayRead, TypeOK, IoType
<1>2. WorkerType' /\ PostType' /\ current' \in Nat
  <2>1. CASE UseFrame(0, FALSE)
    BY <1>1, <2>1, UseFrameTyped DEF TypeOK
  <2>2. CASE OutputError(msg.id) /\ Return /\ UNCHANGED current
    <3>1. msg.id \in Ids
      BY <1>1, HandledMessage DEF TypeOK, HandlerPoints
    <3> QED
      BY <1>1, <2>2, <3>1, OutputErrorTyped, ReturnTyped DEF TypeOK
  <2> QED
    BY <2>1, <2>2 DEF OnDecodeReadsStale
<1>3. drifted' \in BOOLEAN
  BY <1>1
<1>4. IoType'
  BY <1>1, <1>2, <1>3 DEF TypeOK, IoType, ioVars
<1>5. QueueType'
  BY <1>1, QueueKept DEF TypeOK, jsVars
<1>6. JsType'
  BY JsKept DEF TypeOK
<1> QED
  BY <1>2, <1>4, <1>5, <1>6 DEF TypeOK

LEMMA WorkerTyped ==
  ASSUME TypeOK, Worker
  PROVE  TypeOK'
<1>1. CASE LoopTest \/ Dispatch \/ Timeout
  BY <1>1, LoopTestTyped, DispatchTyped, TimeoutTyped DEF Worker
<1>2. CASE OnConfigure \/ OnStreamData \/ OnStreamEnd \/ OnStreamError
  BY <1>2, OnConfigureTyped, OnStreamDataTyped, OnStreamEndTyped, OnStreamErrorTyped DEF Worker
<1>3. CASE OnReset \/ OnClose \/ OnUpdateTrack
  BY <1>3, OnResetTyped, OnCloseTyped, OnUpdateTrackTyped DEF Worker
<1>4. CASE OnDecode
  BY <1>4, OnDecodeRefusesTyped, OnDecodeSeeksTyped, OnDecodeReadsTyped,
     OnDecodeReceivesTyped, OnDecodeDrainsTyped, OnDecodeFailsTyped,
     OnDecodeReadsStaleTyped DEF Worker, OnDecode
<1> QED
  BY <1>1, <1>2, <1>3, <1>4 DEF Worker, WorkerStep, Handlers

-----------------------------------------------------------------------------
(* The steps of the JS thread.                                             *)

LEMMA EnqueueTyped ==
  ASSUME QueueType, NEW m \in Messages, Enqueue(m), UNCHANGED dropped
  PROVE  QueueType'
<1>1. queue' \in Seq(Messages)
  BY DEF QueueType, Enqueue
<1> QED
  BY <1>1 DEF QueueType, Enqueue

LEMMA WorkerKeeps ==
  ASSUME TypeOK, UNCHANGED workerVars
  PROVE  WorkerType' /\ IoType'
  BY WorkerKept, IoKept DEF TypeOK, workerVars

LEMMA SettleTyped ==
  ASSUME JsType, NEW id, NEW how \in {"resolved", "rejected"}, Settle(id, how)
  PROVE  /\ nextId' \in Nat /\ pending' \subseteq Ids
         /\ outcome' \in [Ids -> {"unset", "resolved", "rejected"}]
  BY DEF JsType, Settle

LEMMA OnceTyped ==
  ASSUME NEW p \in {"unset", "resolved", "rejected"}, NEW how \in {"resolved", "rejected"}
  PROVE  Once(p, how) \in {"unset", "resolved", "rejected"}
  BY DEF Once

LEMMA DecodeTyped ==
  ASSUME TypeOK, NEW index \in Indexes, Decode(index)
  PROVE  TypeOK'
<1>1. WorkerType' /\ IoType'
  BY WorkerKeeps DEF Decode
<1>2. QueueType'
  <2>1. [type |-> "decode", id |-> nextId, index |-> index] \in Messages
    BY DEF Messages, Decode
  <2> QED
    BY <2>1, EnqueueTyped, Zenon DEF TypeOK, Decode
<1>3. PostType'
  BY PostKept DEF TypeOK, Decode
<1>4. JsType'
  <2>1. nextId' \in Nat /\ pending' \subseteq Ids
    BY DEF TypeOK, JsType, Decode
  <2> QED
    BY <2>1 DEF TypeOK, JsType, Decode, promiseVars, trackVars, listVars
<1> QED
  BY <1>1, <1>2, <1>3, <1>4 DEF TypeOK

LEMMA ResetTyped ==
  ASSUME TypeOK, Reset
  PROVE  TypeOK'
<1>1. WorkerType' /\ IoType'
  BY WorkerKeeps DEF Reset
<1>2. QueueType'
  BY DEF TypeOK, QueueType, Reset, BeginClear
<1>3. PostType'
  BY PostKept DEF TypeOK, Reset
<1>4. JsType'
  BY DEF TypeOK, JsType, Reset, promiseVars, trackVars, listVars
<1> QED
  BY <1>1, <1>2, <1>3, <1>4 DEF TypeOK

LEMMA CloseTyped ==
  ASSUME TypeOK, Close
  PROVE  TypeOK'
<1>1. WorkerType' /\ IoType'
  BY WorkerKeeps DEF Close
<1>2. QueueType'
  BY DEF TypeOK, QueueType, Close, BeginClear
<1>3. PostType'
  BY PostKept DEF TypeOK, Close
<1>4. JsType'
  BY DEF TypeOK, JsType, Close, promiseVars, trackVars, listVars
<1> QED
  BY <1>1, <1>2, <1>3, <1>4 DEF TypeOK

LEMMA AbortClearsTyped ==
  ASSUME TypeOK, AbortClears
  PROVE  TypeOK'
<1>1. WorkerType' /\ IoType'
  BY WorkerKeeps DEF AbortClears
<1>2. QueueType'
  <2>1. CASE queue = <<>>
    BY <2>1 DEF TypeOK, QueueType, AbortClears, ClearDecodes, jsVars
  <2>2. CASE queue # <<>>
    <3>1. Head(queue) \in Messages /\ Tail(queue) \in Seq(Messages)
      BY <2>2 DEF TypeOK, QueueType
    <3>2. Head(queue).type = "decode" => Head(queue).id \in Ids
      BY <3>1, MessageTypes
    <3>3. queue' \in Seq(Messages) /\ UNCHANGED <<clearing, qclosed, aborting>>
      BY <2>2, <3>1 DEF AbortClears, ClearDecodes, jsVars
    <3>4. remaining' \in Seq(Messages)
      <4>1. remaining' = remaining \/ remaining' = Append(remaining, Head(queue))
        BY <2>2 DEF AbortClears, ClearDecodes
      <4> QED
        BY <3>1, <4>1 DEF TypeOK, QueueType
    <3>5. dropped' \in Seq(Ids)
      BY <2>2, <3>2 DEF TypeOK, QueueType, AbortClears, ClearDecodes
    <3> QED
      BY <3>3, <3>4, <3>5 DEF TypeOK, QueueType
  <2> QED
    BY <2>1, <2>2
<1>3. PostType'
  BY PostKept DEF TypeOK, AbortClears
<1>4. JsType'
  BY JsKept DEF TypeOK, AbortClears
<1> QED
  BY <1>1, <1>2, <1>3, <1>4 DEF TypeOK

LEMMA AbortRejectsTyped ==
  ASSUME TypeOK, AbortRejects
  PROVE  TypeOK'
<1>1. WorkerType' /\ IoType'
  BY WorkerKeeps DEF AbortRejects
<1>2. QueueType'
  <2>1. dropped' \in Seq(Ids)
    BY DEF TypeOK, QueueType, AbortRejects
  <2> QED
    BY <2>1 DEF TypeOK, QueueType, AbortRejects
<1>3. PostType'
  BY PostKept DEF TypeOK, AbortRejects
<1>4. JsType'
  <2>1. /\ nextId' \in Nat /\ pending' \subseteq Ids
        /\ outcome' \in [Ids -> {"unset", "resolved", "rejected"}]
    BY SettleTyped DEF TypeOK, AbortRejects, JsType, promiseVars
  <2> QED
    BY <2>1 DEF TypeOK, JsType, AbortRejects, trackVars, listVars
<1> QED
  BY <1>1, <1>2, <1>3, <1>4 DEF TypeOK

LEMMA AbortEndsTyped ==
  ASSUME TypeOK, AbortEnds
  PROVE  TypeOK'
<1>1. WorkerType' /\ IoType'
  BY WorkerKeeps DEF AbortEnds
<1>2. QueueType'
  <2>1. [type |-> IF closed THEN "close" ELSE "reset"] \in Messages
    BY DEF Messages
  <2> QED
    BY <2>1, EnqueueTyped, Zenon DEF TypeOK, AbortEnds
<1>3. PostType'
  BY PostKept DEF TypeOK, AbortEnds
<1>4. JsType'
  <2>1. /\ ready' \in {"unset", "resolved", "rejected"}
        /\ completed' \in {"unset", "resolved", "rejected"}
    BY OnceTyped DEF TypeOK, JsType, AbortEnds
  <2> QED
    BY <2>1 DEF TypeOK, JsType, AbortEnds, promiseVars, trackVars, listVars
<1> QED
  BY <1>1, <1>2, <1>3, <1>4 DEF TypeOK

LEMMA SelectTrackTyped ==
  ASSUME TypeOK, NEW t \in Tracks, NEW value \in BOOLEAN, SelectTrack(t, value)
  PROVE  TypeOK'
<1>1. WorkerType' /\ IoType'
  BY WorkerKeeps DEF SelectTrack
<1>2. QueueType'
  <2>1. selectedIndex' \in Tracks \cup {0}
    BY DEF SelectTrack
  <2>2. [type |-> "track", index |-> selectedIndex'] \in Messages
    BY <2>1 DEF Messages
  <2>3. CASE closed
    BY <2>3 DEF TypeOK, QueueType, SelectTrack
  <2>4. CASE ~closed
    BY <2>2, <2>4, EnqueueTyped, Zenon DEF TypeOK, SelectTrack
  <2> QED
    BY <2>3, <2>4
<1>3. PostType'
  BY PostKept DEF TypeOK, SelectTrack
<1>4. JsType'
  <2>1. selectedIndex' \in Tracks \cup {0} /\ selected' \subseteq Tracks /\ selects' \in Nat
    BY DEF TypeOK, JsType, SelectTrack
  <2> QED
    BY <2>1 DEF TypeOK, JsType, SelectTrack, promiseVars, trackVars
<1> QED
  BY <1>1, <1>2, <1>3, <1>4 DEF TypeOK

LEMMA StreamGivesTyped ==
  ASSUME TypeOK, NEW m \in Messages, StreamGives(m),
         stream' \in {"reading", "over"}, chunks' \in Nat
  PROVE  TypeOK'
<1>1. WorkerType' /\ IoType'
  BY WorkerKeeps DEF StreamGives
<1>2. QueueType'
  <2>1. CASE ~Heard(m)
    BY <2>1 DEF TypeOK, QueueType, StreamGives
  <2>2. CASE Heard(m)
    BY <2>2, EnqueueTyped, Zenon DEF TypeOK, StreamGives
  <2> QED
    BY <2>1, <2>2
<1>3. PostType'
  BY PostKept DEF TypeOK, StreamGives
<1>4. JsType'
  BY DEF TypeOK, JsType, StreamGives, promiseVars, trackVars, listVars
<1> QED
  BY <1>1, <1>2, <1>3, <1>4 DEF TypeOK

LEMMA StreamTyped ==
  ASSUME TypeOK, StreamChunk \/ StreamEnds \/ StreamFails
  PROVE  TypeOK'
<1>1. /\ [type |-> "data"] \in Messages /\ [type |-> "end"] \in Messages
      /\ [type |-> "error"] \in Messages
  BY DEF Messages
<1>2. chunks \in Nat
  BY DEF TypeOK, JsType
<1>3. CASE StreamChunk
  <2>1. stream' \in {"reading", "over"} /\ chunks' \in Nat
    BY <1>2, <1>3 DEF StreamChunk, StreamGives
  <2> QED
    BY <1>1, <1>3, <2>1, StreamGivesTyped DEF StreamChunk
<1>4. CASE StreamEnds
  BY <1>1, <1>2, <1>4, StreamGivesTyped DEF StreamEnds
<1>5. CASE StreamFails
  BY <1>1, <1>2, <1>5, StreamGivesTyped DEF StreamFails
<1> QED
  BY <1>3, <1>4, <1>5

LEMMA OnDecodeResultTyped ==
  ASSUME TypeOK, OnDecodeResult
  PROVE  TypeOK'
<1>1. WorkerType' /\ IoType'
  BY WorkerKeeps DEF OnDecodeResult
<1>2. QueueType'
  BY QueueKept DEF TypeOK, OnDecodeResult
<1>3. PostType'
  BY DEF TypeOK, PostType, OnDecodeResult
<1>4. JsType'
  <2>1. /\ nextId' \in Nat /\ pending' \subseteq Ids
        /\ outcome' \in [Ids -> {"unset", "resolved", "rejected"}]
    BY SettleTyped DEF TypeOK, OnDecodeResult, JsType, promiseVars
  <2> QED
    BY <2>1 DEF TypeOK, JsType, OnDecodeResult, trackVars, listVars
<1> QED
  BY <1>1, <1>2, <1>3, <1>4 DEF TypeOK

LEMMA OnErrorTyped ==
  ASSUME TypeOK, OnError
  PROVE  TypeOK'
<1>1. WorkerType' /\ IoType'
  BY WorkerKeeps DEF OnError
<1>2. QueueType'
  BY QueueKept DEF TypeOK, OnError
<1>3. PostType'
  BY DEF TypeOK, PostType, OnError
<1>4. JsType'
  <2>1. /\ nextId' \in Nat /\ pending' \subseteq Ids
        /\ outcome' \in [Ids -> {"unset", "resolved", "rejected"}]
    BY SettleTyped DEF TypeOK, OnError, JsType, promiseVars
  <2>2. /\ ready' \in {"unset", "resolved", "rejected"}
        /\ completed' \in {"unset", "resolved", "rejected"}
    BY OnceTyped DEF TypeOK, JsType, OnError
  <2> QED
    BY <2>1, <2>2 DEF TypeOK, JsType, OnError, listVars
<1> QED
  BY <1>1, <1>2, <1>3, <1>4 DEF TypeOK

LEMMA OnTracksReadyTyped ==
  ASSUME TypeOK, OnTracksReady
  PROVE  TypeOK'
<1>1. WorkerType' /\ IoType'
  BY WorkerKeeps DEF OnTracksReady
<1>2. QueueType'
  BY QueueKept DEF TypeOK, OnTracksReady
<1>3. PostType'
  BY DEF TypeOK, PostType, OnTracksReady
<1>4. JsType'
  <2>1. Head(tracksReady) \in Tracks
    BY DEF TypeOK, PostType, OnTracksReady
  <2>2. established' \in BOOLEAN
    BY DEF TypeOK, JsType, OnTracksReady
  <2>3. ready' \in {"unset", "resolved", "rejected"}
    BY OnceTyped DEF TypeOK, JsType, OnTracksReady
  <2>4. listed' \subseteq Tracks /\ selected' \subseteq Tracks /\ selectedIndex' \in Tracks \cup {0}
    BY <2>1 DEF TypeOK, JsType, OnTracksReady, listVars
  <2> QED
    BY <2>2, <2>3, <2>4 DEF TypeOK, JsType, OnTracksReady, promiseVars
<1> QED
  BY <1>1, <1>2, <1>3, <1>4 DEF TypeOK

LEMMA OnCompletedTyped ==
  ASSUME TypeOK, OnCompleted
  PROVE  TypeOK'
<1>1. WorkerType' /\ IoType'
  BY WorkerKeeps DEF OnCompleted
<1>2. QueueType'
  BY QueueKept DEF TypeOK, OnCompleted
<1>3. PostType'
  BY DEF TypeOK, PostType, OnCompleted
<1>4. JsType'
  <2>1. complete' \in BOOLEAN
    BY DEF TypeOK, JsType, OnCompleted
  <2>2. completed' \in {"unset", "resolved", "rejected"}
    BY OnceTyped DEF TypeOK, JsType, OnCompleted
  <2> QED
    BY <2>1, <2>2 DEF TypeOK, JsType, OnCompleted, promiseVars, listVars
<1> QED
  BY <1>1, <1>2, <1>3, <1>4 DEF TypeOK

LEMMA ReleaseStopsTyped ==
  ASSUME TypeOK, ReleaseStops
  PROVE  TypeOK'
<1>1. WorkerType' /\ IoType'
  <2>1. IoType'
    BY IoKept DEF TypeOK, ReleaseStops
  <2>2. WorkerType'
    BY DEF TypeOK, WorkerType, ReleaseStops
  <2> QED
    BY <2>1, <2>2
<1>2. QueueType'
  BY DEF TypeOK, QueueType, ReleaseStops, Shutdown
<1>3. PostType'
  BY PostKept DEF TypeOK, ReleaseStops
<1>4. JsType'
  BY DEF TypeOK, JsType, ReleaseStops, promiseVars, trackVars, listVars
<1> QED
  BY <1>1, <1>2, <1>3, <1>4 DEF TypeOK

LEMMA ReleaseEndsTyped ==
  ASSUME TypeOK, ReleaseEnds
  PROVE  TypeOK'
<1>1. WorkerType' /\ IoType'
  BY WorkerKeeps DEF ReleaseEnds
<1>2. QueueType'
  BY QueueKept DEF TypeOK, ReleaseEnds
<1>3. PostType'
  BY PostKept DEF TypeOK, ReleaseEnds
<1>4. JsType'
  <2>1. pending' \subseteq Ids /\ listed' \subseteq Tracks /\ selectedIndex' \in Tracks \cup {0}
    BY DEF ReleaseEnds
  <2>2. stream' \in {"none", "reading", "over"} /\ life' = "destroyed"
    BY DEF TypeOK, JsType, ReleaseEnds
  <2> QED
    BY <2>1, <2>2 DEF TypeOK, JsType, ReleaseEnds, trackVars
<1> QED
  BY <1>1, <1>2, <1>3, <1>4 DEF TypeOK

-----------------------------------------------------------------------------

LEMMA InitTyped ==
  ASSUME Init
  PROVE  TypeOK
<1>1. QueueType
  <2>1. PICK empty \in BOOLEAN : QueueInit([type |-> "configure", empty |-> empty])
    BY DEF Init
  <2>2. [type |-> "configure", empty |-> empty] \in Messages
    BY DEF Messages
  <2>3. queue \in Seq(Messages)
    BY <2>1, <2>2 DEF QueueInit
  <2>4. remaining \in Seq(Messages) /\ dropped \in Seq(Ids)
    BY <2>1 DEF QueueInit
  <2>5. qclosed = FALSE /\ clearing = FALSE
    BY <2>1 DEF QueueInit
  <2> QED
    BY <2>3, <2>4, <2>5 DEF QueueType
<1>2. WorkerType
  BY DEF Init, WorkerInit, WorkerType, HandlerPoints
<1>3. IoType
  <2>1. Best \in Tracks /\ 0 \in 0 .. Len(File)
    BY ImageAssumption
  <2>2. configured \in BOOLEAN /\ drifted \in BOOLEAN
    BY DEF Init, WorkerInit
  <2>3. buf \in Seq(Packets) /\ ctx = "none"
    BY DEF Init, WorkerInit
  <2>4. data = 0 /\ io = 0 /\ current = 0 /\ pos = 0 /\ sel = Best
    BY DEF Init, WorkerInit
  <2> QED
    BY <2>1, <2>2, <2>3, <2>4 DEF IoType
<1>4. PostType
  BY DEF Init, WorkerInit, PostType
<1>5. JsType
  <2>1. outcome \in [Ids -> {"unset", "resolved", "rejected"}]
    BY DEF Init
  <2> QED
    BY <2>1 DEF Init, JsType
<1> QED
  BY <1>1, <1>2, <1>3, <1>4, <1>5 DEF TypeOK

LEMMA StepTyped ==
  ASSUME TypeOK, [Next]_vars
  PROVE  TypeOK'
<1>1. CASE UNCHANGED vars
  BY <1>1, QueueKept, WorkerKept, IoKept, PostKept, JsKept
     DEF TypeOK, vars, jsVars, workerVars
<1>2. ASSUME NEW index \in Indexes, Decode(index)
      PROVE  TypeOK'
  BY <1>2, DecodeTyped
<1>3. CASE Reset \/ Close \/ Abort
  BY <1>3, ResetTyped, CloseTyped, AbortClearsTyped, AbortRejectsTyped, AbortEndsTyped DEF Abort
<1>4. ASSUME NEW t \in Tracks, NEW value \in BOOLEAN, SelectTrack(t, value)
      PROVE  TypeOK'
  BY <1>4, SelectTrackTyped
<1>5. CASE StreamChunk \/ StreamEnds \/ StreamFails
  BY <1>5, StreamTyped
<1>6. CASE Callbacks
  BY <1>6, OnDecodeResultTyped, OnErrorTyped, OnTracksReadyTyped, OnCompletedTyped DEF Callbacks
<1>7. CASE Release
  BY <1>7, ReleaseStopsTyped, ReleaseEndsTyped DEF Release
<1>8. CASE Worker
  BY <1>8, WorkerTyped
<1>9. \/ UNCHANGED vars \/ Reset \/ Close \/ Abort
      \/ StreamChunk \/ StreamEnds \/ StreamFails \/ Callbacks \/ Release \/ Worker
      \/ \E index \in Indexes : Decode(index)
      \/ \E t \in Tracks, value \in BOOLEAN : SelectTrack(t, value)
  BY DEF Next
<1> QED
  BY <1>1, <1>2, <1>3, <1>4, <1>5, <1>6, <1>7, <1>8, <1>9

(* All variables keep their types, for any image, any faults and any       *)
(* number of calls.                                                        *)
THEOREM ImageDecoderTypeCorrect == Spec => []TypeOK
<1>1. Init => TypeOK
  BY InitTyped
<1>2. TypeOK /\ [Next]_vars => TypeOK'
  BY StepTyped
<1> QED
  BY <1>1, <1>2, PTL DEF Spec

-----------------------------------------------------------------------------
(* Decode promises.                                                        *)

Created == nextId \in Ids /\ nextId' = nextId + 1 /\ pending' = pending \cup {nextId}
             /\ UNCHANGED outcome
Settled == \E id \in pending : Settle(id, "resolved") \/ Settle(id, "rejected")
Forsaken == pending' = {} /\ UNCHANGED <<nextId, outcome>>

(* What a step does to the promises.                                       *)
LEMMA PromiseSteps ==
  ASSUME [Next]_vars
  PROVE  Created \/ Settled \/ Forsaken \/ UNCHANGED promiseVars
<1>1. ASSUME NEW index \in Indexes, Decode(index)
      PROVE  Created
  BY <1>1 DEF Decode, Created
<1>2. CASE AbortRejects \/ OnDecodeResult \/ OnError
  BY <1>2 DEF AbortRejects, OnDecodeResult, OnError, Settled, Settle
<1>3. CASE ReleaseEnds
  BY <1>3 DEF ReleaseEnds, Forsaken
<1>4. CASE Reset \/ Close \/ AbortClears \/ AbortEnds
  BY <1>4 DEF Reset, Close, AbortClears, AbortEnds, jsVars
<1>5. ASSUME NEW t \in Tracks, NEW value \in BOOLEAN, SelectTrack(t, value)
      PROVE  UNCHANGED promiseVars
  BY <1>5 DEF SelectTrack
<1>6. CASE StreamChunk \/ StreamEnds \/ StreamFails
  BY <1>6 DEF StreamChunk, StreamEnds, StreamFails, StreamGives
<1>7. CASE OnTracksReady \/ OnCompleted \/ ReleaseStops
  BY <1>7 DEF OnTracksReady, OnCompleted, ReleaseStops
<1>8. CASE Worker \/ UNCHANGED vars
  BY <1>8 DEF Worker, vars, jsVars
<1> QED
  BY <1>1, <1>2, <1>3, <1>4, <1>5, <1>6, <1>7, <1>8
     DEF Next, Abort, Callbacks, Release

(* The decode promises are those of a PromiseTracker, whatever the worker  *)
(* answers and in whichever order.                                         *)
THEOREM DecodesArePromises == Spec => DecodePromises
<1>1. Ids = Decodes!Ids
  BY BoundsAssumption DEF Ids, Decodes!Ids
<1>2. Init => Decodes!TrackerInit
  BY <1>1 DEF Init, Decodes!TrackerInit
<1>3. [Next]_vars => [Decodes!TrackerNext]_(Decodes!promiseVars)
  <2> SUFFICES ASSUME [Next]_vars
               PROVE  [Decodes!TrackerNext]_(Decodes!promiseVars)
    OBVIOUS
  <2>1. CASE Created
    BY <1>1, <2>1 DEF Created, Decodes!TrackerNext, Decodes!CreatePromise
  <2>2. CASE Settled
    BY <2>2 DEF Settled, Settle, Decodes!TrackerNext, Decodes!Resolve, Decodes!Reject,
                Decodes!Settle
  <2>3. CASE Forsaken
    BY <2>3 DEF Forsaken, Decodes!TrackerNext, Decodes!Destroy
  <2>4. CASE UNCHANGED promiseVars
    BY <2>4 DEF promiseVars, Decodes!promiseVars
  <2> QED
    BY <2>1, <2>2, <2>3, <2>4, PromiseSteps
<1> QED
  BY <1>2, <1>3, PTL DEF Spec, DecodePromises, Decodes!TrackerSpec

-----------------------------------------------------------------------------
(* Where an id may be, in any queue or list.                               *)

Carried(m, id)    == m.type = "decode" /\ m.id = id
Queued(q, id)     == \E i \in DOMAIN q : Carried(q[i], id)
Resulting(rs, id) == \E i \in DOMAIN rs : rs[i].id = id
Occurs(s, id)     == \E i \in DOMAIN s : s[i] = id

LEMMA QueuedAppend ==
  ASSUME NEW S, NEW q \in Seq(S), NEW m, NEW id
  PROVE  Queued(Append(q, m), id) <=> Queued(q, id) \/ Carried(m, id)
<1>1. /\ DOMAIN Append(q, m) = DOMAIN q \cup {Len(q) + 1}
      /\ \A i \in DOMAIN q : Append(q, m)[i] = q[i]
      /\ Append(q, m)[Len(q) + 1] = m
  OBVIOUS
<1> QED
  BY <1>1, Zenon DEF Queued

LEMMA QueuedTail ==
  ASSUME NEW S, NEW q \in Seq(S), q # <<>>, NEW id
  PROVE  Queued(q, id) <=> Carried(Head(q), id) \/ Queued(Tail(q), id)
<1>1. /\ 1 \in DOMAIN q /\ q[1] = Head(q)
      /\ \A i \in DOMAIN Tail(q) : i + 1 \in DOMAIN q /\ Tail(q)[i] = q[i + 1]
      /\ \A i \in DOMAIN q : i = 1 \/ (i - 1 \in DOMAIN Tail(q) /\ Tail(q)[i - 1] = q[i])
  OBVIOUS
<1> QED
  BY <1>1, Zenon DEF Queued

LEMMA OccursAppend ==
  ASSUME NEW S, NEW s \in Seq(S), NEW e, NEW id
  PROVE  Occurs(Append(s, e), id) <=> Occurs(s, id) \/ e = id
<1>1. /\ DOMAIN Append(s, e) = DOMAIN s \cup {Len(s) + 1}
      /\ \A i \in DOMAIN s : Append(s, e)[i] = s[i]
      /\ Append(s, e)[Len(s) + 1] = e
  OBVIOUS
<1> QED
  BY <1>1, Zenon DEF Occurs

LEMMA OccursTail ==
  ASSUME NEW S, NEW s \in Seq(S), s # <<>>, NEW id
  PROVE  Occurs(s, id) <=> Head(s) = id \/ Occurs(Tail(s), id)
<1>1. /\ 1 \in DOMAIN s /\ s[1] = Head(s)
      /\ \A i \in DOMAIN Tail(s) : i + 1 \in DOMAIN s /\ Tail(s)[i] = s[i + 1]
      /\ \A i \in DOMAIN s : i = 1 \/ (i - 1 \in DOMAIN Tail(s) /\ Tail(s)[i - 1] = s[i])
  OBVIOUS
<1> QED
  BY <1>1, Zenon DEF Occurs

LEMMA ResultingAppend ==
  ASSUME NEW S, NEW s \in Seq(S), NEW r, NEW id
  PROVE  Resulting(Append(s, r), id) <=> Resulting(s, id) \/ r.id = id
<1>1. /\ DOMAIN Append(s, r) = DOMAIN s \cup {Len(s) + 1}
      /\ \A i \in DOMAIN s : Append(s, r)[i] = s[i]
      /\ Append(s, r)[Len(s) + 1] = r
  OBVIOUS
<1> QED
  BY <1>1, Zenon DEF Resulting

LEMMA ResultingTail ==
  ASSUME NEW S, NEW s \in Seq(S), s # <<>>, NEW id
  PROVE  Resulting(s, id) <=> Head(s).id = id \/ Resulting(Tail(s), id)
<1>1. /\ 1 \in DOMAIN s /\ s[1] = Head(s)
      /\ \A i \in DOMAIN Tail(s) : i + 1 \in DOMAIN s /\ Tail(s)[i] = s[i + 1]
      /\ \A i \in DOMAIN s : i = 1 \/ (i - 1 \in DOMAIN Tail(s) /\ Tail(s)[i - 1] = s[i])
  OBVIOUS
<1> QED
  BY <1>1, Zenon DEF Resulting

-----------------------------------------------------------------------------
(* No decode promise is forgotten.                                         *)

Located(id) ==
  \/ Queued(queue, id) \/ Occurs(dropped, id) \/ Carried(msg, id)
  \/ Resulting(results, id) \/ Occurs(errors, id)

(* DecodesTracked, and what makes it inductive.                            *)
Tracked ==
  /\ ~closed => \A id \in pending : Located(id)
  /\ ~aborting => dropped = <<>>
  /\ qclosed => closed

LEMMA LocatedHandled ==
  ASSUME Tracked
  PROVE  DecodesTracked
  BY Zenon DEF Tracked, DecodesTracked, Located, Handled, Queued, Occurs, Resulting, Carried

(* A step that leaves the JS thread's part alone and loses no id.          *)
LEMMA WorkerTracks ==
  ASSUME Tracked, UNCHANGED <<jsVars, dropped, qclosed>>,
         \A id : Located(id) => Located(id)'
  PROVE  Tracked'
  BY DEF Tracked, jsVars, promiseVars

LEMMA OutputErrorLocates ==
  ASSUME TypeOK, NEW e, OutputError(e)
  PROVE  /\ \A id : Resulting(results, id) => Resulting(results', id)
         /\ \A id : Occurs(errors, id) => Occurs(errors', id)
         /\ Occurs(errors', e)
  BY OccursAppend DEF OutputError, TypeOK, PostType

(* A handler of another message than decode.                               *)
LEMMA OtherHandlersTrack ==
  ASSUME TypeOK, Tracked, UNCHANGED <<jsVars, queueVars>>,
         wpc \in HandlerPoints \ {"decode", "read"},
         \/ UNCHANGED <<results, errors>>
         \/ OutputError(0)
         \/ results' = results /\ errors' = errors \o <<0, 0>>
  PROVE  Tracked'
<1>1. msg.type # "decode"
  BY DEF TypeOK, WorkerType
<1>2. /\ \A id : Resulting(results, id) => Resulting(results', id)
      /\ \A id : Occurs(errors, id) => Occurs(errors', id)
  <2>1. CASE UNCHANGED <<results, errors>>
    BY <2>1
  <2>2. CASE OutputError(0)
    BY <2>2, OutputErrorLocates
  <2>3. CASE results' = results /\ errors' = errors \o <<0, 0>>
    <3>1. /\ errors \in Seq(Ids \cup {0})
          /\ \A i \in DOMAIN errors : i \in DOMAIN errors' /\ errors'[i] = errors[i]
      BY <2>3 DEF TypeOK, PostType
    <3> QED
      BY <2>3, <3>1, Zenon DEF Occurs
  <2> QED
    BY <2>1, <2>2, <2>3
<1>3. \A id : Located(id) => Located(id)'
  BY <1>1, <1>2 DEF Located, queueVars, Carried
<1> QED
  BY <1>3, WorkerTracks DEF queueVars

LEMMA DispatchTracks ==
  ASSUME TypeOK, Tracked, Dispatch, UNCHANGED jsVars
  PROVE  Tracked'
<1>1. /\ queue \in Seq(Messages) /\ queue # <<>> /\ queue' = Tail(queue)
      /\ msg' = Head(queue) /\ UNCHANGED <<dropped, qclosed, results, errors>>
  BY DEF TypeOK, QueueType, Dispatch, TakeFront, postVars
<1>2. msg = NoMessage
  BY DEF TypeOK, WorkerType, Dispatch, HandlerPoints
<1>3. \A id : ~Carried(msg, id)
  BY <1>2 DEF Carried, NoMessage
<1>4. \A id : Queued(queue, id) => Carried(msg', id) \/ Queued(queue', id)
  BY <1>1, QueuedTail
<1>5. \A id : Located(id) => Located(id)'
  BY <1>1, <1>3, <1>4 DEF Located
<1> QED
  BY <1>1, <1>5, WorkerTracks

(* The decode message is answered, or still in hand.                       *)
LEMMA DecodeTracks ==
  ASSUME TypeOK, Tracked, UNCHANGED <<jsVars, queueVars>>,
         \/ UNCHANGED <<msg, results, errors>>
         \/ OutputError(msg.id)
         \/ \E r : r.id = msg.id /\ results' = Append(results, r) /\ UNCHANGED errors
  PROVE  Tracked'
<1>1. CASE UNCHANGED <<msg, results, errors>>
  BY <1>1, WorkerTracks DEF Located, queueVars
<1>2. CASE OutputError(msg.id)
  <2>1. \A id : Located(id) => Located(id)'
    BY <1>2, OutputErrorLocates DEF Located, queueVars, Carried
  <2> QED
    BY <2>1, WorkerTracks DEF queueVars
<1>3. CASE \E r : r.id = msg.id /\ results' = Append(results, r) /\ UNCHANGED errors
  <2>1. PICK r : r.id = msg.id /\ results' = Append(results, r) /\ UNCHANGED errors
    BY <1>3
  <2>2. \A id : Resulting(results', id) <=> Resulting(results, id) \/ msg.id = id
    BY <2>1, ResultingAppend DEF TypeOK, PostType
  <2>3. \A id : Located(id) => Located(id)'
    BY <2>1, <2>2 DEF Located, queueVars, Carried
  <2> QED
    BY <2>3, WorkerTracks DEF queueVars
<1> QED
  BY <1>1, <1>2, <1>3

LEMMA UseFrameTracks ==
  ASSUME TypeOK, Tracked, UNCHANGED <<jsVars, queueVars>>,
         NEW frame, NEW sure, UseFrame(frame, sure)
  PROVE  Tracked'
<1>1. CASE current < msg.index
  BY <1>1, DecodeTracks DEF UseFrame, Stay, postVars
<1>2. CASE ~(current < msg.index)
  <2> DEFINE r == [id |-> msg.id, index |-> msg.index, frame |-> frame, sure |-> sure]
  <2>1. r.id = msg.id /\ results' = Append(results, r) /\ UNCHANGED errors
    BY <1>2 DEF UseFrame
  <2> HIDE DEF r
  <2> QED
    BY <2>1, DecodeTracks
<1> QED
  BY <1>1, <1>2

LEMMA WorkerStepTracks ==
  ASSUME TypeOK, Tracked, Worker
  PROVE  Tracked'
<1>1. CASE LoopTest \/ Timeout
  BY <1>1, DecodeTracks DEF Worker, LoopTest, Timeout, TakeNothing, Stay, postVars
<1>2. CASE Dispatch
  BY <1>2, DispatchTracks DEF Worker
<1>3. CASE OnConfigure
  BY <1>3, OtherHandlersTrack DEF Worker, OnConfigure, HandlerPoints, postVars
<1>4. CASE OnStreamData
  BY <1>4, OtherHandlersTrack DEF Worker, OnStreamData, HandlerPoints, postVars
<1>5. CASE OnStreamEnd
  BY <1>5, OtherHandlersTrack DEF Worker, OnStreamEnd, HandlerPoints
<1>6. CASE OnStreamError
  BY <1>6, OtherHandlersTrack DEF Worker, OnStreamError, HandlerPoints
<1>7. CASE OnReset \/ OnClose
  BY <1>7, OtherHandlersTrack DEF Worker, OnReset, OnClose, HandlerPoints, postVars
<1>8. CASE OnUpdateTrack
  BY <1>8, OtherHandlersTrack DEF Worker, OnUpdateTrack, HandlerPoints, postVars
<1>9. CASE OnDecodeRefuses \/ OnDecodeFails
  BY <1>9, DecodeTracks DEF Worker, OnDecodeRefuses, OnDecodeFails
<1>10. CASE OnDecodeSeeks \/ OnDecodeReads
  BY <1>10, DecodeTracks DEF Worker, OnDecodeSeeks, OnDecodeReads, Stay, postVars
<1>11. CASE OnDecodeReceives \/ OnDecodeDrains
  BY <1>11, UseFrameTracks DEF Worker, OnDecodeReceives, OnDecodeDrains
<1>12. CASE OnDecodeReadsStale
  BY <1>12, UseFrameTracks, DecodeTracks DEF Worker, OnDecodeReadsStale
<1> QED
  BY <1>1, <1>2, <1>3, <1>4, <1>5, <1>6, <1>7, <1>8, <1>9, <1>10, <1>11, <1>12
     DEF Worker, WorkerStep, Handlers, OnDecode


(* A step of the JS thread that loses no pending id.                       *)
LEMMA LocatedTracks ==
  ASSUME Tracked, UNCHANGED <<closed, qclosed>>, ~aborting' => dropped' = <<>>,
         ~closed => \A id \in pending' : Located(id)'
  PROVE  Tracked'
  BY DEF Tracked

LEMMA EnqueueLocates ==
  ASSUME TypeOK, Tracked, NEW m, ~closed, Enqueue(m)
  PROVE  \A id : Queued(queue', id) <=> Queued(queue, id) \/ Carried(m, id)
<1>1. queue \in Seq(Messages) /\ queue' = Append(queue, m)
  BY DEF TypeOK, QueueType, JsType, Tracked, Enqueue
<1> QED
  BY <1>1, QueuedAppend

LEMMA DecodeCallTracks ==
  ASSUME TypeOK, Tracked, NEW index, Decode(index)
  PROVE  Tracked'
<1> DEFINE m == [type |-> "decode", id |-> nextId, index |-> index]
<1>1. /\ ~closed /\ Enqueue(m) /\ pending' = pending \cup {nextId}
      /\ UNCHANGED <<closed, qclosed, aborting, dropped, msg, results, errors>>
  BY DEF Decode, Enqueue, workerVars, postVars
<1>2. Carried(m, nextId)
  BY DEF Carried
<1> HIDE DEF m
<1>3. \A id \in pending' : Located(id)'
  BY <1>1, <1>2, EnqueueLocates DEF Tracked, Located
<1> QED
  BY <1>1, <1>3, LocatedTracks DEF Tracked

(* Steps that queue some other message, or none.                           *)
LEMMA QueueingTracks ==
  ASSUME TypeOK, Tracked, closed \/ (\E m : Enqueue(m)),
         pending' \subseteq pending,
         UNCHANGED <<closed, qclosed, dropped, msg, results, errors>>,
         ~aborting' => dropped' = <<>>
  PROVE  Tracked'
<1>1. ASSUME ~closed
      PROVE  \A id \in pending' : Located(id)'
  <2>1. PICK m : Enqueue(m)
    BY <1>1
  <2> QED
    BY <1>1, <2>1, EnqueueLocates DEF Tracked, Located
<1> QED
  BY <1>1, LocatedTracks

LEMMA AbortClearsTracks ==
  ASSUME TypeOK, Tracked, AbortClears
  PROVE  Tracked'
<1>1. /\ ClearDecodes /\ queue \in Seq(Messages) /\ dropped \in Seq(Ids)
      /\ aborting' = TRUE
      /\ UNCHANGED <<closed, qclosed, pending, msg, results, errors>>
  BY DEF TypeOK, QueueType, JsType, AbortClears, ClearDecodes, jsVars, promiseVars,
         workerVars, postVars
<1>2. CASE queue = <<>>
  <2>1. \A id : ~Queued(queue, id)
    BY <1>2 DEF Queued
  <2>2. dropped' = dropped
    BY <1>1, <1>2 DEF ClearDecodes
  <2>3. \A id : Located(id) => Located(id)'
    BY <1>1, <2>1, <2>2 DEF Located
  <2> QED
    BY <1>1, <2>3, LocatedTracks DEF Tracked
<1>3. CASE queue # <<>>
  <2>1. \A id : Queued(queue, id) <=> Carried(Head(queue), id) \/ Queued(queue', id)
    BY <1>1, <1>3, QueuedTail DEF ClearDecodes
  <2>2. \A id : Occurs(dropped', id) <=> Occurs(dropped, id) \/ Carried(Head(queue), id)
    <3>1. CASE Head(queue).type = "decode"
      <4>1. dropped' = Append(dropped, Head(queue).id)
        BY <1>1, <1>3, <3>1 DEF ClearDecodes
      <4> QED
        BY <1>1, <3>1, <4>1, OccursAppend DEF Carried
    <3>2. CASE Head(queue).type # "decode"
      <4>1. dropped' = dropped
        BY <1>1, <1>3, <3>2 DEF ClearDecodes
      <4> QED
        BY <3>2, <4>1 DEF Carried
    <3> QED
      BY <3>1, <3>2
  <2>3. \A id : Located(id) => Located(id)'
    BY <1>1, <2>1, <2>2 DEF Located
  <2> QED
    BY <1>1, <2>3, LocatedTracks DEF Tracked
<1> QED
  BY <1>2, <1>3

LEMMA AbortRejectsTracks ==
  ASSUME TypeOK, Tracked, AbortRejects
  PROVE  Tracked'
<1>1. /\ dropped \in Seq(Ids) /\ dropped # <<>> /\ dropped' = Tail(dropped) /\ aborting' = TRUE
      /\ UNCHANGED <<closed, qclosed, queue, msg, results, errors>>
  BY DEF TypeOK, QueueType, JsType, AbortRejects, workerVars, postVars
<1>2. pending' = pending \ {Head(dropped)}
  BY DEF AbortRejects, Settle, promiseVars
<1>3. \A id : Occurs(dropped, id) <=> Head(dropped) = id \/ Occurs(dropped', id)
  BY <1>1, OccursTail
<1>4. ~closed => \A id \in pending' : Located(id)'
  BY <1>1, <1>2, <1>3 DEF Located, Tracked
<1> QED
  BY <1>1, <1>4, LocatedTracks

LEMMA OnDecodeResultTracks ==
  ASSUME TypeOK, Tracked, OnDecodeResult
  PROVE  Tracked'
<1>1. /\ results # <<>> /\ results' = Tail(results)
      /\ UNCHANGED <<closed, qclosed, aborting, dropped, queue, msg, errors>>
  BY DEF OnDecodeResult, queueVars, workerVars
<1>2. ~closed => pending' = pending \ {Head(results).id}
  BY DEF OnDecodeResult, Settle, promiseVars
<1>3. \A id : Resulting(results, id) <=> Head(results).id = id \/ Resulting(results', id)
  BY <1>1, ResultingTail DEF TypeOK, PostType
<1>4. ~closed => \A id \in pending' : Located(id)'
  BY <1>1, <1>2, <1>3 DEF Located, Tracked
<1> QED
  BY <1>1, <1>4, LocatedTracks DEF Tracked

LEMMA OnErrorTracks ==
  ASSUME TypeOK, Tracked, OnError
  PROVE  Tracked'
<1>1. /\ errors # <<>> /\ errors' = Tail(errors)
      /\ UNCHANGED <<closed, qclosed, aborting, dropped, queue, msg, results>>
  BY DEF OnError, queueVars, workerVars
<1>2. ~closed => pending' = pending \ {Head(errors)}
  BY DEF OnError, Settle, promiseVars
<1>3. \A id : Occurs(errors, id) <=> Head(errors) = id \/ Occurs(errors', id)
  BY <1>1, OccursTail DEF TypeOK, PostType
<1>4. ~closed => \A id \in pending' : Located(id)'
  BY <1>1, <1>2, <1>3 DEF Located, Tracked
<1> QED
  BY <1>1, <1>4, LocatedTracks DEF Tracked

LEMMA StepTracks ==
  ASSUME TypeOK, Tracked, [Next]_vars
  PROVE  Tracked'
<1>1. ASSUME NEW index \in Indexes, Decode(index)
      PROVE  Tracked'
  BY <1>1, DecodeCallTracks
<1>2. CASE Reset
  <2>1. dropped = <<>>
    BY <1>2 DEF Tracked, Reset, Idle
  <2>2. /\ dropped' = <<>> /\ aborting' = TRUE
        /\ UNCHANGED <<closed, qclosed, queue, pending, msg, results, errors>>
    BY <1>2 DEF Reset, BeginClear, workerVars, postVars, promiseVars
  <2> QED
    BY <2>1, <2>2 DEF Tracked, Located
<1>3. CASE Close \/ ReleaseStops
  <2>1. closed' = TRUE
    BY <1>3 DEF Close, ReleaseStops
  <2>2. ~aborting' => dropped' = <<>>
    BY <1>3 DEF Close, ReleaseStops, Shutdown, BeginClear, Tracked
  <2> QED
    BY <2>1, <2>2 DEF Tracked
<1>4. CASE AbortClears \/ AbortRejects
  BY <1>4, AbortClearsTracks, AbortRejectsTracks
<1>5. CASE AbortEnds
  <2>1. UNCHANGED <<closed, qclosed, dropped, pending, msg, results, errors>> /\ dropped' = <<>>
    BY <1>5 DEF AbortEnds, Enqueue, promiseVars, workerVars, postVars
  <2> QED
    BY <1>5, <2>1, QueueingTracks DEF AbortEnds
<1>6. ASSUME NEW t \in Tracks, NEW value \in BOOLEAN, SelectTrack(t, value)
      PROVE  Tracked'
  <2>1. UNCHANGED <<closed, qclosed, aborting, dropped, pending, msg, results, errors>>
    BY <1>6 DEF SelectTrack, Enqueue, promiseVars, workerVars, postVars
  <2> QED
    BY <1>6, <2>1, QueueingTracks DEF SelectTrack, Tracked
<1>7. ASSUME NEW m, StreamGives(m)
      PROVE  Tracked'
  <2>1. UNCHANGED <<closed, qclosed, aborting, dropped, pending, msg, results, errors>>
    BY <1>7 DEF StreamGives, Enqueue, promiseVars, workerVars, postVars
  <2>2. closed \/ Enqueue(m)
    BY <1>7 DEF StreamGives, Heard
  <2> QED
    BY <1>7, <2>1, <2>2, QueueingTracks DEF StreamGives, Tracked
<1>8. CASE OnDecodeResult \/ OnError
  BY <1>8, OnDecodeResultTracks, OnErrorTracks
<1>9. CASE OnTracksReady \/ OnCompleted \/ UNCHANGED vars
  BY <1>9 DEF OnTracksReady, OnCompleted, vars, jsVars, queueVars, workerVars, postVars,
              promiseVars, Tracked, Located
<1>10. CASE ReleaseEnds
  BY <1>10 DEF ReleaseEnds, Tracked, queueVars
<1>11. CASE Worker
  BY <1>11, WorkerStepTracks
<1>12. CASE StreamChunk \/ StreamEnds \/ StreamFails
  BY <1>7, <1>12 DEF StreamChunk, StreamEnds, StreamFails
<1> QED
  BY <1>1, <1>2, <1>3, <1>4, <1>5, <1>6, <1>8, <1>9, <1>10, <1>11, <1>12
     DEF Next, Abort, Callbacks, Release

LEMMA InitTracks ==
  ASSUME Init
  PROVE  Tracked
  BY DEF Init, QueueInit, WorkerInit, Tracked

(* No decode promise of an open decoder is forgotten: not between the      *)
(* queue and the worker, nor by a reset() that takes the queue apart.      *)
THEOREM ImageDecodesTracked == Spec => []DecodesTracked
<1>1. Init => Tracked
  BY InitTracks
<1>2. TypeOK /\ Tracked /\ [Next]_vars => Tracked'
  BY StepTracks
<1>3. Tracked => DecodesTracked
  BY LocatedHandled
<1> QED
  BY <1>1, <1>2, <1>3, ImageDecoderTypeCorrect, PTL DEF Spec


-----------------------------------------------------------------------------
(* The image is opened once at most: there is one configure message, it is *)
(* the first one, and no attempt is made once one has succeeded.           *)

Configures(m) == m.type = "configure"

Fresh ==
  /\ \A i \in DOMAIN queue : Configures(queue[i])
       => i = 1 /\ remaining = <<>> /\ msg = NoMessage /\ ~configured
  /\ \A i \in DOMAIN remaining : Configures(remaining[i])
       => i = 1 /\ msg = NoMessage /\ ~configured
  /\ ~clearing => remaining = <<>>
  /\ Configures(msg) => ~configured

LEMMA EnqueueFresh ==
  ASSUME TypeOK, Fresh, NEW m, ~Configures(m), Enqueue(m), UNCHANGED <<msg, configured>>
  PROVE  Fresh'
<1>1. \A i \in DOMAIN queue' : queue'[i] = m \/ (i \in DOMAIN queue /\ queue'[i] = queue[i])
  BY DEF TypeOK, QueueType, Enqueue
<1> QED
  BY <1>1, Zenon DEF Fresh, Enqueue

(* While a message is handled no configure message is left.                *)
LEMMA HandlerFresh ==
  ASSUME TypeOK, Fresh, wpc \in HandlerPoints, UNCHANGED queueVars,
         \/ msg' = NoMessage
         \/ UNCHANGED <<msg, configured>>
  PROVE  Fresh'
<1>1. msg # NoMessage
  BY MessageTypes DEF TypeOK, WorkerType, NoMessage, HandlerPoints
<1>2. ~Configures(NoMessage)
  BY DEF Configures, NoMessage
<1>3. /\ \A i \in DOMAIN queue : ~Configures(queue[i])
      /\ \A i \in DOMAIN remaining : ~Configures(remaining[i])
  BY <1>1, Zenon DEF Fresh
<1>4. UNCHANGED <<queue, remaining, clearing>>
  BY DEF queueVars
<1>5. CASE msg' = NoMessage
  BY <1>2, <1>3, <1>4, <1>5, Zenon DEF Fresh
<1>6. CASE UNCHANGED <<msg, configured>>
  BY <1>3, <1>4, <1>6, Zenon DEF Fresh
<1> QED
  BY <1>5, <1>6

LEMMA DispatchFresh ==
  ASSUME TypeOK, Fresh, Dispatch
  PROVE  Fresh'
<1>1. /\ queue # <<>> /\ queue \in Seq(Messages) /\ queue' = Tail(queue) /\ msg' = Head(queue)
      /\ ~clearing /\ UNCHANGED <<remaining, clearing, configured>>
  BY DEF TypeOK, QueueType, Dispatch, TakeFront, ioVars
<1>2. remaining = <<>>
  BY <1>1 DEF Fresh
<1>3. /\ 1 \in DOMAIN queue /\ queue[1] = Head(queue)
      /\ \A i \in DOMAIN queue' : i + 1 \in DOMAIN queue /\ i + 1 # 1 /\ queue'[i] = queue[i + 1]
  BY <1>1
<1>4. \A i \in DOMAIN queue' : ~Configures(queue'[i])
  BY <1>3, Zenon DEF Fresh
<1>5. DOMAIN remaining = {}
  BY <1>2
<1>6. Configures(msg') => ~configured
  BY <1>1, <1>3, Zenon DEF Fresh
<1> QED
  BY <1>1, <1>2, <1>4, <1>5, <1>6, Zenon DEF Fresh

LEMMA AbortClearsFresh ==
  ASSUME TypeOK, Fresh, AbortClears
  PROVE  Fresh'
<1>1. /\ ClearDecodes /\ clearing /\ UNCHANGED <<msg, configured>>
      /\ queue \in Seq(Messages) /\ remaining \in Seq(Messages)
  BY DEF TypeOK, QueueType, AbortClears, ClearDecodes, workerVars, ioVars
<1>2. CASE queue = <<>>
  <2>1. queue' = remaining /\ remaining' = <<>>
    BY <1>1, <1>2 DEF ClearDecodes
  <2>2. DOMAIN remaining' = {}
    BY <2>1
  <2> QED
    BY <1>1, <2>1, <2>2, Zenon DEF Fresh
<1>3. CASE queue # <<>>
  <2>1. queue' = Tail(queue) /\ clearing'
    BY <1>1, <1>3 DEF ClearDecodes
  <2>2. /\ 1 \in DOMAIN queue /\ queue[1] = Head(queue)
        /\ \A i \in DOMAIN queue' : i + 1 \in DOMAIN queue /\ i + 1 # 1 /\ queue'[i] = queue[i + 1]
    BY <1>1, <1>3, <2>1
  <2>3. \A i \in DOMAIN queue' : ~Configures(queue'[i])
    BY <2>2, Zenon DEF Fresh
  <2>4. CASE remaining' = remaining
    BY <1>1, <2>1, <2>3, <2>4, Zenon DEF Fresh
  <2>5. CASE remaining' = Append(remaining, Head(queue))
    <3>1. \A i \in DOMAIN remaining' : \/ i \in DOMAIN remaining /\ remaining'[i] = remaining[i]
                                       \/ i = Len(remaining) + 1 /\ remaining'[i] = Head(queue)
      BY <1>1, <2>5
    <3>2. Configures(Head(queue))
            => Len(remaining) + 1 = 1 /\ msg = NoMessage /\ ~configured
      <4>1. Configures(Head(queue)) => remaining = <<>> /\ msg = NoMessage /\ ~configured
        BY <2>2, Zenon DEF Fresh
      <4>2. remaining = <<>> => Len(remaining) + 1 = 1
        OBVIOUS
      <4> QED
        BY <4>1, <4>2, Zenon
    <3>3. \A i \in DOMAIN remaining' : Configures(remaining'[i])
            => i = 1 /\ msg = NoMessage /\ ~configured
      BY <3>1, <3>2, Zenon DEF Fresh
    <3> QED
      BY <1>1, <2>1, <2>3, <3>3, Zenon DEF Fresh
  <2> QED
    BY <1>1, <1>3, <2>4, <2>5 DEF ClearDecodes
<1> QED
  BY <1>2, <1>3

(* A handler leaves the queue alone, and keeps its message or is done.     *)
LEMMA HandlersReturn ==
  ASSUME Handlers
  PROVE  /\ wpc \in HandlerPoints /\ UNCHANGED queueVars
         /\ msg' = NoMessage \/ UNCHANGED <<msg, configured>>
<1>1. wpc \in HandlerPoints /\ UNCHANGED queueVars
  BY DEF Handlers, OnConfigure, OnStreamData, OnStreamEnd, OnStreamError, OnReset,
         OnClose, OnUpdateTrack, OnDecode, OnDecodeRefuses, OnDecodeSeeks, OnDecodeReads,
         OnDecodeReceives, OnDecodeDrains, OnDecodeFails, OnDecodeReadsStale, MayRead,
         HandlerPoints
<1>2. msg' = NoMessage \/ UNCHANGED <<msg, configured>>
  BY DEF Handlers, OnConfigure, OnStreamData, OnStreamEnd, OnStreamError, OnReset,
         OnClose, OnUpdateTrack, OnDecode, OnDecodeRefuses, OnDecodeSeeks, OnDecodeReads,
         OnDecodeReceives, OnDecodeDrains, OnDecodeFails, OnDecodeReadsStale,
         Return, Stay, UseFrame, ioVars
<1> QED
  BY <1>1, <1>2

LEMMA StepFresh ==
  ASSUME TypeOK, Fresh, [Next]_vars
  PROVE  Fresh'
<1> DEFINE Same == UNCHANGED <<queue, remaining, clearing, msg, configured>>
<1>1. CASE Same
  BY <1>1, Zenon DEF Fresh
<1>2. ASSUME NEW m, ~Configures(m), Enqueue(m), UNCHANGED workerVars
      PROVE  Fresh'
  BY <1>2, EnqueueFresh DEF workerVars, ioVars
<1>3. ASSUME NEW index \in Indexes, Decode(index)
      PROVE  Fresh'
  BY <1>2, <1>3 DEF Decode, Configures
<1>4. CASE Reset \/ Close
  <2>1. UNCHANGED <<queue, msg, configured>> /\ remaining' = <<>> /\ clearing'
    BY <1>4 DEF Reset, Close, BeginClear, workerVars, ioVars
  <2>2. DOMAIN remaining' = {}
    BY <2>1
  <2> QED
    BY <2>1, <2>2, Zenon DEF Fresh
<1>5. CASE AbortClears
  BY <1>5, AbortClearsFresh
<1>6. CASE AbortRejects \/ OnDecodeResult \/ OnError \/ OnTracksReady \/ OnCompleted
           \/ Release \/ UNCHANGED vars
  <2>1. Same
    BY <1>6 DEF AbortRejects, OnDecodeResult, OnError, OnTracksReady, OnCompleted, Release,
                ReleaseStops, ReleaseEnds, Shutdown, vars, workerVars, queueVars, ioVars
  <2> QED
    BY <1>1, <2>1
<1>7. CASE AbortEnds
  <2>1. ~Configures([type |-> IF closed THEN "close" ELSE "reset"])
    BY DEF Configures
  <2> QED
    BY <1>2, <1>7, <2>1 DEF AbortEnds
<1>8. ASSUME NEW t \in Tracks, NEW value \in BOOLEAN, SelectTrack(t, value)
      PROVE  Fresh'
  <2>1. ~Configures([type |-> "track", index |-> selectedIndex'])
    BY DEF Configures
  <2>2. CASE closed
    BY <1>1, <1>8, <2>2 DEF SelectTrack, workerVars, ioVars
  <2>3. CASE ~closed
    BY <1>2, <1>8, <2>1, <2>3 DEF SelectTrack
  <2> QED
    BY <2>2, <2>3
<1>9. ASSUME NEW m, ~Configures(m), StreamGives(m)
      PROVE  Fresh'
  <2>1. CASE ~Heard(m)
    BY <1>1, <1>9, <2>1 DEF StreamGives, workerVars, ioVars
  <2>2. CASE Heard(m)
    BY <1>2, <1>9, <2>2 DEF StreamGives
  <2> QED
    BY <2>1, <2>2
<1>10. CASE StreamChunk \/ StreamEnds \/ StreamFails
  <2>1. /\ ~Configures([type |-> "data"]) /\ ~Configures([type |-> "end"])
        /\ ~Configures([type |-> "error"])
    BY DEF Configures
  <2> QED
    BY <1>9, <1>10, <2>1 DEF StreamChunk, StreamEnds, StreamFails
<1>11. CASE Worker /\ (LoopTest \/ Timeout)
  BY <1>1, <1>11 DEF LoopTest, Timeout, TakeNothing, Stay, queueVars, ioVars
<1>12. CASE Worker /\ Dispatch
  BY <1>12, DispatchFresh
<1>13. CASE Worker /\ Handlers
  BY <1>13, HandlersReturn, HandlerFresh
<1> QED
  BY <1>3, <1>4, <1>5, <1>6, <1>7, <1>8, <1>10, <1>11, <1>12, <1>13
     DEF Next, Abort, Callbacks, Worker, WorkerStep

-----------------------------------------------------------------------------
(* The track list.                                                         *)

Unlisted == listed = {} /\ selected = {} /\ selectedIndex = 0

(* SelectionConsistent, and what makes it inductive: the tracks are listed *)
(* once, after the image was opened.                                       *)
Listing ==
  /\ ~configured => tracksReady = <<>> /\ Unlisted
  /\ tracksReady # <<>> => Len(tracksReady) = 1 /\ Unlisted
  /\ SelectionConsistent

LEMMA ListingKept ==
  ASSUME Listing, UNCHANGED <<configured, tracksReady, life, listVars>>
  PROVE  Listing'
  BY DEF Listing, SelectionConsistent, Unlisted, listVars

LEMMA OpensListing ==
  ASSUME Listing, ~configured, NEW n, Opens(n), UNCHANGED jsVars
  PROVE  Listing'
<1>1. tracksReady' = <<Best>> /\ configured'
  BY DEF Listing, Opens
<1>2. Unlisted' /\ SelectionConsistent'
  BY DEF Listing, Unlisted, SelectionConsistent, jsVars, listVars
<1>3. Len(tracksReady') = 1 /\ tracksReady' # <<>>
  BY <1>1
<1> QED
  BY <1>1, <1>2, <1>3 DEF Listing

(* The worker opens an image that is not open, and does nothing else to    *)
(* what it reports of the tracks.                                          *)
LEMMA WorkerOpens ==
  ASSUME TypeOK, Fresh, WorkerStep
  PROVE  \/ UNCHANGED <<configured, tracksReady>>
         \/ ~configured /\ \E n \in Nat : Opens(n)
<1>1. CASE OnConfigure
  <2>1. ~configured
    BY <1>1 DEF TypeOK, WorkerType, OnConfigure, HandlerPoints, Fresh, Configures
  <2> QED
    BY <1>1, <2>1, ImageAssumption DEF OnConfigure, FailsToOpen, OutputError, ioVars, postVars
<1>2. CASE OnStreamData
  BY <1>2 DEF TypeOK, IoType, OnStreamData, FailsToOpen, OutputError, postVars
<1>3. CASE OnStreamEnd
  BY <1>3 DEF TypeOK, IoType, OnStreamEnd, FailsToOpen, OutputError, postVars, ioVars
<1>4. CASE LoopTest \/ Dispatch \/ Timeout \/ OnStreamError \/ OnReset \/ OnClose
  BY <1>4 DEF LoopTest, Dispatch, Timeout, OnStreamError, OnReset, OnClose, OutputError,
              ioVars, postVars
<1>5. CASE OnUpdateTrack \/ OnDecode
  BY <1>5 DEF OnUpdateTrack, OnDecode, OnDecodeRefuses, OnDecodeSeeks, OnDecodeReads,
              OnDecodeReceives, OnDecodeDrains, OnDecodeFails, OnDecodeReadsStale,
              UseFrame, OutputError, ioVars, postVars
<1> QED
  BY <1>1, <1>2, <1>3, <1>4, <1>5 DEF WorkerStep, Handlers

LEMMA WorkerListing ==
  ASSUME TypeOK, Fresh, Listing, Worker
  PROVE  Listing'
  BY WorkerOpens, ListingKept, OpensListing DEF Worker, jsVars

LEMMA SelectTrackListing ==
  ASSUME TypeOK, Listing, NEW t \in Tracks, NEW value \in BOOLEAN, SelectTrack(t, value)
  PROVE  Listing'
<1>1. /\ t \in listed /\ life = "alive" /\ value # (t \in selected)
      /\ UNCHANGED <<configured, tracksReady, life, listed>>
  BY DEF SelectTrack, Idle, workerVars, ioVars, postVars
<1>2. ~Unlisted
  BY <1>1 DEF Unlisted
<1>3. selected = {selectedIndex} \ {0} /\ selectedIndex \in listed \cup {0}
  BY <1>1 DEF Listing, SelectionConsistent
<1>4. t # 0
  BY ImageAssumption DEF Tracks
<1>5. CASE value = TRUE
  <2>1. selectedIndex' = t /\ selected' = (selected \ {selectedIndex, t}) \cup {t}
    BY <1>5 DEF SelectTrack
  <2> QED
    BY <1>1, <1>2, <1>3, <1>4, <2>1 DEF Listing, SelectionConsistent
<1>6. CASE value = FALSE
  <2>1. selectedIndex' = 0 /\ selected' = selected \ {selectedIndex, t}
    BY <1>6 DEF SelectTrack
  <2> QED
    BY <1>1, <1>2, <1>3, <1>4, <2>1 DEF Listing, SelectionConsistent
<1> QED
  BY <1>5, <1>6

LEMMA OnTracksReadyListing ==
  ASSUME TypeOK, Listing, OnTracksReady
  PROVE  Listing'
<1>1. /\ tracksReady # <<>> /\ tracksReady' = Tail(tracksReady) /\ life = "alive"
      /\ UNCHANGED <<configured, life>>
  BY DEF OnTracksReady, Idle, workerVars, ioVars
<1>2. Len(tracksReady) = 1 /\ Unlisted /\ configured
  BY <1>1 DEF Listing
<1>3. tracksReady' = <<>> /\ Head(tracksReady) \in Tracks
  BY <1>1, <1>2 DEF TypeOK, PostType
<1>4. CASE closed
  BY <1>1, <1>2, <1>3, <1>4 DEF OnTracksReady, Listing, SelectionConsistent, listVars
<1>5. CASE ~closed
  <2>1. /\ listed' = Tracks /\ selectedIndex' = Head(tracksReady)
        /\ selected' = {Head(tracksReady)}
    BY <1>2, <1>5 DEF OnTracksReady, Unlisted
  <2>2. Head(tracksReady) # 0
    BY <1>3, ImageAssumption DEF Tracks
  <2> QED
    BY <1>1, <1>2, <1>3, <2>1, <2>2 DEF Listing, SelectionConsistent
<1> QED
  BY <1>4, <1>5

LEMMA StepListing ==
  ASSUME TypeOK, Fresh, Listing, [Next]_vars
  PROVE  Listing'
<1>1. ASSUME NEW index \in Indexes, Decode(index)
      PROVE  Listing'
  BY <1>1, ListingKept DEF Decode, workerVars, ioVars, postVars
<1>2. CASE Reset \/ Close \/ Abort
  BY <1>2, ListingKept DEF Reset, Close, Abort, AbortClears, AbortRejects, AbortEnds,
                           workerVars, ioVars, postVars, jsVars
<1>3. ASSUME NEW t \in Tracks, NEW value \in BOOLEAN, SelectTrack(t, value)
      PROVE  Listing'
  BY <1>3, SelectTrackListing
<1>4. CASE StreamChunk \/ StreamEnds \/ StreamFails
  BY <1>4, ListingKept DEF StreamChunk, StreamEnds, StreamFails, StreamGives,
                           workerVars, ioVars, postVars
<1>5. CASE OnDecodeResult \/ OnError \/ OnCompleted \/ UNCHANGED vars
  BY <1>5, ListingKept DEF OnDecodeResult, OnError, OnCompleted, vars, workerVars, ioVars,
                           postVars, jsVars
<1>6. CASE OnTracksReady
  BY <1>6, OnTracksReadyListing
<1>7. CASE ReleaseStops
  BY <1>7 DEF ReleaseStops, Listing, SelectionConsistent, Unlisted, ioVars, postVars, listVars
<1>8. CASE ReleaseEnds
  BY <1>8 DEF ReleaseEnds, Listing, SelectionConsistent, Unlisted, workerVars, ioVars, postVars
<1>9. CASE Worker
  BY <1>9, WorkerListing
<1> QED
  BY <1>1, <1>2, <1>3, <1>4, <1>5, <1>6, <1>7, <1>8, <1>9 DEF Next, Callbacks, Release

LEMMA InitListing ==
  ASSUME Init
  PROVE  Fresh /\ Listing
  BY DEF Init, QueueInit, WorkerInit, Fresh, Listing, Unlisted, SelectionConsistent,
         Configures, NoMessage

(* The track list and its tracks agree on the selected one, whoever        *)
(* selects and whenever the image is opened.                               *)
THEOREM ImageSelectionConsistent == Spec => []SelectionConsistent
<1>1. Init => Fresh /\ Listing
  BY InitListing
<1>2. TypeOK /\ Fresh /\ Listing /\ [Next]_vars => (Fresh /\ Listing)'
  BY StepFresh, StepListing
<1>3. Listing => SelectionConsistent
  BY DEF Listing
<1> QED
  BY <1>1, <1>2, <1>3, ImageDecoderTypeCorrect, PTL DEF Spec

-----------------------------------------------------------------------------
(* Frames of a track among the first packets of the file.                  *)

Frames(n, t) == Cardinality({q \in 1 .. n : File[q] = t})

LEMMA FramesFinite ==
  ASSUME NEW n \in Nat, NEW t
  PROVE  IsFiniteSet({q \in 1 .. n : File[q] = t}) /\ Frames(n, t) \in Nat
<1>1. IsFiniteSet(1 .. n)
  BY FS_Interval
<1>2. {q \in 1 .. n : File[q] = t} \in SUBSET (1 .. n)
  OBVIOUS
<1> QED
  BY <1>1, <1>2, FS_Subset, FS_CardinalityType DEF Frames

LEMMA FramesNone ==
  ASSUME NEW t
  PROVE  Frames(0, t) = 0
<1>1. {q \in 1 .. 0 : File[q] = t} = {}
  OBVIOUS
<1> QED
  BY <1>1, FS_EmptySet DEF Frames

LEMMA FramesNext ==
  ASSUME NEW n \in Nat, NEW t
  PROVE  Frames(n + 1, t) = Frames(n, t) + (IF File[n + 1] = t THEN 1 ELSE 0)
<1> DEFINE F(k) == {q \in 1 .. k : File[q] = t}
<1>1. n + 1 \notin F(n) /\ IsFiniteSet(F(n)) /\ Frames(n, t) \in Nat
  BY FramesFinite
<1>2. CASE File[n + 1] = t
  <2>1. F(n + 1) = F(n) \cup {n + 1}
    BY <1>2
  <2> QED
    BY <1>1, <1>2, <2>1, FS_AddElement DEF Frames
<1>3. CASE File[n + 1] # t
  <2>1. F(n + 1) = F(n)
    BY <1>3
  <2> QED
    BY <1>1, <1>3, <2>1 DEF Frames
<1> QED
  BY <1>2, <1>3

(* The packets of the codec are the next frames of the track, in order, and*)
(* current_frame_index_ is the index of the first.  It is not behind the   *)
(* frame that is decoded for: a result that is sure is the right one.      *)
InOrder(b, c) ==
  \A i \in DOMAIN b : File[b[i]] = sel /\ Frames(b[i] - 1, sel) = c + i - 1

Counted ==
  ctx # "none" /\ ~drifted => InOrder(buf, current) /\ Frames(pos, sel) = current + Len(buf)

Approaching == wpc = "read" => current <= msg.index

Framed == Counted /\ Approaching /\ RightFrame

LEMMA FramedKept ==
  ASSUME Framed, UNCHANGED <<ctx, drifted, sel, buf, pos, current, results>>,
         wpc' # "read" \/ UNCHANGED <<wpc, msg>>
  PROVE  Framed'
  BY DEF Framed, Counted, Approaching, RightFrame, InOrder, Frames, IndexOf

(* The codec is new, rewound, gone, or its count known to be wrong.        *)
LEMMA FramedAnew ==
  ASSUME Framed, UNCHANGED results, wpc' # "read",
         \/ ctx' = "none" \/ drifted' = TRUE
         \/ buf' = <<>> /\ pos' = 0 /\ current' = 0
  PROVE  Framed'
<1>1. RightFrame'
  BY DEF Framed, RightFrame, IndexOf
<1>2. Counted'
  <2>1. CASE buf' = <<>> /\ pos' = 0 /\ current' = 0
    <3>1. InOrder(buf, current)' /\ Len(buf') = 0
      BY <2>1 DEF InOrder
    <3>2. Frames(pos, sel)' = 0
      BY <2>1, FramesNone DEF Frames
    <3> QED
      BY <2>1, <3>1, <3>2 DEF Counted
  <2> QED
    BY <2>1 DEF Counted
<1> QED
  BY <1>1, <1>2 DEF Framed, Approaching

LEMMA ResultFramed ==
  ASSUME PostType, RightFrame, NEW r, results' = Append(results, r),
         r.sure => IndexOf(r.frame) = r.index
  PROVE  RightFrame'
<1>1. \A i \in DOMAIN results' : \/ i \in DOMAIN results /\ results'[i] = results[i]
                                 \/ results'[i] = r
  BY DEF PostType
<1>2. \A i \in DOMAIN results' : results'[i].sure =>
        IndexOf(results'[i].frame) = results'[i].index
  BY <1>1, Zenon DEF RightFrame
<1> QED
  BY <1>2, Zenon DEF RightFrame

(* A frame that comes out of the codec.                                    *)
LEMMA UseFrameFramed ==
  ASSUME TypeOK, Framed, NEW frame, NEW sure, UseFrame(frame, sure), wpc = "read",
         sure => IndexOf(frame) = current
  PROVE  RightFrame' /\ Approaching' /\ current' = current + 1
<1>1. current \in Nat /\ msg.index \in Nat /\ current <= msg.index
  BY HandledMessage, BoundsAssumption
     DEF TypeOK, IoType, HandlerPoints, Framed, Approaching, Indexes
<1>2. CASE current < msg.index
  <2>1. current' = current + 1 /\ UNCHANGED <<msg, results>>
    BY <1>2 DEF UseFrame, Stay, postVars
  <2>2. current' <= msg'.index
    BY <1>1, <1>2, <2>1
  <2> QED
    BY <2>1, <2>2 DEF Framed, Approaching, RightFrame, IndexOf
<1>3. CASE ~(current < msg.index)
  <2> DEFINE r == [id |-> msg.id, index |-> msg.index, frame |-> frame, sure |-> sure]
  <2>1. /\ current' = msg.index + 1 /\ Return /\ results' = Append(results, r)
    BY <1>3 DEF UseFrame
  <2>2. r.sure => IndexOf(r.frame) = r.index
    BY <1>1, <1>3
  <2> HIDE DEF r
  <2>3. RightFrame'
    BY <2>1, <2>2, ResultFramed DEF TypeOK, Framed
  <2>4. Approaching'
    BY <2>1 DEF Return, Approaching
  <2> QED
    BY <1>1, <1>3, <2>1, <2>3, <2>4
<1> QED
  BY <1>2, <1>3

(* The next packet is sent.                                                *)
LEMMA SentFramed ==
  ASSUME TypeOK, Framed, ctx # "none", ~drifted, pos < Visible(io)
  PROVE  InOrder(Sent, current) /\ Frames(pos + 1, sel) = current + Len(Sent)
<1>1. /\ pos \in Nat /\ current \in Nat /\ buf \in Seq(Packets)
      /\ InOrder(buf, current) /\ Frames(pos, sel) = current + Len(buf)
  BY DEF TypeOK, IoType, Framed, Counted
<1>2. CASE File[pos + 1] = sel
  <2>1. /\ Sent = Append(buf, pos + 1) /\ Len(Sent) = Len(buf) + 1
        /\ \A i \in DOMAIN Sent : \/ i \in DOMAIN buf /\ Sent[i] = buf[i]
                                  \/ i = Len(buf) + 1 /\ Sent[i] = pos + 1
    BY <1>1, <1>2 DEF Sent
  <2>2. (pos + 1) - 1 = pos /\ current + (Len(buf) + 1) - 1 = current + Len(buf)
    BY <1>1
  <2>3. InOrder(Sent, current)
    BY <1>1, <1>2, <2>1, <2>2 DEF InOrder
  <2> QED
    BY <1>1, <1>2, <2>1, <2>3, FramesNext
<1>3. CASE File[pos + 1] # sel
  <2>1. Sent = buf
    BY <1>3 DEF Sent
  <2> QED
    BY <1>1, <1>3, <2>1, FramesNext
<1> QED
  BY <1>2, <1>3

(* A packet leaves the codec.                                              *)
LEMMA InOrderTail ==
  ASSUME TypeOK, NEW b \in Seq(Packets), b # <<>>, InOrder(b, current)
  PROVE  IndexOf(Head(b)) = current /\ InOrder(Tail(b), current + 1)
<1>1. current \in Nat
  BY DEF TypeOK, IoType
<1>2. /\ 1 \in DOMAIN b /\ Head(b) = b[1]
      /\ \A i \in DOMAIN Tail(b) : /\ i \in Nat /\ i + 1 \in DOMAIN b /\ Tail(b)[i] = b[i + 1]
  OBVIOUS
<1>3. \A i \in Nat : current + (i + 1) - 1 = (current + 1) + i - 1
  BY <1>1
<1>4. InOrder(Tail(b), current + 1)
  BY <1>2, <1>3 DEF InOrder
<1>5. File[b[1]] = sel /\ Frames(b[1] - 1, sel) = current
  BY <1>1, <1>2 DEF InOrder
<1>6. IndexOf(Head(b)) = current
  BY <1>2, <1>5 DEF IndexOf, Frames
<1> QED
  BY <1>4, <1>6

LEMMA OnDecodeReceivesFramed ==
  ASSUME TypeOK, Framed, OnDecodeReceives
  PROVE  Framed'
<1>1. /\ Sent \in Seq(Packets) /\ Sent # <<>> /\ wpc = "read" /\ ctx # "none"
      /\ pos' = pos + 1 /\ buf' = Tail(Sent) /\ UNCHANGED <<ctx, sel, drifted>>
      /\ UseFrame(Head(Sent), ~drifted) /\ pos < Visible(io) /\ Len(Sent) > 0
  BY SentTyped, BoundsAssumption DEF OnDecodeReceives, MayRead
<1>2. ~drifted => /\ IndexOf(Head(Sent)) = current /\ InOrder(Tail(Sent), current + 1)
                  /\ Frames(pos + 1, sel) = current + Len(Sent)
  BY <1>1, SentFramed, InOrderTail
<1>3. RightFrame' /\ Approaching' /\ current' = current + 1
  BY <1>1, <1>2, UseFrameFramed
<1>4. Counted'
  <2> SUFFICES ASSUME ~drifted PROVE Counted'
    BY <1>1 DEF Counted
  <2>1. InOrder(buf, current)'
    BY <1>1, <1>2, <1>3 DEF InOrder, Frames
  <2>2. Frames(pos, sel)' = current + Len(Sent)
    BY <1>1, <1>2 DEF Frames
  <2>3. current + Len(Sent) = (current + 1) + Len(Tail(Sent))
    BY <1>1 DEF TypeOK, IoType
  <2> QED
    BY <1>1, <1>3, <2>1, <2>2, <2>3 DEF Counted
<1> QED
  BY <1>3, <1>4 DEF Framed

LEMMA OnDecodeDrainsFramed ==
  ASSUME TypeOK, Framed, OnDecodeDrains
  PROVE  Framed'
<1>1. /\ buf \in Seq(Packets) /\ buf # <<>> /\ wpc = "read" /\ ctx # "none"
      /\ buf' = Tail(buf) /\ UNCHANGED <<pos, sel, drifted>>
      /\ UseFrame(Head(buf), ~drifted)
  BY DEF OnDecodeDrains, MayRead, TypeOK, IoType
<1>2. ~drifted => /\ IndexOf(Head(buf)) = current /\ InOrder(Tail(buf), current + 1)
                  /\ Frames(pos, sel) = current + Len(buf)
  BY <1>1, InOrderTail DEF Framed, Counted
<1>3. RightFrame' /\ Approaching' /\ current' = current + 1
  BY <1>1, <1>2, UseFrameFramed
<1>4. Counted'
  <2> SUFFICES ASSUME ~drifted PROVE Counted'
    BY <1>1 DEF Counted
  <2>1. InOrder(buf, current)'
    BY <1>1, <1>2, <1>3 DEF InOrder, Frames
  <2>2. Frames(pos, sel)' = current + Len(buf)
    BY <1>1, <1>2 DEF Frames
  <2>3. current + Len(buf) = (current + 1) + Len(Tail(buf))
    BY <1>1 DEF TypeOK, IoType
  <2> QED
    BY <1>1, <1>3, <2>1, <2>2, <2>3 DEF Counted
<1> QED
  BY <1>3, <1>4 DEF Framed

LEMMA OnDecodeReadsFramed ==
  ASSUME TypeOK, Framed, OnDecodeReads
  PROVE  Framed'
<1>1. /\ ctx # "none" /\ pos < Visible(io) /\ pos' = pos + 1 /\ buf' = Sent
      /\ UNCHANGED <<wpc, msg, ctx, sel, current, drifted, results>>
  BY DEF OnDecodeReads, MayRead, postVars
<1>2. Counted'
  <2> SUFFICES ASSUME ~drifted PROVE Counted'
    BY <1>1 DEF Counted
  <2>1. InOrder(Sent, current) /\ Frames(pos + 1, sel) = current + Len(Sent)
    BY <1>1, SentFramed
  <2> QED
    BY <1>1, <2>1 DEF Counted, InOrder, Frames
<1> QED
  BY <1>1, <1>2 DEF Framed, Approaching, RightFrame, IndexOf

LEMMA OnDecodeSeeksFramed ==
  ASSUME TypeOK, Framed, OnDecodeSeeks
  PROVE  Framed'
<1>1. msg.index \in Nat /\ current \in Nat
  BY HandledMessage, BoundsAssumption
     DEF TypeOK, IoType, OnDecodeSeeks, HandlerPoints, Indexes
<1>2. UNCHANGED <<msg, sel, results>>
  BY DEF OnDecodeSeeks, Stay, Rewind, codecVars, postVars
<1>3. RightFrame'
  BY <1>2 DEF Framed, RightFrame, IndexOf
<1>4. CASE msg.index < current
  <2>1. Rewind /\ buf' = <<>> /\ current' = 0
    BY <1>4 DEF OnDecodeSeeks, Rewind
  <2>2. drifted' = TRUE \/ pos' = 0
    BY <2>1 DEF Rewind
  <2>3. Approaching'
    BY <1>1, <1>2, <2>1 DEF Approaching
  <2>4. InOrder(buf, current)' /\ Len(buf') = 0
    BY <2>1 DEF InOrder
  <2>5. pos' = 0 => Frames(pos, sel)' = 0
    BY FramesNone DEF Frames
  <2>6. Counted'
    BY <2>1, <2>2, <2>4, <2>5 DEF Counted
  <2> QED
    BY <1>3, <2>3, <2>6 DEF Framed
<1>5. CASE ~(msg.index < current)
  <2>1. UNCHANGED codecVars /\ current' <= msg'.index
    BY <1>1, <1>2, <1>5 DEF OnDecodeSeeks, codecVars
  <2> QED
    BY <1>3, <2>1 DEF Framed, Approaching, Counted, codecVars, InOrder, Frames
<1> QED
  BY <1>4, <1>5

LEMMA OnDecodeReadsStaleFramed ==
  ASSUME TypeOK, Framed, OnDecodeReadsStale
  PROVE  Framed'
<1>1. drifted' = TRUE /\ wpc = "read"
  BY DEF OnDecodeReadsStale, MayRead
<1>2. CASE UseFrame(0, FALSE)
  BY <1>1, <1>2, UseFrameFramed DEF Framed, Counted
<1>3. CASE OutputError(msg.id) /\ Return
  BY <1>1, <1>3, FramedAnew DEF OutputError, Return
<1> QED
  BY <1>2, <1>3 DEF OnDecodeReadsStale

LEMMA WorkerFramed ==
  ASSUME TypeOK, Framed, WorkerStep
  PROVE  Framed'
<1>1. CASE LoopTest \/ Timeout \/ OnStreamError
  BY <1>1, FramedKept DEF LoopTest, Timeout, OnStreamError, Stay, Return, OutputError,
                          codecVars, postVars
<1>2. CASE Dispatch
  <2>1. wpc' # "read"
    BY <1>2, MessageTypes DEF TypeOK, QueueType, Dispatch, TakeFront
  <2> QED
    BY <1>2, <2>1, FramedKept DEF Dispatch, codecVars, postVars
<1>3. CASE OnConfigure
  BY <1>3, FramedKept, FramedAnew
     DEF OnConfigure, Return, OutputError, Opens, FailsToOpen, codecVars, postVars
<1>4. CASE OnStreamData
  BY <1>4, FramedKept, FramedAnew
     DEF OnStreamData, Return, OutputError, Opens, FailsToOpen, codecVars, postVars
<1>5. CASE OnStreamEnd
  BY <1>5, FramedKept, FramedAnew
     DEF OnStreamEnd, Return, OutputError, Opens, FailsToOpen, codecVars, postVars
<1>6. CASE OnReset \/ OnClose
  BY <1>6, FramedAnew DEF OnReset, OnClose, Rewind, Return, postVars
<1>7. CASE OnUpdateTrack
  BY <1>7, FramedKept, FramedAnew
     DEF OnUpdateTrack, Return, OutputError, codecVars, postVars
<1>8. CASE OnDecodeRefuses
  BY <1>8, FramedKept DEF OnDecodeRefuses, Return, OutputError, codecVars
<1>9. CASE OnDecodeFails
  <2>1. wpc' # "read" /\ UNCHANGED results
    BY <1>9 DEF OnDecodeFails, Return, OutputError
  <2>2. CASE UNCHANGED <<sel, current, pos, buf, drifted>> /\ (ctx' # "none" => ctx # "none")
    BY <2>1, <2>2 DEF Framed, Counted, Approaching, RightFrame, InOrder, Frames, IndexOf
  <2>3. CASE drifted' = TRUE
    BY <2>1, <2>3, FramedAnew
  <2>4. CASE /\ MayRead /\ pos < Visible(io) /\ File[pos + 1] # sel
             /\ pos' = pos + 1 /\ UNCHANGED <<ctx, sel, current, buf, drifted>>
    <3> SUFFICES ASSUME ~drifted PROVE Framed'
      BY <2>3, <2>4 DEF TypeOK, IoType
    <3>1. InOrder(buf, current) /\ Frames(pos + 1, sel) = current + Len(buf)
      BY <2>4, SentFramed DEF Sent, MayRead
    <3>2. Counted'
      BY <2>4, <3>1 DEF Counted, InOrder, Frames
    <3> QED
      BY <2>1, <3>2 DEF Framed, Approaching, RightFrame, IndexOf
  <2> QED
    BY <1>9, <2>2, <2>3, <2>4
       DEF OnDecodeFails, NoMoreFrames, ReadFails, DrainFails, MayRead, codecVars
<1> QED
  BY <1>1, <1>2, <1>3, <1>4, <1>5, <1>6, <1>7, <1>8, <1>9, OnDecodeSeeksFramed,
     OnDecodeReadsFramed, OnDecodeReceivesFramed, OnDecodeDrainsFramed,
     OnDecodeReadsStaleFramed DEF WorkerStep, Handlers, OnDecode

LEMMA StepFramed ==
  ASSUME TypeOK, Framed, [Next]_vars
  PROVE  Framed'
<1>1. CASE Worker
  BY <1>1, WorkerFramed DEF Worker
<1>2. CASE OnDecodeResult
  <2>1. results' = Tail(results) /\ results # <<>> /\ UNCHANGED workerVars
    BY <1>2 DEF OnDecodeResult
  <2>2. \A i \in DOMAIN results' : i + 1 \in DOMAIN results /\ results'[i] = results[i + 1]
    BY <2>1 DEF TypeOK, PostType
  <2>3. RightFrame'
    BY <2>2 DEF Framed, RightFrame, IndexOf
  <2> QED
    BY <2>1, <2>3 DEF Framed, Counted, Approaching, workerVars, codecVars, InOrder, Frames
<1>3. CASE ReleaseStops
  BY <1>3, FramedKept DEF ReleaseStops, codecVars, postVars
<1>4. CASE UNCHANGED <<workerVars, results>>
  BY <1>4, FramedKept DEF workerVars, codecVars
<1>5. CASE \/ \E index \in Indexes : Decode(index)
           \/ Reset \/ Close \/ Abort
           \/ \E t \in Tracks, value \in BOOLEAN : SelectTrack(t, value)
  BY <1>4, <1>5 DEF Decode, Reset, Close, Abort, AbortClears, AbortRejects, AbortEnds,
                    SelectTrack, postVars
<1>6. CASE \/ StreamChunk \/ StreamEnds \/ StreamFails
           \/ OnError \/ OnTracksReady \/ OnCompleted \/ ReleaseEnds \/ UNCHANGED vars
  BY <1>4, <1>6 DEF StreamChunk, StreamEnds, StreamFails, StreamGives,
                    OnError, OnTracksReady, OnCompleted, ReleaseEnds, postVars, vars
<1> QED
  BY <1>1, <1>2, <1>3, <1>5, <1>6 DEF Next, Callbacks, Release

(* A result that is sure holds the frame that was asked for, whatever the  *)
(* codec holds back and however decodes and resets come in between.        *)
THEOREM ImageRightFrame == Spec => []RightFrame
<1>1. Init => Framed
  BY DEF Init, WorkerInit, Framed, Counted, Approaching, RightFrame
<1>2. TypeOK /\ Framed /\ [Next]_vars => Framed'
  BY StepFramed
<1>3. Framed => RightFrame
  BY DEF Framed
<1> QED
  BY <1>1, <1>2, <1>3, ImageDecoderTypeCorrect, PTL DEF Spec

-----------------------------------------------------------------------------
(* The messages of a kind in a sequence.                                   *)

Has(s, kind) == \E i \in DOMAIN s : s[i].type = kind

LEMMA HasAppend ==
  ASSUME NEW S, NEW s \in Seq(S), NEW m, NEW kind
  PROVE  Has(Append(s, m), kind) <=> Has(s, kind) \/ m.type = kind
<1>1. /\ DOMAIN Append(s, m) = DOMAIN s \cup {Len(s) + 1}
      /\ \A i \in DOMAIN s : Append(s, m)[i] = s[i]
      /\ Append(s, m)[Len(s) + 1] = m
  OBVIOUS
<1> QED
  BY <1>1, Zenon DEF Has

LEMMA HasTail ==
  ASSUME NEW S, NEW s \in Seq(S), s # <<>>, NEW kind
  PROVE  Has(s, kind) <=> Head(s).type = kind \/ Has(Tail(s), kind)
<1>1. /\ 1 \in DOMAIN s /\ s[1] = Head(s)
      /\ \A i \in DOMAIN Tail(s) : i + 1 \in DOMAIN s /\ Tail(s)[i] = s[i + 1]
      /\ \A i \in DOMAIN s : i = 1 \/ (i - 1 \in DOMAIN Tail(s) /\ Tail(s)[i - 1] = s[i])
  OBVIOUS
<1> QED
  BY <1>1, Zenon DEF Has

(* The message after which the image is complete: the end of the stream, or*)
(* the configure message when there is no stream.                          *)
Last(m, waits)    == m.type = "end" \/ (~waits /\ m.type = "configure")
HasLast(s, waits) == Has(s, "end") \/ (~waits /\ Has(s, "configure"))
OneLast(s, waits) == \A i, j \in DOMAIN s : Last(s[i], waits) /\ Last(s[j], waits) => i = j

LEMMA LastAppend ==
  ASSUME NEW S, NEW s \in Seq(S), NEW m, NEW w
  PROVE  /\ HasLast(Append(s, m), w) <=> HasLast(s, w) \/ Last(m, w)
         /\ OneLast(s, w) /\ ~(HasLast(s, w) /\ Last(m, w)) => OneLast(Append(s, m), w)
<1>1. HasLast(Append(s, m), w) <=> HasLast(s, w) \/ Last(m, w)
  BY HasAppend, Zenon DEF HasLast, Last
<1>2. \A i \in DOMAIN Append(s, m) : \/ i \in DOMAIN s /\ Append(s, m)[i] = s[i]
                                     \/ i = Len(s) + 1 /\ Append(s, m)[i] = m
  OBVIOUS
<1>3. ASSUME NEW i \in DOMAIN s, Last(s[i], w)
      PROVE  HasLast(s, w)
  BY <1>3, Zenon DEF HasLast, Has, Last
<1> QED
  BY <1>1, <1>2, <1>3, Zenon DEF OneLast

LEMMA LastTail ==
  ASSUME NEW S, NEW s \in Seq(S), s # <<>>, NEW w
  PROVE  /\ HasLast(s, w) <=> Last(Head(s), w) \/ HasLast(Tail(s), w)
         /\ OneLast(s, w) => OneLast(Tail(s), w) /\ ~(Last(Head(s), w) /\ HasLast(Tail(s), w))
<1>1. HasLast(s, w) <=> Last(Head(s), w) \/ HasLast(Tail(s), w)
  BY HasTail, Zenon DEF HasLast, Last
<1>2. /\ 1 \in DOMAIN s /\ s[1] = Head(s)
      /\ \A i \in DOMAIN Tail(s) : i + 1 \in DOMAIN s /\ i + 1 # 1 /\ Tail(s)[i] = s[i + 1]
      /\ \A i, j \in DOMAIN Tail(s) : i + 1 = j + 1 => i = j
  OBVIOUS
<1>3. OneLast(s, w) => OneLast(Tail(s), w)
  BY <1>2, Zenon DEF OneLast
<1>4. ASSUME HasLast(Tail(s), w)
      PROVE  \E i \in DOMAIN Tail(s) : Last(Tail(s)[i], w)
  BY <1>4, Zenon DEF HasLast, Has, Last
<1>5. OneLast(s, w) => ~(Last(Head(s), w) /\ HasLast(Tail(s), w))
  BY <1>2, <1>4, Zenon DEF OneLast
<1> QED
  BY <1>1, <1>3, <1>5

-----------------------------------------------------------------------------
(* The image is complete once at most.                                     *)

(* The last message is in one place: it has yet to come from the stream,   *)
(* or is queued, kept by ClearDecodes or in the worker's hand, or its      *)
(* report is on the way, or has arrived.                                   *)
CompletesOnce ==
  /\ OneLast(queue, streaming) /\ OneLast(remaining, streaming)
  /\ stream = "reading" => ~HasLast(queue, streaming)
  /\ stream = "reading" \/ HasLast(queue, streaming) => ~HasLast(remaining, streaming)
  /\ stream = "reading" \/ HasLast(queue, streaming) \/ HasLast(remaining, streaming)
       => ~Last(msg, streaming)
  /\ \/ stream = "reading" \/ HasLast(queue, streaming) \/ HasLast(remaining, streaming)
     \/ Last(msg, streaming)
     => completions = 0
  /\ \/ stream = "reading" \/ HasLast(queue, streaming) \/ HasLast(remaining, streaming)
     \/ Last(msg, streaming) \/ completions # 0
     => ~complete
  /\ completions \in {0, 1}

LEMMA CompletesKept ==
  ASSUME CompletesOnce, UNCHANGED <<queue, remaining, msg, completions, complete, streaming>>,
         stream' = "reading" => stream = "reading"
  PROVE  CompletesOnce'
  BY DEF CompletesOnce

LEMMA EnqueueCompletes ==
  ASSUME TypeOK, CompletesOnce, NEW m, Enqueue(m),
         UNCHANGED <<msg, completions, complete, streaming>>,
         stream' = "reading" => stream = "reading",
         Last(m, streaming) => stream = "reading" /\ stream' # "reading"
  PROVE  CompletesOnce'
<1>1. queue \in Seq(Messages) /\ remaining' = remaining
  BY DEF TypeOK, QueueType, Enqueue
<1>2. CASE queue' = queue
  BY <1>1, <1>2, CompletesKept
<1>3. CASE queue' = Append(queue, m)
  <2>1. /\ HasLast(queue', streaming) <=> HasLast(queue, streaming) \/ Last(m, streaming)
        /\ OneLast(queue, streaming) /\ ~(HasLast(queue, streaming) /\ Last(m, streaming))
             => OneLast(queue', streaming)
    BY <1>1, <1>3, LastAppend
  <2> QED
    BY <1>1, <2>1 DEF CompletesOnce
<1> QED
  BY <1>2, <1>3 DEF Enqueue

LEMMA AbortClearsCompletes ==
  ASSUME TypeOK, CompletesOnce, AbortClears
  PROVE  CompletesOnce'
<1>1. /\ queue \in Seq(Messages) /\ remaining \in Seq(Messages) /\ ClearDecodes
      /\ UNCHANGED <<msg, completions, complete, streaming, stream>>
  BY DEF TypeOK, QueueType, AbortClears, workerVars, postVars, jsVars, trackVars
<1>2. ~HasLast(<<>>, streaming) /\ OneLast(<<>>, streaming)
  BY DEF HasLast, Has, OneLast
<1>3. CASE queue = <<>>
  <2>1. queue' = remaining /\ remaining' = <<>>
    BY <1>1, <1>3 DEF ClearDecodes
  <2> QED
    BY <1>1, <1>2, <1>3, <2>1 DEF CompletesOnce
<1>4. CASE queue # <<>>
  <2>1. /\ queue' = Tail(queue)
        /\ \/ Head(queue).type = "decode" /\ remaining' = remaining
           \/ remaining' = Append(remaining, Head(queue))
    BY <1>1, <1>4 DEF ClearDecodes
  <2>2. /\ HasLast(queue, streaming) <=> Last(Head(queue), streaming) \/ HasLast(queue', streaming)
        /\ OneLast(queue, streaming) =>
             /\ OneLast(queue', streaming)
             /\ ~(Last(Head(queue), streaming) /\ HasLast(queue', streaming))
    BY <1>1, <1>4, <2>1, LastTail
  <2>3. CASE Head(queue).type = "decode" /\ remaining' = remaining
    <3>1. ~Last(Head(queue), streaming)
      BY <2>3 DEF Last
    <3> QED
      BY <1>1, <2>2, <2>3, <3>1 DEF CompletesOnce
  <2>4. CASE remaining' = Append(remaining, Head(queue))
    <3>1. /\ HasLast(remaining', streaming)
               <=> HasLast(remaining, streaming) \/ Last(Head(queue), streaming)
          /\ OneLast(remaining, streaming)
               /\ ~(HasLast(remaining, streaming) /\ Last(Head(queue), streaming))
             => OneLast(remaining', streaming)
      BY <1>1, <2>4, LastAppend
    <3> QED
      BY <1>1, <2>2, <3>1 DEF CompletesOnce
  <2> QED
    BY <2>1, <2>3, <2>4
<1> QED
  BY <1>3, <1>4

LEMMA DispatchCompletes ==
  ASSUME TypeOK, CompletesOnce, Dispatch, UNCHANGED jsVars
  PROVE  CompletesOnce'
<1>1. /\ queue \in Seq(Messages) /\ queue # <<>> /\ queue' = Tail(queue) /\ msg' = Head(queue)
      /\ UNCHANGED <<remaining, completions, complete, streaming, stream>>
  BY DEF TypeOK, QueueType, Dispatch, TakeFront, postVars, jsVars, trackVars
<1>2. /\ HasLast(queue, streaming) <=> Last(msg', streaming) \/ HasLast(queue', streaming)
      /\ OneLast(queue, streaming) => /\ OneLast(queue', streaming)
                                      /\ ~(Last(msg', streaming) /\ HasLast(queue', streaming))
  BY <1>1, LastTail
<1> QED
  BY <1>1, <1>2 DEF CompletesOnce

(* A handler reports completion for the last message only.                 *)
LEMMA HandlerCompletes ==
  ASSUME TypeOK, CompletesOnce, UNCHANGED <<jsVars, queueVars, streaming>>,
         \/ msg' \in {msg, NoMessage} /\ UNCHANGED completions
         \/ msg' = NoMessage /\ completions' = completions + 1 /\ Last(msg, streaming)
  PROVE  CompletesOnce'
<1>1. ~Last(NoMessage, streaming)
  BY DEF Last, NoMessage
<1>2. UNCHANGED <<queue, remaining, stream, complete>>
  BY DEF queueVars, jsVars, trackVars
<1> QED
  BY <1>1, <1>2 DEF CompletesOnce

LEMMA WorkerCompletes ==
  ASSUME TypeOK, CompletesOnce, Worker
  PROVE  CompletesOnce'
<1>1. CASE Dispatch
  BY <1>1, DispatchCompletes DEF Worker
<1>2. CASE LoopTest \/ Timeout
  BY <1>2, HandlerCompletes DEF Worker, LoopTest, Timeout, TakeNothing, Stay, postVars
<1>3. CASE OnConfigure
  <2>1. msg.type = "configure"
    BY <1>3 DEF TypeOK, WorkerType, OnConfigure, HandlerPoints
  <2>2. msg' = NoMessage /\ UNCHANGED <<jsVars, queueVars, streaming>>
    BY <1>3 DEF Worker, OnConfigure, Return
  <2>3. UNCHANGED completions \/ (~streaming /\ completions' = completions + 1)
    BY <1>3 DEF OnConfigure, OutputError, postVars
  <2> QED
    BY <2>1, <2>2, <2>3, HandlerCompletes DEF Last
<1>4. CASE OnStreamEnd
  <2>1. msg.type = "end"
    BY <1>4 DEF TypeOK, WorkerType, OnStreamEnd, HandlerPoints
  <2>2. msg' = NoMessage /\ UNCHANGED <<jsVars, queueVars, streaming>>
    BY <1>4 DEF Worker, OnStreamEnd, Return
  <2>3. UNCHANGED completions \/ completions' = completions + 1
    BY <1>4 DEF OnStreamEnd, OutputError
  <2> QED
    BY <2>1, <2>2, <2>3, HandlerCompletes DEF Last
<1>5. CASE OnStreamData \/ OnStreamError \/ OnReset \/ OnClose \/ OnUpdateTrack
  <2>1. msg' = NoMessage /\ UNCHANGED <<jsVars, queueVars, streaming, completions>>
    BY <1>5 DEF Worker, OnStreamData, OnStreamError, OnReset, OnClose, OnUpdateTrack,
                Return, OutputError, postVars
  <2> QED
    BY <2>1, HandlerCompletes
<1>6. CASE OnDecode
  <2>1. msg' \in {msg, NoMessage} /\ UNCHANGED <<jsVars, queueVars, streaming, completions>>
    BY <1>6 DEF Worker, OnDecode, OnDecodeRefuses, OnDecodeSeeks, OnDecodeReads,
                OnDecodeReceives, OnDecodeDrains, OnDecodeFails, OnDecodeReadsStale,
                UseFrame, Return, Stay, OutputError, postVars
  <2> QED
    BY <2>1, HandlerCompletes
<1> QED
  BY <1>1, <1>2, <1>3, <1>4, <1>5, <1>6 DEF Worker, WorkerStep, Handlers

LEMMA StepCompletes ==
  ASSUME TypeOK, Fresh, CompletesOnce, [Next]_vars
  PROVE  CompletesOnce'
<1> DEFINE Same == UNCHANGED <<msg, completions, complete, streaming>>
                     /\ (stream' = "reading" => stream = "reading")
<1>1. ASSUME NEW m, Enqueue(m), m.type \notin {"configure", "end"}, Same
      PROVE  CompletesOnce'
  BY <1>1, EnqueueCompletes DEF Last
<1>2. ASSUME Same, UNCHANGED <<queue, remaining>>
      PROVE  CompletesOnce'
  BY <1>2, CompletesKept
<1>3. ASSUME NEW index \in Indexes, Decode(index)
      PROVE  CompletesOnce'
  BY <1>1, <1>3 DEF Decode, workerVars, postVars, trackVars
<1>4. CASE Reset \/ Close
  <2>1. Same /\ UNCHANGED queue /\ remaining' = <<>>
    BY <1>4 DEF Reset, Close, BeginClear, workerVars, postVars, trackVars
  <2>2. remaining = <<>>
    BY <1>4 DEF Reset, Close, Idle, TypeOK, QueueType, Fresh
  <2> QED
    BY <1>2, <2>1, <2>2
<1>5. CASE AbortClears
  BY <1>5, AbortClearsCompletes
<1>6. CASE AbortRejects \/ OnDecodeResult \/ OnError \/ OnTracksReady \/ Release \/ UNCHANGED vars
  <2>1. Same /\ UNCHANGED <<queue, remaining>>
    BY <1>6 DEF AbortRejects, OnDecodeResult, OnError, OnTracksReady, Release, ReleaseStops,
                ReleaseEnds, Shutdown, vars, jsVars, queueVars, workerVars, postVars, trackVars
  <2> QED
    BY <1>2, <2>1
<1>7. CASE AbortEnds
  <2>1. Same /\ Enqueue([type |-> IF closed THEN "close" ELSE "reset"])
    BY <1>7 DEF AbortEnds, workerVars, postVars
  <2> QED
    BY <1>1, <2>1
<1>8. ASSUME NEW t \in Tracks, NEW value \in BOOLEAN, SelectTrack(t, value)
      PROVE  CompletesOnce'
  <2>1. Same
    BY <1>8 DEF SelectTrack, workerVars, postVars, trackVars
  <2>2. \/ UNCHANGED <<queue, remaining>>
        \/ Enqueue([type |-> "track", index |-> selectedIndex'])
    BY <1>8 DEF SelectTrack
  <2> QED
    BY <1>1, <1>2, <2>1, <2>2
<1>9. CASE StreamChunk \/ StreamFails
  <2>1. Same
    BY <1>9 DEF StreamChunk, StreamFails, StreamGives, workerVars, postVars, trackVars
  <2>2. \/ UNCHANGED <<queue, remaining>>
        \/ Enqueue([type |-> "data"]) \/ Enqueue([type |-> "error"])
    BY <1>9 DEF StreamChunk, StreamFails, StreamGives
  <2> QED
    BY <1>1, <1>2, <2>1, <2>2
<1>10. CASE StreamEnds
  <2>1. Same /\ stream = "reading" /\ stream' = "over"
    BY <1>10 DEF StreamEnds, StreamGives, workerVars, postVars, trackVars
  <2>2. UNCHANGED <<queue, remaining>> \/ Enqueue([type |-> "end"])
    BY <1>10 DEF StreamEnds, StreamGives
  <2> QED
    BY <1>2, <2>1, <2>2, EnqueueCompletes
<1>11. CASE OnCompleted
  <2>1. /\ completions > 0 /\ completions' = completions - 1
        /\ UNCHANGED <<queue, remaining, msg, streaming, stream>>
    BY <1>11 DEF OnCompleted, queueVars, workerVars
  <2>2. completions = 1 /\ completions' = 0
    BY <2>1 DEF CompletesOnce
  <2> QED
    BY <2>1, <2>2 DEF CompletesOnce
<1>12. CASE Worker
  BY <1>12, WorkerCompletes
<1> QED
  BY <1>3, <1>4, <1>5, <1>6, <1>7, <1>8, <1>9, <1>10, <1>11, <1>12 DEF Next, Abort, Callbacks

-----------------------------------------------------------------------------
(* The promises of the track list and of completed.                        *)

Promising == PromisesAgree /\ (established => configured)

LEMMA WorkerPromises ==
  ASSUME TypeOK, Fresh, Listing, Promising, CompletesOnce', Worker
  PROVE  Promising'
<1>1. UNCHANGED jsVars
  BY DEF Worker
<1>2. \/ UNCHANGED <<configured, tracksReady>>
      \/ ~configured /\ configured' /\ tracksReady' = Append(tracksReady, Best)
  BY WorkerOpens DEF Worker, Opens
<1>3. complete' => completions' = 0
  BY DEF CompletesOnce
<1>4. CASE UNCHANGED <<configured, tracksReady>>
  BY <1>1, <1>3, <1>4 DEF Promising, PromisesAgree, Idle, jsVars, trackVars
<1>5. CASE ~configured /\ configured' /\ tracksReady' = Append(tracksReady, Best)
  <2>1. tracksReady' # <<>>
    BY <1>5 DEF TypeOK, PostType
  <2> QED
    BY <1>1, <1>3, <1>5, <2>1 DEF Promising, PromisesAgree, Idle, jsVars, trackVars
<1> QED
  BY <1>2, <1>4, <1>5

LEMMA StepPromises ==
  ASSUME TypeOK, Fresh, Listing, CompletesOnce, CompletesOnce', Promising, [Next]_vars
  PROVE  Promising'
<1>1. complete' => completions' = 0
  BY DEF CompletesOnce
<1>2. CASE Worker
  BY <1>2, WorkerPromises
<1>3. CASE Reset \/ Close \/ ReleaseStops \/ ReleaseEnds
  BY <1>3 DEF Reset, Close, ReleaseStops, ReleaseEnds, Promising, PromisesAgree, Idle,
              ioVars, workerVars, postVars, trackVars
<1>4. CASE \/ AbortClears \/ AbortRejects \/ OnDecodeResult \/ UNCHANGED vars
           \/ \E index \in Indexes : Decode(index)
           \/ \E t \in Tracks, value \in BOOLEAN : SelectTrack(t, value)
           \/ StreamChunk \/ StreamEnds \/ StreamFails
  <2>1. UNCHANGED <<configured, tracksReady, completions, established, ready, complete,
                    completed, closed, life, aborting>>
    BY <1>4 DEF AbortClears, AbortRejects, OnDecodeResult, vars, Decode, SelectTrack,
                StreamChunk, StreamEnds, StreamFails, StreamGives, jsVars, ioVars, workerVars,
                postVars, trackVars
  <2> QED
    BY <2>1 DEF Promising, PromisesAgree, Idle
<1>5. CASE AbortEnds
  BY <1>5 DEF AbortEnds, Once, Promising, PromisesAgree, Idle, ioVars, workerVars, postVars
<1>6. CASE OnError
  BY <1>6 DEF OnError, Once, Promising, PromisesAgree, Idle, ioVars, workerVars
<1>7. CASE OnTracksReady
  <2>1. tracksReady # <<>> /\ tracksReady' = Tail(tracksReady) /\ Len(tracksReady) = 1
    BY <1>7 DEF OnTracksReady, Listing
  <2>2. Len(tracksReady') = 0
    BY <2>1 DEF TypeOK, PostType
  <2>3. configured
    BY <2>1 DEF Listing
  <2> QED
    BY <1>7, <2>1, <2>2, <2>3
       DEF OnTracksReady, Once, Promising, PromisesAgree, Idle, ioVars, workerVars
<1>8. CASE OnCompleted
  BY <1>1, <1>8 DEF OnCompleted, Once, Promising, PromisesAgree, Idle, ioVars, workerVars
<1> QED
  BY <1>2, <1>3, <1>4, <1>5, <1>6, <1>7, <1>8 DEF Next, Abort, Callbacks, Release

LEMMA InitPromises ==
  ASSUME Init
  PROVE  CompletesOnce /\ Promising
<1>1. PICK empty \in BOOLEAN : QueueInit([type |-> "configure", empty |-> empty])
  BY DEF Init
<1> DEFINE m == [type |-> "configure", empty |-> empty]
<1>2. queue = <<m>> /\ remaining = <<>> /\ m.type = "configure"
  BY <1>1 DEF QueueInit
<1> HIDE DEF m
<1>3. /\ msg = NoMessage /\ completions = 0 /\ ~complete /\ streaming \in BOOLEAN
      /\ stream = IF streaming THEN "reading" ELSE "none"
  BY DEF Init, WorkerInit
<1>4. DOMAIN queue = {1} /\ queue[1] = m
  BY <1>2
<1>5. ~HasLast(remaining, streaming) /\ OneLast(remaining, streaming)
  BY <1>2 DEF HasLast, Has, OneLast
<1>6. OneLast(queue, streaming) /\ (HasLast(queue, streaming) => ~streaming)
  BY <1>2, <1>4 DEF HasLast, Has, OneLast
<1>7. ~Last(msg, streaming)
  BY <1>3 DEF Last, NoMessage
<1>8. CompletesOnce
  BY <1>3, <1>5, <1>6, <1>7 DEF CompletesOnce
<1>9. Promising
  BY DEF Init, WorkerInit, Promising, PromisesAgree
<1> QED
  BY <1>8, <1>9

(* Nothing is awaited for ever once close() has returned, and no report of *)
(* the worker is lost before, for any image and any order of the calls.    *)
THEOREM ImagePromisesAgree == Spec => []PromisesAgree
<1> DEFINE Inv == Fresh /\ Listing /\ CompletesOnce /\ Promising
<1>1. Init => Inv
  BY InitListing, InitPromises
<1>2. TypeOK /\ Inv /\ [Next]_vars => Inv'
  BY StepFresh, StepListing, StepCompletes, StepPromises
<1>3. Inv => PromisesAgree
  BY DEF Promising
<1> QED
  BY <1>1, <1>2, <1>3, ImageDecoderTypeCorrect, PTL DEF Spec

-----------------------------------------------------------------------------
(* Close messages.                                                         *)

(* The worker is told to close only when the decoder is closed.            *)
Closing ==
  /\ life # "alive" => closed
  /\ ~closed => ~Has(queue, "close") /\ ~Has(remaining, "close") /\ msg.type # "close"

LEMMA ClosingKept ==
  ASSUME Closing, UNCHANGED <<life, closed, queue, remaining, msg>>
  PROVE  Closing'
  BY DEF Closing

LEMMA EnqueueHas ==
  ASSUME TypeOK, NEW m, Enqueue(m), NEW kind
  PROVE  Has(queue', kind) => Has(queue, kind) \/ m.type = kind
<1>1. queue \in Seq(Messages) /\ (queue' = queue \/ queue' = Append(queue, m))
  BY DEF TypeOK, QueueType, Enqueue
<1> QED
  BY <1>1, HasAppend

LEMMA AbortClearsHas ==
  ASSUME TypeOK, AbortClears, NEW kind, kind # "decode"
  PROVE  Has(queue', kind) \/ Has(remaining', kind) <=> Has(queue, kind) \/ Has(remaining, kind)
<1>1. queue \in Seq(Messages) /\ remaining \in Seq(Messages) /\ ClearDecodes
  BY DEF TypeOK, QueueType, AbortClears
<1>2. ~Has(<<>>, kind)
  BY DEF Has
<1>3. CASE queue = <<>>
  BY <1>1, <1>2, <1>3 DEF ClearDecodes
<1>4. CASE queue # <<>>
  <2>1. Has(queue, kind) <=> Head(queue).type = kind \/ Has(queue', kind)
    BY <1>1, <1>4, HasTail DEF ClearDecodes
  <2>2. CASE Head(queue).type = "decode"
    BY <1>1, <1>4, <2>1, <2>2 DEF ClearDecodes
  <2>3. CASE Head(queue).type # "decode"
    <3>1. Has(remaining', kind) <=> Has(remaining, kind) \/ Head(queue).type = kind
      BY <1>1, <1>4, <2>3, HasAppend DEF ClearDecodes
    <3> QED
      BY <2>1, <3>1
  <2> QED
    BY <2>2, <2>3
<1> QED
  BY <1>3, <1>4

LEMMA StepCloses ==
  ASSUME TypeOK, Fresh, Closing, [Next]_vars
  PROVE  Closing'
<1>1. ASSUME NEW m, Enqueue(m), m.type # "close" \/ closed, UNCHANGED <<life, closed, msg>>
      PROVE  Closing'
  BY <1>1, EnqueueHas DEF Closing, Enqueue
<1>2. ASSUME NEW index \in Indexes, Decode(index)
      PROVE  Closing'
  BY <1>1, <1>2 DEF Decode, workerVars
<1>3. CASE Close \/ ReleaseStops
  BY <1>3 DEF Close, ReleaseStops, Closing
<1>4. CASE Reset
  <2>1. UNCHANGED <<life, closed, queue, msg>> /\ remaining' = <<>> /\ remaining = <<>>
    BY <1>4 DEF Reset, BeginClear, Idle, TypeOK, QueueType, Fresh, workerVars
  <2> QED
    BY <2>1, ClosingKept
<1>5. CASE AbortClears
  <2>1. UNCHANGED <<life, closed, msg>>
    BY <1>5 DEF AbortClears, jsVars, workerVars
  <2> QED
    BY <1>5, <2>1, AbortClearsHas DEF Closing
<1>6. CASE AbortRejects \/ Callbacks \/ UNCHANGED vars
  BY <1>6, ClosingKept DEF AbortRejects, Callbacks, OnDecodeResult, OnError, OnTracksReady,
                           OnCompleted, vars, jsVars, queueVars, workerVars
<1>7. CASE AbortEnds
  <2>1. Enqueue([type |-> IF closed THEN "close" ELSE "reset"]) /\ UNCHANGED <<life, closed, msg>>
    BY <1>7 DEF AbortEnds, workerVars
  <2> QED
    BY <1>1, <2>1
<1>8. ASSUME NEW t \in Tracks, NEW value \in BOOLEAN, SelectTrack(t, value)
      PROVE  Closing'
  <2>1. UNCHANGED <<life, closed, msg>>
    BY <1>8 DEF SelectTrack, workerVars
  <2>2. \/ UNCHANGED <<queue, remaining>>
        \/ Enqueue([type |-> "track", index |-> selectedIndex'])
    BY <1>8 DEF SelectTrack
  <2> QED
    BY <1>1, <2>1, <2>2, ClosingKept
<1>9. CASE StreamChunk \/ StreamEnds \/ StreamFails
  <2>1. UNCHANGED <<life, closed, msg>>
    BY <1>9 DEF StreamChunk, StreamEnds, StreamFails, StreamGives, workerVars
  <2>2. \/ UNCHANGED <<queue, remaining>>
        \/ Enqueue([type |-> "data"]) \/ Enqueue([type |-> "end"]) \/ Enqueue([type |-> "error"])
    BY <1>9 DEF StreamChunk, StreamEnds, StreamFails, StreamGives
  <2> QED
    BY <1>1, <2>1, <2>2, ClosingKept
<1>10. CASE ReleaseEnds
  BY <1>10 DEF ReleaseEnds, Closing, queueVars, workerVars
<1>11. CASE Worker /\ Dispatch
  <2>1. /\ queue \in Seq(Messages) /\ queue # <<>> /\ queue' = Tail(queue)
        /\ msg' = Head(queue) /\ UNCHANGED <<life, closed, remaining>>
    BY <1>11 DEF TypeOK, QueueType, Worker, Dispatch, TakeFront, jsVars
  <2>2. Has(queue, "close") <=> msg'.type = "close" \/ Has(queue', "close")
    BY <2>1, HasTail
  <2> QED
    BY <2>1, <2>2 DEF Closing
<1>12. CASE Worker /\ (LoopTest \/ Timeout \/ Handlers)
  <2>1. UNCHANGED <<life, closed, queue, remaining>> /\ msg' \in {msg, NoMessage}
    BY <1>12, HandlersReturn
       DEF Worker, LoopTest, Timeout, TakeNothing, Stay, jsVars, queueVars
  <2>2. NoMessage.type # "close"
    BY DEF NoMessage
  <2> QED
    BY <2>1, <2>2 DEF Closing
<1> QED
  BY <1>2, <1>3, <1>4, <1>5, <1>6, <1>7, <1>8, <1>9, <1>10, <1>11, <1>12
     DEF Next, Abort, Release, Worker, WorkerStep

-----------------------------------------------------------------------------
(* The selected track on its way to the worker.                            *)

(* The last change in a sequence of messages is the one to track t.        *)
Ends(s, t) ==
  \A i \in DOMAIN s :
    s[i].type = "track" /\ (\A j \in DOMAIN s : j > i => s[j].type # "track") => s[i].index = t

LEMMA EndsAppend ==
  ASSUME NEW S, NEW s \in Seq(S), NEW m, NEW t
  PROVE  /\ m.type = "track" /\ m.index = t => Ends(Append(s, m), t)
         /\ m.type # "track" /\ Ends(s, t) => Ends(Append(s, m), t)
<1> DEFINE q == Append(s, m)
           n == Len(s) + 1
<1>1. /\ n \in DOMAIN q /\ q[n] = m
      /\ \A i \in DOMAIN q : (i \in DOMAIN s /\ q[i] = s[i] /\ n > i) \/ (i = n /\ q[i] = m)
      /\ \A i \in DOMAIN s : i \in DOMAIN q /\ q[i] = s[i]
  OBVIOUS
<1> HIDE DEF q, n
<1>2. ASSUME m.type = "track", m.index = t
      PROVE  Ends(q, t)
  BY <1>1, <1>2, Zenon DEF Ends
<1>3. ASSUME m.type # "track", Ends(s, t)
      PROVE  Ends(q, t)
  BY <1>1, <1>3, Zenon DEF Ends
<1> QED
  BY <1>2, <1>3 DEF q

LEMMA EndsTail ==
  ASSUME NEW S, NEW s \in Seq(S), s # <<>>, NEW t, Ends(s, t)
  PROVE  /\ Ends(Tail(s), t)
         /\ Head(s).type = "track" /\ ~Has(Tail(s), "track") => Head(s).index = t
<1> DEFINE q == Tail(s)
<1>1. /\ 1 \in DOMAIN s /\ Head(s) = s[1]
      /\ \A i \in DOMAIN q : i + 1 \in DOMAIN s /\ q[i] = s[i + 1]
      /\ \A j \in DOMAIN s : j > 1 => j - 1 \in DOMAIN q /\ q[j - 1] = s[j]
      /\ \A i \in DOMAIN q, j \in DOMAIN s : j > i + 1 => j > 1 /\ j - 1 > i
  OBVIOUS
<1> HIDE DEF q
<1>2. Ends(q, t)
  <2> SUFFICES ASSUME NEW i \in DOMAIN q, q[i].type = "track",
                      \A j \in DOMAIN q : j > i => q[j].type # "track"
               PROVE  q[i].index = t
    BY Zenon DEF Ends
  <2>1. \A j \in DOMAIN s : j > i + 1 => s[j].type # "track"
    BY <1>1
  <2> QED
    BY <1>1, <2>1 DEF Ends
<1>3. ASSUME s[1].type = "track", ~Has(q, "track")
      PROVE  s[1].index = t
  <2>1. \A j \in DOMAIN s : j > 1 => s[j].type # "track"
    BY <1>1, <1>3 DEF Has
  <2> QED
    BY <1>1, <1>3, <2>1 DEF Ends
<1> QED
  BY <1>1, <1>2, <1>3 DEF q

(* Nothing is selected before the tracks are listed, and the worker has the*)
(* best track; then the last change that is queued, kept by ClearDecodes or*)
(* handled is to the selected track, and the worker's is that track when   *)
(* none is on its way.                                                     *)
Selecting ==
  ~closed =>
    /\ configured => io > 0
    /\ ~established => /\ ~Has(queue, "track") /\ ~Has(remaining, "track") /\ msg.type # "track"
                       /\ sel = Best /\ tracksReady \in Seq({Best})
    /\ Ends(queue, selectedIndex)
    /\ ~Has(queue, "track") => Ends(remaining, selectedIndex)
    /\ ~Has(queue, "track") /\ ~Has(remaining, "track") /\ msg.type = "track"
         => msg.index = selectedIndex
    /\ ~Has(queue, "track") /\ ~Has(remaining, "track") /\ msg.type # "track"
       /\ selectedIndex # 0 => sel = selectedIndex

LEMMA SelectingKept ==
  ASSUME Selecting, UNCHANGED <<configured, io, established, queue, remaining, msg, sel,
                                tracksReady, selectedIndex>>,
         closed => closed'
  PROVE  Selecting'
  BY DEF Selecting

LEMMA EnqueueSelects ==
  ASSUME TypeOK, Tracked, Selecting, NEW m, Enqueue(m),
         UNCHANGED <<closed, configured, io, established, msg, sel, tracksReady>>,
         \/ m.type = "track" /\ m.index = selectedIndex' /\ established
         \/ m.type # "track" /\ UNCHANGED selectedIndex
  PROVE  Selecting'
<1> SUFFICES ASSUME ~closed PROVE Selecting'
  BY DEF Selecting
<1>1. queue \in Seq(Messages) /\ queue' = Append(queue, m) /\ UNCHANGED remaining
  BY DEF TypeOK, QueueType, Enqueue, Tracked
<1>2. Has(queue', "track") <=> Has(queue, "track") \/ m.type = "track"
  BY <1>1, HasAppend
<1>3. /\ m.type = "track" => Ends(queue', selectedIndex')
      /\ m.type # "track" => Ends(queue', selectedIndex)
  BY <1>1, EndsAppend DEF Selecting
<1> QED
  BY <1>1, <1>2, <1>3 DEF Selecting

LEMMA AbortClearsSelects ==
  ASSUME TypeOK, Selecting, AbortClears
  PROVE  Selecting'
<1> SUFFICES ASSUME ~closed PROVE Selecting'
  BY DEF Selecting, AbortClears, jsVars
<1>1. /\ queue \in Seq(Messages) /\ remaining \in Seq(Messages) /\ ClearDecodes
      /\ UNCHANGED <<closed, configured, io, established, msg, sel, tracksReady, selectedIndex>>
  BY DEF TypeOK, QueueType, AbortClears, workerVars, ioVars, codecVars, postVars, jsVars,
         trackVars, listVars
<1>2. ~Has(<<>>, "track") /\ Ends(<<>>, selectedIndex)
  BY DEF Has, Ends
<1>3. CASE queue = <<>>
  <2>1. queue' = remaining /\ remaining' = <<>>
    BY <1>1, <1>3 DEF ClearDecodes
  <2> QED
    BY <1>1, <1>2, <1>3, <2>1 DEF Selecting
<1>4. CASE queue # <<>>
  <2>1. /\ queue' = Tail(queue)
        /\ \/ Head(queue).type = "decode" /\ remaining' = remaining
           \/ remaining' = Append(remaining, Head(queue))
    BY <1>1, <1>4 DEF ClearDecodes
  <2>2. Has(queue, "track") <=> Head(queue).type = "track" \/ Has(queue', "track")
    BY <1>1, <1>4, <2>1, HasTail
  <2>3. /\ Ends(queue', selectedIndex)
        /\ Head(queue).type = "track" /\ ~Has(queue', "track") => Head(queue).index = selectedIndex
    BY <1>1, <1>4, <2>1, EndsTail DEF Selecting
  <2>4. CASE Head(queue).type = "decode" /\ remaining' = remaining
    BY <1>1, <2>2, <2>3, <2>4 DEF Selecting
  <2>5. CASE remaining' = Append(remaining, Head(queue))
    <3>1. Has(remaining', "track") <=> Has(remaining, "track") \/ Head(queue).type = "track"
      BY <1>1, <2>5, HasAppend
    <3>2. ~Has(queue', "track") => Ends(remaining', selectedIndex)
      BY <1>1, <2>2, <2>3, <2>5, EndsAppend DEF Selecting
    <3> QED
      BY <1>1, <2>2, <2>3, <3>1, <3>2 DEF Selecting
  <2> QED
    BY <2>1, <2>4, <2>5
<1> QED
  BY <1>3, <1>4

LEMMA DispatchSelects ==
  ASSUME TypeOK, Fresh, Selecting, Dispatch, UNCHANGED jsVars
  PROVE  Selecting'
<1> SUFFICES ASSUME ~closed PROVE Selecting'
  BY DEF Selecting, jsVars
<1>1. /\ queue \in Seq(Messages) /\ queue # <<>> /\ queue' = Tail(queue) /\ msg' = Head(queue)
      /\ UNCHANGED <<closed, remaining, configured, io, established, sel, tracksReady,
                    selectedIndex>>
  BY DEF TypeOK, QueueType, Dispatch, TakeFront, ioVars, codecVars, postVars, jsVars,
         trackVars, listVars
<1>2. msg.type # "track"
  BY DEF TypeOK, WorkerType, Dispatch, HandlerPoints, NoMessage
<1>3. ~Has(remaining, "track")
  BY DEF TypeOK, QueueType, Dispatch, TakeFront, Fresh, Has
<1>4. Has(queue, "track") <=> msg'.type = "track" \/ Has(queue', "track")
  BY <1>1, HasTail
<1>5. /\ Ends(queue', selectedIndex)
      /\ msg'.type = "track" /\ ~Has(queue', "track") => msg'.index = selectedIndex
  BY <1>1, EndsTail DEF Selecting
<1>6. Ends(remaining, selectedIndex)
  BY <1>3, Zenon DEF Ends, Has
<1> QED
  BY <1>1, <1>2, <1>3, <1>4, <1>5, <1>6 DEF Selecting

LEMMA OnUpdateTrackSelects ==
  ASSUME TypeOK, Promising, Selecting, OnUpdateTrack, UNCHANGED jsVars
  PROVE  Selecting'
<1> SUFFICES ASSUME ~closed PROVE Selecting'
  BY DEF Selecting, jsVars
<1>1. /\ msg.type = "track" /\ msg' = NoMessage /\ NoMessage.type # "track"
      /\ UNCHANGED <<closed, queue, remaining, configured, io, established, tracksReady,
                     selectedIndex>>
  BY DEF TypeOK, WorkerType, OnUpdateTrack, HandlerPoints, Return, NoMessage, OutputError,
         queueVars, ioVars, postVars, jsVars, trackVars, listVars
<1>2. established /\ configured /\ io > 0
  BY <1>1 DEF Selecting, Promising
<1>3. msg.index # 0 => sel' = msg.index
  BY <1>2 DEF OnUpdateTrack, codecVars, TypeOK, IoType
<1> QED
  BY <1>1, <1>2, <1>3 DEF Selecting

(* What a worker step does to the image and its track, but for a change of *)
(* the track and the end.                                                  *)
LEMMA WorkerImage ==
  ASSUME TypeOK, Fresh, WorkerStep, ~OnUpdateTrack, ~OnClose
  PROVE  \/ UNCHANGED <<configured, io, sel, tracksReady>>
         \/ ~configured /\ UNCHANGED <<configured, sel, tracksReady>>
         \/ ~configured /\ \E n \in Nat : Opens(n)
<1>1. CASE OnConfigure
  <2>1. ~configured
    BY <1>1 DEF TypeOK, WorkerType, OnConfigure, HandlerPoints, Fresh, Configures
  <2> QED
    BY <1>1, <2>1, ImageAssumption DEF OnConfigure, FailsToOpen, OutputError, ioVars, postVars,
                                       codecVars
<1>2. CASE OnStreamData
  BY <1>2 DEF TypeOK, IoType, OnStreamData, FailsToOpen, OutputError, postVars, codecVars
<1>3. CASE OnStreamEnd
  BY <1>3 DEF TypeOK, IoType, OnStreamEnd, FailsToOpen, OutputError, postVars, ioVars, codecVars
<1>4. CASE LoopTest \/ Dispatch \/ Timeout \/ OnStreamError \/ OnReset
  BY <1>4 DEF LoopTest, Dispatch, Timeout, OnStreamError, OnReset, Rewind, OutputError,
              ioVars, postVars, codecVars
<1>5. CASE OnDecode
  BY <1>5 DEF OnDecode, OnDecodeRefuses, OnDecodeSeeks, OnDecodeReads, Rewind,
              OnDecodeReceives, OnDecodeDrains, OnDecodeFails, NoMoreFrames, ReadFails,
              DrainFails, OnDecodeReadsStale, UseFrame, OutputError, ioVars, postVars, codecVars
<1> QED
  BY <1>1, <1>2, <1>3, <1>4, <1>5 DEF WorkerStep, Handlers

LEMMA OtherMessage ==
  ASSUME TypeOK, Handlers, ~OnUpdateTrack
  PROVE  msg.type # "track"
  BY DEF TypeOK, WorkerType, HandlerPoints, Handlers, OnConfigure, OnStreamData, OnStreamEnd,
         OnStreamError, OnReset, OnClose, OnDecode, OnDecodeRefuses, OnDecodeSeeks,
         OnDecodeReads, OnDecodeReceives, OnDecodeDrains, OnDecodeFails, OnDecodeReadsStale,
         MayRead

LEMMA WorkerSelects ==
  ASSUME TypeOK, Fresh, Promising, Closing, Selecting, Worker
  PROVE  Selecting'
<1>1. CASE Dispatch
  BY <1>1, DispatchSelects DEF Worker
<1>2. CASE OnUpdateTrack
  BY <1>2, OnUpdateTrackSelects DEF Worker
<1>3. CASE OnClose
  <2>1. msg.type = "close"
    BY <1>3 DEF TypeOK, WorkerType, OnClose, HandlerPoints
  <2>2. closed /\ closed' = closed
    BY <2>1 DEF Closing, Worker, jsVars
  <2> QED
    BY <2>2 DEF Selecting
<1>4. CASE ~Dispatch /\ ~OnUpdateTrack /\ ~OnClose
  <2> SUFFICES ASSUME ~closed PROVE Selecting'
    BY DEF Selecting, Worker, jsVars
  <2>1. /\ UNCHANGED <<closed, established, selectedIndex, queue, remaining>>
        /\ msg' \in {msg, NoMessage} /\ (msg' = msg \/ msg.type # "track")
        /\ NoMessage.type # "track"
    BY <1>4, HandlersReturn, OtherMessage
       DEF Worker, WorkerStep, LoopTest, Timeout, TakeNothing, Stay, NoMessage, jsVars,
           queueVars, trackVars, listVars
  <2>2. \/ UNCHANGED <<configured, io, sel, tracksReady>>
        \/ ~configured /\ UNCHANGED <<configured, sel, tracksReady>>
        \/ ~configured /\ \E n \in Nat : Opens(n)
    BY <1>4, WorkerImage DEF Worker
  <2>3. CASE UNCHANGED <<configured, io, sel, tracksReady>>
    BY <2>1, <2>3 DEF Selecting
  <2>4. CASE ~configured /\ UNCHANGED <<configured, sel, tracksReady>>
    BY <2>1, <2>4 DEF Selecting
  <2>5. CASE ~configured /\ \E n \in Nat : Opens(n)
    <3>1. ~established /\ sel = Best /\ tracksReady \in Seq({Best})
      BY <2>5 DEF Promising, Selecting
    <3>2. sel' = Best /\ io' > 0 /\ tracksReady' \in Seq({Best})
      BY <2>5, <3>1, VisibleTyped DEF Opens
    <3> QED
      BY <2>1, <3>1, <3>2 DEF Selecting
  <2> QED
    BY <2>2, <2>3, <2>4, <2>5
<1> QED
  BY <1>1, <1>2, <1>3, <1>4

LEMMA SelectTrackSelects ==
  ASSUME TypeOK, Tracked, Listing, Promising, Selecting,
         NEW t \in Tracks, NEW value \in BOOLEAN, SelectTrack(t, value)
  PROVE  Selecting'
<1> SUFFICES ASSUME ~closed PROVE Selecting'
  BY DEF Selecting, SelectTrack
<1> DEFINE m == [type |-> "track", index |-> selectedIndex']
<1>1. /\ t \in listed /\ Enqueue(m)
      /\ UNCHANGED <<closed, configured, io, established, msg, sel, tracksReady>>
  BY DEF SelectTrack, workerVars, ioVars, codecVars, postVars, trackVars
<1>2. established
  BY <1>1 DEF Listing, Unlisted, Promising, PromisesAgree
<1>3. m.type = "track" /\ m.index = selectedIndex'
  OBVIOUS
<1> HIDE DEF m
<1> QED
  BY <1>1, <1>2, <1>3, EnqueueSelects

LEMMA OnTracksReadySelects ==
  ASSUME TypeOK, Promising, Selecting, OnTracksReady
  PROVE  Selecting'
<1> SUFFICES ASSUME ~closed PROVE Selecting'
  BY DEF Selecting, OnTracksReady
<1>1. /\ tracksReady # <<>> /\ selectedIndex' = Head(tracksReady) /\ established' = TRUE
      /\ UNCHANGED <<closed, queue, remaining, configured, io, msg, sel>>
  BY DEF OnTracksReady, queueVars, workerVars, ioVars, codecVars
<1>2. ~established
  BY <1>1 DEF Promising, PromisesAgree, TypeOK, PostType
<1>3. /\ ~Has(queue, "track") /\ ~Has(remaining, "track") /\ msg.type # "track"
      /\ sel = Best /\ selectedIndex' = Best
  BY <1>1, <1>2 DEF Selecting
<1>4. Ends(queue, Best) /\ Ends(remaining, Best)
  BY <1>3, Zenon DEF Ends, Has
<1> QED
  BY <1>1, <1>3, <1>4 DEF Selecting

LEMMA StepSelects ==
  ASSUME TypeOK, Fresh, Listing, Tracked, Promising, Closing, Selecting, [Next]_vars
  PROVE  Selecting'
<1> DEFINE Same == UNCHANGED <<closed, configured, io, established, msg, sel, tracksReady,
                               selectedIndex>>
<1>1. ASSUME NEW m, Enqueue(m), m.type # "track", Same
      PROVE  Selecting'
  BY <1>1, EnqueueSelects
<1>2. ASSUME NEW index \in Indexes, Decode(index)
      PROVE  Selecting'
  BY <1>1, <1>2 DEF Decode, workerVars, ioVars, codecVars, postVars, trackVars, listVars
<1>3. CASE Close \/ ReleaseStops
  BY <1>3 DEF Close, ReleaseStops, Selecting
<1>4. CASE Reset
  <2>1. Same /\ UNCHANGED queue /\ remaining' = <<>> /\ remaining = <<>>
    BY <1>4 DEF Reset, BeginClear, Idle, TypeOK, QueueType, Fresh, workerVars, ioVars,
                codecVars, postVars, trackVars, listVars
  <2> QED
    BY <2>1, SelectingKept
<1>5. CASE AbortClears
  BY <1>5, AbortClearsSelects
<1>6. CASE AbortRejects \/ OnDecodeResult \/ OnError \/ OnCompleted \/ UNCHANGED vars
  <2>1. Same /\ UNCHANGED <<queue, remaining>>
    BY <1>6 DEF AbortRejects, OnDecodeResult, OnError, OnCompleted, vars, jsVars, queueVars,
                workerVars, ioVars, codecVars, postVars, trackVars, listVars
  <2> QED
    BY <2>1, SelectingKept
<1>7. CASE AbortEnds
  <2>1. Same /\ Enqueue([type |-> IF closed THEN "close" ELSE "reset"])
    BY <1>7 DEF AbortEnds, workerVars, ioVars, codecVars, postVars, listVars
  <2> QED
    BY <1>1, <2>1
<1>8. ASSUME NEW t \in Tracks, NEW value \in BOOLEAN, SelectTrack(t, value)
      PROVE  Selecting'
  BY <1>8, SelectTrackSelects
<1>9. CASE StreamChunk \/ StreamEnds \/ StreamFails
  <2>1. Same
    BY <1>9 DEF StreamChunk, StreamEnds, StreamFails, StreamGives, workerVars, ioVars,
                codecVars, postVars, trackVars, listVars
  <2>2. \/ UNCHANGED <<queue, remaining>>
        \/ Enqueue([type |-> "data"]) \/ Enqueue([type |-> "end"]) \/ Enqueue([type |-> "error"])
    BY <1>9 DEF StreamChunk, StreamEnds, StreamFails, StreamGives
  <2> QED
    BY <1>1, <2>1, <2>2, SelectingKept
<1>10. CASE OnTracksReady
  BY <1>10, OnTracksReadySelects
<1>11. CASE ReleaseEnds
  BY <1>11 DEF ReleaseEnds, Closing, Selecting
<1>12. CASE Worker
  BY <1>12, WorkerSelects
<1> QED
  BY <1>2, <1>3, <1>4, <1>5, <1>6, <1>7, <1>8, <1>9, <1>10, <1>11, <1>12
     DEF Next, Abort, Callbacks, Release

LEMMA InitSelects ==
  ASSUME Init
  PROVE  Closing /\ Selecting
<1>1. PICK empty \in BOOLEAN : QueueInit([type |-> "configure", empty |-> empty])
  BY DEF Init
<1>2. DOMAIN queue = {1} /\ queue[1].type = "configure" /\ DOMAIN remaining = {}
  BY <1>1 DEF QueueInit
<1>3. \A kind \in {"close", "track"} : ~Has(queue, kind) /\ ~Has(remaining, kind)
  BY <1>2 DEF Has
<1>4. Ends(queue, selectedIndex) /\ Ends(remaining, selectedIndex)
  BY <1>2 DEF Ends
<1>5. msg.type = "none" /\ life = "alive" /\ ~closed /\ ~configured /\ sel = Best
      /\ tracksReady = <<>> /\ selectedIndex = 0
  BY DEF Init, WorkerInit, NoMessage
<1> QED
  BY <1>3, <1>4, <1>5 DEF Closing, Selecting

(* The worker decodes the selected track once no change is on its way to   *)
(* it, whatever reset() and the errors of the worker do to the queue.      *)
THEOREM ImageSelectionReaches == Spec => []SelectionReachesWorker
<1> DEFINE Inv == /\ Fresh /\ Listing /\ Tracked /\ CompletesOnce /\ Promising
                  /\ Closing /\ Selecting
<1>1. Init => Inv
  BY InitListing, InitTracks, InitPromises, InitSelects
<1>2. TypeOK /\ Inv /\ [Next]_vars => Inv'
  BY StepFresh, StepListing, StepTracks, StepCompletes, StepPromises, StepCloses, StepSelects
<1>3. Inv => SelectionReachesWorker
  BY Zenon DEF Selecting, SelectionReachesWorker, ChangeUnderWay, Has
<1> QED
  BY <1>1, <1>2, <1>3, ImageDecoderTypeCorrect, PTL DEF Spec
=============================================================================
