------------------------- MODULE VideoDecoderProofs -------------------------
(***************************************************************************)
(* VideoDecoder implements the abstract codec of Codec, for every value of *)
(* its constants, and so has the properties proved of CodecSpec.           *)
(***************************************************************************)
EXTENDS VideoDecoder, CodecProofs

(* The variables VideoDecoder adds to those of the abstract codec.         *)
OwnType ==
  /\ HandlerType
  /\ keyReq \in BOOLEAN
  /\ saturated \in BOOLEAN
  /\ received \in BOOLEAN

LEMMA HandlerVarsKept ==
  ASSUME HandlerType, UNCHANGED handlerVars
  PROVE  HandlerType'
  BY DEF HandlerType, handlerVars, ctxVars

-----------------------------------------------------------------------------
(* One lemma per group of actions: each is a step of the abstract codec,   *)
(* the worker's handlers HandlerSteps of it.                               *)

LEMMA ConfigureImplements ==
  ASSUME TypeOK, NEW cfg \in Config, Configure(cfg)
  PROVE  FrameNext /\ OwnType'
<1>1. Assign(cfg) \in Config
  BY DEF TypeOK, HandlerType, Assign, Config
<1>2. FrameNext
  <2>1. CASE ConfigureUnsupported(cfg)
    BY <2>1 DEF ConfigureUnsupported, FrameNext
  <2>2. CASE ConfigureSupported(cfg) /\ SetBlocked(~qclosed)
    <3>1. blocked' \in BOOLEAN
      BY <2>2 DEF SetBlocked, TypeOK, CoreTypeOK, QueueType
    <3> QED
      BY <1>1, <2>2, <3>1 DEF ConfigureSupported, FrameNext
  <2> QED
    BY <2>1, <2>2 DEF Configure
<1>3. HandlerType'
  BY <1>1 DEF Configure, ConfigureUnsupported, ConfigureSupported, TypeOK,
     HandlerType, ctxVars
<1>4. keyReq' \in BOOLEAN
  BY DEF Configure, ConfigureUnsupported, ConfigureSupported, TypeOK
<1> QED
  BY <1>2, <1>3, <1>4 DEF Configure, OwnType, TypeOK, saturation

LEMMA DecodeImplements ==
  ASSUME TypeOK, NEW key \in BOOLEAN, Decode(key)
  PROVE  FrameNext /\ OwnType'
<1>1. FrameNext
  BY DEF Decode, DecodeChunk, DecodeMalformed, FrameNext
<1>2. keyReq' \in BOOLEAN /\ UNCHANGED handlerVars
  BY DEF Decode, DecodeChunk, DecodeMalformed
<1> QED
  BY <1>1, <1>2, HandlerVarsKept DEF Decode, OwnType, TypeOK, saturation

LEMMA MethodsImplement ==
  ASSUME TypeOK, Flush \/ Reset \/ Close \/ CloseTwice \/ Release
  PROVE  FrameNext /\ OwnType'
<1>1. FrameNext
  BY DEF Flush, FlushDecoder, Reset, ResetDecoder, Close, CloseTwice, Release,
     FrameNext
<1>2. keyReq' \in BOOLEAN /\ UNCHANGED <<handlerVars, saturation>>
  BY DEF Flush, FlushDecoder, Reset, ResetDecoder, Close, CloseTwice, Release,
     decoderVars, TypeOK
<1> QED
  BY <1>1, <1>2, HandlerVarsKept DEF OwnType, TypeOK, saturation

LEMMA TsfnHandlersImplement ==
  ASSUME TypeOK,
         OnOutputFrame \/ OnError \/ OnFlushComplete \/ OnDequeue \/ OnCallbackReturn
  PROVE  FrameNext /\ OwnType'
<1> USE DEF OnOutputFrame, OnError, OnFlushComplete, OnDequeue, OnCallbackReturn
<1>1. FrameNext
  BY DEF FrameNext
<1>2. UNCHANGED <<handlerVars, keyReq, saturation>>
  BY DEF decoderVars
<1> QED
  BY <1>1, <1>2, HandlerVarsKept DEF OwnType, TypeOK, saturation

LEMMA OnConfigureImplements ==
  ASSUME TypeOK, OnConfigure
  PROVE  HandlerStep /\ OwnType'
<1>1. active \in Config /\ blocked' \in BOOLEAN
  BY DEF TypeOK, HandlerType, CoreTypeOK, QueueType, OnConfigure
<1>2. HandlerStep /\ HandlerType'
  BY <1>1, ConfigureRejectsStep, ConfigureAllocatesStep, ConfigureOpensStep
     DEF OnConfigure, TypeOK
<1> QED
  BY <1>2 DEF OnConfigure, OwnType, TypeOK, saturation

LEMMA OnDecodeImplements ==
  ASSUME TypeOK, OnDecode
  PROVE  HandlerStep /\ OwnType'
<1> USE DEF OnDecodeEndsEarly, OnDecodeSends, OnDecodeReceives,
            OnDecodeReceivesNoMore, OnDecodeFinishes
<1>1. blocked' \in BOOLEAN /\ keyReq' \in BOOLEAN
  BY DEF OnDecode, TypeOK, CoreTypeOK, QueueType
<1>2. saturated' \in BOOLEAN /\ received' \in BOOLEAN
  BY DEF OnDecode, TypeOK, saturation, SendRefuses, CodecFull
<1>3. HandlerStep /\ HandlerType'
  <2>1. CASE OnDecodeEndsEarly
    BY <1>1, <2>1, WorkEndsEarlyStep DEF TypeOK
  <2>2. CASE OnDecodeSends
    BY <1>1, <2>2, WorkSendsStep DEF TypeOK
  <2>3. CASE OnDecodeReceives
    BY <1>1, <2>3, ReceiveFrameStep DEF WorkReceives, TypeOK
  <2>4. CASE OnDecodeReceivesNoMore
    BY <1>1, <2>4, WorkReceivesNoMoreStep DEF TypeOK
  <2>5. CASE OnDecodeFinishes
    BY <1>1, <2>5, WorkFinishesStep DEF TypeOK
  <2> QED
    BY <2>1, <2>2, <2>3, <2>4, <2>5 DEF OnDecode
<1> QED
  BY <1>1, <1>2, <1>3 DEF OwnType

LEMMA OnFlushImplements ==
  ASSUME TypeOK, OnFlush
  PROVE  HandlerStep /\ OwnType'
<1>1. HandlerStep /\ HandlerType'
  BY HandleFlushStep DEF OnFlush, TypeOK, CoreTypeOK, QueueType
<1> QED
  BY <1>1 DEF OnFlush, OwnType, TypeOK, saturation

LEMMA OnResetImplements ==
  ASSUME TypeOK, OnReset
  PROVE  HandlerStep /\ OwnType'
<1>1. HandlerStep
  BY HandleResetStep DEF OnReset, TypeOK, CoreTypeOK, QueueType
<1>2. HandlerType'
  BY FlushBuffersTyped DEF OnReset, HandleReset, Untouched, TypeOK
<1> QED
  BY <1>1, <1>2 DEF OnReset, OwnType, TypeOK, saturation

LEMMA NextImplements ==
  ASSUME TypeOK, [Next]_vars
  PROVE  [CodecNext]_coreVars /\ TypeOK'
<1>1. CASE UNCHANGED vars
  <2>1. UNCHANGED <<coreVars, handlerVars, keyReq, saturation>>
    BY <1>1 DEF vars, decoderVars
  <2>2. OwnType'
    BY <2>1, HandlerVarsKept DEF OwnType, TypeOK, saturation
  <2> QED
    BY <2>1, <2>2, UnchangedTyped DEF OwnType, TypeOK
<1>2. CASE WorkerLoop /\ UNCHANGED <<decoderVars, saturation>>
  <2>1. OwnType'
    BY <1>2, HandlerVarsKept DEF OwnType, TypeOK, decoderVars, saturation
  <2>2. CodecNext
    BY <1>2 DEF CodecNext, FrameNext
  <2> QED
    BY <2>1, <2>2, StepTyped DEF OwnType, TypeOK
<1>3. ASSUME CodecNext /\ OwnType' PROVE [CodecNext]_coreVars /\ TypeOK'
  BY <1>3, StepTyped DEF OwnType, TypeOK
<1>4. ASSUME NEW cfg \in Config, Configure(cfg)
      PROVE  [CodecNext]_coreVars /\ TypeOK'
  BY <1>3, <1>4, ConfigureImplements DEF CodecNext
<1>5. ASSUME NEW key \in BOOLEAN, Decode(key)
      PROVE  [CodecNext]_coreVars /\ TypeOK'
  BY <1>3, <1>5, DecodeImplements DEF CodecNext
<1>6. CASE Flush \/ Reset \/ Close \/ CloseTwice \/ Release
  BY <1>3, <1>6, MethodsImplement DEF CodecNext
<1>7. CASE OnOutputFrame \/ OnError \/ OnFlushComplete \/ OnDequeue
             \/ OnCallbackReturn
  BY <1>3, <1>7, TsfnHandlersImplement DEF CodecNext
<1>8. CASE OnConfigure \/ OnDecode \/ OnFlush \/ OnReset
  BY <1>3, <1>8, OnConfigureImplements, OnDecodeImplements, OnFlushImplements,
     OnResetImplements DEF CodecNext
<1>9. \/ UNCHANGED vars
      \/ WorkerLoop /\ UNCHANGED <<decoderVars, saturation>>
      \/ \E cfg \in Config : Configure(cfg)
      \/ \E key \in BOOLEAN : Decode(key)
      \/ Flush \/ Reset \/ Close \/ CloseTwice \/ Release
      \/ OnOutputFrame \/ OnError \/ OnFlushComplete \/ OnDequeue
      \/ OnCallbackReturn
      \/ OnConfigure \/ OnDecode \/ OnFlush \/ OnReset
  BY DEF Next, Worker
<1> QED
  BY <1>1, <1>2, <1>4, <1>5, <1>6, <1>7, <1>8, <1>9

LEMMA InitImplements == Init => CoreInit /\ TypeOK
  BY InitTyped, HandlerInitTyped DEF Init, DecoderInit, TypeOK

-----------------------------------------------------------------------------

(* Every variable keeps its type, and the worker at each of its program    *)
(* points holds a message of the kind handled there.                       *)
THEOREM VideoDecoderTypeCorrect == Spec => []TypeOK
  BY InitImplements, NextImplements, PTL DEF Spec

(* VideoDecoder implements the abstract codec: every method, TSFN handler  *)
(* and worker step is one of its steps, whichever FFmpeg calls fail.       *)
THEOREM VideoDecoderImplementsCodec == Spec => CodecSpec
<1>1. Spec => []TypeOK
  BY VideoDecoderTypeCorrect
<1> QED
  BY <1>1, InitImplements, NextImplements, PTL DEF Spec, CodecSpec

(* Nothing is left of the decoder once close() has returned (Release).     *)
THEOREM VideoDecoderReleaseFinal == Spec => []ReleaseIsFinal
  BY VideoDecoderImplementsCodec, ReleaseFinal

(* Nothing is posted to JavaScript once close() has returned.              *)
THEOREM VideoDecoderPostsNothing == Spec => NoPostAfterRelease
  BY VideoDecoderImplementsCodec, ReleasePostsNothing

(* Dequeue events are coalesced and never blocked for ever.                *)
THEOREM VideoDecoderDequeues == Spec => []DequeueCoalesced
  BY VideoDecoderImplementsCodec, DequeueIsCoalesced

(* Every pending flush promise has its completion under way, and is        *)
(* settled once.                                                           *)
THEOREM VideoDecoderFlushes == Spec => []FlushTracked /\ SettledOnce
  BY VideoDecoderImplementsCodec, FlushNeverLost, FlushSettledOnce
-----------------------------------------------------------------------------
(* The key-chunk requirement.  KeyChunkFirst is not inductive: it says     *)
(* nothing of the chunk that comes next.  The invariant adds that          *)
(* key_chunk_required_ is set whenever the last configure, flush or reset  *)
(* message ahead of the worker has no chunk behind it yet.                 *)

Handled == Messages \cup {NoMessage}

Resets(m) == m.type \in {"configure", "flush", "reset"}
IsChunk(m) == m.type = "decode"

KeyFirst(s) ==
  \A i, j \in DOMAIN s :
    /\ i < j /\ Resets(s[i]) /\ IsChunk(s[j])
    /\ \A k \in i + 1 .. j - 1 : ~IsChunk(s[k])
    => s[j].key

AwaitsChunk(s) ==
  \E i \in DOMAIN s : Resets(s[i]) /\ \A k \in i + 1 .. Len(s) : ~IsChunk(s[k])

KeyInv == KeyFirst(Upcoming) /\ (AwaitsChunk(Upcoming) => keyReq)

(* A message put at the end.                                               *)
LEMMA KeyFirstAppend ==
  ASSUME NEW s \in Seq(Handled), NEW m \in Handled, KeyFirst(s),
         IsChunk(m) /\ AwaitsChunk(s) => m.key
  PROVE  /\ KeyFirst(Append(s, m))
         /\ AwaitsChunk(Append(s, m)) =>
              ~IsChunk(m) /\ (Resets(m) \/ AwaitsChunk(s))
<1> DEFINE t == Append(s, m)
<1>1. /\ Len(t) = Len(s) + 1 /\ Len(s) \in Nat
      /\ DOMAIN t = 1 .. Len(s) + 1 /\ DOMAIN s = 1 .. Len(s)
      /\ t[Len(s) + 1] = m
      /\ \A i \in 1 .. Len(s) : t[i] = s[i]
  OBVIOUS
<1> HIDE DEF t
<1>2. KeyFirst(t)
  <2> SUFFICES ASSUME NEW i \in DOMAIN t, NEW j \in DOMAIN t, i < j,
                      Resets(t[i]), IsChunk(t[j]),
                      \A k \in i + 1 .. j - 1 : ~IsChunk(t[k])
               PROVE  t[j].key
    BY DEF KeyFirst
  <2>1. CASE j = Len(s) + 1
    <3>1. i \in DOMAIN s /\ Resets(s[i])
      BY <1>1, <2>1
    <3>2. \A k \in i + 1 .. Len(s) : ~IsChunk(s[k])
      BY <1>1, <2>1
    <3> QED
      BY <1>1, <2>1, <3>1, <3>2 DEF AwaitsChunk
  <2>2. CASE j # Len(s) + 1
    <3>1. i \in DOMAIN s /\ j \in DOMAIN s /\ t[i] = s[i] /\ t[j] = s[j]
      BY <1>1, <2>2
    <3>2. \A k \in i + 1 .. j - 1 : ~IsChunk(s[k])
      BY <1>1, <2>2
    <3> QED
      BY <3>1, <3>2 DEF KeyFirst
  <2> QED
    BY <2>1, <2>2
<1>3. ASSUME AwaitsChunk(t)
      PROVE  ~IsChunk(m) /\ (Resets(m) \/ AwaitsChunk(s))
  <2>1. PICK i \in DOMAIN t :
          Resets(t[i]) /\ \A k \in i + 1 .. Len(t) : ~IsChunk(t[k])
    BY <1>3 DEF AwaitsChunk
  <2>2. CASE i = Len(s) + 1
    BY <1>1, <2>1, <2>2 DEF Resets, IsChunk
  <2>3. CASE i # Len(s) + 1
    <3>1. i \in DOMAIN s /\ Resets(s[i]) /\ ~IsChunk(m)
      BY <1>1, <2>1, <2>3
    <3>2. \A k \in i + 1 .. Len(s) : ~IsChunk(s[k])
      BY <1>1, <2>1, <2>3
    <3> QED
      BY <3>1, <3>2 DEF AwaitsChunk
  <2> QED
    BY <2>2, <2>3
<1> QED
  BY <1>2, <1>3 DEF t

(* The message in hand is done with.                                       *)
LEMMA KeyFirstReturn ==
  ASSUME NEW q \in Seq(Messages), NEW m \in Handled, KeyFirst(<<m>> \o q)
  PROVE  /\ KeyFirst(<<NoMessage>> \o q)
         /\ AwaitsChunk(<<NoMessage>> \o q) => AwaitsChunk(<<m>> \o q)
<1> DEFINE s == <<m>> \o q
           t == <<NoMessage>> \o q
<1>1. /\ Len(t) = Len(q) + 1 /\ Len(s) = Len(q) + 1 /\ Len(q) \in Nat
      /\ DOMAIN t = 1 .. Len(q) + 1 /\ DOMAIN s = 1 .. Len(q) + 1
      /\ t[1] = NoMessage
      /\ \A i \in 2 .. Len(q) + 1 : t[i] = s[i]
  OBVIOUS
<1>2. ~Resets(NoMessage)
  BY DEF Resets, NoMessage
<1>3. KeyFirst(s)
  OBVIOUS
<1> HIDE DEF s, t
<1>4. KeyFirst(t)
  <2> SUFFICES ASSUME NEW i \in DOMAIN t, NEW j \in DOMAIN t, i < j,
                      Resets(t[i]), IsChunk(t[j]),
                      \A k \in i + 1 .. j - 1 : ~IsChunk(t[k])
               PROVE  t[j].key
    BY DEF KeyFirst
  <2>1. i # 1
    BY <1>1, <1>2
  <2>2. i \in DOMAIN s /\ j \in DOMAIN s /\ t[i] = s[i] /\ t[j] = s[j]
    BY <1>1, <2>1
  <2>3. \A k \in i + 1 .. j - 1 : ~IsChunk(s[k])
    BY <1>1, <2>1
  <2> QED
    BY <1>3, <2>2, <2>3 DEF KeyFirst
<1>5. ASSUME AwaitsChunk(t)
      PROVE  AwaitsChunk(s)
  <2>1. PICK i \in DOMAIN t :
          Resets(t[i]) /\ \A k \in i + 1 .. Len(t) : ~IsChunk(t[k])
    BY <1>5 DEF AwaitsChunk
  <2>2. i # 1
    BY <1>1, <1>2, <2>1
  <2>3. i \in DOMAIN s /\ Resets(s[i])
    BY <1>1, <2>1, <2>2
  <2>4. \A k \in i + 1 .. Len(s) : ~IsChunk(s[k])
    BY <1>1, <2>1, <2>2
  <2> QED
    BY <2>3, <2>4 DEF AwaitsChunk
<1> QED
  BY <1>4, <1>5 DEF s, t

(* The next message is taken in hand.                                      *)
LEMMA KeyFirstTake ==
  ASSUME NEW q \in Seq(Messages), q # <<>>, KeyFirst(<<NoMessage>> \o q)
  PROVE  /\ KeyFirst(<<Head(q)>> \o Tail(q))
         /\ AwaitsChunk(<<Head(q)>> \o Tail(q)) => AwaitsChunk(<<NoMessage>> \o q)
<1> DEFINE s == <<NoMessage>> \o q
           t == q
<1>1. /\ Len(t) \in Nat /\ Len(s) = Len(t) + 1
      /\ DOMAIN t = 1 .. Len(t) /\ DOMAIN s = 1 .. Len(t) + 1
      /\ \A i \in 1 .. Len(t) : t[i] = s[i + 1]
  OBVIOUS
<1>2. <<Head(q)>> \o Tail(q) = t
  OBVIOUS
<1>3. KeyFirst(s)
  OBVIOUS
<1> HIDE DEF s, t
<1>4. KeyFirst(t)
  <2> SUFFICES ASSUME NEW i \in DOMAIN t, NEW j \in DOMAIN t, i < j,
                      Resets(t[i]), IsChunk(t[j]),
                      \A k \in i + 1 .. j - 1 : ~IsChunk(t[k])
               PROVE  t[j].key
    BY DEF KeyFirst
  <2>1. /\ i + 1 \in DOMAIN s /\ j + 1 \in DOMAIN s /\ i + 1 < j + 1
        /\ t[i] = s[i + 1] /\ t[j] = s[j + 1]
    BY <1>1
  <2>2. ASSUME NEW k \in (i + 1) + 1 .. (j + 1) - 1
        PROVE  ~IsChunk(s[k])
    <3>1. k - 1 \in i + 1 .. j - 1 /\ k - 1 \in 1 .. Len(t) /\ (k - 1) + 1 = k
      BY <1>1
    <3> QED
      BY <1>1, <3>1
  <2> QED
    BY <1>3, <2>1, <2>2 DEF KeyFirst
<1>5. ASSUME AwaitsChunk(t)
      PROVE  AwaitsChunk(s)
  <2>1. PICK i \in DOMAIN t :
          Resets(t[i]) /\ \A k \in i + 1 .. Len(t) : ~IsChunk(t[k])
    BY <1>5 DEF AwaitsChunk
  <2>2. i + 1 \in DOMAIN s /\ Resets(s[i + 1])
    BY <1>1, <2>1
  <2>3. ASSUME NEW k \in (i + 1) + 1 .. Len(s)
        PROVE  ~IsChunk(s[k])
    <3>1. k - 1 \in i + 1 .. Len(t) /\ k - 1 \in 1 .. Len(t) /\ (k - 1) + 1 = k
      BY <1>1
    <3> QED
      BY <1>1, <2>1, <3>1
  <2> QED
    BY <2>2, <2>3 DEF AwaitsChunk
<1> QED
  BY <1>2, <1>4, <1>5 DEF s

(* What TypeOK says of the messages ahead of the worker.                   *)
LEMMA UpcomingTyped ==
  ASSUME TypeOK
  PROVE  /\ msg \in Handled /\ queue \in Seq(Messages)
         /\ Upcoming \in Seq(Handled)
<1>1. msg \in Handled /\ queue \in Seq(Messages)
  BY DEF TypeOK, CoreTypeOK, QueueType, WorkerType, Handled
<1>2. queue \in Seq(Handled)
  BY <1>1 DEF Handled
<1> QED
  BY <1>1, <1>2 DEF Upcoming

(* A method queues a message that is not a chunk, and requires a key chunk.*)
LEMMA RequireKeeps ==
  ASSUME TypeOK, KeyInv, NEW m \in Messages, ~IsChunk(m), ~qclosed,
         Enqueue(m), UNCHANGED msg, keyReq'
  PROVE  KeyInv'
<1>1. m \in Handled
  BY DEF Handled
<1>2. Upcoming' = Append(Upcoming, m)
  BY UpcomingTyped, <1>1 DEF Enqueue, Upcoming
<1> QED
  BY <1>1, <1>2, UpcomingTyped, KeyFirstAppend DEF KeyInv

LEMMA ConfigureKeepsKey ==
  ASSUME TypeOK, ReleaseIsFinal, KeyInv, NEW cfg \in Config, Configure(cfg)
  PROVE  KeyInv'
<1>1. CASE ConfigureUnsupported(cfg)
  BY <1>1 DEF ConfigureUnsupported, RefuseConfigure, KeyInv, Upcoming, queueVars,
     workerVars
<1>2. CASE ConfigureSupported(cfg)
  <2>1. PICK c \in Config : AcceptConfigure(c)
    BY <1>2 DEF ConfigureSupported, Assign, TypeOK, HandlerType, Config
  <2>2. ~qclosed /\ Enqueue([type |-> "configure", cfg |-> c])
    BY <2>1 DEF AcceptConfigure, ReleaseIsFinal
  <2>3. UNCHANGED msg
    BY <2>1 DEF AcceptConfigure, Start, workerVars
  <2>4. keyReq'
    BY <1>2, <2>2 DEF ConfigureSupported
  <2>5. [type |-> "configure", cfg |-> c] \in Messages
    BY DEF Messages, ConfigureMessages
  <2> QED
    BY <2>2, <2>3, <2>4, <2>5, RequireKeeps DEF IsChunk
<1> QED
  BY <1>1, <1>2 DEF Configure

LEMMA DecodeKeepsKey ==
  ASSUME TypeOK, ReleaseIsFinal, KeyInv, ~MalformedChunks,
         NEW key \in BOOLEAN, Decode(key)
  PROVE  KeyInv'
<1> DEFINE m == [type |-> "decode", id |-> inputs + 1, key |-> key]
<1>1. DecodeChunk(key)
  BY DEF Decode, DecodeMalformed
<1>2. ~qclosed /\ Enqueue(m) /\ UNCHANGED msg
  BY <1>1 DEF DecodeChunk, AcceptInput, ReleaseIsFinal, workerVars
<1>3. m \in Handled
  BY <1>1, BoundsAssumption DEF DecodeChunk, AcceptInput, TypeOK, CoreTypeOK,
     CountType, Handled, Messages, WorkMessages, Inputs
<1>4. AwaitsChunk(Upcoming) => m.key
  BY <1>1 DEF DecodeChunk, PassesKeyCheck, KeyInv
<1>5. IsChunk(m)
  BY DEF IsChunk
<1> HIDE DEF m
<1>6. Upcoming' = Append(Upcoming, m)
  BY <1>2, <1>3, UpcomingTyped DEF Enqueue, Upcoming
<1> QED
  BY <1>3, <1>4, <1>5, <1>6, UpcomingTyped, KeyFirstAppend DEF KeyInv

LEMMA FlushKeepsKey ==
  ASSUME TypeOK, ReleaseIsFinal, KeyInv, Flush
  PROVE  KeyInv'
<1> DEFINE m == [type |-> "flush", id |-> nextFlush]
<1>1. ~qclosed /\ Enqueue(m) /\ UNCHANGED msg /\ keyReq'
  BY DEF Flush, FlushDecoder, RequestFlush, OpenFlush, ReleaseIsFinal, workerVars
<1>2. m \in Messages
  BY BoundsAssumption DEF Flush, FlushDecoder, RequestFlush, OpenFlush, TypeOK,
     CoreTypeOK, FlushType, Messages, FlushMessages, FlushIds
<1> QED
  BY <1>1, <1>2, RequireKeeps DEF IsChunk

(* reset() drops what was queued: only the message in hand is ahead of the *)
(* reset message.                                                          *)
LEMMA ResetKeepsKey ==
  ASSUME TypeOK, ReleaseIsFinal, Reset
  PROVE  KeyInv'
<1> DEFINE m == [type |-> "reset"]
<1>1. ~qclosed /\ ClearThenEnqueue(m) /\ UNCHANGED msg /\ keyReq'
  BY DEF Reset, ResetDecoder, ResetAll, ReleaseIsFinal, workerVars
<1>2. m \in Handled /\ Resets(m) /\ ~IsChunk(m)
  BY DEF Handled, Messages, ResetMessages, Resets, IsChunk
<1> HIDE DEF m
<1>3. Upcoming' = Append(<<msg>>, m) /\ <<msg>> \in Seq(Handled)
  BY <1>1, <1>2, UpcomingTyped DEF ClearThenEnqueue, Upcoming
<1>4. KeyFirst(<<msg>>)
  BY DEF KeyFirst
<1> QED
  BY <1>1, <1>2, <1>3, <1>4, KeyFirstAppend DEF KeyInv

(* A handler leaves the queue alone, and keeps its message or is done with *)
(* it.                                                                     *)
LEMMA HandlerKeepsKey ==
  ASSUME TypeOK, KeyInv, HandlerStep, UNCHANGED keyReq
  PROVE  KeyInv'
<1>1. UNCHANGED queue /\ (UNCHANGED msg \/ msg' = NoMessage)
  BY DEF HandlerStep, HandlerStays, HandlerReturns
<1>2. CASE UNCHANGED msg
  BY <1>1, <1>2 DEF KeyInv, Upcoming
<1>3. CASE msg' = NoMessage
  <2>1. Upcoming' = <<NoMessage>> \o queue
    BY <1>1, <1>3 DEF Upcoming
  <2> QED
    BY <2>1, UpcomingTyped, KeyFirstReturn DEF KeyInv, Upcoming
<1> QED
  BY <1>1, <1>2, <1>3

LEMMA LoopKeepsKey ==
  ASSUME TypeOK, KeyInv, WorkerLoop, UNCHANGED decoderVars
  PROVE  KeyInv'
<1>1. UNCHANGED keyReq
  BY DEF decoderVars
<1>2. CASE Dispatch
  <2>1. msg = NoMessage
    BY <1>2, PointsApart DEF Dispatch, TypeOK, CoreTypeOK, WorkerType
  <2>2. queue # <<>> /\ queue' = Tail(queue) /\ msg' = Head(queue)
    BY <1>2 DEF Dispatch, TakeFront
  <2>3. Upcoming = <<NoMessage>> \o queue /\ Upcoming' = <<Head(queue)>> \o Tail(queue)
    BY <2>1, <2>2 DEF Upcoming
  <2> QED
    BY <1>1, <2>2, <2>3, UpcomingTyped, KeyFirstTake DEF KeyInv
<1>3. CASE LoopTest \/ Timeout
  BY <1>1, <1>3 DEF LoopTest, Timeout, TakeNothing, queueVars, KeyInv, Upcoming
<1> QED
  BY <1>2, <1>3 DEF WorkerLoop

(* The other actions touch neither the messages nor the requirement.       *)
LEMMA OthersKeepKey ==
  ASSUME KeyInv,
         \/ Close \/ CloseTwice \/ Release
         \/ OnOutputFrame \/ OnError \/ OnFlushComplete \/ OnDequeue
         \/ OnCallbackReturn
         \/ UNCHANGED vars
  PROVE  KeyInv'
<1>1. CASE Close \/ CloseTwice \/ Release
  <2>1. UNCHANGED <<queue, msg, keyReq>>
    BY <1>1 DEF Close, CloseTwice, Release, BeginRelease, CloseAgain, ReleaseStep,
       StopWorker, FinishRelease, coreVars, queueVars, workerVars, decoderVars
  <2> QED
    BY <2>1 DEF KeyInv, Upcoming
<1>2. CASE OnOutputFrame \/ OnError \/ OnFlushComplete \/ OnDequeue
             \/ OnCallbackReturn
  <2>1. UNCHANGED <<queue, msg, keyReq>>
    BY <1>2 DEF OnOutputFrame, OnError, OnFlushComplete, OnDequeue,
       OnCallbackReturn, DeliverOutput, DeliverError, DeliverFlush,
       DeliverDequeue, CallbackReturn, ErrorReturns, DequeueReturns,
       queueVars, workerVars, decoderVars
  <2> QED
    BY <2>1 DEF KeyInv, Upcoming
<1>3. CASE UNCHANGED vars
  BY <1>3 DEF vars, coreVars, queueVars, workerVars, decoderVars, KeyInv, Upcoming
<1> QED
  BY <1>1, <1>2, <1>3

LEMMA KeyInvStep ==
  ASSUME TypeOK, ReleaseIsFinal, KeyInv, ~MalformedChunks, [Next]_vars
  PROVE  KeyInv'
<1>1. CASE \E cfg \in Config : Configure(cfg)
  BY <1>1, ConfigureKeepsKey
<1>2. CASE \E key \in BOOLEAN : Decode(key)
  BY <1>2, DecodeKeepsKey
<1>3. CASE Flush \/ Reset
  BY <1>3, FlushKeepsKey, ResetKeepsKey
<1>4. CASE WorkerLoop /\ UNCHANGED <<decoderVars, saturation>>
  BY <1>4, LoopKeepsKey
<1>5. CASE OnConfigure \/ OnDecode \/ OnFlush \/ OnReset
  <2>1. HandlerStep
    BY <1>5, OnConfigureImplements, OnDecodeImplements, OnFlushImplements,
       OnResetImplements
  <2>2. UNCHANGED keyReq
    BY <1>5 DEF OnConfigure, OnDecode, OnFlush, OnReset, OnDecodeEndsEarly,
       OnDecodeSends, OnDecodeReceives, OnDecodeReceivesNoMore, OnDecodeFinishes
  <2> QED
    BY <2>1, <2>2, HandlerKeepsKey
<1>6. CASE \/ Close \/ CloseTwice \/ Release
           \/ OnOutputFrame \/ OnError \/ OnFlushComplete \/ OnDequeue
           \/ OnCallbackReturn
           \/ UNCHANGED vars
  BY <1>6, OthersKeepKey
<1> QED
  BY <1>1, <1>2, <1>3, <1>4, <1>5, <1>6 DEF Next, Worker

LEMMA KeyInvInit == Init => KeyInv
<1> SUFFICES ASSUME Init
             PROVE  KeyInv
  OBVIOUS
<1>1. msg = NoMessage /\ queue = <<>> /\ keyReq = TRUE
  BY DEF Init, DecoderInit, CoreInit, QueueInit, WorkerInit
<1>2. Upcoming = <<NoMessage>>
  BY <1>1 DEF Upcoming, NoMessage
<1> QED
  BY <1>1, <1>2 DEF KeyInv, KeyFirst

(* Unless JavaScript passes chunks without data, the first chunk the       *)
(* worker gets after a configure, flush or reset message is a key chunk    *)
(* (key_chunk_required_ in decode(), against the queue).                   *)
THEOREM VideoDecoderKeyFirst == ~MalformedChunks /\ Spec => []KeyChunkFirst
<1>1. KeyInv => KeyChunkFirst
  BY DEF KeyInv, KeyFirst, KeyChunkFirst, Resets, IsChunk
<1>2. ASSUME ~MalformedChunks
      PROVE  Spec => []KeyChunkFirst
  <2>1. TypeOK /\ ReleaseIsFinal /\ KeyInv /\ [Next]_vars => KeyInv'
    BY <1>2, KeyInvStep
  <2> QED
    BY <1>1, <2>1, KeyInvInit, VideoDecoderTypeCorrect, VideoDecoderReleaseFinal,
       PTL DEF Spec
<1> QED
  BY <1>2
-----------------------------------------------------------------------------
(* The order of outputs and flushes: the decoder is a PipelineSpec, and    *)
(* its reset messages empty the FFmpeg codec.                              *)

LEMMA HandlersPipeline ==
  ASSUME TypeOK, OnConfigure \/ OnDecode \/ OnFlush \/ OnReset
  PROVE  HandlerNext
<1>1. CASE OnConfigure
  <2>1. active \in Config
    BY DEF TypeOK, HandlerType
  <2> QED
    BY <1>1, <2>1 DEF OnConfigure, HandlerNext
<1>2. CASE OnDecode
  BY <1>2 DEF OnDecode, OnDecodeEndsEarly, OnDecodeSends, OnDecodeReceives,
     OnDecodeReceivesNoMore, OnDecodeFinishes, EndsEarly, HandlerNext
<1>3. CASE OnFlush
  BY <1>3 DEF OnFlush, HandlerNext
<1>4. CASE OnReset
  BY <1>4 DEF OnReset, HandlerNext
<1> QED
  BY <1>1, <1>2, <1>3, <1>4

LEMMA JsStepsPipeline ==
  ASSUME TypeOK,
         \/ \E cfg \in Config : Configure(cfg)
         \/ \E key \in BOOLEAN : Decode(key)
         \/ Flush \/ Reset \/ Close \/ CloseTwice \/ Release
         \/ OnOutputFrame \/ OnError \/ OnFlushComplete \/ OnDequeue
         \/ OnCallbackReturn
  PROVE  FrameNext /\ UNCHANGED ctxVars
<1>1. FrameNext
  BY ConfigureImplements, DecodeImplements, MethodsImplement,
     TsfnHandlersImplement
<1>2. UNCHANGED ctxVars
  BY DEF Configure, ConfigureUnsupported, ConfigureSupported, Decode, DecodeChunk,
     DecodeMalformed, Flush, FlushDecoder, Reset, ResetDecoder, Close, CloseTwice,
     Release, OnOutputFrame, OnError, OnFlushComplete, OnDequeue, OnCallbackReturn,
     decoderVars, handlerVars
<1> QED
  BY <1>1, <1>2

LEMMA NextPipeline ==
  ASSUME TypeOK, [Next]_vars
  PROVE  [PipelineNext]_pipelineVars
<1>1. CASE UNCHANGED vars
  BY <1>1 DEF vars, pipelineVars, decoderVars, handlerVars
<1>2. CASE WorkerLoop /\ UNCHANGED <<decoderVars, saturation>>
  BY <1>2 DEF PipelineNext, FrameNext, decoderVars, handlerVars
<1>3. CASE \/ \E cfg \in Config : Configure(cfg)
           \/ \E key \in BOOLEAN : Decode(key)
           \/ Flush \/ Reset \/ Close \/ CloseTwice \/ Release
           \/ OnOutputFrame \/ OnError \/ OnFlushComplete \/ OnDequeue
           \/ OnCallbackReturn
  BY <1>3, JsStepsPipeline DEF PipelineNext
<1>4. CASE OnConfigure \/ OnDecode \/ OnFlush \/ OnReset
  <2>1. HandlerStep
    BY <1>4, OnConfigureImplements, OnDecodeImplements, OnFlushImplements,
       OnResetImplements
  <2> QED
    BY <1>4, <2>1, HandlersPipeline DEF PipelineNext
<1> QED
  BY <1>1, <1>2, <1>3, <1>4 DEF Next, Worker

(* OnReset calls avcodec_flush_buffers, and nothing else gives up a reset  *)
(* message.                                                                *)
LEMMA NextEmpties ==
  ASSUME TypeOK, ReleaseIsFinal, [Next]_vars
  PROVE  [EmptiesOnReset]_pipelineVars
<1>1. CASE UNCHANGED vars
  BY <1>1 DEF vars, coreVars, workerVars, EmptiesOnReset
<1>2. CASE WorkerLoop
  BY <1>2, FrameEmpties DEF TypeOK, FrameNext
<1>3. CASE \/ \E cfg \in Config : Configure(cfg)
           \/ \E key \in BOOLEAN : Decode(key)
           \/ Flush \/ Reset \/ Close \/ CloseTwice \/ Release
           \/ OnOutputFrame \/ OnError \/ OnFlushComplete \/ OnDequeue
           \/ OnCallbackReturn
  BY <1>3, JsStepsPipeline, FrameEmpties DEF TypeOK
<1>4. CASE OnReset
  BY <1>4 DEF OnReset, FlushBuffers, EmptiesOnReset
<1>5. CASE OnConfigure
  <2>1. wpc \in ConfigurePoints
    BY <1>5 DEF OnConfigure, ConfigureRejects, ConfigureAllocates, ConfigureOpens,
       ConfigurePoints
  <2> QED
    BY <2>1, HandlerEmpties DEF TypeOK
<1>6. CASE OnDecode
  <2>1. wpc \in WorkPoints
    BY <1>6 DEF OnDecode, OnDecodeEndsEarly, OnDecodeSends, OnDecodeReceives,
     OnDecodeReceivesNoMore, OnDecodeFinishes, WorkReceives,
       WorkSkips, WorkSendFails, WorkAllocFails, WorkReceiveFails, AtWork,
       WorkSends, WorkReceivesNoMore, WorkCounts, WorkSignals, WorkPoints
  <2> QED
    BY <2>1, HandlerEmpties DEF TypeOK
<1>7. CASE OnFlush
  <2>1. wpc \in FlushPoints
    BY <1>7 DEF OnFlush, HandleFlush, FlushEndsAtOnce, FlushSends, FlushDrainsOne,
       FlushEnds, FlushPoints
  <2> QED
    BY <2>1, HandlerEmpties DEF TypeOK
<1> QED
  BY <1>1, <1>2, <1>3, <1>4, <1>5, <1>6, <1>7 DEF Next, Worker

LEMMA VideoDecoderPipeline == Spec => PipelineSpec /\ ResetsEmpty
<1>1. Init => CoreInit /\ ctx = "none" /\ buf = <<>> /\ TypeOK
  BY InitImplements DEF Init, DecoderInit, HandlerInit
<1>2. Spec => PipelineSpec
  BY <1>1, VideoDecoderTypeCorrect, NextPipeline, PTL DEF Spec, PipelineSpec
<1>3. Spec => ResetsEmpty
  BY VideoDecoderTypeCorrect, VideoDecoderReleaseFinal, NextEmpties, PTL
     DEF Spec, ResetsEmpty
<1> QED
  BY <1>2, <1>3

(* Outputs come in the order of the decode() calls, whatever reset(),      *)
(* configure() and close() do in between.                                  *)
THEOREM VideoDecoderOrder == Spec => []OutputOrder
<1>1. PipelineInOrder => OutputOrder
  BY DEF PipelineInOrder
<1> QED
  BY <1>1, VideoDecoderPipeline, PipelineOrder, PTL

(* A flush is reported successful only when every chunk queued before it   *)
(* has left the queue, the worker and the FFmpeg codec (OnFlush).          *)
THEOREM VideoDecoderDrains == Spec => []FlushDrains
<1>1. PipelineInOrder => FlushDrains
  BY DEF PipelineInOrder
<1> QED
  BY <1>1, VideoDecoderPipeline, PipelineOrder, PTL

(* Nothing from before a reset() outlives its message in the worker, which *)
(* calls avcodec_flush_buffers (OnReset).                                  *)
THEOREM VideoDecoderDiscards == Spec => []ResetDiscards
  BY VideoDecoderPipeline, PipelineResets

(* The queue size is the number of chunks not yet processed, as long as    *)
(* no error is on its way to JavaScript, but for what reset() takes from   *)
(* under a worker at work.                                                 *)
THEOREM VideoDecoderSizes == Spec => []QueueSizeExact
  BY VideoDecoderPipeline, PipelineSizes

(* No chunk is lost on the way from decode() to JavaScript, and the send   *)
(* never answers EAGAIN, with one configure, no reset and no error, if     *)
(* a frame can be cloned.                                                  *)
THEOREM VideoDecoderConserves ==
  ASSUME "clone" \notin Faults
  PROVE  Spec => []WorkConserved
  BY VideoDecoderPipeline, PipelineConserves
=============================================================================
