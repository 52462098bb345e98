------------------------- MODULE ImageControlQueue -------------------------
(***************************************************************************)
(* The message queue of an ImageDecoder (ImageControlQueue in              *)
(* shared/control_message_queue.h).  Every method holds mutex_ for its     *)
(* whole body and is one atomic operation here, but for ClearDecodes: it   *)
(* takes the queue apart message by message, and while it does so nobody   *)
(* else gets at it.                                                        *)
(***************************************************************************)
EXTENDS Naturals, Sequences

VARIABLES
  queue,      \* queue_: the messages, oldest first
  qclosed,    \* closed_: set by Shutdown and never cleared
  clearing,   \* ClearDecodes holds mutex_
  remaining,  \* its local: the messages to keep
  dropped     \* its local, then its result: promise ids of the dropped ones

queueVars == <<queue, qclosed, clearing, remaining, dropped>>

QueueInit(first) ==
  /\ queue = <<first>>
  /\ qclosed = FALSE
  /\ clearing = FALSE
  /\ remaining = <<>>
  /\ dropped = <<>>

(* Enqueue drops the message once the queue is closed.                     *)
Enqueue(m) ==
  /\ ~clearing
  /\ queue' = IF qclosed THEN queue ELSE Append(queue, m)
  /\ UNCHANGED <<qclosed, clearing, remaining>>

(* DequeueFor that returns a message, or nothing after the timeout.        *)
TakeFront ==
  /\ ~clearing
  /\ queue # <<>>
  /\ queue' = Tail(queue)
  /\ UNCHANGED <<qclosed, clearing, remaining, dropped>>

TakeNothing ==
  /\ ~clearing
  /\ queue = <<>>
  /\ UNCHANGED queueVars

BeginClear ==
  /\ clearing' = TRUE
  /\ remaining' = <<>>
  /\ dropped' = <<>>
  /\ UNCHANGED <<queue, qclosed>>

(* Mutant: every message is dropped, as the queue of the codecs does it.   *)
ClearDecodesAll ==
  /\ clearing
  /\ IF queue = <<>>
     THEN clearing' = FALSE /\ UNCHANGED <<queue, dropped>>
     ELSE /\ queue' = Tail(queue)
          /\ dropped' = IF Head(queue).type = "decode"
                        THEN Append(dropped, Head(queue).id) ELSE dropped
          /\ UNCHANGED clearing
  /\ UNCHANGED <<remaining, qclosed>>

(* Decode messages are dropped, the others kept in their order.            *)
ClearDecodes ==
  /\ clearing
  /\ IF queue = <<>>
     THEN /\ clearing' = FALSE
          /\ queue' = remaining
          /\ remaining' = <<>>
          /\ UNCHANGED dropped
     ELSE /\ queue' = Tail(queue)
          /\ IF Head(queue).type = "decode"
             THEN dropped' = Append(dropped, Head(queue).id) /\ UNCHANGED remaining
             ELSE remaining' = Append(remaining, Head(queue)) /\ UNCHANGED dropped
          /\ UNCHANGED clearing
  /\ UNCHANGED qclosed

Shutdown ==
  /\ qclosed' = TRUE
  /\ UNCHANGED <<queue, clearing, remaining, dropped>>
=============================================================================
