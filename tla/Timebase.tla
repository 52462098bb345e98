------------------------------ MODULE Timebase ------------------------------
(***************************************************************************)
(* Conversions between FFmpeg's timestamps and WebCodecs' microseconds, and*)
(* the comparison of 33-bit MPEG-TS timestamps that wrapped                *)
(* (shared/timebase.h).  No class of the addon includes it.                *)
(*                                                                         *)
(* A timebase is the record of a rational number of seconds.  The 64 bits  *)
(* of a timestamp are not exhausted by any value considered here.          *)
(***************************************************************************)
EXTENDS Integers

CONSTANTS
  MicrosPerSecond,  \* 1000000
  MpegTsClock,      \* 90000
  PtsWrap,          \* 2^33
  Timebases,        \* the timebases of streams
  Ticks             \* timestamps in them

ASSUME TimebaseAssumption ==
  /\ MicrosPerSecond \in Nat \ {0} /\ MpegTsClock \in Nat \ {0}
  /\ PtsWrap \in Nat \ {0} /\ PtsWrap % 2 = 0
  /\ Timebases \subseteq [num : Nat \ {0}, den : Nat \ {0}] /\ Ticks \subseteq Int

kWebcodecsTimebase == [num |-> 1, den |-> MicrosPerSecond]

(* av_rescale: a * b / c, rounded to nearest and halves away from zero.    *)
Rescale(a, b, c) ==
  IF a >= 0 THEN (2 * a * b + c) \div (2 * c) ELSE -((2 * (-a) * b + c) \div (2 * c))

RescaleQ(a, from, to) == Rescale(a, from.num * to.den, to.num * from.den)

ToMicroseconds(pts, timebase)  == RescaleQ(pts, timebase, kWebcodecsTimebase)
FromMicroseconds(us, timebase) == RescaleQ(us, kWebcodecsTimebase, timebase)

-----------------------------------------------------------------------------
(* kMpegTsWrapThreshold                                                    *)
WrapThreshold == PtsWrap \div 2

(* Mutant: a timestamp that wrapped is compared as it is.                  *)
PtsLessThanUnwrapped(a, b, timebase) == a < b

PtsLessThan(a, b, timebase) ==
  IF timebase.den # MpegTsClock THEN a < b
  ELSE IF b - a > WrapThreshold THEN FALSE
  ELSE IF b - a < -WrapThreshold THEN TRUE
  ELSE a < b

(* Only an end that wrapped is corrected, not a start after the end.       *)
PtsDiffUs(end, start, timebase) ==
  ToMicroseconds(
    IF timebase.den = MpegTsClock /\ end - start < -WrapThreshold
    THEN end - start + PtsWrap ELSE end - start,
    timebase)

-----------------------------------------------------------------------------
(* A timestamp survives the way to microseconds and back, if a tick takes  *)
(* a microsecond at least.                                                 *)
TicksSurvive(pts, timebase) ==
  timebase.num * MicrosPerSecond >= timebase.den
    => FromMicroseconds(ToMicroseconds(pts, timebase), timebase) = pts

(* Timestamps less than half the range apart compare as the times they     *)
(* stand for, whichever of them wrapped; and the time from the earlier one *)
(* to the later one is what passed.                                        *)
OrderSurvivesWrap(early, late, timebase) ==
  timebase.den = MpegTsClock /\ early < late /\ late - early < WrapThreshold =>
    /\ PtsLessThan(early % PtsWrap, late % PtsWrap, timebase)
    /\ ~PtsLessThan(late % PtsWrap, early % PtsWrap, timebase)
    /\ PtsDiffUs(late % PtsWrap, early % PtsWrap, timebase)
         = ToMicroseconds(late - early, timebase)

ConversionsRight ==
  /\ \A pts \in Ticks, timebase \in Timebases : TicksSurvive(pts, timebase)
  /\ \A early, late \in Ticks, timebase \in Timebases :
       early >= 0 => OrderSurvivesWrap(early, late, timebase)
=============================================================================
