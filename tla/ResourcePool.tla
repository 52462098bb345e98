---------------------------- MODULE ResourcePool ----------------------------
(***************************************************************************)
(* GlobalFramePool (shared/frame_pool.h) and GlobalPacketPool              *)
(* (shared/packet_pool.h): AVFrames, one pool for each size and format, or *)
(* AVPackets, in a single pool, kept for reuse.  Any thread may acquire and*)
(* give back; a mutex guards the pools.  The statistics are atomics that   *)
(* anybody may read, and reset, without it: every one of their updates is a*)
(* step of its own.  Those that only ever grow (hits, misses, allocations, *)
(* bytes) are left out.                                                    *)
(***************************************************************************)
EXTENDS Integers, SequencesExt

CONSTANTS
  Keys,        \* FramePoolKeys; one for packets
  MaxFrames,   \* bound on the frames there are at a time
  Sizes,       \* values of max_pool_size_, and targets of Trim
  CounterMod,  \* the counters' range, 2^64 in the code
  MaxResets    \* bound on the calls of ResetStats

Frames   == 1 .. MaxFrames
Counters == {"current_in_flight", "current_pooled", "peak_in_flight"}

ASSUME PoolAssumption ==
  /\ MaxFrames \in Nat /\ MaxResets \in Nat
  /\ Sizes \subseteq Nat /\ Sizes # {}
  /\ CounterMod \in Nat /\ CounterMod > MaxFrames
  /\ Keys # {}

VARIABLES
  pools,      \* pools_, used as stacks
  maxSize,    \* max_pool_size_
  place,      \* where each frame is; "none" is not allocated, or freed
  key,        \* the key its deleter has
  filled,     \* frames with data
  holder,     \* who holds mutex_, and what is left to do
  stats,      \* stats_
  lost,       \* history: what ResetStats took from each counter
  resetting,  \* counters ResetStats has yet to store to
  resets

poolVars  == <<pools, maxSize, place, key, filled>>
resetVars == <<resetting, resets>>
vars == <<poolVars, holder, stats, lost, resetVars>>

Nobody   == [does |-> "none"]
Unlocked == holder = Nobody

Init ==
  /\ pools = [k \in Keys |-> <<>>]
  /\ maxSize = Max(Sizes)
  /\ place = [f \in Frames |-> "none"]
  /\ \E k \in Keys : key = [f \in Frames |-> k]
  /\ filled = {}
  /\ holder = Nobody
  /\ stats = [c \in Counters |-> 0] /\ lost = [c \in Counters |-> 0]
  /\ resetting = <<>> /\ resets = 0

(* Counters are unsigned.                                                  *)
Wrap(n) == n % CounterMod

(* fetch_add and fetch_sub.                                                *)
Count(counter, n) ==
  /\ stats' = [stats EXCEPT ![counter] = Wrap(@ + n)]
  /\ UNCHANGED <<lost, resetVars>>

-----------------------------------------------------------------------------
(* Acquire.  An allocation that fails returns nothing and changes nothing. *)

AcquireHits(k) ==
  /\ Unlocked
  /\ pools[k] # <<>>
  /\ pools' = [pools EXCEPT ![k] = Front(@)]
  /\ place' = [place EXCEPT ![Last(pools[k])] = "taken"]
  /\ holder' = [does |-> "unpool", frame |-> Last(pools[k])]
  /\ UNCHANGED <<maxSize, key, filled, stats, lost, resetVars>>

AcquireMisses(k) ==
  /\ Unlocked
  /\ pools[k] = <<>>
  /\ \E f \in Frames :
       /\ place[f] = "none"
       /\ \A g \in 1 .. f - 1 : place[g] # "none"
       /\ place' = [place EXCEPT ![f] = "taken"]
       /\ key' = [key EXCEPT ![f] = k]
       /\ holder' = [does |-> "fly", frame |-> f]
  /\ UNCHANGED <<pools, maxSize, filled, stats, lost, resetVars>>

AcquireUnpools ==
  /\ holder.does = "unpool"
  /\ Count("current_pooled", -1)
  /\ holder' = [does |-> "fly", frame |-> holder.frame]
  /\ UNCHANGED poolVars

AcquireFlies ==
  /\ holder.does = "fly"
  /\ Count("current_in_flight", 1)
  /\ holder' = [does |-> "peak", frame |-> holder.frame, flight |-> stats'["current_in_flight"]]
  /\ UNCHANGED poolVars

(* compare_exchange_weak until the peak is not below what was counted.     *)
AcquireEnds ==
  /\ holder.does = "peak"
  /\ stats' = [stats EXCEPT !["peak_in_flight"] = Max({@, holder.flight})]
  /\ place' = [place EXCEPT ![holder.frame] = "out"]
  /\ holder' = Nobody
  /\ UNCHANGED <<pools, maxSize, key, filled, lost, resetVars>>

(* AcquireWithBuffer and the users put data into a frame they have.        *)
Fill(f) ==
  /\ place[f] = "out"
  /\ filled' = filled \cup {f}
  /\ UNCHANGED <<pools, maxSize, place, key, holder, stats, lost, resetVars>>

Acquire ==
  \/ \E k \in Keys : AcquireHits(k) \/ AcquireMisses(k)
  \/ AcquireUnpools \/ AcquireFlies \/ AcquireEnds

-----------------------------------------------------------------------------
(* ReturnFrame, ReturnPacket: the deleter of the user's pointer.           *)

(* Mutant: the data stays.                                                 *)
DropFilled(f) ==
  /\ place[f] = "out"
  /\ place' = [place EXCEPT ![f] = "returning"]
  /\ UNCHANGED <<pools, maxSize, key, filled, holder, stats, lost, resetVars>>

(* The data goes before the mutex is taken.                                *)
Drop(f) ==
  /\ place[f] = "out"
  /\ place' = [place EXCEPT ![f] = "returning"]
  /\ filled' = filled \ {f}
  /\ UNCHANGED <<pools, maxSize, key, holder, stats, lost, resetVars>>

ReturnLands(f) ==
  /\ Unlocked
  /\ place[f] = "returning"
  /\ Count("current_in_flight", -1)
  /\ place' = [place EXCEPT ![f] = "taken"]
  /\ holder' = [does |-> "push", frame |-> f]
  /\ UNCHANGED <<pools, maxSize, key, filled>>

(* Mutant: a frame that is freed is counted too.                           *)
ReturnPushesAll ==
  /\ holder.does = "push"
  /\ LET f == holder.frame
         k == key[f]
     IN  IF Len(pools[k]) < maxSize
         THEN /\ pools' = [pools EXCEPT ![k] = Append(@, f)]
              /\ place' = [place EXCEPT ![f] = "pooled"]
         ELSE /\ place' = [place EXCEPT ![f] = "none"]
              /\ UNCHANGED pools
  /\ holder' = [does |-> "pool"]
  /\ UNCHANGED <<maxSize, key, filled, stats, lost, resetVars>>

(* A full pool takes no more: the frame is freed.                          *)
ReturnPushes ==
  /\ holder.does = "push"
  /\ LET f == holder.frame
         k == key[f]
     IN  IF Len(pools[k]) < maxSize
         THEN /\ pools' = [pools EXCEPT ![k] = Append(@, f)]
              /\ place' = [place EXCEPT ![f] = "pooled"]
              /\ holder' = [does |-> "pool"]
         ELSE /\ place' = [place EXCEPT ![f] = "none"]
              /\ holder' = Nobody
              /\ UNCHANGED pools
  /\ UNCHANGED <<maxSize, key, filled, stats, lost, resetVars>>

ReturnPools ==
  /\ holder.does = "pool"
  /\ Count("current_pooled", 1)
  /\ holder' = Nobody
  /\ UNCHANGED poolVars

Return == (\E f \in Frames : ReturnLands(f)) \/ ReturnPushes \/ ReturnPools

-----------------------------------------------------------------------------
(* Clear, Trim, SetMaxPoolSize, ResetStats.                                *)

ClearFrees ==
  /\ Unlocked
  /\ pools' = [k \in Keys |-> <<>>]
  /\ place' = [f \in Frames |-> IF place[f] = "pooled" THEN "none" ELSE place[f]]
  /\ holder' = [does |-> "clear"]
  /\ UNCHANGED <<maxSize, key, filled, stats, lost, resetVars>>

ClearCounts ==
  /\ holder.does = "clear"
  /\ stats' = [stats EXCEPT !["current_pooled"] = 0]
  /\ lost' = [lost EXCEPT !["current_pooled"] = 0]
  /\ holder' = Nobody
  /\ UNCHANGED <<poolVars, resetVars>>

Trim(target) ==
  /\ Unlocked
  /\ holder' = [does |-> "trim", target |-> target]
  /\ UNCHANGED <<poolVars, stats, lost, resetVars>>

TrimFrees ==
  /\ holder.does = "trim"
  /\ \E k \in Keys :
       /\ Len(pools[k]) > holder.target
       /\ pools' = [pools EXCEPT ![k] = Front(@)]
       /\ place' = [place EXCEPT ![Last(pools[k])] = "none"]
  /\ holder' = [holder EXCEPT !.does = "trimmed"]
  /\ UNCHANGED <<maxSize, key, filled, stats, lost, resetVars>>

TrimCounts ==
  /\ holder.does = "trimmed"
  /\ Count("current_pooled", -1)
  /\ holder' = [holder EXCEPT !.does = "trim"]
  /\ UNCHANGED poolVars

TrimEnds ==
  /\ holder.does = "trim"
  /\ \A k \in Keys : Len(pools[k]) <= holder.target
  /\ holder' = Nobody
  /\ UNCHANGED <<poolVars, stats, lost, resetVars>>

(* What is pooled already stays.                                           *)
SetMaxPoolSize(size) ==
  /\ Unlocked
  /\ maxSize' = size
  /\ UNCHANGED <<pools, place, key, filled, holder, stats, lost, resetVars>>

(* Without the mutex, one counter after the other.                         *)
ResetStats ==
  /\ resetting = <<>>
  /\ resets < MaxResets
  /\ resets' = resets + 1
  /\ resetting' = <<"current_in_flight", "current_pooled", "peak_in_flight">>
  /\ UNCHANGED <<poolVars, holder, stats, lost>>

ResetStores ==
  /\ resetting # <<>>
  /\ resetting' = Tail(resetting)
  /\ stats' = [stats EXCEPT ![Head(resetting)] = 0]
  /\ lost' = [lost EXCEPT ![Head(resetting)] = (@ + stats[Head(resetting)]) % CounterMod]
  /\ UNCHANGED <<poolVars, holder, resets>>

Maintain ==
  \/ ClearFrees \/ ClearCounts
  \/ (\E size \in Sizes : Trim(size) \/ SetMaxPoolSize(size))
  \/ TrimFrees \/ TrimCounts \/ TrimEnds
  \/ ResetStats \/ ResetStores

Next ==
  \/ Acquire
  \/ \E f \in Frames : Fill(f) \/ Drop(f)
  \/ Return
  \/ Maintain

Spec == Init /\ [][Next]_vars

-----------------------------------------------------------------------------
(* Properties.                                                             *)

(* Nobody uses a frame that is in a pool: it is there once, in the pool of *)
(* its own key, belongs to no user, and has no data of an earlier one.     *)
PooledFramesIdle ==
  /\ \A k \in Keys : \A i \in DOMAIN pools[k] :
       LET f == pools[k][i]
       IN  /\ place[f] = "pooled" /\ key[f] = k
           /\ \A j \in DOMAIN pools[k] : pools[k][j] = f => j = i
  /\ \A f \in Frames : place[f] = "pooled" => f \notin filled /\ \E i \in DOMAIN pools[key[f]] :
       pools[key[f]][i] = f

Positions   == UNION {{k} \X DOMAIN pools[k] : k \in Keys}
TotalPooled == Cardinality(Positions)

InFlight == Cardinality({f \in Frames : place[f] \in {"out", "returning"}})

(* Whenever the mutex is free the counters tell what is pooled and what is *)
(* in flight, whichever updates were read in between; but ResetStats sets  *)
(* them wrong for good, by what they showed when it stored to them, and    *)
(* below zero when the frames come back.  The peak is no lower than the    *)
(* frames in flight as long as nobody resets it.                           *)
StatsExact ==
  Unlocked =>
    /\ (stats["current_pooled"] + lost["current_pooled"]) % CounterMod = TotalPooled
    /\ (stats["current_in_flight"] + lost["current_in_flight"]) % CounterMod = InFlight
    /\ resets = 0 => stats["peak_in_flight"] >= InFlight
=============================================================================
