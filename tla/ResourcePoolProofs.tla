------------------------ MODULE ResourcePoolProofs ------------------------
(***************************************************************************)
(* What holds of a resource pool for any keys, sizes and number of frames, *)
(* however its users interleave: a pooled frame is idle, and the counters  *)
(* tell what is pooled and in flight.                                      *)
(***************************************************************************)
EXTENDS ResourcePool, FiniteSetTheorems, TLAPS

-----------------------------------------------------------------------------
(* Counters modulo their range.                                            *)

LEMMA DivMod ==
  ASSUME NEW m \in Nat, NEW q \in Int, NEW r \in 0 .. m - 1
  PROVE  (q * m + r) % m = r
  BY SMT

LEMMA ModSmall ==
  ASSUME NEW n \in 0 .. CounterMod - 1
  PROVE  n % CounterMod = n
<1>1. 0 * CounterMod + n = n
  BY PoolAssumption
<1>2. (0 * CounterMod + n) % CounterMod = n
  BY PoolAssumption, DivMod
<1> QED
  BY <1>1, <1>2

LEMMA ModTyped ==
  ASSUME NEW x \in Int
  PROVE  /\ x % CounterMod \in 0 .. CounterMod - 1
         /\ \E q \in Int : x = q * CounterMod + (x % CounterMod)
<1> DEFINE m == CounterMod
           q == x \div m
<1>1. m \in Nat /\ m > 0
  BY PoolAssumption
<1> HIDE DEF m
<1>2. q \in Int /\ x % m \in 0 .. m - 1
  BY <1>1
<1>3. x = m * q + (x % m)
  BY <1>1
<1>4. m * q = q * m
  BY <1>1, <1>2
<1> QED
  BY <1>2, <1>3, <1>4 DEF m

(* Wrapping once or twice is the same.                                     *)
LEMMA ModAdd ==
  ASSUME NEW x \in Int, NEW y \in Int
  PROVE  ((x % CounterMod) + y) % CounterMod = (x + y) % CounterMod
<1> DEFINE m == CounterMod
           r == x % m
           s == (r + y) % m
<1>1. m \in Nat /\ r \in Int /\ s \in 0 .. m - 1
  BY PoolAssumption, ModTyped
<1>2. PICK q \in Int : x = q * m + r
  BY ModTyped
<1>3. r + y \in Int
  BY <1>1
<1>4. PICK p \in Int : r + y = p * m + s
  BY <1>3, ModTyped
<1> HIDE DEF m, r, s
<1>5. /\ q * m \in Int /\ p * m \in Int /\ s \in Int /\ q + p \in Int
      /\ q * m + p * m = (q + p) * m
  BY <1>1, <1>2, <1>4
<1>6. x + y = (q + p) * m + s
  BY <1>1, <1>2, <1>4, <1>5
<1>7. (x + y) % m = s
  BY <1>1, <1>5, <1>6, DivMod
<1> QED
  BY <1>7 DEF m, r, s

LEMMA ModShift ==
  ASSUME NEW x \in Int, NEW y \in Int, NEW n \in Int, x % CounterMod = y % CounterMod
  PROVE  (x + n) % CounterMod = (y + n) % CounterMod
  BY ModAdd

LEMMA WrapTyped ==
  ASSUME NEW n \in Int
  PROVE  Wrap(n) \in 0 .. CounterMod - 1
  BY ModTyped DEF Wrap

-----------------------------------------------------------------------------
(* Frames at a place.                                                      *)

Places == {"none", "taken", "out", "returning", "pooled"}

Placed(pl, at) == Cardinality({f \in Frames : pl[f] \in at})

LEMMA PlacedTyped ==
  ASSUME NEW pl, NEW at
  PROVE  IsFiniteSet({f \in Frames : pl[f] \in at}) /\ Placed(pl, at) \in 0 .. MaxFrames
<1>1. IsFiniteSet(Frames) /\ Cardinality(Frames) = MaxFrames
  BY PoolAssumption, FS_Interval DEF Frames
<1>2. {f \in Frames : pl[f] \in at} \in SUBSET Frames
  OBVIOUS
<1> QED
  BY <1>1, <1>2, PoolAssumption, FS_Subset, FS_CardinalityType DEF Placed

LEMMA PlacedMoves ==
  ASSUME NEW pl \in [Frames -> Places], NEW next \in [Frames -> Places], NEW f \in Frames,
         \A g \in Frames : g # f => next[g] = pl[g], NEW at
  PROVE  Placed(next, at) =
           Placed(pl, at) - (IF pl[f] \in at THEN 1 ELSE 0) + (IF next[f] \in at THEN 1 ELSE 0)
<1> DEFINE S == {g \in Frames : pl[g] \in at}
           T == {g \in Frames : next[g] \in at}
<1>1. S \ {f} = T \ {f} /\ (f \in S <=> pl[f] \in at) /\ (f \in T <=> next[f] \in at)
  OBVIOUS
<1>2. /\ IsFiniteSet(S) /\ Cardinality(S) \in Nat /\ Cardinality(S) = Placed(pl, at)
      /\ IsFiniteSet(T) /\ Cardinality(T) \in Nat
      /\ Cardinality(T) = Placed(next, at)
  BY PlacedTyped, FS_CardinalityType DEF Placed
<1> HIDE DEF S, T
<1>3. /\ Cardinality(S \ {f}) = IF f \in S THEN Cardinality(S) - 1 ELSE Cardinality(S)
      /\ Cardinality(T \ {f}) = IF f \in T THEN Cardinality(T) - 1 ELSE Cardinality(T)
  BY <1>2, FS_RemoveElement
<1>4. /\ f \in S => Placed(next, at) = Placed(pl, at) - 1 + (IF next[f] \in at THEN 1 ELSE 0)
      /\ f \notin S => Placed(next, at) = Placed(pl, at) + (IF next[f] \in at THEN 1 ELSE 0)
  BY <1>1, <1>2, <1>3
<1> QED
  BY <1>1, <1>2, <1>4

-----------------------------------------------------------------------------
(* Types; the holder of the mutex has its frame to itself, and only a frame*)
(* that a user has holds data.                                             *)

Holding == {"unpool", "fly", "peak", "push"}

Holders ==
  [does : {"none", "pool", "clear"}] \cup [does : {"unpool", "fly", "push"}, frame : Frames]
    \cup [does : {"peak"}, frame : Frames, flight : 0 .. CounterMod - 1]
    \cup [does : {"trim", "trimmed"}, target : Sizes]

PoolType ==
  /\ pools \in [Keys -> Seq(Frames)]
  /\ place \in [Frames -> Places]
  /\ key \in [Frames -> Keys]
  /\ filled \subseteq {f \in Frames : place[f] = "out"}
  /\ holder \in Holders
  /\ stats \in [Counters -> 0 .. CounterMod - 1] /\ lost \in [Counters -> 0 .. CounterMod - 1]
  /\ resetting \in Seq(Counters) /\ resets \in Nat
  /\ \A f \in Frames : place[f] = "taken" <=> holder.does \in Holding /\ holder.frame = f

PoolInv == PoolType /\ PooledFramesIdle

LEMMA HolderTyped ==
  ASSUME holder \in Holders
  PROVE  /\ holder.does \in Holding \cup {"none", "pool", "clear", "trim", "trimmed"}
         /\ holder.does \in Holding => holder.frame \in Frames
         /\ holder.does = "peak" => holder.flight \in 0 .. CounterMod - 1
         /\ holder.does \in {"trim", "trimmed"} =>
              /\ [holder EXCEPT !.does = "trim"] \in [does : {"trim"}, target : Sizes]
              /\ [holder EXCEPT !.does = "trimmed"] \in [does : {"trimmed"}, target : Sizes]
  BY DEF Holders, Holding

LEMMA UnlockedHolds ==
  ASSUME Unlocked
  PROVE  holder.does = "none"
  BY DEF Unlocked, Nobody

LEMMA CountTyped ==
  ASSUME PoolType, NEW c \in Counters, NEW n \in {-1, 1}, Count(c, n)
  PROVE  /\ stats' \in [Counters -> 0 .. CounterMod - 1]
         /\ UNCHANGED <<lost, resetting, resets>>
<1>1. stats[c] + n \in Int
  BY PoolAssumption DEF PoolType
<1>2. Wrap(stats[c] + n) \in 0 .. CounterMod - 1
  BY <1>1, WrapTyped
<1> QED
  BY <1>2 DEF Count, PoolType, resetVars

(* The last frame of a pool is taken from it.                              *)
LEMMA Popped ==
  ASSUME PoolInv, NEW k \in Keys, pools[k] # <<>>, NEW v \in {"taken", "none"},
         pools' = [pools EXCEPT ![k] = Front(@)],
         place' = [place EXCEPT ![Last(pools[k])] = v],
         UNCHANGED <<key, filled>>
  PROVE  /\ pools' \in [Keys -> Seq(Frames)] /\ Last(pools[k]) \in Frames
         /\ place[Last(pools[k])] = "pooled" /\ PooledFramesIdle'
<1> DEFINE s == pools[k]
           f == Last(s)
<1>1. /\ s \in Seq(Frames) /\ f \in Frames /\ Len(s) \in DOMAIN s /\ s[Len(s)] = f
      /\ Front(s) \in Seq(Frames) /\ \A i \in DOMAIN Front(s) : i \in DOMAIN s /\ i # Len(s)
      /\ \A i \in DOMAIN Front(s) : Front(s)[i] = s[i]
      /\ \A i \in DOMAIN s : i # Len(s) => i \in DOMAIN Front(s)
  BY DEF PoolInv, PoolType, Front, Last
<1>2. /\ pools' \in [Keys -> Seq(Frames)] /\ pools'[k] = Front(s)
      /\ \A l \in Keys : l # k => pools'[l] = pools[l]
  BY <1>1 DEF PoolInv, PoolType
<1>3. place[f] = "pooled" /\ key[f] = k /\ \A i \in DOMAIN s : s[i] = f => i = Len(s)
  BY <1>1 DEF PoolInv, PooledFramesIdle
<1>4. /\ place'[f] # "pooled" /\ \A g \in Frames : g # f => place'[g] = place[g]
  BY <1>1 DEF PoolInv, PoolType
<1> HIDE DEF f
<1>5. ASSUME NEW l \in Keys, NEW i \in DOMAIN pools'[l]
      PROVE  /\ i \in DOMAIN pools[l] /\ pools'[l][i] = pools[l][i] /\ pools[l][i] # f
             /\ pools[l][i] \in Frames
  BY <1>1, <1>2, <1>3 DEF PoolInv, PoolType, PooledFramesIdle
<1>6. ASSUME NEW g \in Frames, place'[g] = "pooled"
      PROVE  g \notin filled /\ \E i \in DOMAIN pools'[key[g]] : pools'[key[g]][i] = g
  <2>1. g # f /\ place[g] = "pooled" /\ key[g] \in Keys
    BY <1>4, <1>6 DEF PoolInv, PoolType
  <2>2. PICK i \in DOMAIN pools[key[g]] : pools[key[g]][i] = g
    BY <2>1 DEF PoolInv, PooledFramesIdle
  <2>3. i \in DOMAIN pools'[key[g]] /\ pools'[key[g]][i] = g
    BY <1>1, <1>2, <2>1, <2>2
  <2> QED
    BY <2>1, <2>3 DEF PoolInv, PooledFramesIdle
<1>7. \A l \in Keys : \A i \in DOMAIN pools'[l] :
        /\ place'[pools'[l][i]] = "pooled" /\ key[pools'[l][i]] = l
        /\ \A j \in DOMAIN pools'[l] : pools'[l][j] = pools'[l][i] => j = i
  BY <1>4, <1>5 DEF PoolInv, PooledFramesIdle
<1>8. PooledFramesIdle'
  BY <1>6, <1>7 DEF PooledFramesIdle
<1> QED
  BY <1>1, <1>2, <1>3, <1>8 DEF f

(* A frame that is in no pool changes its place, its key or its data.      *)
LEMMA ElsewhereIdle ==
  ASSUME PoolInv, UNCHANGED pools,
         NEW f \in Frames, place[f] # "pooled", NEW v \in Places \ {"pooled"},
         place' = [place EXCEPT ![f] = v],
         \A g \in Frames : g # f => key'[g] = key[g],
         \A g \in Frames : g # f /\ g \in filled' => g \in filled
  PROVE  PooledFramesIdle'
<1>1. \A g \in Frames : place'[g] = "pooled" => g # f /\ place[g] = "pooled"
  BY DEF PoolInv, PoolType
<1>2. \A g \in Frames : place[g] = "pooled" => place'[g] = "pooled" /\ key'[g] = key[g]
  BY DEF PoolInv, PoolType
<1>3. \A k \in Keys : \A i \in DOMAIN pools[k] : pools[k][i] \in Frames
  BY DEF PoolInv, PoolType
<1> QED
  BY <1>1, <1>2, <1>3 DEF PoolInv, PooledFramesIdle

LEMMA AcquireHitsKeeps ==
  ASSUME PoolInv, NEW k \in Keys, AcquireHits(k)
  PROVE  PoolInv'
<1> DEFINE f == Last(pools[k])
<1>1. /\ pools' \in [Keys -> Seq(Frames)] /\ f \in Frames /\ place[f] = "pooled"
      /\ PooledFramesIdle'
  BY Popped DEF AcquireHits
<1>2. /\ holder.does = "none" /\ holder' = [does |-> "unpool", frame |-> f]
      /\ place' = [place EXCEPT ![f] = "taken"]
      /\ UNCHANGED <<key, filled, stats, lost, resetting, resets>>
  BY UnlockedHolds DEF AcquireHits, resetVars
<1> HIDE DEF f
<1>3. holder' \in Holders
  BY <1>1, <1>2 DEF Holders
<1>4. PoolType'
  BY <1>1, <1>2, <1>3 DEF PoolInv, PoolType, Places, Holding
<1> QED
  BY <1>1, <1>4 DEF PoolInv

LEMMA AcquireMissesKeeps ==
  ASSUME PoolInv, NEW k \in Keys, AcquireMisses(k)
  PROVE  PoolInv'
<1>1. PICK f \in Frames : /\ place[f] = "none"
                          /\ place' = [place EXCEPT ![f] = "taken"]
                          /\ key' = [key EXCEPT ![f] = k]
                          /\ holder' = [does |-> "fly", frame |-> f]
  BY DEF AcquireMisses
<1>2. /\ holder.does = "none" /\ UNCHANGED <<pools, filled, stats, lost, resetting, resets>>
  BY UnlockedHolds DEF AcquireMisses, resetVars
<1>3. holder' \in Holders
  BY <1>1 DEF Holders
<1>4. PooledFramesIdle'
  BY <1>1, <1>2, ElsewhereIdle DEF PoolInv, PoolType, Places
<1>5. PoolType'
  BY <1>1, <1>2, <1>3 DEF PoolInv, PoolType, Places, Holding
<1> QED
  BY <1>4, <1>5 DEF PoolInv

(* A step of the holder that keeps its frame, or has none.                 *)
LEMMA HolderKeeps ==
  ASSUME PoolInv, UNCHANGED <<pools, place, key, filled>>, holder' \in Holders,
         \/ holder.does \in Holding /\ holder'.does \in Holding /\ holder'.frame = holder.frame
         \/ holder.does \notin Holding /\ holder'.does \notin Holding,
         stats' \in [Counters -> 0 .. CounterMod - 1], lost' \in [Counters -> 0 .. CounterMod - 1],
         resetting' \in Seq(Counters), resets' \in Nat
  PROVE  PoolInv'
  BY DEF PoolInv, PoolType, PooledFramesIdle

LEMMA MaxOfTwo ==
  ASSUME NEW a \in Int, NEW b \in Int
  PROVE  Max({a, b}) \in {a, b} /\ Max({a, b}) >= a /\ Max({a, b}) >= b
<1>1. \E x \in {a, b} : \A y \in {a, b} : x >= y
  OBVIOUS
<1> QED
  BY <1>1 DEF Max

LEMMA AcquireEndsKeeps ==
  ASSUME PoolInv, AcquireEnds
  PROVE  PoolInv'
<1> DEFINE f == holder.frame
           peak == stats["peak_in_flight"]
<1>6. holder.flight \in 0 .. CounterMod - 1 /\ peak \in 0 .. CounterMod - 1
  BY HolderTyped DEF PoolInv, PoolType, AcquireEnds, Counters
<1>7. \A a, b \in 0 .. CounterMod - 1 : Max({a, b}) \in 0 .. CounterMod - 1
  <2> TAKE a, b \in 0 .. CounterMod - 1
  <2>1. a \in Int /\ b \in Int
    BY PoolAssumption
  <2>2. Max({a, b}) \in {a, b}
    BY <2>1, MaxOfTwo
  <2> QED
    BY <2>2
<1>9. Max({peak, holder.flight}) \in 0 .. CounterMod - 1
  BY <1>6, <1>7
<1>8. stats' \in [Counters -> 0 .. CounterMod - 1]
  BY <1>9 DEF PoolInv, PoolType, AcquireEnds
<1>1. /\ f \in Frames /\ place[f] = "taken" /\ holder' = Nobody
      /\ place' = [place EXCEPT ![f] = "out"]
      /\ UNCHANGED <<pools, key, filled, lost, resetting, resets>>
  BY HolderTyped DEF PoolInv, PoolType, AcquireEnds, Holding, resetVars
<1>2. \A g \in Frames : place[g] = "taken" => g = f
  BY DEF PoolInv, PoolType
<1> HIDE DEF f
<1>3. holder' \in Holders /\ holder'.does \notin Holding
  BY <1>1 DEF Holders, Nobody, Holding
<1>4. PooledFramesIdle'
  BY <1>1, ElsewhereIdle DEF Places
<1>5. PoolType'
  BY <1>1, <1>2, <1>3, <1>8 DEF PoolInv, PoolType, Places
<1> QED
  BY <1>4, <1>5 DEF PoolInv

LEMMA FillDropKeeps ==
  ASSUME PoolInv, NEW f \in Frames, Fill(f) \/ Drop(f)
  PROVE  PoolInv'
<1>1. /\ place[f] = "out" /\ UNCHANGED <<pools, key, holder, stats, lost, resetting, resets>>
  BY DEF Fill, Drop, resetVars
<1>2. PICK v \in {"out", "returning"} :
        /\ place' = [place EXCEPT ![f] = v]
        /\ filled' \subseteq filled \cup {f} /\ (v # "out" => f \notin filled')
  BY DEF Fill, Drop, PoolInv, PoolType
<1>3. PooledFramesIdle'
  BY <1>1, <1>2, ElsewhereIdle DEF Places
<1>4. PoolType'
  BY <1>1, <1>2 DEF PoolInv, PoolType, Places
<1> QED
  BY <1>3, <1>4 DEF PoolInv

LEMMA ReturnLandsKeeps ==
  ASSUME PoolInv, NEW f \in Frames, ReturnLands(f)
  PROVE  PoolInv'
<1>1. /\ place[f] = "returning" /\ place' = [place EXCEPT ![f] = "taken"]
      /\ holder.does = "none" /\ holder' = [does |-> "push", frame |-> f]
      /\ Count("current_in_flight", -1) /\ UNCHANGED <<pools, key, filled>>
  BY UnlockedHolds DEF ReturnLands
<1>2. /\ stats' \in [Counters -> 0 .. CounterMod - 1]
      /\ UNCHANGED <<lost, resetting, resets>>
  BY <1>1, CountTyped DEF PoolInv, Counters
<1>3. holder' \in Holders
  BY <1>1 DEF Holders
<1>4. PooledFramesIdle'
  BY <1>1, ElsewhereIdle DEF Places
<1>5. PoolType'
  BY <1>1, <1>2, <1>3 DEF PoolInv, PoolType, Places, Holding
<1> QED
  BY <1>4, <1>5 DEF PoolInv

(* A frame comes to the end of its pool.                                   *)
LEMMA Pushed ==
  ASSUME PoolInv, NEW f \in Frames, place[f] = "taken",
         pools' = [pools EXCEPT ![key[f]] = Append(@, f)],
         place' = [place EXCEPT ![f] = "pooled"],
         UNCHANGED <<key, filled>>
  PROVE  pools' \in [Keys -> Seq(Frames)] /\ PooledFramesIdle'
<1> DEFINE k == key[f]
           s == pools[k]
<1>1. /\ k \in Keys /\ s \in Seq(Frames) /\ f \notin filled
      /\ \A i \in DOMAIN Append(s, f) :
            \/ i \in DOMAIN s /\ Append(s, f)[i] = s[i] /\ i # Len(s) + 1
            \/ i = Len(s) + 1 /\ Append(s, f)[i] = f
      /\ \A i \in DOMAIN s : i \in DOMAIN Append(s, f) /\ Append(s, f)[i] = s[i]
      /\ Len(s) + 1 \in DOMAIN Append(s, f) /\ Append(s, f)[Len(s) + 1] = f
  BY DEF PoolInv, PoolType
<1>2. /\ pools' \in [Keys -> Seq(Frames)] /\ pools'[k] = Append(s, f)
      /\ \A l \in Keys : l # k => pools'[l] = pools[l]
  BY <1>1 DEF PoolInv, PoolType
<1>3. \A l \in Keys : \A i \in DOMAIN pools[l] : pools[l][i] \in Frames /\ pools[l][i] # f
  BY DEF PoolInv, PoolType, PooledFramesIdle
<1>4. /\ place'[f] = "pooled" /\ \A g \in Frames : g # f => place'[g] = place[g]
      /\ key[f] = k
  BY DEF PoolInv, PoolType
<1> HIDE DEF k
<1>5. \A l \in Keys : \A i \in DOMAIN pools'[l] :
        \/ i \in DOMAIN pools[l] /\ pools'[l][i] = pools[l][i] /\ (l = k => i # Len(s) + 1)
        \/ l = k /\ i = Len(s) + 1 /\ pools'[l][i] = f
  BY <1>1, <1>2
<1>6. \A l \in Keys : \A i \in DOMAIN pools'[l] :
        /\ place'[pools'[l][i]] = "pooled" /\ key[pools'[l][i]] = l
        /\ \A j \in DOMAIN pools'[l] : pools'[l][j] = pools'[l][i] => j = i
  BY <1>3, <1>4, <1>5 DEF PoolInv, PooledFramesIdle
<1>7. ASSUME NEW g \in Frames, place'[g] = "pooled"
      PROVE  g \notin filled /\ \E i \in DOMAIN pools'[key[g]] : pools'[key[g]][i] = g
  <2>1. CASE g = f
    BY <1>1, <1>2, <1>4, <2>1
  <2>2. CASE g # f
    <3>1. place[g] = "pooled" /\ key[g] \in Keys
      BY <1>4, <1>7, <2>2 DEF PoolInv, PoolType
    <3>2. PICK i \in DOMAIN pools[key[g]] : pools[key[g]][i] = g
      BY <3>1 DEF PoolInv, PooledFramesIdle
    <3>3. i \in DOMAIN pools'[key[g]] /\ pools'[key[g]][i] = g
      BY <1>1, <1>2, <3>1, <3>2
    <3> QED
      BY <3>1, <3>3 DEF PoolInv, PooledFramesIdle
  <2> QED
    BY <2>1, <2>2
<1> QED
  BY <1>2, <1>6, <1>7 DEF PooledFramesIdle

LEMMA ReturnPushesKeeps ==
  ASSUME PoolInv, ReturnPushes
  PROVE  PoolInv'
<1> DEFINE f == holder.frame
<1>1. /\ f \in Frames /\ place[f] = "taken" /\ holder.does \in Holding
      /\ UNCHANGED <<key, filled, stats, lost, resetting, resets>>
  BY HolderTyped DEF PoolInv, PoolType, ReturnPushes, Holding, resetVars
<1>2. \A g \in Frames : place[g] = "taken" => g = f
  BY DEF PoolInv, PoolType
<1>3. \/ /\ pools' = [pools EXCEPT ![key[f]] = Append(@, f)]
         /\ place' = [place EXCEPT ![f] = "pooled"] /\ holder' = [does |-> "pool"]
      \/ /\ place' = [place EXCEPT ![f] = "none"] /\ holder' = Nobody /\ UNCHANGED pools
  BY DEF ReturnPushes
<1> HIDE DEF f
<1>4. pools' \in [Keys -> Seq(Frames)] /\ PooledFramesIdle'
  BY <1>1, <1>3, Pushed, ElsewhereIdle DEF Places, PoolInv, PoolType
<1>5. holder' \in Holders /\ holder'.does \notin Holding
  BY <1>3 DEF Holders, Nobody, Holding
<1>6. PoolType'
  BY <1>1, <1>2, <1>3, <1>4, <1>5 DEF PoolInv, PoolType, Places
<1> QED
  BY <1>4, <1>6 DEF PoolInv

LEMMA ClearFreesKeeps ==
  ASSUME PoolInv, ClearFrees
  PROVE  PoolInv'
<1>1. /\ pools' = [k \in Keys |-> <<>>] /\ holder.does = "none" /\ holder' = [does |-> "clear"]
      /\ place' = [f \in Frames |-> IF place[f] = "pooled" THEN "none" ELSE place[f]]
      /\ UNCHANGED <<key, filled, stats, lost, resetting, resets>>
  BY UnlockedHolds DEF ClearFrees, resetVars
<1>2. holder' \in Holders
  BY <1>1 DEF Holders
<1>3. PooledFramesIdle'
  BY <1>1 DEF PooledFramesIdle, PoolInv, PoolType
<1>4. PoolType'
  BY <1>1, <1>2 DEF PoolInv, PoolType, Places, Holding
<1> QED
  BY <1>3, <1>4 DEF PoolInv

LEMMA TrimFreesKeeps ==
  ASSUME PoolInv, TrimFrees
  PROVE  PoolInv'
<1>1. PICK k \in Keys : /\ Len(pools[k]) > holder.target
                        /\ pools' = [pools EXCEPT ![k] = Front(@)]
                        /\ place' = [place EXCEPT ![Last(pools[k])] = "none"]
  BY DEF TrimFrees
<1> DEFINE f == Last(pools[k])
<1>2. /\ holder.does = "trim" /\ holder' = [holder EXCEPT !.does = "trimmed"]
      /\ UNCHANGED <<key, filled, stats, lost, resetting, resets>>
  BY DEF TrimFrees, resetVars
<1>3. holder' \in [does : {"trimmed"}, target : Sizes] /\ holder.target \in Nat
  BY <1>2, HolderTyped, PoolAssumption DEF PoolInv, PoolType
<1>4. pools[k] # <<>>
  BY <1>1, <1>3 DEF PoolInv, PoolType
<1>5. /\ pools' \in [Keys -> Seq(Frames)] /\ f \in Frames /\ place[f] = "pooled"
      /\ PooledFramesIdle'
  BY <1>1, <1>2, <1>4, Popped
<1> HIDE DEF f
<1>6. holder' \in Holders /\ holder'.does \notin Holding /\ holder.does \notin Holding
  BY <1>2, <1>3 DEF Holders, Holding
<1>7. place' = [place EXCEPT ![f] = "none"]
  BY <1>1 DEF f
<1>8. PoolType'
  BY <1>2, <1>5, <1>6, <1>7 DEF PoolInv, PoolType, Places
<1> QED
  BY <1>5, <1>8 DEF PoolInv

(* The steps that only count.                                              *)
LEMMA CountingKeeps ==
  ASSUME PoolInv,
         \/ AcquireUnpools \/ AcquireFlies \/ ReturnPools \/ ClearCounts
         \/ (\E size \in Sizes : Trim(size) \/ SetMaxPoolSize(size))
         \/ TrimCounts \/ TrimEnds \/ ResetStats \/ ResetStores
  PROVE  PoolInv'
<1> USE DEF PoolInv, PoolType, poolVars, resetVars, Holding
<1>1. holder \in Holders
  OBVIOUS
<1>2. CASE AcquireUnpools
  <2>1. Count("current_pooled", -1) /\ UNCHANGED <<pools, place, key, filled>>
    BY <1>2 DEF AcquireUnpools
  <2>2. holder.does = "unpool" /\ holder' = [does |-> "fly", frame |-> holder.frame]
    BY <1>2 DEF AcquireUnpools
  <2>3. holder' \in Holders
    BY <1>1, <2>2, HolderTyped DEF Holders
  <2> QED
    BY <2>1, <2>2, <2>3, CountTyped, HolderKeeps DEF Counters
<1>3. CASE AcquireFlies
  <2>1. Count("current_in_flight", 1) /\ UNCHANGED <<pools, place, key, filled>>
    BY <1>3 DEF AcquireFlies
  <2>2. /\ holder.does = "fly"
        /\ holder' = [does |-> "peak", frame |-> holder.frame,
                      flight |-> stats'["current_in_flight"]]
    BY <1>3 DEF AcquireFlies
  <2>3. /\ stats' \in [Counters -> 0 .. CounterMod - 1]
        /\ UNCHANGED <<lost, resetting, resets>>
    BY <2>1, CountTyped DEF Counters
  <2>4. stats'["current_in_flight"] \in 0 .. CounterMod - 1
    BY <2>3 DEF Counters
  <2>5. holder' \in Holders
    BY <1>1, <2>2, <2>4, HolderTyped DEF Holders
  <2> QED
    BY <2>1, <2>2, <2>3, <2>5, HolderKeeps
<1>4. CASE ReturnPools
  <2>1. Count("current_pooled", 1) /\ UNCHANGED <<pools, place, key, filled>>
    BY <1>4 DEF ReturnPools
  <2>2. holder.does = "pool" /\ holder' = Nobody
    BY <1>4 DEF ReturnPools
  <2>3. holder' \in Holders /\ holder'.does = "none"
    BY <2>2 DEF Holders, Nobody
  <2> QED
    BY <2>1, <2>2, <2>3, CountTyped, HolderKeeps DEF Counters
<1>5. CASE ClearCounts
  <2>1. /\ UNCHANGED <<pools, place, key, filled, resetting, resets>>
        /\ holder.does = "clear" /\ holder' = Nobody
        /\ stats' = [stats EXCEPT !["current_pooled"] = 0]
        /\ lost' = [lost EXCEPT !["current_pooled"] = 0]
    BY <1>5 DEF ClearCounts
  <2>2. holder' \in Holders /\ holder'.does = "none"
    BY <2>1 DEF Holders, Nobody
  <2>3. 0 \in 0 .. CounterMod - 1
    BY PoolAssumption
  <2>4. stats' \in [Counters -> 0 .. CounterMod - 1] /\ lost' \in [Counters -> 0 .. CounterMod - 1]
    BY <2>1, <2>3
  <2> QED
    BY <2>1, <2>2, <2>4, HolderKeeps
<1>6. ASSUME NEW size \in Sizes, Trim(size) \/ SetMaxPoolSize(size)
      PROVE  PoolInv'
  <2>1. UNCHANGED <<pools, place, key, filled, stats, lost, resetting, resets>>
    BY <1>6 DEF Trim, SetMaxPoolSize
  <2>2. holder.does = "none" /\ (holder' = holder \/ holder' = [does |-> "trim", target |-> size])
    BY <1>6, UnlockedHolds DEF Trim, SetMaxPoolSize
  <2>3. holder' \in Holders /\ holder'.does \notin Holding
    BY <1>1, <2>2 DEF Holders
  <2> QED
    BY <2>1, <2>2, <2>3, HolderKeeps
<1>7. CASE TrimCounts
  <2>1. Count("current_pooled", -1) /\ UNCHANGED <<pools, place, key, filled>>
    BY <1>7 DEF TrimCounts
  <2>2. holder.does = "trimmed" /\ holder' = [holder EXCEPT !.does = "trim"]
    BY <1>7 DEF TrimCounts
  <2>3. holder' \in [does : {"trim"}, target : Sizes]
    BY <1>1, <2>2, HolderTyped
  <2>4. holder' \in Holders /\ holder'.does = "trim"
    BY <2>3 DEF Holders
  <2> QED
    BY <2>1, <2>2, <2>4, CountTyped, HolderKeeps DEF Counters
<1>8. CASE TrimEnds
  <2>1. /\ UNCHANGED <<pools, place, key, filled, stats, lost, resetting, resets>>
        /\ holder.does = "trim" /\ holder' = Nobody
    BY <1>8 DEF TrimEnds
  <2>2. holder' \in Holders /\ holder'.does = "none"
    BY <2>1 DEF Holders, Nobody
  <2> QED
    BY <2>1, <2>2, HolderKeeps
<1>9. CASE ResetStats
  <2>1. /\ UNCHANGED <<pools, place, key, filled, holder, stats, lost>> /\ resets' = resets + 1
        /\ resetting' = <<"current_in_flight", "current_pooled", "peak_in_flight">>
    BY <1>9 DEF ResetStats
  <2>2. resetting' \in Seq(Counters)
    BY <2>1 DEF Counters
  <2> QED
    BY <2>1, <2>2, HolderKeeps
<1>10. CASE ResetStores
  <2>1. /\ UNCHANGED <<pools, place, key, filled, holder, resets>>
        /\ resetting # <<>> /\ resetting' = Tail(resetting)
        /\ stats' = [stats EXCEPT ![Head(resetting)] = 0]
        /\ lost' = [lost EXCEPT ![Head(resetting)] = (@ + stats[Head(resetting)]) % CounterMod]
    BY <1>10 DEF ResetStores
  <2>2. Head(resetting) \in Counters /\ resetting' \in Seq(Counters)
    BY <2>1
  <2>3. lost[Head(resetting)] + stats[Head(resetting)] \in Int
    BY <2>2, PoolAssumption
  <2>4. (lost[Head(resetting)] + stats[Head(resetting)]) % CounterMod \in 0 .. CounterMod - 1
    BY <2>3, ModTyped
  <2>5. 0 \in 0 .. CounterMod - 1
    BY PoolAssumption
  <2>6. stats' \in [Counters -> 0 .. CounterMod - 1]
    BY <2>1, <2>2, <2>5
  <2>7. lost' \in [Counters -> 0 .. CounterMod - 1]
    BY <2>1, <2>2, <2>4
  <2> QED
    BY <2>1, <2>2, <2>6, <2>7, HolderKeeps
<1> QED
  BY <1>2, <1>3, <1>4, <1>5, <1>6, <1>7, <1>8, <1>9, <1>10

LEMMA InitPools ==
  ASSUME Init
  PROVE  PoolInv
<1>1. holder \in Holders /\ holder.does = "none"
  BY DEF Init, Nobody, Holders
<1>2. 0 \in 0 .. CounterMod - 1
  BY PoolAssumption
<1>3. PoolType
  BY <1>1, <1>2 DEF Init, PoolType, Places, Holding
<1>4. PooledFramesIdle
  BY DEF Init, PooledFramesIdle
<1> QED
  BY <1>3, <1>4 DEF PoolInv

LEMMA PoolKeeps ==
  ASSUME PoolInv, [Next]_vars
  PROVE  PoolInv'
<1>1. CASE UNCHANGED vars
  BY <1>1 DEF vars, poolVars, resetVars, PoolInv, PoolType, PooledFramesIdle
<1>2. CASE Acquire
  BY <1>2, AcquireHitsKeeps, AcquireMissesKeeps, AcquireEndsKeeps, CountingKeeps DEF Acquire
<1>3. CASE \E f \in Frames : Fill(f) \/ Drop(f)
  BY <1>3, FillDropKeeps
<1>4. CASE Return
  BY <1>4, ReturnLandsKeeps, ReturnPushesKeeps, CountingKeeps DEF Return
<1>5. CASE Maintain
  BY <1>5, ClearFreesKeeps, TrimFreesKeeps, CountingKeeps DEF Maintain
<1> QED
  BY <1>1, <1>2, <1>3, <1>4, <1>5 DEF Next

LEMMA PoolInvariant == Spec => []PoolInv
<1>1. Init => PoolInv
  BY InitPools
<1>2. PoolInv /\ [Next]_vars => PoolInv'
  BY PoolKeeps
<1> QED
  BY <1>1, <1>2, PTL DEF Spec

(* A frame in a pool is there once, in the pool of its own key, and neither*)
(* a user nor any data of one are with it, whoever else is at work (Acquire*)
(* and ReturnFrame of frame_pool.h).                                       *)
THEOREM PoolFramesIdle == Spec => []PooledFramesIdle
<1>1. PoolInv => PooledFramesIdle
  BY DEF PoolInv
<1> QED
  BY <1>1, PoolInvariant, PTL
-----------------------------------------------------------------------------
(* What the counters show, with what ResetStats took from them, against the*)
(* frames: the holder of the mutex owes what it has yet to count.          *)

Sum(counter) == (stats[counter] + lost[counter]) % CounterMod

InPool  == {"pooled"}
Outside == {"out", "returning"}

Pooled == Placed(place, InPool)
Flying == Placed(place, Outside)

OwesPooled ==
  CASE holder.does \in {"unpool", "trimmed"} -> 1
    [] holder.does = "pool" -> -1
    [] OTHER -> 0
OwesFlying == IF holder.does = "peak" THEN 1 ELSE 0

PooledCounted ==
  IF holder.does = "clear" THEN Pooled = 0
  ELSE Sum("current_pooled") = (Pooled + OwesPooled) % CounterMod

FlyingCounted == Sum("current_in_flight") = (Flying + OwesFlying) % CounterMod

(* Until a reset, that is, the peak and what was read for it are no lower  *)
(* than the frames they stand for.                                         *)
PeakHolds ==
  resets = 0 =>
    /\ resetting = <<>> /\ lost["current_in_flight"] = 0
    /\ stats["peak_in_flight"] >= Flying
    /\ holder.does = "peak" => holder.flight >= Flying + 1

Counted == PooledCounted /\ FlyingCounted /\ PeakHolds

LEMMA SumsTyped ==
  ASSUME PoolInv
  PROVE  /\ \A c \in Counters : stats[c] \in Int /\ lost[c] \in Int
         /\ Pooled \in 0 .. MaxFrames /\ Flying \in 0 .. MaxFrames
         /\ OwesPooled \in {-1, 0, 1} /\ OwesFlying \in {0, 1}
<1>1. \A c \in Counters : stats[c] \in Int /\ lost[c] \in Int
  BY PoolAssumption DEF PoolInv, PoolType
<1>2. Pooled \in 0 .. MaxFrames /\ Flying \in 0 .. MaxFrames
  BY PlacedTyped DEF Pooled, Flying
<1>3. OwesPooled \in {-1, 0, 1} /\ OwesFlying \in {0, 1}
  BY DEF OwesPooled, OwesFlying
<1> QED
  BY <1>1, <1>2, <1>3

(* A frame moves.                                                          *)
LEMMA Moves ==
  ASSUME PoolInv, PoolInv', NEW f \in Frames, \A g \in Frames : g # f => place'[g] = place[g]
  PROVE  /\ Pooled' = Pooled - (IF place[f] = "pooled" THEN 1 ELSE 0)
                             + (IF place'[f] = "pooled" THEN 1 ELSE 0)
         /\ Flying' = Flying - (IF place[f] \in {"out", "returning"} THEN 1 ELSE 0)
                             + (IF place'[f] \in {"out", "returning"} THEN 1 ELSE 0)
<1>1. place \in [Frames -> Places] /\ place' \in [Frames -> Places]
  BY DEF PoolInv, PoolType
<1>2. \A at : Placed(place', at) = Placed(place, at) - (IF place[f] \in at THEN 1 ELSE 0)
                                                     + (IF place'[f] \in at THEN 1 ELSE 0)
  BY <1>1, PlacedMoves
<1>3. /\ Placed(place', InPool) =
          Placed(place, InPool) - (IF place[f] \in InPool THEN 1 ELSE 0)
                                + (IF place'[f] \in InPool THEN 1 ELSE 0)
      /\ Placed(place', Outside) =
          Placed(place, Outside) - (IF place[f] \in Outside THEN 1 ELSE 0)
                                 + (IF place'[f] \in Outside THEN 1 ELSE 0)
  BY <1>2
<1>4. /\ Pooled' = Placed(place', InPool) /\ Pooled = Placed(place, InPool)
      /\ Flying' = Placed(place', Outside) /\ Flying = Placed(place, Outside)
  BY DEF Pooled, Flying
<1> QED
  BY <1>1, <1>3, <1>4 DEF InPool, Outside

(* Counting changes the counter that counts, and no other.                 *)
LEMMA CountSums ==
  ASSUME PoolInv, NEW c \in Counters, NEW n \in {-1, 1}, Count(c, n), NEW d \in Counters,
         NEW x \in Int, Sum(d) = x % CounterMod
  PROVE  Sum(d)' = (IF d = c THEN x + n ELSE x) % CounterMod
<1>1. /\ stats' = [stats EXCEPT ![c] = Wrap(@ + n)] /\ lost' = lost
      /\ stats \in [Counters -> 0 .. CounterMod - 1]
  BY DEF Count, PoolInv, PoolType
<1>2. CASE d # c
  BY <1>1, <1>2 DEF Sum
<1>3. CASE d = c
  <2> DEFINE s == stats[c]
             l == lost[c]
  <2>1. s \in Int /\ l \in Int /\ s + n \in Int /\ s + l \in Int
    BY SumsTyped
  <2>2. Sum(d)' = (((s + n) % CounterMod) + l) % CounterMod
    BY <1>1, <1>3 DEF Sum, Wrap
  <2>3. (s + l) % CounterMod = x % CounterMod
    BY <1>3 DEF Sum
  <2> HIDE DEF s, l
  <2>4. (((s + n) % CounterMod) + l) % CounterMod = ((s + n) + l) % CounterMod
    BY <2>1, ModAdd
  <2>5. (s + n) + l = (s + l) + n
    BY <2>1
  <2>6. ((s + l) + n) % CounterMod = (x + n) % CounterMod
    BY <2>1, <2>3, ModShift
  <2> QED
    BY <1>3, <2>2, <2>4, <2>5, <2>6
<1> QED
  BY <1>2, <1>3

(* What ResetStats takes from a counter it takes note of.                  *)
LEMMA ResetSums ==
  ASSUME PoolInv, ResetStores, NEW d \in Counters
  PROVE  Sum(d)' = Sum(d)
<1> DEFINE c == Head(resetting)
<1>1. /\ c \in Counters
      /\ stats' = [stats EXCEPT ![c] = 0]
      /\ lost' = [lost EXCEPT ![c] = (@ + stats[c]) % CounterMod]
      /\ stats \in [Counters -> 0 .. CounterMod - 1]
      /\ lost \in [Counters -> 0 .. CounterMod - 1]
  BY DEF ResetStores, PoolInv, PoolType
<1> HIDE DEF c
<1>2. CASE d # c
  BY <1>1, <1>2 DEF Sum
<1>3. CASE d = c
  <2>1. stats[d] \in Int /\ lost[d] \in Int /\ lost[d] + stats[d] = stats[d] + lost[d]
    BY SumsTyped
  <2> DEFINE r == (lost[d] + stats[d]) % CounterMod
  <2>2. stats'[d] = 0 /\ lost'[d] = r
    BY <1>1, <1>3
  <2>3. r \in 0 .. CounterMod - 1 /\ r = Sum(d)
    BY <2>1, ModTyped DEF Sum
  <2> HIDE DEF r
  <2>4. 0 + r = r /\ r % CounterMod = r
    BY <2>3, ModSmall, PoolAssumption
  <2> QED
    BY <2>2, <2>3, <2>4 DEF Sum
<1> QED
  BY <1>2, <1>3

(* A step by which a counter moves as much as what it counts, and owes.    *)
LEMMA Tallies ==
  ASSUME PoolInv, PoolInv', Counted, NEW n \in Int, NEW m \in Int,
         holder.does # "clear", holder'.does # "clear",
         \A x \in Int : Sum("current_pooled") = x % CounterMod
                          => Sum("current_pooled")' = (x + n) % CounterMod,
         \A x \in Int : Sum("current_in_flight") = x % CounterMod
                          => Sum("current_in_flight")' = (x + m) % CounterMod,
         Pooled' + OwesPooled' = Pooled + OwesPooled + n,
         Flying' + OwesFlying' = Flying + OwesFlying + m
  PROVE  PooledCounted' /\ FlyingCounted'
<1>1. Pooled + OwesPooled \in Int /\ Flying + OwesFlying \in Int
  BY SumsTyped
<1>2. /\ Sum("current_pooled") = (Pooled + OwesPooled) % CounterMod
      /\ Sum("current_in_flight") = (Flying + OwesFlying) % CounterMod
  BY DEF Counted, PooledCounted, FlyingCounted
<1>3. /\ Sum("current_pooled")' = (Pooled + OwesPooled + n) % CounterMod
      /\ Sum("current_in_flight")' = (Flying + OwesFlying + m) % CounterMod
  BY <1>1, <1>2
<1>4. /\ Sum("current_pooled")' = (Pooled' + OwesPooled') % CounterMod
      /\ Sum("current_in_flight")' = (Flying' + OwesFlying') % CounterMod
  BY <1>3
<1> QED
  BY <1>4 DEF PooledCounted, FlyingCounted

(* No counter changes.                                                     *)
LEMMA SumsStay ==
  ASSUME PoolInv, UNCHANGED <<stats, lost>>, NEW d \in Counters, NEW x \in Int,
         Sum(d) = x % CounterMod
  PROVE  Sum(d)' = (x + 0) % CounterMod
<1>1. x + 0 = x
  OBVIOUS
<1> QED
  BY <1>1 DEF Sum

(* The holder, what is pooled and what is in flight stay, and so do the    *)
(* sums.                                                                   *)
LEMMA OthersCount ==
  ASSUME PoolInv, Counted, UNCHANGED holder, Pooled' = Pooled, Flying' = Flying,
         \A d \in Counters : Sum(d)' = Sum(d)
  PROVE  PooledCounted' /\ FlyingCounted'
<1>1. OwesPooled' = OwesPooled /\ OwesFlying' = OwesFlying
  BY DEF OwesPooled, OwesFlying
<1> QED
  BY <1>1 DEF Counted, PooledCounted, FlyingCounted, Counters

(* No frame flies more than before, and nothing of the peak changes.       *)
LEMMA PeakStays ==
  ASSUME PoolInv, PoolInv', Counted,
         resets' = 0 => resets = 0 /\ resetting' = resetting,
         UNCHANGED lost \/ lost'["current_in_flight"] = lost["current_in_flight"],
         stats'["peak_in_flight"] = stats["peak_in_flight"],
         Flying' <= Flying, holder'.does = "peak" => UNCHANGED holder
  PROVE  PeakHolds'
<1>1. /\ Flying \in 0 .. MaxFrames /\ stats["peak_in_flight"] \in Int
      /\ holder.does = "peak" => holder.flight \in 0 .. CounterMod - 1
  BY SumsTyped, HolderTyped DEF PoolInv, PoolType, Counters
<1>2. Flying' \in 0 .. MaxFrames
  BY PlacedTyped DEF Flying
<1> QED
  BY <1>1, <1>2, PoolAssumption DEF Counted, PeakHolds

LEMMA AcquireHitsCounts ==
  ASSUME PoolInv, PoolInv', Counted, NEW k \in Keys, AcquireHits(k)
  PROVE  Counted'
<1> DEFINE f == Last(pools[k])
<1>1. f \in Frames /\ place[f] = "pooled"
  BY Popped DEF AcquireHits
<1>2. /\ holder.does = "none" /\ holder' = [does |-> "unpool", frame |-> f]
      /\ place' = [place EXCEPT ![f] = "taken"]
      /\ UNCHANGED <<stats, lost, resetting, resets>>
  BY UnlockedHolds DEF AcquireHits, resetVars
<1> HIDE DEF f
<1>3. Pooled' = Pooled - 1 /\ Flying' = Flying
  <2>1. place'[f] = "taken" /\ \A g \in Frames : g # f => place'[g] = place[g]
    BY <1>1, <1>2 DEF PoolInv, PoolType
  <2> QED
    BY <1>1, <2>1, Moves, SumsTyped
<1>4. OwesPooled = 0 /\ OwesPooled' = 1 /\ OwesFlying = 0 /\ OwesFlying' = 0
  BY <1>2 DEF OwesPooled, OwesFlying
<1>5. /\ Pooled' + OwesPooled' = Pooled + OwesPooled + 0
      /\ Flying' + OwesFlying' = Flying + OwesFlying + 0
  BY <1>3, <1>4, SumsTyped
<1>6. PooledCounted' /\ FlyingCounted'
  BY <1>2, <1>5, SumsStay, Tallies DEF Counters
<1>7. PeakHolds'
  BY <1>2, <1>3, PeakStays, SumsTyped
<1> QED
  BY <1>6, <1>7 DEF Counted

LEMMA AcquireMissesCounts ==
  ASSUME PoolInv, PoolInv', Counted, NEW k \in Keys, AcquireMisses(k)
  PROVE  Counted'
<1>1. PICK f \in Frames : /\ place[f] = "none"
                          /\ place' = [place EXCEPT ![f] = "taken"]
                          /\ holder' = [does |-> "fly", frame |-> f]
  BY DEF AcquireMisses
<1>2. holder.does = "none" /\ UNCHANGED <<stats, lost, resetting, resets>>
  BY UnlockedHolds DEF AcquireMisses, resetVars
<1>3. Pooled' = Pooled /\ Flying' = Flying
  <2>1. place'[f] = "taken" /\ \A g \in Frames : g # f => place'[g] = place[g]
    BY <1>1 DEF PoolInv, PoolType
  <2> QED
    BY <1>1, <2>1, Moves, SumsTyped
<1>4. OwesPooled = 0 /\ OwesPooled' = 0 /\ OwesFlying = 0 /\ OwesFlying' = 0
  BY <1>1, <1>2 DEF OwesPooled, OwesFlying
<1>5. /\ Pooled' + OwesPooled' = Pooled + OwesPooled + 0
      /\ Flying' + OwesFlying' = Flying + OwesFlying + 0
  BY <1>3, <1>4, SumsTyped
<1>6. PooledCounted' /\ FlyingCounted'
  BY <1>1, <1>2, <1>5, SumsStay, Tallies DEF Counters
<1>7. PeakHolds'
  BY <1>1, <1>2, <1>3, PeakStays, SumsTyped
<1> QED
  BY <1>6, <1>7 DEF Counted

(* The holder counts a frame that left its pool, or came to it.            *)
LEMMA PoolingCounts ==
  ASSUME PoolInv, PoolInv', Counted, AcquireUnpools \/ ReturnPools \/ TrimCounts
  PROVE  Counted'
<1>1. PICK n \in {-1, 1} : /\ Count("current_pooled", n) /\ OwesPooled + n = 0
                           /\ holder.does \notin {"clear", "peak"}
                           /\ holder'.does \notin {"clear", "peak"} /\ OwesPooled' = 0
                           /\ UNCHANGED place
  <2>1. CASE AcquireUnpools
    BY <2>1 DEF AcquireUnpools, OwesPooled, poolVars
  <2>2. CASE ReturnPools
    BY <2>2 DEF ReturnPools, OwesPooled, poolVars, Nobody
  <2>3. CASE TrimCounts
    <3>1. /\ holder.does = "trimmed" /\ holder' = [holder EXCEPT !.does = "trim"]
          /\ Count("current_pooled", -1) /\ UNCHANGED place
      BY <2>3 DEF TrimCounts, poolVars
    <3>2. holder'.does = "trim"
      BY <3>1, HolderTyped DEF PoolInv, PoolType
    <3> QED
      BY <3>1, <3>2 DEF OwesPooled
  <2> QED
    BY <2>1, <2>2, <2>3
<1>2. Pooled' = Pooled /\ Flying' = Flying /\ OwesFlying = 0 /\ OwesFlying' = 0
  BY <1>1 DEF Pooled, Flying, OwesFlying
<1>3. /\ Pooled' + OwesPooled' = Pooled + OwesPooled + n
      /\ Flying' + OwesFlying' = Flying + OwesFlying + 0
  BY <1>1, <1>2, SumsTyped
<1>4. ASSUME NEW x \in Int, Sum("current_pooled") = x % CounterMod
      PROVE  Sum("current_pooled")' = (x + n) % CounterMod
  BY <1>1, <1>4, CountSums DEF Counters
<1>5. ASSUME NEW x \in Int, Sum("current_in_flight") = x % CounterMod
      PROVE  Sum("current_in_flight")' = (x + 0) % CounterMod
  BY <1>1, <1>5, CountSums DEF Counters
<1>6. PooledCounted' /\ FlyingCounted'
  BY <1>1, <1>3, <1>4, <1>5, Tallies
<1>7. UNCHANGED <<lost, resetting, resets>> /\ stats'["peak_in_flight"] = stats["peak_in_flight"]
  BY <1>1 DEF Count, resetVars, PoolInv, PoolType, Counters
<1>8. PeakHolds'
  BY <1>1, <1>2, <1>7, PeakStays, SumsTyped
<1> QED
  BY <1>6, <1>8 DEF Counted

(* The frame it counts is not among those in flight yet, so that these are *)
(* fewer than MaxFrames.                                                   *)
LEMMA AcquireFliesCounts ==
  ASSUME PoolInv, PoolInv', Counted, AcquireFlies
  PROVE  Counted'
<1> DEFINE f == holder.frame
           s == stats["current_in_flight"]
<1>1. /\ Count("current_in_flight", 1) /\ holder.does = "fly"
      /\ holder'.does = "peak" /\ holder'.flight = stats'["current_in_flight"]
      /\ UNCHANGED place
  BY DEF AcquireFlies, poolVars
<1>2. /\ Pooled' = Pooled /\ Flying' = Flying
      /\ OwesFlying = 0 /\ OwesFlying' = 1 /\ OwesPooled = 0 /\ OwesPooled' = 0
  BY <1>1 DEF Pooled, Flying, OwesFlying, OwesPooled
<1>3. /\ Pooled' + OwesPooled' = Pooled + OwesPooled + 0
      /\ Flying' + OwesFlying' = Flying + OwesFlying + 1
  BY <1>2, SumsTyped
<1>4. ASSUME NEW x \in Int, Sum("current_pooled") = x % CounterMod
      PROVE  Sum("current_pooled")' = (x + 0) % CounterMod
  BY <1>1, <1>4, CountSums DEF Counters
<1>5. ASSUME NEW x \in Int, Sum("current_in_flight") = x % CounterMod
      PROVE  Sum("current_in_flight")' = (x + 1) % CounterMod
  BY <1>1, <1>5, CountSums DEF Counters
<1>6. PooledCounted' /\ FlyingCounted'
  BY <1>1, <1>3, <1>4, <1>5, Tallies
<1>7. /\ UNCHANGED <<lost, resetting, resets>>
      /\ stats'["peak_in_flight"] = stats["peak_in_flight"]
      /\ stats'["current_in_flight"] = (s + 1) % CounterMod
      /\ s \in 0 .. CounterMod - 1
  BY <1>1 DEF Count, Wrap, resetVars, PoolInv, PoolType, Counters
<1> HIDE DEF s
<1>8. ASSUME resets = 0
      PROVE  stats'["current_in_flight"] = Flying + 1
  <2>1. f \in Frames /\ place[f] = "taken"
    BY <1>1, HolderTyped DEF PoolInv, PoolType, Holding
  <2>2. Flying + 1 \in 0 .. MaxFrames
    <3> DEFINE next == [place EXCEPT ![f] = "out"]
    <3>1. /\ place \in [Frames -> Places] /\ next \in [Frames -> Places]
          /\ next[f] = "out" /\ \A g \in Frames : g # f => next[g] = place[g]
      BY <2>1 DEF PoolInv, PoolType, Places
    <3> HIDE DEF next, f
    <3>2. \A at : Placed(next, at) = Placed(place, at) - (IF place[f] \in at THEN 1 ELSE 0)
                                                       + (IF next[f] \in at THEN 1 ELSE 0)
      BY <2>1, <3>1, PlacedMoves
    <3>3. Placed(next, Outside) =
            Placed(place, Outside) - (IF place[f] \in Outside THEN 1 ELSE 0)
                                   + (IF next[f] \in Outside THEN 1 ELSE 0)
      BY <3>2
    <3>4. Placed(next, Outside) = Flying + 1
      BY <2>1, <3>1, <3>3, SumsTyped DEF Outside, Flying
    <3>5. Placed(next, Outside) \in 0 .. MaxFrames
      BY PlacedTyped
    <3> QED
      BY <3>4, <3>5
  <2>3. Flying \in 0 .. CounterMod - 1 /\ Flying + 1 \in 0 .. CounterMod - 1 /\ s + 0 = s
    BY <1>7, <2>2, SumsTyped, PoolAssumption
  <2>4. Sum("current_in_flight") = (s + 0) % CounterMod
    BY <1>8 DEF Counted, PeakHolds, Sum, s
  <2>5. Flying + OwesFlying = Flying
    BY <1>2, <2>3, PoolAssumption
  <2>6. s % CounterMod = Flying % CounterMod
    BY <2>3, <2>4, <2>5 DEF Counted, FlyingCounted
  <2>7. s = Flying
    BY <1>7, <2>3, <2>6, ModSmall
  <2> QED
    BY <1>7, <2>3, <2>7, ModSmall
<1>9. PeakHolds'
  BY <1>1, <1>2, <1>7, <1>8, SumsTyped DEF Counted, PeakHolds
<1> QED
  BY <1>6, <1>9 DEF Counted

LEMMA AcquireEndsCounts ==
  ASSUME PoolInv, PoolInv', Counted, AcquireEnds
  PROVE  Counted'
<1> DEFINE f == holder.frame
           peak == stats["peak_in_flight"]
<1>1. /\ f \in Frames /\ place[f] = "taken" /\ place' = [place EXCEPT ![f] = "out"]
      /\ holder.does = "peak" /\ holder' = Nobody /\ UNCHANGED <<lost, resetting, resets>>
      /\ stats' = [stats EXCEPT !["peak_in_flight"] = Max({peak, holder.flight})]
  BY HolderTyped DEF PoolInv, PoolType, AcquireEnds, Holding, resetVars
<1>2. /\ stats'["current_pooled"] = stats["current_pooled"]
      /\ stats'["current_in_flight"] = stats["current_in_flight"]
      /\ stats'["peak_in_flight"] = Max({peak, holder.flight})
      /\ holder.flight \in 0 .. CounterMod - 1 /\ peak \in 0 .. CounterMod - 1
  BY <1>1, HolderTyped DEF PoolInv, PoolType, Counters
<1> HIDE DEF f, peak
<1>3. Pooled' = Pooled /\ Flying' = Flying + 1
  <2>1. place'[f] = "out" /\ \A g \in Frames : g # f => place'[g] = place[g]
    BY <1>1 DEF PoolInv, PoolType
  <2> QED
    BY <1>1, <2>1, Moves, SumsTyped
<1>4. holder'.does = "none"
  BY <1>1 DEF Nobody
<1>5. OwesPooled = 0 /\ OwesPooled' = 0 /\ OwesFlying = 1 /\ OwesFlying' = 0
  BY <1>1, <1>4 DEF OwesPooled, OwesFlying
<1>6. /\ Pooled' + OwesPooled' = Pooled + OwesPooled
      /\ Flying' + OwesFlying' = Flying + OwesFlying
  BY <1>3, <1>5, SumsTyped
<1>7. /\ Sum("current_pooled")' = Sum("current_pooled")
      /\ Sum("current_in_flight")' = Sum("current_in_flight")
  BY <1>1, <1>2 DEF Sum
<1>8. PooledCounted' /\ FlyingCounted'
  BY <1>1, <1>4, <1>6, <1>7 DEF Counted, PooledCounted, FlyingCounted
<1>9. peak \in Int /\ holder.flight \in Int
  BY <1>2, PoolAssumption
<1>10. Max({peak, holder.flight}) >= holder.flight /\ Max({peak, holder.flight}) \in Int
  BY <1>9, MaxOfTwo
<1>11. resets = 0 => Max({peak, holder.flight}) >= Flying + 1
  BY <1>1, <1>9, <1>10, SumsTyped DEF Counted, PeakHolds
<1>12. PeakHolds'
  BY <1>1, <1>2, <1>3, <1>4, <1>11 DEF Counted, PeakHolds
<1> QED
  BY <1>8, <1>12 DEF Counted

(* Users fill and drop, whoever holds the mutex.                           *)
LEMMA FillDropCounts ==
  ASSUME PoolInv, PoolInv', Counted, NEW f \in Frames, Fill(f) \/ Drop(f)
  PROVE  Counted'
<1>1. /\ place[f] = "out" /\ place'[f] \in {"out", "returning"}
      /\ \A g \in Frames : g # f => place'[g] = place[g]
      /\ UNCHANGED <<holder, stats, lost, resetting, resets>>
  BY DEF Fill, Drop, PoolInv, PoolType, resetVars
<1>2. Pooled' = Pooled /\ Flying' = Flying
  BY <1>1, Moves, SumsTyped
<1>3. \A d \in Counters : Sum(d)' = Sum(d)
  BY <1>1 DEF Sum
<1>4. PooledCounted' /\ FlyingCounted'
  BY <1>1, <1>2, <1>3, OthersCount
<1>5. PeakHolds'
  BY <1>1, <1>2, PeakStays, SumsTyped
<1> QED
  BY <1>4, <1>5 DEF Counted

LEMMA ReturnLandsCounts ==
  ASSUME PoolInv, PoolInv', Counted, NEW f \in Frames, ReturnLands(f)
  PROVE  Counted'
<1>1. /\ place[f] = "returning" /\ place'[f] = "taken"
      /\ \A g \in Frames : g # f => place'[g] = place[g]
      /\ holder.does = "none" /\ holder'.does = "push"
      /\ Count("current_in_flight", -1)
  BY UnlockedHolds DEF ReturnLands, PoolInv, PoolType
<1>2. Pooled' = Pooled /\ Flying' = Flying - 1
  BY <1>1, Moves, SumsTyped
<1>3. OwesPooled = 0 /\ OwesPooled' = 0 /\ OwesFlying = 0 /\ OwesFlying' = 0
  BY <1>1 DEF OwesPooled, OwesFlying
<1>4. /\ Pooled' + OwesPooled' = Pooled + OwesPooled + 0
      /\ Flying' + OwesFlying' = Flying + OwesFlying + (-1)
  BY <1>2, <1>3, SumsTyped
<1>5. ASSUME NEW x \in Int, Sum("current_pooled") = x % CounterMod
      PROVE  Sum("current_pooled")' = (x + 0) % CounterMod
  BY <1>1, <1>5, CountSums DEF Counters
<1>6. ASSUME NEW x \in Int, Sum("current_in_flight") = x % CounterMod
      PROVE  Sum("current_in_flight")' = (x + (-1)) % CounterMod
  BY <1>1, <1>6, CountSums DEF Counters
<1>7. PooledCounted' /\ FlyingCounted'
  BY <1>1, <1>4, <1>5, <1>6, Tallies
<1>8. UNCHANGED <<lost, resetting, resets>> /\ stats'["peak_in_flight"] = stats["peak_in_flight"]
  BY <1>1 DEF Count, resetVars, PoolInv, PoolType, Counters
<1>9. PeakHolds'
  BY <1>1, <1>2, <1>8, PeakStays, SumsTyped
<1> QED
  BY <1>7, <1>9 DEF Counted

LEMMA ReturnPushesCounts ==
  ASSUME PoolInv, PoolInv', Counted, ReturnPushes
  PROVE  Counted'
<1> DEFINE f == holder.frame
<1>1. /\ f \in Frames /\ place[f] = "taken" /\ holder.does = "push"
      /\ UNCHANGED <<stats, lost, resetting, resets>>
  BY HolderTyped DEF PoolInv, PoolType, ReturnPushes, Holding, resetVars
<1>2. \/ place' = [place EXCEPT ![f] = "pooled"] /\ holder' = [does |-> "pool"]
      \/ place' = [place EXCEPT ![f] = "none"] /\ holder' = Nobody
  BY DEF ReturnPushes
<1> HIDE DEF f
<1>3. /\ \A g \in Frames : g # f => place'[g] = place[g]
      /\ \/ place'[f] = "pooled" /\ holder'.does = "pool"
         \/ place'[f] = "none" /\ holder'.does = "none"
  BY <1>1, <1>2 DEF PoolInv, PoolType, Nobody
<1>4. Pooled' = Pooled + (IF place'[f] = "pooled" THEN 1 ELSE 0) /\ Flying' = Flying
  BY <1>1, <1>3, Moves, SumsTyped
<1>5. /\ OwesPooled = 0 /\ OwesPooled' = IF place'[f] = "pooled" THEN -1 ELSE 0
      /\ OwesFlying = 0 /\ OwesFlying' = 0
  BY <1>1, <1>3 DEF OwesPooled, OwesFlying
<1>6. /\ Pooled' + OwesPooled' = Pooled + OwesPooled + 0
      /\ Flying' + OwesFlying' = Flying + OwesFlying + 0
  BY <1>4, <1>5, SumsTyped
<1>7. holder.does # "clear" /\ holder'.does # "clear" /\ holder'.does # "peak"
  BY <1>1, <1>3
<1>8. PooledCounted' /\ FlyingCounted'
  BY <1>1, <1>6, <1>7, SumsStay, Tallies DEF Counters
<1>9. PeakHolds'
  BY <1>1, <1>4, <1>7, PeakStays, SumsTyped
<1> QED
  BY <1>8, <1>9 DEF Counted

LEMMA ClearFreesCounts ==
  ASSUME PoolInv, PoolInv', Counted, ClearFrees
  PROVE  Counted'
<1>1. /\ place' = [f \in Frames |-> IF place[f] = "pooled" THEN "none" ELSE place[f]]
      /\ holder.does = "none" /\ holder' = [does |-> "clear"]
      /\ UNCHANGED <<stats, lost, resetting, resets>>
  BY UnlockedHolds DEF ClearFrees, resetVars
<1>2. {f \in Frames : place'[f] \in InPool} = {}
  BY <1>1 DEF InPool
<1>3. {f \in Frames : place'[f] \in Outside} = {f \in Frames : place[f] \in Outside}
  BY <1>1 DEF Outside
<1>4. Pooled' = 0
  BY <1>2, FS_EmptySet DEF Pooled, Placed
<1>5. Flying' = Flying
  BY <1>3 DEF Flying, Placed
<1>6. OwesFlying' = OwesFlying
  BY <1>1 DEF OwesFlying
<1>7. PooledCounted' /\ FlyingCounted'
  BY <1>1, <1>4, <1>5, <1>6 DEF Counted, PooledCounted, FlyingCounted, Sum
<1>8. PeakHolds'
  BY <1>1, <1>5, PeakStays, SumsTyped
<1> QED
  BY <1>7, <1>8 DEF Counted

LEMMA ClearCountsCounts ==
  ASSUME PoolInv, PoolInv', Counted, ClearCounts
  PROVE  Counted'
<1>1. /\ holder.does = "clear" /\ holder' = Nobody /\ UNCHANGED <<place, resetting, resets>>
      /\ stats' = [stats EXCEPT !["current_pooled"] = 0]
      /\ lost' = [lost EXCEPT !["current_pooled"] = 0]
  BY DEF ClearCounts, poolVars, resetVars
<1>2. /\ stats'["current_pooled"] = 0 /\ lost'["current_pooled"] = 0
      /\ \A c \in {"current_in_flight", "peak_in_flight"} :
            stats'[c] = stats[c] /\ lost'[c] = lost[c]
  BY <1>1 DEF PoolInv, PoolType, Counters
<1>3. Pooled' = Pooled /\ Flying' = Flying /\ Pooled = 0 /\ holder'.does = "none"
  BY <1>1 DEF Pooled, Flying, Counted, PooledCounted, Nobody
<1>4. OwesPooled' = 0 /\ OwesFlying' = 0 /\ OwesFlying = 0
  BY <1>1, <1>3 DEF OwesPooled, OwesFlying
<1>5. Pooled' + OwesPooled' = 0 /\ Flying' + OwesFlying' = Flying + OwesFlying
  BY <1>3, <1>4
<1>6. Sum("current_pooled")' = 0 % CounterMod
  BY <1>2 DEF Sum
<1>7. Sum("current_in_flight")' = Sum("current_in_flight")
  BY <1>2 DEF Sum
<1>8. PooledCounted' /\ FlyingCounted'
  BY <1>3, <1>5, <1>6, <1>7 DEF Counted, PooledCounted, FlyingCounted
<1>9. PeakHolds'
  BY <1>1, <1>2, <1>3, PeakStays, SumsTyped
<1> QED
  BY <1>8, <1>9 DEF Counted

LEMMA TrimFreesCounts ==
  ASSUME PoolInv, PoolInv', Counted, TrimFrees
  PROVE  Counted'
<1>1. PICK k \in Keys : /\ Len(pools[k]) > holder.target
                        /\ pools' = [pools EXCEPT ![k] = Front(@)]
                        /\ place' = [place EXCEPT ![Last(pools[k])] = "none"]
  BY DEF TrimFrees
<1> DEFINE f == Last(pools[k])
<1>2. /\ holder.does = "trim" /\ holder' = [holder EXCEPT !.does = "trimmed"]
      /\ UNCHANGED <<key, filled, stats, lost, resetting, resets>>
  BY DEF TrimFrees, resetVars
<1>3. holder'.does = "trimmed" /\ holder.target \in Nat
  BY <1>2, HolderTyped, PoolAssumption DEF PoolInv, PoolType
<1>4. pools[k] # <<>>
  BY <1>1, <1>3 DEF PoolInv, PoolType
<1>5. f \in Frames /\ place[f] = "pooled"
  BY <1>1, <1>2, <1>4, Popped
<1>6. place' = [place EXCEPT ![f] = "none"]
  BY <1>1
<1> HIDE DEF f
<1>7. place'[f] = "none" /\ \A g \in Frames : g # f => place'[g] = place[g]
  BY <1>5, <1>6 DEF PoolInv, PoolType
<1>8. Pooled' = Pooled - 1 /\ Flying' = Flying
  BY <1>5, <1>7, Moves, SumsTyped
<1>9. OwesPooled = 0 /\ OwesPooled' = 1 /\ OwesFlying = 0 /\ OwesFlying' = 0
  BY <1>2, <1>3 DEF OwesPooled, OwesFlying
<1>10. /\ Pooled' + OwesPooled' = Pooled + OwesPooled + 0
       /\ Flying' + OwesFlying' = Flying + OwesFlying + 0
  BY <1>8, <1>9, SumsTyped
<1>11. PooledCounted' /\ FlyingCounted'
  BY <1>2, <1>3, <1>10, SumsStay, Tallies DEF Counters
<1>12. PeakHolds'
  BY <1>2, <1>3, <1>8, PeakStays, SumsTyped
<1> QED
  BY <1>11, <1>12 DEF Counted

(* Nothing that is counted changes.                                        *)
LEMMA IdleCounts ==
  ASSUME PoolInv, PoolInv', Counted,
         \/ UNCHANGED vars
         \/ \E size \in Sizes : Trim(size) \/ SetMaxPoolSize(size)
         \/ TrimEnds
  PROVE  Counted'
<1>1. /\ UNCHANGED <<place, stats, lost, resetting, resets>>
      /\ \/ UNCHANGED holder
         \/ holder.does \in {"none", "trim"} /\ holder'.does \in {"none", "trim"}
  <2>1. CASE UNCHANGED vars
    BY <2>1 DEF vars, poolVars, resetVars
  <2>2. CASE \E size \in Sizes : Trim(size) \/ SetMaxPoolSize(size)
    BY <2>2, UnlockedHolds DEF Trim, SetMaxPoolSize, poolVars, resetVars
  <2>3. CASE TrimEnds
    BY <2>3 DEF TrimEnds, Nobody, poolVars, resetVars
  <2> QED
    BY <2>1, <2>2, <2>3
<1>2. Pooled' = Pooled /\ Flying' = Flying /\ \A d \in Counters : Sum(d)' = Sum(d)
  BY <1>1 DEF Pooled, Flying, Sum
<1>3. /\ OwesPooled' = OwesPooled /\ OwesFlying' = OwesFlying
      /\ holder'.does = "clear" <=> holder.does = "clear"
      /\ holder'.does = "peak" => UNCHANGED holder
  BY <1>1 DEF OwesPooled, OwesFlying
<1>4. PooledCounted' /\ FlyingCounted'
  BY <1>2, <1>3 DEF Counted, PooledCounted, FlyingCounted, Counters
<1>5. PeakHolds'
  BY <1>1, <1>2, <1>3, PeakStays, SumsTyped
<1> QED
  BY <1>4, <1>5 DEF Counted

LEMMA ResetCounts ==
  ASSUME PoolInv, PoolInv', Counted, ResetStats \/ ResetStores
  PROVE  Counted'
<1>1. UNCHANGED <<place, holder>>
  BY DEF ResetStats, ResetStores, poolVars
<1>2. Pooled' = Pooled /\ Flying' = Flying
  BY <1>1 DEF Pooled, Flying
<1>3. \A d \in Counters : Sum(d)' = Sum(d)
  <2>1. CASE ResetStats
    BY <2>1 DEF ResetStats, Sum
  <2>2. CASE ResetStores
    BY <2>2, ResetSums
  <2> QED
    BY <2>1, <2>2
<1>4. PooledCounted' /\ FlyingCounted'
  BY <1>1, <1>2, <1>3, OthersCount
<1>5. resets' # 0
  BY DEF ResetStats, ResetStores, Counted, PeakHolds, PoolInv, PoolType
<1> QED
  BY <1>4, <1>5 DEF Counted, PeakHolds

LEMMA InitCounts ==
  ASSUME Init
  PROVE  Counted
<1>1. {f \in Frames : place[f] \in InPool} = {} /\ {f \in Frames : place[f] \in Outside} = {}
  BY DEF Init, InPool, Outside
<1>2. Pooled = 0 /\ Flying = 0
  BY <1>1, FS_EmptySet DEF Pooled, Flying, Placed
<1>3. holder.does = "none"
  BY DEF Init, Nobody
<1>4. OwesPooled = 0 /\ OwesFlying = 0 /\ \A d \in Counters : Sum(d) = 0 % CounterMod
  BY <1>3 DEF Init, OwesPooled, OwesFlying, Sum
<1>5. Pooled + OwesPooled = 0 /\ Flying + OwesFlying = 0
  BY <1>2, <1>4
<1>6. PooledCounted /\ FlyingCounted
  BY <1>3, <1>4, <1>5 DEF PooledCounted, FlyingCounted, Counters
<1>7. PeakHolds
  BY <1>2, <1>3 DEF Init, PeakHolds, Counters
<1> QED
  BY <1>6, <1>7 DEF Counted

LEMMA PoolCounts ==
  ASSUME PoolInv, PoolInv', Counted, [Next]_vars
  PROVE  Counted'
<1>1. CASE UNCHANGED vars
  BY <1>1, IdleCounts
<1>2. CASE Acquire
  BY <1>2, AcquireHitsCounts, AcquireMissesCounts, PoolingCounts, AcquireFliesCounts,
     AcquireEndsCounts DEF Acquire
<1>3. CASE \E f \in Frames : Fill(f) \/ Drop(f)
  BY <1>3, FillDropCounts
<1>4. CASE Return
  BY <1>4, ReturnLandsCounts, ReturnPushesCounts, PoolingCounts DEF Return
<1>5. CASE Maintain
  BY <1>5, ClearFreesCounts, ClearCountsCounts, IdleCounts, TrimFreesCounts, PoolingCounts,
     ResetCounts DEF Maintain
<1> QED
  BY <1>1, <1>2, <1>3, <1>4, <1>5 DEF Next

LEMMA PoolCounted == Spec => [](PoolInv /\ Counted)
<1>1. Init => PoolInv /\ Counted
  BY InitPools, InitCounts
<1>2. PoolInv /\ Counted /\ [Next]_vars => PoolInv' /\ Counted'
  BY PoolKeeps, PoolCounts
<1> QED
  BY <1>1, <1>2, PTL DEF Spec

(* The frames in the pools are as many as the places they have there.      *)
LEMMA PlacesOfPooled ==
  ASSUME PoolInv
  PROVE  TotalPooled = Pooled
<1> DEFINE P == {f \in Frames : place[f] \in InPool}
           at == [p \in Positions |-> pools[p[1]][p[2]]]
<1>1. \A p \in Positions : /\ p[1] \in Keys /\ p[2] \in DOMAIN pools[p[1]]
                           /\ p = <<p[1], p[2]>>
  BY DEF Positions
<1>2. \A k \in Keys : \A i \in DOMAIN pools[k] : <<k, i>> \in Positions
  BY DEF Positions
<1>3. \A p \in Positions : pools[p[1]][p[2]] \in P
  BY <1>1 DEF PoolInv, PoolType, PooledFramesIdle, InPool
<1>4. ASSUME NEW p \in Positions, NEW q \in Positions,
             pools[p[1]][p[2]] = pools[q[1]][q[2]]
      PROVE  p = q
  <2>1. p[1] = q[1]
    BY <1>1, <1>4 DEF PoolInv, PooledFramesIdle
  <2>2. p[2] = q[2]
    BY <1>1, <1>4, <2>1 DEF PoolInv, PooledFramesIdle
  <2> QED
    BY <1>1, <2>1, <2>2
<1>5. ASSUME NEW f \in P
      PROVE  \E p \in Positions : pools[p[1]][p[2]] = f
  <2>1. PICK i \in DOMAIN pools[key[f]] : pools[key[f]][i] = f
    BY DEF PoolInv, PooledFramesIdle, InPool
  <2>2. key[f] \in Keys
    BY DEF PoolInv, PoolType
  <2> DEFINE p == <<key[f], i>>
  <2>3. p \in Positions /\ p[1] = key[f] /\ p[2] = i
    BY <1>2, <2>1, <2>2
  <2> QED
    BY <2>1, <2>3
<1>6. /\ at \in [Positions -> P] /\ \A p, q \in Positions : at[p] = at[q] => p = q
      /\ \A f \in P : \E p \in Positions : at[p] = f
  BY <1>3, <1>4, <1>5
<1>7. IsFiniteSet(P)
  BY PlacedTyped
<1> HIDE DEF P, at
<1>8. IsInjective(at)
  BY <1>6 DEF IsInjective
<1>9. at \in Injection(Positions, P) /\ at \in Surjection(Positions, P)
  BY <1>6, <1>8 DEF Injection, Surjection
<1>10. Cardinality(Positions) = Cardinality(P)
  BY <1>7, <1>9, FS_Injection
<1> QED
  BY <1>10 DEF P, TotalPooled, Pooled, Placed

(* When nobody holds the mutex the counters, with what resets took from    *)
(* them, are what is pooled and what is in flight, whatever the users of   *)
(* the pools did and however their updates interleaved; and until a reset  *)
(* the peak is no lower than what is in flight (the statistics of          *)
(* FramePoolStats and PacketPoolStats).                                    *)
THEOREM PoolStatsExact == Spec => []StatsExact
<1>1. PoolInv /\ Counted => StatsExact
  <2> SUFFICES ASSUME PoolInv, Counted, Unlocked
               PROVE  /\ Sum("current_pooled") = TotalPooled
                      /\ Sum("current_in_flight") = InFlight
                      /\ resets = 0 => stats["peak_in_flight"] >= InFlight
    BY DEF StatsExact, Sum
  <2>1. holder.does = "none"
    BY UnlockedHolds
  <2>2. Pooled + OwesPooled = Pooled /\ Flying + OwesFlying = Flying
    BY <2>1, SumsTyped DEF OwesPooled, OwesFlying
  <2>3. /\ Sum("current_pooled") = Pooled % CounterMod
        /\ Sum("current_in_flight") = Flying % CounterMod
    BY <2>1, <2>2 DEF Counted, PooledCounted, FlyingCounted
  <2>4. Pooled \in 0 .. CounterMod - 1 /\ Flying \in 0 .. CounterMod - 1
    BY SumsTyped, PoolAssumption
  <2>5. Sum("current_pooled") = Pooled /\ Sum("current_in_flight") = Flying
    BY <2>3, <2>4, ModSmall
  <2>6. InFlight = Flying
    BY DEF InFlight, Flying, Placed, Outside
  <2> QED
    BY <2>5, <2>6, PlacesOfPooled DEF Counted, PeakHolds
<1> QED
  BY <1>1, PoolCounted, PTL
=============================================================================
