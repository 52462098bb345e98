------------------------- MODULE MediaObjectsProofs -------------------------
(***************************************************************************)
(* What holds of VideoFrame and AudioData objects for every value of the   *)
(* constants: their types, the reference counts of their buffers, their    *)
(* orientation, and that they are independent of each other.  And of the   *)
(* data: that audio, pictures and timestamps of any size are copied and    *)
(* converted right.                                                        *)
(***************************************************************************)
EXTENDS MediaObjects, FiniteSetTheorems, SequenceTheorems, TLAPS

-----------------------------------------------------------------------------
(* Orientation.                                                            *)

LEMMA ShownTyped ==
  ASSUME NEW r \in Rotations, NEW f \in BOOLEAN, NEW c \in Corners
  PROVE  Shown(r, f, c) \in Corners
<1>1. DEFINE turned == (c + r \div 90) % 4
<1>2. turned \in Corners
  BY DEF Rotations, Corners
<1>3. (5 - turned) % 4 \in Corners
  BY <1>2 DEF Corners
<1> QED
  BY <1>2, <1>3 DEF Shown

LEMMA SumTyped ==
  ASSUME NEW r \in Rotations, NEW f \in BOOLEAN, NEW more \in Rotations
  PROVE  AddRotations(r, f, more) \in Rotations
  BY DEF AddRotations, Rotations

(* Rotations in quarter turns.                                             *)
Turns(r) == r \div 90

LEMMA TurnsAdd ==
  ASSUME NEW r \in Rotations, NEW f \in BOOLEAN, NEW more \in Rotations
  PROVE  /\ Turns(r) \in 0 .. 3
         /\ ~f => Turns(AddRotations(r, f, more)) = (Turns(r) + Turns(more)) % 4
         /\ f => Turns(AddRotations(r, f, more)) = (Turns(r) - Turns(more)) % 4
<1>1. CASE r = 0
  BY <1>1 DEF Turns, AddRotations, Rotations
<1>2. CASE r = 90
  BY <1>2 DEF Turns, AddRotations, Rotations
<1>3. CASE r = 180
  BY <1>3 DEF Turns, AddRotations, Rotations
<1>4. CASE r = 270
  BY <1>4 DEF Turns, AddRotations, Rotations
<1> QED
  BY <1>1, <1>2, <1>3, <1>4 DEF Rotations

Turned(c, quarters)   == (c + quarters) % 4
Mirrored(c, quarters) == (5 - Turned(c, quarters)) % 4

LEMMA ShownByTurns ==
  ASSUME NEW r, NEW c
  PROVE  /\ Shown(r, FALSE, c) = Turned(c, Turns(r))
         /\ Shown(r, TRUE, c) = Mirrored(c, Turns(r))
<1>1. Shown(r, FALSE, c) = Turned(c, Turns(r))
  BY Zenon DEF Shown, Turns, Turned
<1>2. Shown(r, TRUE, c) = Mirrored(c, Turns(r))
  BY Zenon DEF Shown, Turns, Turned, Mirrored
<1> QED
  BY <1>1, <1>2, Zenon

LEMMA CornersAdd ==
  ASSUME NEW c \in 0 .. 3, NEW q \in 0 .. 3, NEW m \in 0 .. 3
  PROVE  /\ Turned(Turned(c, q), m) = Turned(c, (q + m) % 4)
         /\ Mirrored(Turned(c, q), m) = Mirrored(c, (q + m) % 4)
         /\ Turned(Mirrored(c, q), m) = Mirrored(c, (q - m) % 4)
         /\ Mirrored(Mirrored(c, q), m) = Turned(c, (q - m) % 4)
  BY DEF Turned, Mirrored

(* Turning and mirroring what was turned and mirrored before.              *)
LEMMA ShownComposes ==
  ASSUME NEW r \in Rotations, NEW f \in BOOLEAN,
         NEW more \in Rotations, NEW flip \in BOOLEAN, NEW c \in Corners
  PROVE  Shown(more, flip, Shown(r, f, c))
           = Shown(AddRotations(r, f, more), AddFlips(f, flip), c)
<1> DEFINE q == Turns(r)
           m == Turns(more)
<1>1. q \in 0 .. 3 /\ m \in 0 .. 3
  BY TurnsAdd
<1>2. /\ Turned(Turned(c, q), m) = Turned(c, (q + m) % 4)
      /\ Mirrored(Turned(c, q), m) = Mirrored(c, (q + m) % 4)
      /\ Turned(Mirrored(c, q), m) = Mirrored(c, (q - m) % 4)
      /\ Mirrored(Mirrored(c, q), m) = Turned(c, (q - m) % 4)
  BY <1>1, CornersAdd DEF Corners
<1>3. CASE f = TRUE
  <2>1. Turns(AddRotations(r, f, more)) = (q - m) % 4
    BY <1>3, TurnsAdd
  <2>2. CASE flip = TRUE
    <3>1. AddFlips(f, flip) = FALSE
      BY <1>3, <2>2 DEF AddFlips
    <3>2. Shown(r, f, c) = Mirrored(c, q)
      BY <1>3, ShownByTurns, Zenon
    <3>3. Shown(more, flip, Mirrored(c, q)) = Mirrored(Mirrored(c, q), m)
      BY <2>2, ShownByTurns, Zenon
    <3>4. Shown(AddRotations(r, f, more), FALSE, c) = Turned(c, (q - m) % 4)
      BY <2>1, ShownByTurns, Zenon
    <3> QED
      BY <1>2, <3>1, <3>2, <3>3, <3>4, Zenon
  <2>3. CASE flip = FALSE
    <3>1. AddFlips(f, flip) = TRUE
      BY <1>3, <2>3 DEF AddFlips
    <3>2. Shown(r, f, c) = Mirrored(c, q)
      BY <1>3, ShownByTurns, Zenon
    <3>3. Shown(more, flip, Mirrored(c, q)) = Turned(Mirrored(c, q), m)
      BY <2>3, ShownByTurns, Zenon
    <3>4. Shown(AddRotations(r, f, more), TRUE, c) = Mirrored(c, (q - m) % 4)
      BY <2>1, ShownByTurns, Zenon
    <3> QED
      BY <1>2, <3>1, <3>2, <3>3, <3>4, Zenon
  <2> QED
    BY <2>2, <2>3
<1>4. CASE f = FALSE
  <2>1. Turns(AddRotations(r, f, more)) = (q + m) % 4
    BY <1>4, TurnsAdd
  <2>2. CASE flip = TRUE
    <3>1. AddFlips(f, flip) = TRUE
      BY <1>4, <2>2 DEF AddFlips
    <3>2. Shown(r, f, c) = Turned(c, q)
      BY <1>4, ShownByTurns, Zenon
    <3>3. Shown(more, flip, Turned(c, q)) = Mirrored(Turned(c, q), m)
      BY <2>2, ShownByTurns, Zenon
    <3>4. Shown(AddRotations(r, f, more), TRUE, c) = Mirrored(c, (q + m) % 4)
      BY <2>1, ShownByTurns, Zenon
    <3> QED
      BY <1>2, <3>1, <3>2, <3>3, <3>4, Zenon
  <2>3. CASE flip = FALSE
    <3>1. AddFlips(f, flip) = FALSE
      BY <1>4, <2>3 DEF AddFlips
    <3>2. Shown(r, f, c) = Turned(c, q)
      BY <1>4, ShownByTurns, Zenon
    <3>3. Shown(more, flip, Turned(c, q)) = Turned(Turned(c, q), m)
      BY <2>3, ShownByTurns, Zenon
    <3>4. Shown(AddRotations(r, f, more), FALSE, c) = Turned(c, (q + m) % 4)
      BY <2>1, ShownByTurns, Zenon
    <3> QED
      BY <1>2, <3>1, <3>2, <3>3, <3>4, Zenon
  <2> QED
    BY <2>2, <2>3
<1> QED
  BY <1>3, <1>4

-----------------------------------------------------------------------------
(* Objects.                                                                *)

LEMMA ObjectFields ==
  ASSUME NEW o \in Object
  PROVE  /\ o.kind \in Kinds /\ o.closed \in BOOLEAN /\ o.buffer \in Nat
         /\ o.timestamp \in Timestamps /\ o.rotation \in Rotations
         /\ o.flip \in BOOLEAN /\ o.aliases \in BOOLEAN
         /\ o.view \in [Corners -> Corners]
  BY DEF Object

LEMMA InitFields ==
  ASSUME NEW init \in Inits
  PROVE  /\ init.rotation \in Rotations /\ init.flip \in BOOLEAN
         /\ init.timestamp \in Timestamps \cup {Unchanged}
  BY InitsAssumption DEF VideoFrameInit

(* What VideoFrame(frame, init) makes of the source's slots.               *)
Derived(source, init) ==
  [source EXCEPT
     !.timestamp = IF init.timestamp = Unchanged THEN @ ELSE init.timestamp,
     !.rotation = AddRotations(source.rotation, source.flip, init.rotation),
     !.flip = AddFlips(source.flip, init.flip),
     !.view = [c \in Corners |-> Shown(init.rotation, init.flip, source.view[c])]]

LEMMA DerivedTyped ==
  ASSUME NEW source \in Object, NEW init \in Inits
  PROVE  /\ Derived(source, init) \in Object
         /\ Derived(source, init).buffer = source.buffer
         /\ Derived(source, init).closed = source.closed
<1> DEFINE time == IF init.timestamp = Unchanged THEN source.timestamp ELSE init.timestamp
           rotation == AddRotations(source.rotation, source.flip, init.rotation)
           flip == AddFlips(source.flip, init.flip)
           view == [c \in Corners |-> Shown(init.rotation, init.flip, source.view[c])]
<1>1. time \in Timestamps
  BY ObjectFields, InitFields
<1>2. rotation \in Rotations
  BY ObjectFields, InitFields, SumTyped
<1>3. flip \in BOOLEAN
  BY Zenon, ObjectFields, InitFields DEF AddFlips
<1>4. view \in [Corners -> Corners]
  <2>1. ASSUME NEW c \in Corners PROVE Shown(init.rotation, init.flip, source.view[c]) \in Corners
    <3>1. source.view[c] \in Corners
      BY ObjectFields
    <3> QED
      BY <3>1, InitFields, ShownTyped
  <2> QED
    BY <2>1
<1>5. Derived(source, init) = [source EXCEPT !.timestamp = time, !.rotation = rotation,
                                             !.flip = flip, !.view = view]
  BY DEF Derived
<1> HIDE DEF time, rotation, flip, view
<1>6. [source EXCEPT !.timestamp = time, !.rotation = rotation, !.flip = flip, !.view = view]
        \in Object
  BY <1>1, <1>2, <1>3, <1>4 DEF Object
<1> QED
  BY <1>5, <1>6 DEF Object

(* close(): one object's flag is raised, all else stays.                   *)
LEMMA ClosingTyped ==
  ASSUME NEW os \in Seq(Object), NEW h \in DOMAIN os
  PROVE  LET closed == [os EXCEPT ![h].closed = TRUE] IN
         /\ closed \in Seq(Object) /\ Len(closed) = Len(os) /\ DOMAIN closed = DOMAIN os
         /\ closed[h].closed = TRUE
         /\ \A k \in DOMAIN os : /\ closed[k].buffer = os[k].buffer
                                 /\ Attributes(closed[k]) = Attributes(os[k])
                                 /\ closed[k].rotation = os[k].rotation
                                 /\ closed[k].flip = os[k].flip
                                 /\ closed[k].view = os[k].view
         /\ \A k \in DOMAIN os : k # h => closed[k] = os[k]
<1> DEFINE new == [os[h] EXCEPT !.closed = TRUE]
           closed == [os EXCEPT ![h].closed = TRUE]
<1>1. os[h] \in Object
  OBVIOUS
<1>2. /\ new \in Object /\ new.closed = TRUE /\ new.buffer = os[h].buffer
      /\ new.rotation = os[h].rotation /\ new.flip = os[h].flip /\ new.view = os[h].view
  BY <1>1 DEF Object
<1>3. Attributes(new) = Attributes(os[h])
  BY <1>1 DEF Object, Attributes
<1>4. closed = [os EXCEPT ![h] = new]
  OBVIOUS
<1> HIDE DEF new
<1>5. closed \in Seq(Object) /\ Len(closed) = Len(os) /\ DOMAIN closed = DOMAIN os
  <2>1. h \in 1 .. Len(os)
    OBVIOUS
  <2>2. [os EXCEPT ![h] = new] \in Seq(Object) /\ Len([os EXCEPT ![h] = new]) = Len(os)
    BY <1>2, <2>1, ExceptSeq, Zenon
  <2> QED
    BY <1>4, <2>2
<1>6. closed[h] = new /\ \A k \in DOMAIN os : k # h => closed[k] = os[k]
  BY <1>4
<1> QED
  BY <1>2, <1>3, <1>5, <1>6

LEMMA AppendObject ==
  ASSUME NEW os \in Seq(Object), NEW o \in Object
  PROVE  /\ Append(os, o) \in Seq(Object) /\ Len(Append(os, o)) = Len(os) + 1
         /\ DOMAIN Append(os, o) = DOMAIN os \cup {Len(os) + 1}
         /\ Len(os) + 1 \notin DOMAIN os
         /\ Append(os, o)[Len(os) + 1] = o
         /\ \A k \in DOMAIN os : Append(os, o)[k] = os[k]
  OBVIOUS

-----------------------------------------------------------------------------
(* The open objects that use a buffer, in any sequence of objects.         *)

UsersIn(os, b) == {h \in DOMAIN os : ~os[h].closed /\ os[h].buffer = b}

LEMMA UsersFinite ==
  ASSUME NEW os \in Seq(Object), NEW b
  PROVE  IsFiniteSet(UsersIn(os, b)) /\ Cardinality(UsersIn(os, b)) \in Nat
<1>1. IsFiniteSet(1 .. Len(os))
  BY FS_Interval
<1>2. UsersIn(os, b) \subseteq 1 .. Len(os)
  BY DEF UsersIn
<1> QED
  BY <1>1, <1>2, FS_Subset, FS_CardinalityType

LEMMA UsersAppend ==
  ASSUME NEW os \in Seq(Object), NEW o \in Object, NEW b
  PROVE  Cardinality(UsersIn(Append(os, o), b))
           = IF ~o.closed /\ o.buffer = b THEN Cardinality(UsersIn(os, b)) + 1
                                          ELSE Cardinality(UsersIn(os, b))
<1>1. IsFiniteSet(UsersIn(os, b))
  BY UsersFinite
<1>2. Len(os) + 1 \notin UsersIn(os, b)
  BY AppendObject DEF UsersIn
<1>3. CASE ~o.closed /\ o.buffer = b
  <2>1. UsersIn(Append(os, o), b) = UsersIn(os, b) \cup {Len(os) + 1}
    BY <1>3, AppendObject DEF UsersIn
  <2> QED
    BY <1>1, <1>2, <1>3, <2>1, FS_AddElement
<1>4. CASE ~(~o.closed /\ o.buffer = b)
  <2>1. UsersIn(Append(os, o), b) = UsersIn(os, b)
    BY <1>4, AppendObject DEF UsersIn
  <2> QED
    BY <1>4, <2>1
<1> QED
  BY <1>3, <1>4

LEMMA UsersClose ==
  ASSUME NEW os \in Seq(Object), NEW h \in DOMAIN os, NEW b
  PROVE  Cardinality(UsersIn([os EXCEPT ![h].closed = TRUE], b))
           = IF h \in UsersIn(os, b) THEN Cardinality(UsersIn(os, b)) - 1
                                     ELSE Cardinality(UsersIn(os, b))
<1> DEFINE closed == [os EXCEPT ![h].closed = TRUE]
<1>1. UsersIn(closed, b) = UsersIn(os, b) \ {h}
  <2>1. /\ DOMAIN closed = DOMAIN os /\ closed[h].closed = TRUE
        /\ \A k \in DOMAIN os : k # h => closed[k] = os[k]
    BY ClosingTyped
  <2> QED
    BY <2>1, Zenon DEF UsersIn
<1>2. IsFiniteSet(UsersIn(os, b))
  BY UsersFinite
<1>3. CASE h \in UsersIn(os, b)
  BY <1>1, <1>2, <1>3, FS_RemoveElement
<1>4. CASE h \notin UsersIn(os, b)
  <2>1. UsersIn(os, b) \ {h} = UsersIn(os, b)
    BY <1>4
  <2> QED
    BY <1>1, <1>4, <2>1
<1> QED
  BY <1>3, <1>4

-----------------------------------------------------------------------------
(* One lemma per action: types and reference counts.                       *)

LEMMA UsersAre ==
  /\ \A b : Users(b) = UsersIn(objects, b)
  /\ (\A b : Users(b) = UsersIn(objects, b))'
  BY Zenon DEF Users, UsersIn, Existing

(* Another object for a buffer that is in use.                             *)
LEMMA SharedBuffer ==
  ASSUME TypeOK, RefsExact, NEW o \in Object, Len(objects) < MaxObjects,
         o.closed = FALSE, o.buffer \in DOMAIN buffers,
         objects' = Append(objects, o), AddReference(o.buffer),
         UNCHANGED <<held, array>>
  PROVE  TypeOK' /\ RefsExact'
<1> DEFINE s == o.buffer
<1>1. /\ objects' \in Seq(Object) /\ Len(objects') = Len(objects) + 1
      /\ \A h \in DOMAIN objects' : h \in DOMAIN objects \/ objects'[h] = o
      /\ \A h \in DOMAIN objects : objects'[h] = objects[h]
  BY AppendObject DEF TypeOK
<1>2. buffers[s] \in Nat /\ buffers \in Seq(Nat) /\ s \in 1 .. Len(buffers)
  BY DEF TypeOK
<1>3. /\ buffers' \in Seq(Nat) /\ Len(buffers') = Len(buffers)
      /\ DOMAIN buffers' = DOMAIN buffers
      /\ buffers'[s] = buffers[s] + 1
      /\ \A b \in DOMAIN buffers : b # s => buffers'[b] = buffers[b]
  BY <1>2, ExceptSeq DEF AddReference
<1>4. TypeOK'
  <2>1. objects' \in Seq(Object) /\ Len(objects') <= MaxObjects
    BY <1>1, ObjectsAssumption DEF TypeOK
  <2>2. buffers' \in Seq(Nat) /\ held' \in Seq(Nat) /\ Len(held') = Len(buffers')
    BY <1>3 DEF TypeOK
  <2>3. \A h \in DOMAIN objects' : objects'[h].buffer \in DOMAIN buffers'
    BY <1>1, <1>3 DEF TypeOK, Existing
  <2> QED
    BY <2>1, <2>2, <2>3 DEF TypeOK, Existing
<1>5. ASSUME NEW b \in DOMAIN buffers'
      PROVE  buffers'[b] = Cardinality(UsersIn(objects', b)) + held'[b]
  <2>1. buffers[b] = Cardinality(UsersIn(objects, b)) + held[b]
    BY <1>3, <1>5, UsersAre DEF RefsExact
  <2>2. Cardinality(UsersIn(objects', b))
          = IF o.buffer = b THEN Cardinality(UsersIn(objects, b)) + 1
                            ELSE Cardinality(UsersIn(objects, b))
    BY UsersAppend DEF TypeOK
  <2>3. Cardinality(UsersIn(objects, b)) \in Nat /\ held[b] \in Nat
    BY <1>3, <1>5, UsersFinite DEF TypeOK
  <2> QED
    BY <1>3, <1>5, <2>1, <2>2, <2>3
<1> QED
  BY <1>4, <1>5, UsersAre DEF RefsExact

(* An object with a buffer of its own.                                     *)
LEMMA FreshBuffer ==
  ASSUME TypeOK, RefsExact, NEW o \in Object, Len(objects) < MaxObjects,
         o.closed = FALSE, o.buffer = Len(buffers) + 1, NEW codecs \in Nat,
         objects' = Append(objects, o), NewBuffer(codecs), UNCHANGED array
  PROVE  TypeOK' /\ RefsExact'
<1> DEFINE s == Len(buffers) + 1
<1>1. /\ objects' \in Seq(Object) /\ Len(objects') = Len(objects) + 1
      /\ \A h \in DOMAIN objects' : h \in DOMAIN objects \/ objects'[h] = o
      /\ \A h \in DOMAIN objects : objects'[h] = objects[h]
  BY AppendObject DEF TypeOK
<1>2. /\ buffers' \in Seq(Nat) /\ Len(buffers') = s
      /\ DOMAIN buffers' = DOMAIN buffers \cup {s} /\ s \notin DOMAIN buffers
      /\ buffers'[s] = 1 + codecs
      /\ \A b \in DOMAIN buffers : buffers'[b] = buffers[b]
  BY DEF NewBuffer, TypeOK
<1>3. /\ held' \in Seq(Nat) /\ Len(held') = s
      /\ held'[s] = codecs
      /\ \A b \in DOMAIN buffers : held'[b] = held[b]
  BY DEF NewBuffer, TypeOK
<1>4. TypeOK'
  <2>1. objects' \in Seq(Object) /\ Len(objects') <= MaxObjects
    BY <1>1, ObjectsAssumption DEF TypeOK
  <2>2. buffers' \in Seq(Nat) /\ held' \in Seq(Nat) /\ Len(held') = Len(buffers')
    BY <1>2, <1>3
  <2>3. \A h \in DOMAIN objects' : objects'[h].buffer \in DOMAIN buffers'
    BY <1>1, <1>2 DEF TypeOK, Existing
  <2> QED
    BY <2>1, <2>2, <2>3 DEF TypeOK, Existing
<1>5. ASSUME NEW b \in DOMAIN buffers'
      PROVE  buffers'[b] = Cardinality(UsersIn(objects', b)) + held'[b]
  <2>1. Cardinality(UsersIn(objects', b))
          = IF o.buffer = b THEN Cardinality(UsersIn(objects, b)) + 1
                            ELSE Cardinality(UsersIn(objects, b))
    BY UsersAppend DEF TypeOK
  <2>2. CASE b = s
    <3>1. UsersIn(objects, s) = {}
      BY <1>2 DEF UsersIn, TypeOK, Existing
    <3>2. Cardinality(UsersIn(objects, s)) = 0
      BY <3>1, FS_EmptySet
    <3> QED
      BY <1>2, <1>3, <2>1, <2>2, <3>2
  <2>3. CASE b \in DOMAIN buffers
    <3>1. buffers[b] = Cardinality(UsersIn(objects, b)) + held[b]
      BY <2>3, UsersAre DEF RefsExact
    <3>2. o.buffer # b
      BY <1>2, <2>3
    <3> QED
      BY <1>2, <1>3, <2>1, <2>3, <3>1, <3>2
  <2> QED
    BY <1>2, <1>5, <2>2, <2>3
<1> QED
  BY <1>4, <1>5, UsersAre DEF RefsExact

LEMMA FromArrayKeeps ==
  ASSUME TypeOK, RefsExact, NEW kind \in Kinds, NEW init \in Inits,
         NEW aliases \in BOOLEAN, FromArray(kind, init, aliases)
  PROVE  TypeOK' /\ RefsExact'
<1> DEFINE o == [kind |-> kind, closed |-> FALSE, buffer |-> Len(buffers) + 1,
                 timestamp |-> init.timestamp, rotation |-> init.rotation,
                 flip |-> init.flip, aliases |-> aliases,
                 view |-> [c \in Corners |-> Shown(init.rotation, init.flip, c)]]
<1>1. [c \in Corners |-> Shown(init.rotation, init.flip, c)] \in [Corners -> Corners]
  BY InitFields, ShownTyped
<1>2. Len(buffers) + 1 \in Nat /\ init.timestamp \in Timestamps
  BY InitFields DEF TypeOK, FromArray
<1>3. o \in Object
  BY <1>1, <1>2, InitFields DEF Object
<1>4. /\ Len(objects) < MaxObjects /\ objects' = Append(objects, o)
      /\ NewBuffer(0) /\ UNCHANGED array
  BY DEF FromArray, NewObject
<1>5. o.closed = FALSE /\ o.buffer = Len(buffers) + 1
  OBVIOUS
<1> HIDE DEF o
<1> QED
  BY <1>3, <1>4, <1>5, FreshBuffer

LEMMA CreateFromAVFrameKeeps ==
  ASSUME TypeOK, RefsExact, NEW kind \in Kinds, NEW codecs \in 0 .. MaxHeld,
         CreateFromAVFrame(kind, codecs)
  PROVE  TypeOK' /\ RefsExact'
<1> DEFINE o == [kind |-> kind, closed |-> FALSE, buffer |-> Len(buffers) + 1,
                 timestamp |-> 0, rotation |-> 0, flip |-> FALSE, aliases |-> FALSE,
                 view |-> [c \in Corners |-> c]]
<1>1. o \in Object
  <2>1. Len(buffers) + 1 \in Nat /\ 0 \in Timestamps /\ 0 \in Rotations
    BY DEF TypeOK, Timestamps, Rotations
  <2>2. [c \in Corners |-> c] \in [Corners -> Corners]
    OBVIOUS
  <2> QED
    BY <2>1, <2>2 DEF Object
<1>2. /\ Len(objects) < MaxObjects /\ objects' = Append(objects, o)
      /\ NewBuffer(codecs) /\ UNCHANGED array
  BY DEF CreateFromAVFrame, NewObject
<1>3. o.closed = FALSE /\ o.buffer = Len(buffers) + 1
  OBVIOUS
<1>4. codecs \in Nat
  BY ObjectsAssumption
<1> HIDE DEF o
<1> QED
  BY <1>1, <1>2, <1>3, <1>4, FreshBuffer

LEMMA OpenObject ==
  ASSUME TypeOK, NEW h, Open(h)
  PROVE  /\ h \in DOMAIN objects /\ objects[h] \in Object /\ objects[h].closed = FALSE
         /\ objects[h].buffer \in DOMAIN buffers
<1>1. h \in DOMAIN objects /\ ~objects[h].closed
  BY DEF Open, Existing
<1>2. objects[h] \in Object /\ objects[h].buffer \in DOMAIN buffers
  BY <1>1 DEF TypeOK, Existing
<1>3. objects[h].closed = FALSE
  BY <1>1, <1>2, ObjectFields, Zenon
<1> QED
  BY <1>1, <1>2, <1>3

LEMMA FromFrameKeeps ==
  ASSUME TypeOK, RefsExact, NEW h \in Existing, NEW init \in Inits,
         VideoFrameFromFrame(h, init)
  PROVE  TypeOK' /\ RefsExact'
<1> DEFINE o == Derived(objects[h], init)
<1>1. /\ Open(h) /\ Len(objects) < MaxObjects /\ objects' = Append(objects, o)
      /\ AddReference(objects[h].buffer) /\ UNCHANGED <<held, array>>
  BY Zenon DEF VideoFrameFromFrame, NewObject, Derived
<1>2. objects[h] \in Object /\ objects[h].closed = FALSE
  BY <1>1, OpenObject, Zenon
<1>3. o \in Object /\ o.buffer = objects[h].buffer /\ o.closed = FALSE
  BY <1>2, DerivedTyped, Zenon
<1> HIDE DEF o
<1> QED
  BY <1>1, <1>3, OpenObject, SharedBuffer

LEMMA CloneKeeps ==
  ASSUME TypeOK, RefsExact, NEW h \in Existing, Clone(h)
  PROVE  TypeOK' /\ RefsExact'
<1>1. /\ Open(h) /\ Len(objects) < MaxObjects /\ objects' = Append(objects, objects[h])
      /\ AddReference(objects[h].buffer) /\ UNCHANGED <<held, array>>
  BY DEF Clone, NewObject
<1> QED
  BY <1>1, OpenObject, SharedBuffer

LEMMA TransferKeeps ==
  ASSUME TypeOK, RefsExact, NEW h \in Existing, Transfer(h)
  PROVE  TypeOK' /\ RefsExact'
<1> DEFINE o == objects[h]
           os == Append(objects, o)
<1>1. /\ Open(h) /\ Len(objects) < MaxObjects
      /\ objects' = [os EXCEPT ![h].closed = TRUE]
      /\ UNCHANGED <<buffers, held, array>>
  BY DEF Transfer
<1>2. /\ h \in DOMAIN objects /\ o \in Object /\ o.closed = FALSE
      /\ o.buffer \in DOMAIN buffers /\ objects \in Seq(Object)
  BY <1>1, OpenObject DEF TypeOK
<1>3. /\ os \in Seq(Object) /\ Len(os) = Len(objects) + 1
      /\ h \in DOMAIN os /\ os[h] = o
      /\ \A k \in DOMAIN os : os[k].buffer \in DOMAIN buffers
  BY <1>2, AppendObject DEF TypeOK, Existing
<1> HIDE DEF os
<1>4. /\ objects' \in Seq(Object) /\ Len(objects') = Len(objects) + 1
      /\ \A k \in DOMAIN objects' : objects'[k].buffer \in DOMAIN buffers
  BY <1>1, <1>3, ClosingTyped
<1>5. TypeOK'
  BY <1>1, <1>4, ObjectsAssumption DEF TypeOK, Existing
<1>6. ASSUME NEW b \in DOMAIN buffers
      PROVE  Cardinality(UsersIn(objects', b)) = Cardinality(UsersIn(objects, b))
  <2>1. Cardinality(UsersIn(os, b))
          = IF o.buffer = b THEN Cardinality(UsersIn(objects, b)) + 1
                            ELSE Cardinality(UsersIn(objects, b))
    BY <1>2, UsersAppend DEF os
  <2>2. Cardinality(UsersIn(objects', b))
          = IF h \in UsersIn(os, b) THEN Cardinality(UsersIn(os, b)) - 1
                                    ELSE Cardinality(UsersIn(os, b))
    BY <1>1, <1>3, UsersClose
  <2>3. h \in UsersIn(os, b) <=> o.buffer = b
    BY <1>2, <1>3, Zenon DEF UsersIn
  <2>4. Cardinality(UsersIn(objects, b)) \in Nat
    BY <1>2, UsersFinite
  <2> QED
    BY <2>1, <2>2, <2>3, <2>4
<1> QED
  BY <1>1, <1>5, <1>6, UsersAre DEF RefsExact

LEMMA CloseKeeps ==
  ASSUME TypeOK, RefsExact, NEW h \in Existing, Close(h)
  PROVE  TypeOK' /\ RefsExact'
<1> DEFINE s == objects[h].buffer
<1>1. /\ objects \in Seq(Object) /\ h \in DOMAIN objects /\ s \in 1 .. Len(buffers)
      /\ buffers \in Seq(Nat) /\ held \in Seq(Nat) /\ Len(held) = Len(buffers)
  BY DEF TypeOK, Existing
<1>2. objects' = [objects EXCEPT ![h].closed = TRUE] /\ UNCHANGED <<held, array>>
  BY DEF Close, Release
<1>3. /\ objects' \in Seq(Object) /\ Len(objects') = Len(objects)
      /\ \A k \in DOMAIN objects' : objects'[k].buffer \in DOMAIN buffers
  BY <1>1, <1>2, ClosingTyped DEF TypeOK, Existing
<1>4. ASSUME NEW b
      PROVE  Cardinality(UsersIn(objects', b))
               = IF h \in UsersIn(objects, b) THEN Cardinality(UsersIn(objects, b)) - 1
                                              ELSE Cardinality(UsersIn(objects, b))
  BY <1>1, <1>2, UsersClose
<1>5. ASSUME NEW b \in DOMAIN buffers
      PROVE  /\ Cardinality(UsersIn(objects, b)) \in Nat
             /\ Cardinality(UsersIn(objects', b)) \in Nat
             /\ buffers[b] = Cardinality(UsersIn(objects, b)) + held[b]
             /\ buffers[b] \in Nat /\ held[b] \in Nat
  BY <1>1, <1>3, UsersFinite, UsersAre DEF RefsExact
<1>6. CASE objects[h].closed
  <2>1. buffers' = buffers
    BY <1>6 DEF Close, Release
  <2>2. \A b : h \notin UsersIn(objects, b)
    BY <1>6, Zenon DEF UsersIn
  <2>3. TypeOK'
    BY <1>1, <1>2, <1>3, <2>1 DEF TypeOK, Existing
  <2> QED
    BY <1>2, <1>4, <1>5, <2>1, <2>2, <2>3, UsersAre DEF RefsExact
<1>7. CASE ~objects[h].closed
  <2>1. buffers' = [buffers EXCEPT ![s] = @ - 1]
    BY <1>7 DEF Close, Release
  <2>2. \A b : h \in UsersIn(objects, b) <=> b = s
    BY <1>1, <1>7, Zenon DEF UsersIn
  <2>3. buffers[s] - 1 \in Nat
    <3>1. Cardinality(UsersIn(objects', s)) = Cardinality(UsersIn(objects, s)) - 1
      BY <1>4, <2>2
    <3>2. /\ Cardinality(UsersIn(objects, s)) \in Nat
          /\ Cardinality(UsersIn(objects', s)) \in Nat
          /\ buffers[s] = Cardinality(UsersIn(objects, s)) + held[s]
          /\ held[s] \in Nat
      BY <1>1, <1>5
    <3> QED
      BY <3>1, <3>2
  <2>4. /\ buffers' \in Seq(Nat) /\ Len(buffers') = Len(buffers)
        /\ DOMAIN buffers' = DOMAIN buffers
        /\ buffers'[s] = buffers[s] - 1
        /\ \A b \in DOMAIN buffers : b # s => buffers'[b] = buffers[b]
    BY <1>1, <2>1, <2>3, ExceptSeq
  <2>5. TypeOK'
    BY <1>1, <1>2, <1>3, <2>4 DEF TypeOK, Existing
  <2>6. ASSUME NEW b \in DOMAIN buffers
        PROVE  buffers'[b] = Cardinality(UsersIn(objects', b)) + held[b]
    <3>1. CASE b = s
      <4>1. Cardinality(UsersIn(objects', b)) = Cardinality(UsersIn(objects, b)) - 1
        BY <1>4, <2>2, <3>1
      <4>2. buffers'[b] = buffers[b] - 1
        BY <2>4, <3>1
      <4> QED
        BY <1>5, <4>1, <4>2
    <3>2. CASE b # s
      <4>1. Cardinality(UsersIn(objects', b)) = Cardinality(UsersIn(objects, b))
        BY <1>4, <2>2, <3>2
      <4>2. buffers'[b] = buffers[b]
        BY <2>4, <3>2
      <4> QED
        BY <1>5, <4>1, <4>2
    <3> QED
      BY <3>1, <3>2
  <2> QED
    BY <1>2, <2>4, <2>5, <2>6, UsersAre DEF RefsExact
<1> QED
  BY <1>6, <1>7

LEMMA EncodeKeeps ==
  ASSUME TypeOK, RefsExact, NEW h \in Existing, Encode(h)
  PROVE  TypeOK' /\ RefsExact'
<1> DEFINE s == objects[h].buffer
<1>1. /\ s \in 1 .. Len(buffers) /\ s \in 1 .. Len(held)
      /\ buffers \in Seq(Nat) /\ held \in Seq(Nat) /\ Len(held) = Len(buffers)
  BY DEF TypeOK, Existing
<1>2. /\ buffers' = [buffers EXCEPT ![s] = @ + 1] /\ held' = [held EXCEPT ![s] = @ + 1]
      /\ UNCHANGED <<objects, array>>
  BY DEF Encode, AddReference
<1>3. /\ buffers' \in Seq(Nat) /\ Len(buffers') = Len(buffers)
      /\ \A b \in DOMAIN buffers : buffers'[b] = IF b = s THEN buffers[b] + 1 ELSE buffers[b]
  BY <1>1, <1>2, ExceptSeq
<1>4. /\ held' \in Seq(Nat) /\ Len(held') = Len(held)
      /\ \A b \in DOMAIN buffers : held'[b] = IF b = s THEN held[b] + 1 ELSE held[b]
  BY <1>1, <1>2, ExceptSeq
<1>5. DOMAIN buffers' = DOMAIN buffers
  BY <1>1, <1>3
<1>6. TypeOK'
  BY <1>2, <1>3, <1>4, <1>5 DEF TypeOK, Existing
<1>7. ASSUME NEW b \in DOMAIN buffers
      PROVE  buffers'[b] = Cardinality(UsersIn(objects, b)) + held'[b]
  <2>1. /\ buffers[b] = Cardinality(UsersIn(objects, b)) + held[b]
        /\ Cardinality(UsersIn(objects, b)) \in Nat /\ held[b] \in Nat
    BY <1>1, UsersFinite, UsersAre DEF RefsExact, TypeOK
  <2>2. CASE b = s
    <3>1. buffers'[b] = buffers[b] + 1 /\ held'[b] = held[b] + 1
      BY <1>3, <1>4, <2>2
    <3> QED
      BY <2>1, <3>1
  <2>3. CASE b # s
    <3>1. buffers'[b] = buffers[b] /\ held'[b] = held[b]
      BY <1>3, <1>4, <2>3
    <3> QED
      BY <2>1, <3>1
  <2> QED
    BY <2>2, <2>3
<1> QED
  BY <1>2, <1>5, <1>6, <1>7, UsersAre DEF RefsExact

LEMMA CodecReleasesKeeps ==
  ASSUME TypeOK, RefsExact, NEW s \in DOMAIN buffers, CodecReleases(s)
  PROVE  TypeOK' /\ RefsExact'
<1>1. /\ s \in 1 .. Len(buffers) /\ s \in 1 .. Len(held)
      /\ buffers \in Seq(Nat) /\ held \in Seq(Nat) /\ Len(held) = Len(buffers)
  BY DEF TypeOK
<1>2. /\ buffers' = [buffers EXCEPT ![s] = @ - 1] /\ held' = [held EXCEPT ![s] = @ - 1]
      /\ held[s] > 0 /\ UNCHANGED <<objects, array>>
  BY DEF CodecReleases
<1>3. ASSUME NEW b \in DOMAIN buffers
      PROVE  /\ buffers[b] = Cardinality(UsersIn(objects, b)) + held[b]
             /\ Cardinality(UsersIn(objects, b)) \in Nat /\ held[b] \in Nat
  BY <1>1, UsersFinite, UsersAre DEF RefsExact, TypeOK
<1>4. buffers[s] - 1 \in Nat /\ held[s] - 1 \in Nat
  BY <1>2, <1>3
<1>5. /\ buffers' \in Seq(Nat) /\ Len(buffers') = Len(buffers)
      /\ \A b \in DOMAIN buffers : buffers'[b] = IF b = s THEN buffers[b] - 1 ELSE buffers[b]
  BY <1>1, <1>2, <1>4, ExceptSeq
<1>6. /\ held' \in Seq(Nat) /\ Len(held') = Len(held)
      /\ \A b \in DOMAIN buffers : held'[b] = IF b = s THEN held[b] - 1 ELSE held[b]
  BY <1>1, <1>2, <1>4, ExceptSeq
<1>7. DOMAIN buffers' = DOMAIN buffers
  BY <1>1, <1>5
<1>8. TypeOK'
  BY <1>2, <1>5, <1>6, <1>7 DEF TypeOK, Existing
<1>9. ASSUME NEW b \in DOMAIN buffers
      PROVE  buffers'[b] = Cardinality(UsersIn(objects, b)) + held'[b]
  <2>1. CASE b = s
    <3>1. buffers'[b] = buffers[b] - 1 /\ held'[b] = held[b] - 1
      BY <1>5, <1>6, <2>1
    <3> QED
      BY <1>3, <3>1
  <2>2. CASE b # s
    <3>1. buffers'[b] = buffers[b] /\ held'[b] = held[b]
      BY <1>5, <1>6, <2>2
    <3> QED
      BY <1>3, <3>1
  <2> QED
    BY <2>1, <2>2
<1> QED
  BY <1>2, <1>7, <1>8, <1>9, UsersAre DEF RefsExact

-----------------------------------------------------------------------------

LEMMA InitKeeps ==
  ASSUME Init
  PROVE  TypeOK /\ RefsExact
  BY ObjectsAssumption DEF Init, TypeOK, RefsExact, Existing

LEMMA StepKeeps ==
  ASSUME TypeOK, RefsExact, [Next]_vars
  PROVE  TypeOK' /\ RefsExact'
<1>1. CASE Construct
  <2>1. ASSUME NEW init \in Inits, VideoFrameFromData(init) \/ VideoFrameFromLayout(init)
        PROVE  TypeOK' /\ RefsExact'
    BY <2>1, FromArrayKeeps DEF VideoFrameFromData, VideoFrameFromLayout, Kinds
  <2>2. ASSUME NEW init \in Inits, AudioDataFromData(init)
        PROVE  TypeOK' /\ RefsExact'
    BY <2>2, FromArrayKeeps DEF AudioDataFromData, Kinds
  <2>3. ASSUME NEW h \in Existing, NEW init \in Inits, VideoFrameFromFrame(h, init)
        PROVE  TypeOK' /\ RefsExact'
    BY <2>3, FromFrameKeeps
  <2>4. ASSUME NEW kind \in Kinds, NEW codecs \in 0 .. MaxHeld, CreateFromAVFrame(kind, codecs)
        PROVE  TypeOK' /\ RefsExact'
    BY <2>4, CreateFromAVFrameKeeps
  <2> QED
    BY <1>1, <2>1, <2>2, <2>3, <2>4 DEF Construct
<1>2. ASSUME NEW h \in Existing, Clone(h) \/ Transfer(h) \/ Close(h) \/ Encode(h)
      PROVE  TypeOK' /\ RefsExact'
  BY <1>2, CloneKeeps, TransferKeeps, CloseKeeps, EncodeKeeps
<1>3. ASSUME NEW b \in DOMAIN buffers, CodecReleases(b)
      PROVE  TypeOK' /\ RefsExact'
  BY <1>3, CodecReleasesKeeps
<1>4. CASE ArrayWrite
  BY <1>4 DEF ArrayWrite, TypeOK, RefsExact, Users, Existing
<1>5. CASE UNCHANGED vars
  BY <1>5 DEF vars, TypeOK, RefsExact, Users, Existing
<1> QED
  BY <1>1, <1>2, <1>3, <1>4, <1>5 DEF Next

(* All variables keep their types, for any number of objects.              *)
THEOREM MediaTypeCorrect == Spec => []TypeOK
<1>1. Init => TypeOK /\ RefsExact
  BY InitKeeps
<1>2. TypeOK /\ RefsExact /\ [Next]_vars => (TypeOK /\ RefsExact)'
  BY StepKeeps
<1> QED
  BY <1>1, <1>2, PTL DEF Spec

(* A buffer has a reference for each object and each codec that uses it,   *)
(* and no other.                                                           *)
THEOREM MediaRefsExact == Spec => []RefsExact
<1>1. Init => TypeOK /\ RefsExact
  BY InitKeeps
<1>2. TypeOK /\ RefsExact /\ [Next]_vars => (TypeOK /\ RefsExact)'
  BY StepKeeps
<1> QED
  BY <1>1, <1>2, PTL DEF Spec

-----------------------------------------------------------------------------
(* What a step does to the sequence of objects.                            *)

Oriented(o) == o.view = [c \in Corners |-> Shown(o.rotation, o.flip, c)]

Adds(o)   == objects' = Append(objects, o)
Closes(h) == objects' = [objects EXCEPT ![h].closed = TRUE]
Moves(h)  == objects' = [Append(objects, objects[h]) EXCEPT ![h].closed = TRUE]

LEMMA FromArrayAdds ==
  ASSUME TypeOK, NEW kind \in Kinds, NEW init \in Inits, NEW aliases \in BOOLEAN,
         FromArray(kind, init, aliases)
  PROVE  \E o \in Object : Adds(o) /\ Oriented(o)
<1> DEFINE o == [kind |-> kind, closed |-> FALSE, buffer |-> Len(buffers) + 1,
                 timestamp |-> init.timestamp, rotation |-> init.rotation,
                 flip |-> init.flip, aliases |-> aliases,
                 view |-> [c \in Corners |-> Shown(init.rotation, init.flip, c)]]
<1>1. [c \in Corners |-> Shown(init.rotation, init.flip, c)] \in [Corners -> Corners]
  BY InitFields, ShownTyped
<1>2. Len(buffers) + 1 \in Nat /\ init.timestamp \in Timestamps
  BY InitFields DEF TypeOK, FromArray
<1>3. o \in Object
  BY <1>1, <1>2, InitFields DEF Object
<1>4. Adds(o) /\ Oriented(o)
  BY Zenon DEF FromArray, NewObject, Adds, Oriented
<1> HIDE DEF o
<1> QED
  BY <1>3, <1>4

LEMMA FromFrameAdds ==
  ASSUME TypeOK, OrientationComposes, NEW h \in Existing, NEW init \in Inits,
         VideoFrameFromFrame(h, init)
  PROVE  \E o \in Object : Adds(o) /\ Oriented(o)
<1> DEFINE source == objects[h]
           o == Derived(source, init)
           rotation == AddRotations(source.rotation, source.flip, init.rotation)
           flip == AddFlips(source.flip, init.flip)
<1>1. source \in Object
  BY DEF TypeOK, Existing
<1>2. Adds(o)
  BY Zenon DEF VideoFrameFromFrame, NewObject, Derived, Adds
<1>3. /\ o.rotation = rotation /\ o.flip = flip
      /\ o.view = [c \in Corners |-> Shown(init.rotation, init.flip, source.view[c])]
  BY <1>1 DEF Derived, Object
<1>4. ASSUME NEW c \in Corners
      PROVE  Shown(init.rotation, init.flip, source.view[c]) = Shown(rotation, flip, c)
  <2>1. source.view[c] = Shown(source.rotation, source.flip, c)
    BY DEF OrientationComposes
  <2> QED
    BY <1>1, <2>1, ObjectFields, InitFields, ShownComposes
<1> HIDE DEF o, rotation, flip
<1>5. [c \in Corners |-> Shown(init.rotation, init.flip, source.view[c])]
        = [c \in Corners |-> Shown(rotation, flip, c)]
  BY <1>4, Zenon
<1>6. Oriented(o)
  BY <1>3, <1>5, Zenon DEF Oriented
<1>7. o \in Object
  BY <1>1, DerivedTyped DEF o
<1> QED
  BY <1>2, <1>6, <1>7

LEMMA CreateFromAVFrameAdds ==
  ASSUME TypeOK, NEW kind \in Kinds, NEW codecs \in 0 .. MaxHeld,
         CreateFromAVFrame(kind, codecs)
  PROVE  \E o \in Object : Adds(o) /\ Oriented(o)
<1> DEFINE o == [kind |-> kind, closed |-> FALSE, buffer |-> Len(buffers) + 1,
                 timestamp |-> 0, rotation |-> 0, flip |-> FALSE, aliases |-> FALSE,
                 view |-> [c \in Corners |-> c]]
<1>1. Len(buffers) + 1 \in Nat /\ 0 \in Timestamps /\ 0 \in Rotations
  BY DEF TypeOK, Timestamps, Rotations
<1>2. o \in Object
  BY <1>1 DEF Object
<1>3. Adds(o)
  BY DEF CreateFromAVFrame, NewObject, Adds
<1>4. ASSUME NEW c \in Corners PROVE Shown(0, FALSE, c) = c
  <2>1. Shown(0, FALSE, c) = Turned(c, Turns(0))
    BY ShownByTurns
  <2>2. Turned(c, Turns(0)) = c
    BY DEF Turned, Turns, Corners
  <2> QED
    BY <2>1, <2>2
<1>5. [c \in Corners |-> c] = [c \in Corners |-> Shown(0, FALSE, c)]
  BY <1>4, Zenon
<1>6. Oriented(o)
  BY <1>5, Zenon DEF Oriented
<1> HIDE DEF o
<1> QED
  BY <1>2, <1>3, <1>6

LEMMA ObjectSteps ==
  ASSUME TypeOK, OrientationComposes, [Next]_vars
  PROVE  \/ UNCHANGED objects
         \/ \E o \in Object : Adds(o) /\ Oriented(o)
         \/ \E h \in Existing : Closes(h) \/ Moves(h)
<1>1. CASE Construct
  <2>1. ASSUME NEW init \in Inits, VideoFrameFromData(init) \/ VideoFrameFromLayout(init)
        PROVE  \E o \in Object : Adds(o) /\ Oriented(o)
    BY <2>1, FromArrayAdds DEF VideoFrameFromData, VideoFrameFromLayout, Kinds
  <2>2. ASSUME NEW init \in Inits, AudioDataFromData(init)
        PROVE  \E o \in Object : Adds(o) /\ Oriented(o)
    BY <2>2, FromArrayAdds DEF AudioDataFromData, Kinds
  <2> QED
    BY <1>1, <2>1, <2>2, FromFrameAdds, CreateFromAVFrameAdds DEF Construct
<1>2. ASSUME NEW h \in Existing, Clone(h)
      PROVE  \E o \in Object : Adds(o) /\ Oriented(o)
  <2>1. objects[h] \in Object /\ Oriented(objects[h])
    BY DEF TypeOK, Existing, OrientationComposes, Oriented
  <2> QED
    BY <1>2, <2>1 DEF Clone, NewObject, Adds
<1>3. ASSUME NEW h \in Existing, Transfer(h) \/ Close(h) \/ Encode(h)
      PROVE  Closes(h) \/ Moves(h) \/ UNCHANGED objects
  BY <1>3 DEF Transfer, Close, Release, Encode, Closes, Moves
<1>4. ASSUME NEW b \in DOMAIN buffers, CodecReleases(b)
      PROVE  UNCHANGED objects
  BY <1>4 DEF CodecReleases
<1>5. CASE ArrayWrite \/ UNCHANGED vars
  BY <1>5 DEF ArrayWrite, vars
<1> QED
  BY <1>1, <1>2, <1>3, <1>4, <1>5 DEF Next

(* What a step does to the objects there are, and what it adds to them.    *)
LEMMA ObjectsKept ==
  ASSUME TypeOK, OrientationComposes, [Next]_vars
  PROVE  /\ \A h \in Existing : Attributes(objects'[h]) = Attributes(objects[h])
         /\ OrientationComposes'
<1>1. objects \in Seq(Object)
  BY DEF TypeOK
<1>2. \A h \in DOMAIN objects : Oriented(objects[h])
  BY DEF OrientationComposes, Oriented, Existing
<1> DEFINE Kept == /\ \A h \in DOMAIN objects : Attributes(objects'[h]) = Attributes(objects[h])
                   /\ \A h \in DOMAIN objects' : Oriented(objects'[h])
<1>3. CASE UNCHANGED objects
  <2>1. Kept
    BY <1>2, <1>3
  <2> QED
    BY <2>1 DEF Existing, OrientationComposes, Oriented
<1>4. ASSUME NEW o \in Object, Adds(o), Oriented(o)
      PROVE  Kept
  BY <1>1, <1>2, <1>4, AppendObject DEF Adds
<1>5. ASSUME NEW h \in Existing, Closes(h)
      PROVE  Kept
  <2>1. h \in DOMAIN objects
    BY DEF Existing
  <2>2. /\ DOMAIN objects' = DOMAIN objects
        /\ \A k \in DOMAIN objects : /\ Attributes(objects'[k]) = Attributes(objects[k])
                                     /\ objects'[k].rotation = objects[k].rotation
                                     /\ objects'[k].flip = objects[k].flip
                                     /\ objects'[k].view = objects[k].view
    BY <1>1, <1>5, <2>1, ClosingTyped DEF Closes
  <2> QED
    BY <1>2, <2>2, Zenon DEF Oriented
<1>6. ASSUME NEW h \in Existing, Moves(h)
      PROVE  Kept
  <2> DEFINE os == Append(objects, objects[h])
  <2>1. h \in DOMAIN objects /\ objects[h] \in Object
    BY <1>1 DEF Existing
  <2>2. /\ os \in Seq(Object) /\ h \in DOMAIN os
        /\ DOMAIN os = DOMAIN objects \cup {Len(objects) + 1}
        /\ os[Len(objects) + 1] = objects[h]
        /\ \A k \in DOMAIN objects : os[k] = objects[k]
    BY <1>1, <2>1, AppendObject
  <2>3. \A k \in DOMAIN os : Oriented(os[k])
    BY <1>2, <2>1, <2>2, Zenon
  <2>4. objects' = [os EXCEPT ![h].closed = TRUE]
    BY <1>6 DEF Moves
  <2> HIDE DEF os
  <2>5. /\ DOMAIN objects' = DOMAIN os
        /\ \A k \in DOMAIN os : /\ Attributes(objects'[k]) = Attributes(os[k])
                                /\ objects'[k].rotation = os[k].rotation
                                /\ objects'[k].flip = os[k].flip
                                /\ objects'[k].view = os[k].view
    BY <2>2, <2>4, ClosingTyped
  <2>6. \A k \in DOMAIN objects' : Oriented(objects'[k])
    BY <2>3, <2>5, Zenon DEF Oriented
  <2>7. \A k \in DOMAIN objects : Attributes(objects'[k]) = Attributes(objects[k])
    BY <2>2, <2>5
  <2> QED
    BY <2>6, <2>7
<1>7. Kept
  BY <1>2, <1>3, <1>4, <1>5, <1>6, ObjectSteps
<1> QED
  BY <1>7 DEF Existing, OrientationComposes, Oriented

(* A frame's rotation and flip show its picture as the transformations it  *)
(* went through do.                                                        *)
THEOREM MediaOrientationComposes == Spec => []OrientationComposes
<1>1. Init => OrientationComposes
  BY DEF Init, OrientationComposes, Existing
<1>2. TypeOK /\ OrientationComposes /\ [Next]_vars => OrientationComposes'
  BY ObjectsKept
<1> QED
  BY <1>1, <1>2, MediaTypeCorrect, PTL DEF Spec

(* No step changes the attributes of an object there is.                   *)
THEOREM MediaObjectsIndependent == Spec => ObjectsIndependent
<1>1. TypeOK /\ OrientationComposes /\ [Next]_vars
        => [\A h \in Existing : Attributes(objects'[h]) = Attributes(objects[h])]_vars
  BY ObjectsKept
<1> QED
  BY <1>1, MediaTypeCorrect, MediaOrientationComposes, PTL DEF Spec, ObjectsIndependent

-----------------------------------------------------------------------------
(* Quotients and remainders.                                               *)

LEMMA QuotientRemainder ==
  ASSUME NEW m \in Nat \ {0}, NEW q \in Int, NEW r \in 0 .. m - 1
  PROVE  (q * m + r) % m = r /\ (q * m + r) \div m = q
  BY SMT

LEMMA Divides ==
  ASSUME NEW m \in Nat \ {0}, NEW k \in Int
  PROVE  \E q \in Int, r \in 0 .. m - 1 : q = k \div m /\ r = k % m /\ k = q * m + r
<1>1. m \in Nat /\ m > 0
  OBVIOUS
<1>2. k \div m \in Int /\ k % m \in 0 .. m - 1
  BY <1>1
<1>3. k = m * (k \div m) + (k % m)
  BY <1>1
<1>4. PICK q \in Int, r \in 0 .. m - 1 : q = k \div m /\ r = k % m
  BY <1>2
<1>5. k = m * q + r
  BY <1>3, <1>4
<1>6. k = q * m + r
  BY <1>5
<1> QED
  BY <1>4, <1>6

LEMMA Multiples ==
  ASSUME NEW m \in Nat, NEW a \in Int, NEW b \in Int, a <= b
  PROVE  a * m \in Int /\ b * m \in Int /\ a * m <= b * m
<1>1. (b - a) * m >= 0
  BY SMT
<1>2. (b - a) * m = b * m - a * m
  BY SMT
<1> QED
  BY <1>1, <1>2

(* The k-th of n rows of m.                                                *)
LEMMA RowOf ==
  ASSUME NEW m \in Nat \ {0}, NEW n \in Nat, NEW k \in 0 .. n * m - 1
  PROVE  \E q \in 0 .. n - 1, r \in 0 .. m - 1 : q = k \div m /\ r = k % m /\ k = q * m + r
<1>1. PICK q \in Int, r \in 0 .. m - 1 : q = k \div m /\ r = k % m /\ k = q * m + r
  BY Divides
<1> DEFINE all == n * m
           before == q * m
<1>2. all \in Int /\ before \in Int /\ k >= 0 /\ k < all /\ k = before + r
  BY <1>1
<1>3. n <= q => all <= before
  BY Multiples
<1>4. q <= -1 => before <= -m
  <2>1. (-1) * m = -m
    OBVIOUS
  <2> QED
    BY <2>1, Multiples
<1>5. ~(n <= q) /\ ~(q <= -1)
  <2> HIDE DEF all, before
  <2> QED
    BY <1>2, <1>3, <1>4
<1>6. q \in 0 .. n - 1
  BY <1>5
<1> QED
  BY <1>1, <1>6

(* A place in the q-th of n rows of m.                                     *)
LEMMA InRows ==
  ASSUME NEW m \in Nat \ {0}, NEW n \in Nat, NEW q \in 0 .. n - 1, NEW r \in 0 .. m - 1
  PROVE  /\ q * m + r \in 0 .. n * m - 1
         /\ (q * m + r) % m = r /\ (q * m + r) \div m = q
<1>1. (q + 1) * m <= n * m /\ 0 * m <= q * m /\ n * m \in Int /\ q * m \in Int
  BY Multiples
<1>2. (q + 1) * m = q * m + m /\ 0 * m = 0
  OBVIOUS
<1> QED
  BY <1>1, <1>2, QuotientRemainder

-----------------------------------------------------------------------------
(* Audio.                                                                  *)

(* Where a sample of the AudioData is in its planes.                       *)
LEMMA SamplesPlaced ==
  ASSUME NEW audio \in Audio, NEW c \in 0 .. audio.channels - 1, NEW f \in 0 .. audio.frames - 1
  PROVE  IF audio.planar
         THEN f \in DOMAIN Planes(audio)[c] /\ Planes(audio)[c][f] = <<c, f>>
         ELSE /\ f * audio.channels + c \in DOMAIN Planes(audio)[0]
              /\ Planes(audio)[0][f * audio.channels + c] = <<c, f>>
<1> DEFINE n == audio.channels
           m == audio.frames
<1>1. /\ n \in Nat \ {0} /\ m \in Nat \ {0} /\ audio.planar \in BOOLEAN
      /\ c \in 0 .. n - 1 /\ f \in 0 .. m - 1
  BY DEF Audio
<1>2. CASE audio.planar
  <2>1. f \in DOMAIN Planes(audio)[c] /\ Planes(audio)[c][f] = SampleAt(audio, c * m + f)
    BY <1>1, <1>2 DEF Planes
  <2>2. (c * m + f) % m = f /\ (c * m + f) \div m = c
    <3> HIDE DEF n, m
    <3> QED
      BY <1>1, InRows
  <2> QED
    BY <1>2, <2>1, <2>2 DEF SampleAt
<1>3. CASE ~audio.planar
  <2>1. /\ f * n + c \in 0 .. m * n - 1
        /\ (f * n + c) % n = c /\ (f * n + c) \div n = f
    <3> HIDE DEF n, m
    <3> QED
      BY <1>1, InRows
  <2>2. /\ f * n + c \in DOMAIN Planes(audio)[0]
        /\ Planes(audio)[0][f * n + c] = SampleAt(audio, f * n + c)
    BY <1>3, <2>1 DEF Planes
  <2> QED
    BY <1>3, <2>1, <2>2 DEF SampleAt
<1> QED
  BY <1>2, <1>3

(* What copyTo() reads of a channel.                                       *)
LEMMA InputPlaced ==
  ASSUME NEW audio \in Audio, NEW options \in AudioDataCopyToOptions,
         NEW c \in 0 .. audio.channels - 1, NEW f \in Nat,
         options.offset >= 0, options.offset + f < audio.frames
  PROVE  Input(audio, options, c, f) = <<c, options.offset + f>>
<1> DEFINE n == audio.channels
           o == options.offset
<1>1. n \in Nat \ {0} /\ audio.frames \in Nat /\ o \in Nat /\ audio.planar \in BOOLEAN
  BY DEF Audio, AudioDataCopyToOptions
<1>2. o + f \in 0 .. audio.frames - 1 /\ ~(c < 0)
  BY <1>1
<1>3. (o + f) * n + c = o * n + f * n + c
  <2> HIDE DEF n, o
  <2> QED
    BY <1>1
<1>4. IF audio.planar
      THEN o + f \in DOMAIN Planes(audio)[c] /\ Planes(audio)[c][o + f] = <<c, o + f>>
      ELSE /\ (o + f) * n + c \in DOMAIN Planes(audio)[0]
           /\ Planes(audio)[0][(o + f) * n + c] = <<c, o + f>>
  BY <1>2, SamplesPlaced
<1> QED
  BY <1>1, <1>2, <1>3, <1>4 DEF Input, FirstSample, Sample

(* The first frame asked for of a channel that is not there, or before the *)
(* first one of the audio.                                                 *)
LEMMA InputOutside ==
  ASSUME NEW audio \in Audio, NEW options \in AudioDataCopyToOptions,
         NEW c \in Int, c < audio.channels, c < 0 \/ options.offset < 0
  PROVE  Input(audio, options, c, 0) = NoSample
<1> DEFINE n == audio.channels
           o == options.offset
<1>1. n \in Nat \ {0} /\ o \in Int /\ audio.planar \in BOOLEAN
  BY DEF Audio, AudioDataCopyToOptions
<1>2. CASE c < 0
  BY <1>2 DEF Input
<1>3. CASE ~(c < 0) /\ o < 0
  <2>1. o * n + 0 * n + c < 0
    <3>1. o * n <= (-1) * n /\ o * n \in Int
      <4> HIDE DEF n, o
      <4> QED
        BY <1>1, <1>3, Multiples
    <3>2. (-1) * n = -n /\ 0 * n = 0
      BY <1>1
    <3> HIDE DEF o
    <3> QED
      BY <1>1, <3>1, <3>2
  <2>2. IF audio.planar THEN o + 0 \notin DOMAIN Planes(audio)[c]
        ELSE o * n + 0 * n + c \notin DOMAIN Planes(audio)[0]
    <3>1. CASE audio.planar
      <4>1. c \in 0 .. n - 1 /\ o + 0 \notin 0 .. audio.frames - 1
        BY <1>1, <1>3
      <4> QED
        BY <3>1, <4>1 DEF Planes
    <3>2. CASE ~audio.planar
      <4>1. o * n + 0 * n + c \notin 0 .. audio.frames * n - 1
        <5> DEFINE i == o * n + 0 * n + c
                   j == audio.frames * n - 1
        <5>1. i < 0 => i \notin 0 .. j
          <6> HIDE DEF i, j
          <6> QED
            OBVIOUS
        <5> QED
          BY <2>1, <5>1
      <4> QED
        BY <3>2, <4>1 DEF Planes
    <3> QED
      BY <3>1, <3>2
  <2> QED
    BY <1>1, <1>3, <2>2 DEF Input, FirstSample, Sample
<1> QED
  BY <1>1, <1>2, <1>3

(* copyTo() writes the samples that were asked for, wherever the           *)
(* constructor laid them out, if they are inside the audio.                *)
LEMMA CopyInside ==
  ASSUME NEW audio \in Audio, NEW options \in AudioDataCopyToOptions,
         options.same => options.planar = audio.planar,
         ~CopyRefused(audio, options), AsksInside(options)
  PROVE  Copied(audio, options) = Slice(audio, options)
<1> DEFINE n == CopyFrameCount(audio, options)
           m == audio.channels
           o == options.offset
<1>1. /\ m \in Nat \ {0} /\ audio.frames \in Nat \ {0} /\ o \in Nat /\ options.plane \in Int
      /\ audio.planar \in BOOLEAN /\ options.planar \in BOOLEAN /\ options.same \in BOOLEAN
      /\ options.rest \in BOOLEAN /\ options.count \in Int
  BY DEF Audio, AudioDataCopyToOptions, AsksInside
<1>2. /\ n \in Int /\ o + n <= audio.frames
      /\ options.planar => options.plane \in 0 .. m - 1
  BY <1>1 DEF CopyRefused, CopyFrameCount, AsksInside
<1>3. CASE options.planar
  <2>1. ElementCount(audio, options) = n
    BY <1>2, <1>3 DEF ElementCount
  <2>2. \A k \in 0 .. n - 1 : Input(audio, options, options.plane, k) = <<options.plane, o + k>>
    BY <1>1, <1>2, <1>3, InputPlaced
  <2> QED
    BY <1>3, <2>1, <2>2 DEF Copied, Slice
<1>4. CASE ~options.planar
  <2>1. ElementCount(audio, options) = n * m
    BY <1>4 DEF ElementCount
  <2>2. ASSUME NEW k \in 0 .. n * m - 1
        PROVE  /\ Input(audio, options, k % m, k \div m) = <<k % m, o + k \div m>>
               /\ options.same => Sample(audio, 0, FirstSample(audio, options) + k)
                                    = <<k % m, o + k \div m>>
    <3>1. PICK q \in 0 .. n - 1, r \in 0 .. m - 1 : q = k \div m /\ r = k % m /\ k = q * m + r
      <4>1. n \in Nat /\ m \in Nat \ {0}
        <5>1. n < 0 => n * m <= (-1) * m
          <6> HIDE DEF n, m
          <6> QED
            BY <1>1, <1>2, Multiples
        <5>2. (-1) * m = -m /\ n * m > 0 /\ n * m \in Int
          BY <1>1, <1>2
        <5> HIDE DEF n, m
        <5> QED
          BY <1>1, <1>2, <5>1, <5>2
      <4> HIDE DEF n, m
      <4> QED
        BY <4>1, RowOf
    <3>2. q \in Nat /\ o + q < audio.frames /\ o + q \in 0 .. audio.frames - 1
      <4> HIDE DEF n, m, o
      <4> QED
        BY <1>1, <1>2, <3>1
    <3>3. Input(audio, options, r, q) = <<r, o + q>>
      <4>1. options.offset >= 0 /\ r \in 0 .. audio.channels - 1
        BY <3>1 DEF AsksInside
      <4> QED
        BY <3>2, <4>1, InputPlaced
    <3>4. ASSUME options.same
          PROVE  Sample(audio, 0, FirstSample(audio, options) + k) = <<r, o + q>>
      <4>1. ~audio.planar /\ FirstSample(audio, options) = o * m
        BY <1>4, <3>4 DEF FirstSample
      <4>2. /\ (o + q) * m + r \in DOMAIN Planes(audio)[0]
            /\ Planes(audio)[0][(o + q) * m + r] = <<r, o + q>>
        BY <3>1, <3>2, <4>1, SamplesPlaced
      <4>3. (o + q) * m + r = o * m + k
        <5> HIDE DEF n, m, o
        <5> QED
          BY <1>1, <3>1, <3>2
      <4> QED
        BY <4>1, <4>2, <4>3 DEF Sample
    <3> QED
      BY <3>1, <3>3, <3>4
  <2>3. Copied(audio, options) = [k \in 0 .. n * m - 1 |-> <<k % m, o + k \div m>>]
    BY <1>4, <2>2 DEF Copied
  <2> QED
    BY <1>4, <2>1, <2>3 DEF Slice
<1> QED
  BY <1>1, <1>3, <1>4

(* With nothing to copy, nothing is written.                               *)
LEMMA CopyOfNothing ==
  ASSUME NEW audio \in Audio, NEW options \in AudioDataCopyToOptions,
         CopyFrameCount(audio, options) <= 0
  PROVE  Copied(audio, options) = Slice(audio, options)
<1> DEFINE n == CopyFrameCount(audio, options)
           m == audio.channels
<1>1. /\ m \in Nat \ {0} /\ n \in Int /\ n <= 0 /\ n * 1 = n
      /\ options.planar \in BOOLEAN /\ options.same \in BOOLEAN
  BY DEF Audio, AudioDataCopyToOptions, CopyFrameCount
<1>2. n * m <= 0 /\ n * m \in Int
  <2>1. n * m <= 0 * m /\ n * m \in Int /\ 0 * m = 0
    <3> HIDE DEF n, m
    <3> QED
      BY <1>1, Multiples
  <2> QED
    BY <2>1
<1>3. 0 .. n - 1 = {} /\ 0 .. n * m - 1 = {}
  <2> HIDE DEF n, m
  <2> QED
    BY <1>1, <1>2
<1> QED
  BY <1>1, <1>3 DEF Copied, Slice, ElementCount

(* What is asked for outside the audio begins outside.                     *)
LEMMA CopyOutside ==
  ASSUME NEW audio \in Audio, NEW options \in AudioDataCopyToOptions,
         options.same => options.planar = audio.planar,
         ~CopyRefused(audio, options), ~AsksInside(options),
         CopyFrameCount(audio, options) > 0
  PROVE  \E k \in DOMAIN Copied(audio, options) : Copied(audio, options)[k] = NoSample
<1> DEFINE n == CopyFrameCount(audio, options)
           m == audio.channels
           o == options.offset
<1>1. /\ m \in Nat \ {0} /\ n \in Nat \ {0} /\ o \in Int /\ options.plane \in Int
      /\ audio.planar \in BOOLEAN /\ options.planar \in BOOLEAN /\ options.same \in BOOLEAN
  BY DEF Audio, AudioDataCopyToOptions, CopyFrameCount
<1>2. 0 \in 0 .. n - 1 /\ 0 \in 0 .. n * m - 1
  <2>1. 1 * m <= n * m /\ n * m \in Int /\ 1 * m = m
    <3> HIDE DEF n, m
    <3> QED
      BY <1>1, Multiples
  <2> HIDE DEF n, m
  <2> QED
    BY <1>1, <2>1
<1>3. CASE options.planar
  <2>1. Input(audio, options, options.plane, 0) = NoSample
    BY <1>1, <1>3, InputOutside DEF CopyRefused, AsksInside
  <2> QED
    BY <1>2, <1>3, <2>1 DEF Copied
<1>4. CASE ~options.planar /\ ~options.same
  <2>1. 0 % m = 0 /\ 0 \div m = 0
    BY <1>1
  <2>2. Input(audio, options, 0, 0) = NoSample
    BY <1>1, <1>4, InputOutside DEF AsksInside
  <2> QED
    BY <1>2, <1>4, <2>1, <2>2 DEF Copied
<1>5. CASE ~options.planar /\ options.same
  <2>1. ~audio.planar /\ o < 0
    BY <1>1, <1>5 DEF AsksInside
  <2>2. o * m + 0 < 0
    <3>1. o * m <= (-1) * m /\ o * m \in Int /\ (-1) * m = -m
      <4> HIDE DEF m, o
      <4> QED
        BY <1>1, <2>1, Multiples
    <3> HIDE DEF m, o
    <3> QED
      BY <1>1, <3>1
  <2>3. Sample(audio, 0, FirstSample(audio, options) + 0) = NoSample
    BY <1>1, <2>1, <2>2 DEF FirstSample, Sample, Planes
  <2> QED
    BY <1>2, <1>5, <2>3 DEF Copied
<1> QED
  BY <1>1, <1>3, <1>4, <1>5

(* For all audio and all options: the slice that was asked for, or not     *)
(* where the options are outside the audio and were accepted all the same. *)
THEOREM CopyWritesSlice ==
  ASSUME NEW audio \in Audio, NEW options \in AudioDataCopyToOptions,
         options.same => options.planar = audio.planar
  PROVE  CopyIsSlice(audio, options)
<1>1. CopyFrameCount(audio, options) \in Int
  BY DEF Audio, AudioDataCopyToOptions, CopyFrameCount
<1> QED
  BY <1>1, CopyInside, CopyOfNothing, CopyOutside DEF CopyIsSlice

(* The same of every AudioData, whatever objects there are.                *)
THEOREM MediaAudioCopies == Spec => []AudioCopiesAreSlices
<1>1. CopiesAreSlices
  BY CopiesAssumption, CopyWritesSlice DEF CopiesAreSlices
<1>2. AudioCopiesAreSlices
  BY <1>1 DEF AudioCopiesAreSlices
<1> QED
  BY <1>2, PTL

-----------------------------------------------------------------------------
(* Pictures.                                                               *)

(* The formats, sizes and layouts that the lemmas are about.               *)
Format      == {format \in Seq(PlaneDescriptor) : Len(format) \in 1 .. MaxPlanes}
PictureSize == [width : Nat \ {0}, height : Nat \ {0}]

LEMMA PlanesTyped ==
  ASSUME NEW format \in Format, NEW picture \in PictureSize, NEW p \in DOMAIN format
  PROVE  /\ PlaneHeight(format, p, picture) \in Nat \ {0}
         /\ RowBytes(format, p, picture) \in Nat \ {0}
<1>1. format[p] \in PlaneDescriptor
  BY DEF Format
<1>2. \A size, factor \in Nat \ {0} : Subsampled(p, size, factor) \in Nat \ {0}
  <2> SUFFICES ASSUME NEW size \in Nat \ {0}, NEW factor \in Nat \ {0}
               PROVE  Subsampled(p, size, factor) \in Nat \ {0}
    OBVIOUS
  <2>1. PICK q \in Int, r \in 0 .. factor - 1 :
          q = (size + factor - 1) \div factor /\ size + factor - 1 = q * factor + r
    <3> DEFINE k == size + factor - 1
    <3>1. k \in Int
      OBVIOUS
    <3>2. \E q \in Int, r \in 0 .. factor - 1 :
            q = k \div factor /\ r = k % factor /\ k = q * factor + r
      <4> HIDE DEF k
      <4> QED
        BY <3>1, Divides
    <3> QED
      BY <3>2
  <2>2. q <= 0 => q * factor <= 0 * factor
    BY Multiples
  <2>3. 0 * factor = 0 /\ q * factor \in Int
    OBVIOUS
  <2> DEFINE before == q * factor
  <2>4. size + factor - 1 = before + r /\ (q <= 0 => before <= 0) /\ before \in Int
    BY <2>1, <2>2, <2>3
  <2>5. q > 0
    <3> HIDE DEF before
    <3> QED
      BY <2>4
  <2> QED
    BY <2>1, <2>5 DEF Subsampled
<1>3. /\ picture.width \in Nat \ {0} /\ picture.height \in Nat \ {0}
      /\ format[p].w \in Nat \ {0} /\ format[p].h \in Nat \ {0} /\ format[p].depth \in Nat \ {0}
  BY <1>1 DEF PictureSize, PlaneDescriptor
<1>4. /\ Subsampled(p, picture.width, format[p].w) \in Nat \ {0}
      /\ Subsampled(p, picture.height, format[p].h) \in Nat \ {0}
  BY <1>2, <1>3
<1>5. \A a, b \in Nat \ {0} : a * b \in Nat \ {0}
  <2> SUFFICES ASSUME NEW a \in Nat \ {0}, NEW b \in Nat \ {0}
               PROVE  a * b \in Nat \ {0}
    OBVIOUS
  <2>1. 1 * b <= a * b /\ 1 * b = b
    BY Multiples
  <2> QED
    BY <2>1
<1> QED
  BY <1>3, <1>4, <1>5 DEF PlaneHeight, RowBytes

(* A byte is in a row of a plane.                                          *)
LEMMA BytesPlaced ==
  ASSUME NEW format \in Format, NEW picture \in PictureSize, NEW b
  PROVE  b \in Bytes(format, picture) <=>
           \E p \in DOMAIN format : \E y \in 0 .. PlaneHeight(format, p, picture) - 1 :
             \E x \in 0 .. RowBytes(format, p, picture) - 1 : b = <<p, y, x>>
  BY DEF Bytes

(* The addresses of a plane are between its offset and its end.            *)
LEMMA AddressInPlane ==
  ASSUME NEW format \in Format, NEW picture \in PictureSize, NEW p \in DOMAIN format,
         NEW layout, layout[p] \in PlaneLayout,
         NEW y \in 0 .. PlaneHeight(format, p, picture) - 1,
         NEW x \in 0 .. RowBytes(format, p, picture) - 1
  PROVE  /\ Address(format, picture, layout, <<p, y, x>>) \in Int
         /\ layout[p].offset <= Address(format, picture, layout, <<p, y, x>>)
         /\ Address(format, picture, layout, <<p, y, x>>) < PlaneEnd(format, p, picture, layout)
         /\ PlaneEnd(format, p, picture, layout) \in Nat
<1> DEFINE h == PlaneHeight(format, p, picture)
           r == RowBytes(format, p, picture)
           s == layout[p].stride
           o == layout[p].offset
<1>1. h \in Nat \ {0} /\ r \in Nat \ {0} /\ s \in Nat /\ o \in Nat
  BY PlanesTyped DEF PlaneLayout
<1>2. /\ Address(format, picture, layout, <<p, y, x>>) = o + y * s + x
      /\ PlaneEnd(format, p, picture, layout) = o + (h - 1) * s + r
  BY DEF Address, PlaneEnd
<1>3. y \in 0 .. h - 1 /\ x \in 0 .. r - 1
  OBVIOUS
<1> HIDE DEF h, r, s, o
<1>4. y * s \in Int /\ (h - 1) * s \in Int /\ y * s <= (h - 1) * s /\ 0 * s <= y * s /\ 0 * s = 0
  BY <1>1, <1>3, Multiples
<1> DEFINE before == y * s
           last   == (h - 1) * s
<1>5. /\ o + before + x \in Int /\ o <= o + before + x /\ o + before + x < o + last + r
      /\ o + last + r \in Nat
  <2> HIDE DEF before, last
  <2> QED
    BY <1>1, <1>3, <1>4 DEF before, last
<1> QED
  BY <1>2, <1>5 DEF o

(* The largest of at most four numbers.                                    *)
LEMMA LargestOf ==
  ASSUME NEW n \in 1 .. MaxPlanes, NEW f, \A p \in 1 .. n : f[p] \in Int
  PROVE  /\ Max({f[p] : p \in 1 .. n}) \in {f[p] : p \in 1 .. n}
         /\ \A p \in 1 .. n : f[p] <= Max({f[p2] : p2 \in 1 .. n})
<1> DEFINE S == {f[p] : p \in 1 .. n}
<1>1. \E p \in 1 .. n : \A q \in 1 .. n : f[q] <= f[p]
  <2>1. CASE n = 1
    BY <2>1
  <2>2. CASE n = 2
    <3>1. 1 .. n = {1, 2}
      BY <2>2
    <3> QED
      BY <3>1
  <2>3. CASE n = 3
    <3>1. 1 .. n = {1, 2, 3}
      BY <2>3
    <3> QED
      BY <3>1
  <2>4. CASE n = 4
    <3>1. 1 .. n = {1, 2, 3, 4}
      BY <2>4
    <3> QED
      BY <3>1
  <2> QED
    BY <2>1, <2>2, <2>3, <2>4 DEF MaxPlanes
<1>2. \E v \in S : \A w \in S : v >= w
  BY <1>1
<1>3. Max(S) \in S /\ \A w \in S : Max(S) >= w
  BY <1>2 DEF Max
<1>4. \A p \in 1 .. n : f[p] \in S /\ f[p] <= Max(S)
  BY <1>3
<1> QED
  BY <1>3, <1>4

(* The size asked of a destination is where the last of the planes ends.   *)
LEMMA SizeOfLargest ==
  ASSUME NEW format \in Format, NEW picture \in PictureSize, NEW layout,
         \A p \in DOMAIN format : PlaneEnd(format, p, picture, layout) \in Int
  PROVE  /\ \E p \in DOMAIN format :
              SizeWithLayout(format, picture, layout) = PlaneEnd(format, p, picture, layout)
         /\ \A p \in DOMAIN format :
              PlaneEnd(format, p, picture, layout) <= SizeWithLayout(format, picture, layout)
<1> DEFINE n == Len(format)
           f == [p \in 1 .. n |-> PlaneEnd(format, p, picture, layout)]
<1>1. n \in 1 .. MaxPlanes /\ DOMAIN format = 1 .. n
  BY DEF Format
<1>2. \A p \in 1 .. n : f[p] = PlaneEnd(format, p, picture, layout) /\ f[p] \in Int
  BY <1>1
<1>3. {f[p] : p \in 1 .. n} = {PlaneEnd(format, p, picture, layout) : p \in DOMAIN format}
  BY <1>1, <1>2
<1> HIDE DEF f, n
<1>4. /\ Max({f[p] : p \in 1 .. n}) \in {f[p] : p \in 1 .. n}
      /\ \A p \in 1 .. n : f[p] <= Max({f[p2] : p2 \in 1 .. n})
  BY <1>1, <1>2, LargestOf
<1> QED
  BY <1>1, <1>2, <1>3, <1>4 DEF SizeWithLayout

(* A copy stays within the size that was asked for.                        *)
THEOREM CopyWithinSize ==
  ASSUME NEW format \in Format, NEW picture \in PictureSize, NEW layout \in Seq(PlaneLayout)
  PROVE  CopyFits(format, picture, layout)
<1> SUFFICES ASSUME LayoutAccepted(format, picture, layout), NEW b \in Bytes(format, picture)
             PROVE  Address(format, picture, layout, b)
                      \in 0 .. SizeWithLayout(format, picture, layout) - 1
  BY DEF CopyFits
<1>1. \A p \in DOMAIN format : layout[p] \in PlaneLayout
  BY DEF LayoutAccepted, Format
<1>2. PICK p \in DOMAIN format : \E y \in 0 .. PlaneHeight(format, p, picture) - 1 :
        \E x \in 0 .. RowBytes(format, p, picture) - 1 : b = <<p, y, x>>
  BY BytesPlaced
<1>3. PICK y \in 0 .. PlaneHeight(format, p, picture) - 1,
           x \in 0 .. RowBytes(format, p, picture) - 1 : b = <<p, y, x>>
  BY <1>2
<1>4. \A q \in DOMAIN format : PlaneEnd(format, q, picture, layout) \in Int
  <2> SUFFICES ASSUME NEW q \in DOMAIN format
               PROVE  PlaneEnd(format, q, picture, layout) \in Int
    OBVIOUS
  <2>1. /\ 0 \in 0 .. PlaneHeight(format, q, picture) - 1
        /\ 0 \in 0 .. RowBytes(format, q, picture) - 1
    BY PlanesTyped
  <2>2. layout[q] \in PlaneLayout /\ Nat \subseteq Int
    BY <1>1
  <2> QED
    BY <1>1, <2>1, <2>2, AddressInPlane
<1>5. /\ \E q \in DOMAIN format :
           SizeWithLayout(format, picture, layout) = PlaneEnd(format, q, picture, layout)
      /\ PlaneEnd(format, p, picture, layout) <= SizeWithLayout(format, picture, layout)
  BY <1>4, SizeOfLargest
<1>6. /\ Address(format, picture, layout, b) \in Int
      /\ layout[p].offset <= Address(format, picture, layout, b)
      /\ Address(format, picture, layout, b) < PlaneEnd(format, p, picture, layout)
  BY <1>1, <1>3, AddressInPlane
<1>7. layout[p].offset \in Nat
  BY <1>1 DEF PlaneLayout
<1> QED
  BY <1>4, <1>5, <1>6, <1>7

(* Bytes of a picture whose planes do not overlap have addresses of their  *)
(* own.                                                                    *)
LEMMA AddressesDiffer ==
  ASSUME NEW format \in Format, NEW picture \in PictureSize, NEW layout \in Seq(PlaneLayout),
         LayoutAccepted(format, picture, layout), ~Overlap(format, picture, layout),
         NEW b \in Bytes(format, picture), NEW c \in Bytes(format, picture),
         Address(format, picture, layout, b) = Address(format, picture, layout, c)
  PROVE  b = c
<1>1. \A p \in DOMAIN format : /\ layout[p] \in PlaneLayout
                               /\ layout[p].stride >= RowBytes(format, p, picture)
  BY DEF LayoutAccepted, Format
<1> DEFINE InPlane(d, p) ==
             /\ Address(format, picture, layout, d) \in Int
             /\ layout[p].offset <= Address(format, picture, layout, d)
             /\ Address(format, picture, layout, d) < PlaneEnd(format, p, picture, layout)
             /\ PlaneEnd(format, p, picture, layout) \in Nat
<1>2. \A p \in DOMAIN format : \A y \in 0 .. PlaneHeight(format, p, picture) - 1 :
        \A x \in 0 .. RowBytes(format, p, picture) - 1 : InPlane(<<p, y, x>>, p)
  BY <1>1, AddressInPlane
<1>3. PICK p \in DOMAIN format : \E y \in 0 .. PlaneHeight(format, p, picture) - 1 :
        \E x \in 0 .. RowBytes(format, p, picture) - 1 : b = <<p, y, x>>
  BY BytesPlaced
<1>4. PICK y \in 0 .. PlaneHeight(format, p, picture) - 1,
           x \in 0 .. RowBytes(format, p, picture) - 1 : b = <<p, y, x>>
  BY <1>3
<1>5. PICK q \in DOMAIN format : \E z \in 0 .. PlaneHeight(format, q, picture) - 1 :
        \E w \in 0 .. RowBytes(format, q, picture) - 1 : c = <<q, z, w>>
  BY BytesPlaced
<1>6. PICK z \in 0 .. PlaneHeight(format, q, picture) - 1,
           w \in 0 .. RowBytes(format, q, picture) - 1 : c = <<q, z, w>>
  BY <1>5
<1>7. InPlane(b, p) /\ InPlane(c, q)
  BY <1>2, <1>4, <1>6
<1>8. layout[p].offset \in Nat /\ layout[q].offset \in Nat
  BY <1>1 DEF PlaneLayout
<1>9. p = q
  <2> SUFFICES ASSUME p # q
               PROVE  FALSE
    OBVIOUS
  <2>1. CASE layout[p].offset <= layout[q].offset
    <3>1. ~(PlaneEnd(format, p, picture, layout) > layout[q].offset)
      BY <2>1 DEF Overlap
    <3> QED
      BY <1>7, <1>8, <3>1
  <2>2. CASE layout[q].offset <= layout[p].offset
    <3>1. ~(PlaneEnd(format, q, picture, layout) > layout[p].offset)
      BY <2>2 DEF Overlap
    <3> QED
      BY <1>7, <1>8, <3>1
  <2> QED
    BY <1>8, <2>1, <2>2
<1> DEFINE s == layout[p].stride
           o == layout[p].offset
<1>10. /\ s \in Nat \ {0} /\ x \in 0 .. s - 1 /\ w \in 0 .. s - 1 /\ y \in Int /\ z \in Int
      /\ o \in Nat
  <2>1. RowBytes(format, p, picture) \in Nat \ {0} /\ PlaneHeight(format, p, picture) \in Nat \ {0}
    BY PlanesTyped
  <2>2. s \in Nat /\ s >= RowBytes(format, p, picture)
    BY <1>1 DEF PlaneLayout
  <2> QED
    BY <1>4, <1>6, <1>8, <1>9, <2>1, <2>2
<1>11. /\ Address(format, picture, layout, b) = o + y * s + x
      /\ Address(format, picture, layout, c) = o + z * s + w
  BY <1>4, <1>6, <1>9 DEF Address
<1> HIDE DEF s, o
<1>12. y * s + x = z * s + w
  <2>1. y * s \in Int /\ z * s \in Int
    BY <1>10
  <2> DEFINE i == y * s
             j == z * s
  <2>2. o + i + x = o + j + w
    BY <1>11
  <2> HIDE DEF i, j
  <2>3. i + x = j + w
    BY <1>10, <2>1, <2>2 DEF i, j
  <2> QED
    BY <2>3 DEF i, j
<1>13. y = z /\ x = w
  <2>1. (y * s + x) % s = x /\ (y * s + x) \div s = y
    BY <1>10, QuotientRemainder
  <2>2. (z * s + w) % s = w /\ (z * s + w) \div s = z
    BY <1>10, QuotientRemainder
  <2> QED
    BY <1>12, <2>1, <2>2, Zenon
<1> QED
  BY <1>4, <1>6, <1>9, <1>13

(* A picture copied out and read in with a layout is the same picture.     *)
THEOREM PictureRoundTrip ==
  ASSUME NEW format \in Format, NEW picture \in PictureSize, NEW layout \in Seq(PlaneLayout)
  PROVE  RoundTrip(format, picture, layout)
<1> SUFFICES ASSUME LayoutAccepted(format, picture, layout), ~Overlap(format, picture, layout)
             PROVE  FrameFromBuffer(format, picture, layout,
                                    CopyWithLayout(format, picture, layout))
                      = [b \in Bytes(format, picture) |-> b]
  BY DEF RoundTrip
<1> DEFINE buffer == CopyWithLayout(format, picture, layout)
           A(b) == Address(format, picture, layout, b)
           B == Bytes(format, picture)
<1>1. ASSUME NEW b \in B
      PROVE  A(b) \in DOMAIN buffer /\ buffer[A(b)] = b
  <2>1. DOMAIN buffer = {A(c) : c \in B}
    BY DEF CopyWithLayout
  <2>2. {c \in B : A(c) = A(b)} = {b}
    <3>1. \A c \in B : A(c) = A(b) => c = b
      BY AddressesDiffer
    <3> QED
      BY <3>1
  <2>3. buffer[A(b)] = CHOOSE c \in {c \in B : A(c) = A(b)} :
                         \A d \in {c2 \in B : A(c2) = A(b)} : d[1] <= c[1]
    BY DEF CopyWithLayout
  <2>4. b[1] \in Int
    <3>1. PICK p \in DOMAIN format : \E y \in 0 .. PlaneHeight(format, p, picture) - 1 :
            \E x \in 0 .. RowBytes(format, p, picture) - 1 : b = <<p, y, x>>
      BY BytesPlaced
    <3> QED
      BY <3>1 DEF Format
  <2>5. buffer[A(b)] = CHOOSE c \in {b} : \A d \in {b} : d[1] <= c[1]
    BY <2>2, <2>3
  <2>6. \E c \in {b} : \A d \in {b} : d[1] <= c[1]
    BY <2>4
  <2>7. buffer[A(b)] \in {b}
    BY <2>5, <2>6
  <2> QED
    BY <2>1, <2>7
<1>2. ASSUME NEW b \in B
      PROVE  layout[b[1]].offset + b[2] * layout[b[1]].stride + b[3] = A(b)
  BY DEF Address
<1>3. FrameFromBuffer(format, picture, layout, buffer)
        = [b \in B |-> IF layout[b[1]].offset + b[2] * layout[b[1]].stride + b[3] \in DOMAIN buffer
                       THEN buffer[layout[b[1]].offset + b[2] * layout[b[1]].stride + b[3]]
                       ELSE <<0, 0, 0>>]
  BY DEF FrameFromBuffer
<1> HIDE DEF buffer, A, B
<1>4. \A b \in B : (IF layout[b[1]].offset + b[2] * layout[b[1]].stride + b[3] \in DOMAIN buffer
                    THEN buffer[layout[b[1]].offset + b[2] * layout[b[1]].stride + b[3]]
                    ELSE <<0, 0, 0>>) = b
  BY <1>1, <1>2
<1>5. FrameFromBuffer(format, picture, layout, buffer) = [b \in B |-> b]
  BY <1>3, <1>4
<1> QED
  BY <1>5 DEF buffer, B

(* The planes of a packed picture follow each other from 0.                *)
LEMMA StartsFollow ==
  ASSUME NEW format \in Format, NEW picture \in PictureSize
  PROVE  /\ PlaneStart(format, 1, picture) = 0
         /\ \A p \in 1 .. MaxPlanes :
              /\ PlaneBytes(format, p, picture) \in Nat
              /\ PlaneStart(format, p, picture) \in Nat
              /\ PlaneStart(format, p + 1, picture)
                   = PlaneStart(format, p, picture) + PlaneBytes(format, p, picture)
         /\ \A p \in 1 .. MaxPlanes :
              p > Len(format) => PlaneBytes(format, p, picture) = 0
<1> DEFINE bytes(p) == PlaneBytes(format, p, picture)
<1>1. \A p \in 1 .. MaxPlanes : bytes(p) \in Nat /\ (p > Len(format) => bytes(p) = 0)
  <2> SUFFICES ASSUME NEW p \in 1 .. MaxPlanes
               PROVE  bytes(p) \in Nat /\ (p > Len(format) => bytes(p) = 0)
    OBVIOUS
  <2>1. CASE p \in DOMAIN format
    <3>1. /\ PlaneHeight(format, p, picture) \in Nat /\ RowBytes(format, p, picture) \in Nat
          /\ p <= Len(format) /\ Len(format) \in Nat
      BY <2>1, PlanesTyped DEF Format
    <3>2. \A h, r \in Nat : h * r \in Nat
      OBVIOUS
    <3> QED
      BY <2>1, <3>1, <3>2 DEF PlaneBytes
  <2>2. CASE p \notin DOMAIN format
    BY <2>2 DEF PlaneBytes
  <2> QED
    BY <2>1, <2>2
<1>2. 1 .. MaxPlanes = {1, 2, 3, 4}
  BY DEF MaxPlanes
<1>3. bytes(1) \in Nat /\ bytes(2) \in Nat /\ bytes(3) \in Nat /\ bytes(4) \in Nat
  BY <1>1, <1>2
<1>4. \A p \in Int : PlaneStart(format, p, picture)
        = (IF 1 < p THEN bytes(1) ELSE 0) + (IF 2 < p THEN bytes(2) ELSE 0)
            + (IF 3 < p THEN bytes(3) ELSE 0) + (IF 4 < p THEN bytes(4) ELSE 0)
  BY DEF PlaneStart
<1> HIDE DEF bytes
<1>5. /\ PlaneStart(format, 1, picture) = 0
      /\ PlaneStart(format, 2, picture) = bytes(1)
      /\ PlaneStart(format, 3, picture) = bytes(1) + bytes(2)
      /\ PlaneStart(format, 4, picture) = bytes(1) + bytes(2) + bytes(3)
      /\ PlaneStart(format, 5, picture) = bytes(1) + bytes(2) + bytes(3) + bytes(4)
  BY <1>3, <1>4
<1>6. \A p \in {1, 2, 3, 4} :
        /\ PlaneStart(format, p, picture) \in Nat
        /\ PlaneStart(format, p + 1, picture) = PlaneStart(format, p, picture) + bytes(p)
  BY <1>3, <1>5
<1> QED
  BY <1>1, <1>2, <1>5, <1>6 DEF bytes

(* So each one ends where the next begins, the last of them with the size. *)
LEMMA StartsOrdered ==
  ASSUME NEW format \in Format, NEW picture \in PictureSize
  PROVE  /\ BufferSize(format, picture) \in Nat
         /\ \A p \in DOMAIN format :
              /\ p \in 1 .. MaxPlanes
              /\ PlaneStart(format, p, picture) + PlaneBytes(format, p, picture)
                   <= BufferSize(format, picture)
         /\ \E p \in DOMAIN format :
              PlaneStart(format, p, picture) + PlaneBytes(format, p, picture)
                = BufferSize(format, picture)
         /\ \A a \in 0 .. BufferSize(format, picture) - 1 : \E p \in DOMAIN format :
              /\ PlaneStart(format, p, picture) <= a
              /\ a < PlaneStart(format, p, picture) + PlaneBytes(format, p, picture)
<1> DEFINE S(p) == PlaneStart(format, p, picture)
           B(p) == PlaneBytes(format, p, picture)
           n == Len(format)
           size == BufferSize(format, picture)
<1>1. n \in 1 .. 4 /\ DOMAIN format = 1 .. n
  BY DEF Format, MaxPlanes
<1>2. 1 .. MaxPlanes = {1, 2, 3, 4} /\ MaxPlanes + 1 = 5
  BY DEF MaxPlanes
<1>3. S(1) = 0 /\ \A p \in {1, 2, 3, 4} : /\ B(p) \in Nat /\ S(p) \in Nat
                                          /\ S(p + 1) = S(p) + B(p)
                                          /\ p > n => B(p) = 0
  BY <1>2, StartsFollow
<1>4. size = S(5)
  BY <1>2 DEF BufferSize
<1> HIDE DEF S, B, n, size
<1>5. /\ B(1) \in Nat /\ B(2) \in Nat /\ B(3) \in Nat /\ B(4) \in Nat
      /\ S(1) = 0 /\ S(2) = B(1) /\ S(3) = S(2) + B(2) /\ S(4) = S(3) + B(3)
      /\ size = S(4) + B(4)
  <2>1. S(1 + 1) = S(1) + B(1) /\ S(2 + 1) = S(2) + B(2) /\ S(3 + 1) = S(3) + B(3)
        /\ S(4 + 1) = S(4) + B(4)
    BY <1>3
  <2>2. 1 + 1 = 2 /\ 2 + 1 = 3 /\ 3 + 1 = 4 /\ 4 + 1 = 5
    OBVIOUS
  <2> QED
    BY <1>3, <1>4, <2>1, <2>2
<1>6. (n < 2 => B(2) = 0) /\ (n < 3 => B(3) = 0) /\ (n < 4 => B(4) = 0)
  BY <1>1, <1>3
<1>7. size \in Nat
  BY <1>5
<1>8. ASSUME NEW p \in 1 .. n
      PROVE  p \in {1, 2, 3, 4} /\ S(p) + B(p) <= size
  <2>1. p \in {1, 2, 3, 4}
    BY <1>1
  <2> QED
    BY <1>5, <2>1
<1>9. S(n) + B(n) = size /\ n \in 1 .. n
  <2>1. CASE n = 1
    BY <1>1, <1>5, <1>6, <2>1
  <2>2. CASE n = 2
    BY <1>1, <1>5, <1>6, <2>2
  <2>3. CASE n = 3
    BY <1>1, <1>5, <1>6, <2>3
  <2>4. CASE n = 4
    BY <1>1, <1>5, <1>6, <2>4
  <2> QED
    BY <1>1, <2>1, <2>2, <2>3, <2>4
<1>10. ASSUME NEW a \in 0 .. size - 1
       PROVE  \E p \in 1 .. n : S(p) <= a /\ a < S(p) + B(p)
  <2>1. a \in Int /\ 0 <= a /\ a < size
    BY <1>7
  <2>2. CASE a < S(2)
    <3>1. S(1) <= a /\ a < S(1) + B(1) /\ 1 \in 1 .. n
      BY <1>1, <1>5, <2>1, <2>2
    <3> QED
      BY <3>1
  <2>3. CASE S(2) <= a /\ a < S(3)
    <3>1. S(2) <= a /\ a < S(2) + B(2) /\ 2 \in 1 .. n
      BY <1>1, <1>5, <1>6, <2>1, <2>3
    <3> QED
      BY <3>1
  <2>4. CASE S(3) <= a /\ a < S(4)
    <3>1. S(3) <= a /\ a < S(3) + B(3) /\ 3 \in 1 .. n
      BY <1>1, <1>5, <1>6, <2>1, <2>4
    <3> QED
      BY <3>1
  <2>5. CASE S(4) <= a
    <3>1. S(4) <= a /\ a < S(4) + B(4) /\ 4 \in 1 .. n
      BY <1>1, <1>5, <1>6, <2>1, <2>5
    <3> QED
      BY <3>1
  <2> QED
    BY <1>5, <2>1, <2>2, <2>3, <2>4, <2>5
<1>11. /\ size \in Nat
       /\ \A p \in DOMAIN format : p \in 1 .. MaxPlanes /\ S(p) + B(p) <= size
       /\ \E p \in DOMAIN format : S(p) + B(p) = size
       /\ \A a \in 0 .. size - 1 : \E p \in DOMAIN format : S(p) <= a /\ a < S(p) + B(p)
  BY <1>1, <1>2, <1>7, <1>8, <1>9, <1>10
<1> QED
  BY <1>11 DEF S, B, size

(* A copy without a layout fills the size that was asked for.              *)
THEOREM PackedCopyFills ==
  ASSUME NEW format \in Format, NEW picture \in PictureSize
  PROVE  PackedFills(format, picture)
<1> DEFINE packed == Packed(format, picture)
           S(p) == PlaneStart(format, p, picture)
           H(p) == PlaneHeight(format, p, picture)
           R(p) == RowBytes(format, p, picture)
           A(b) == Address(format, picture, packed, b)
           size == BufferSize(format, picture)
<1>1. \A p \in DOMAIN format : packed[p].offset = S(p) /\ packed[p].stride = R(p)
  BY DEF Packed
<1>2. \A p \in DOMAIN format : /\ p \in 1 .. MaxPlanes /\ S(p) \in Nat
                               /\ H(p) \in Nat \ {0} /\ R(p) \in Nat \ {0}
                               /\ PlaneBytes(format, p, picture) = H(p) * R(p)
  BY PlanesTyped, StartsOrdered, StartsFollow DEF PlaneBytes
<1>3. /\ size \in Nat
      /\ \A p \in DOMAIN format : S(p) + H(p) * R(p) <= size
      /\ \E p \in DOMAIN format : S(p) + H(p) * R(p) = size
      /\ \A a \in 0 .. size - 1 : \E p \in DOMAIN format : S(p) <= a /\ a < S(p) + H(p) * R(p)
  BY <1>2, StartsOrdered
<1>4. ASSUME NEW p \in DOMAIN format
      PROVE  PlaneEnd(format, p, picture, packed) = S(p) + H(p) * R(p) /\ H(p) * R(p) \in Nat
  <2>1. PlaneEnd(format, p, picture, packed) = S(p) + (H(p) - 1) * R(p) + R(p)
    BY <1>1 DEF PlaneEnd
  <2>2. \A h, r \in Nat : (h - 1) * r = h * r - r /\ h * r \in Nat
    OBVIOUS
  <2>3. (H(p) - 1) * R(p) = H(p) * R(p) - R(p) /\ H(p) * R(p) \in Nat
    BY <1>2, <2>2
  <2> DEFINE all == H(p) * R(p)
  <2> HIDE DEF all, S, R
  <2>4. S(p) + (all - R(p)) + R(p) = S(p) + all
    BY <1>2, <2>3 DEF all
  <2> QED
    BY <2>1, <2>3, <2>4 DEF all
<1>5. SizeWithLayout(format, picture, packed) = size
  <2>1. \A p \in DOMAIN format : PlaneEnd(format, p, picture, packed) \in Int
    <3> SUFFICES ASSUME NEW p \in DOMAIN format
                 PROVE  PlaneEnd(format, p, picture, packed) \in Int
      OBVIOUS
    <3> DEFINE all == H(p) * R(p)
    <3>1. S(p) \in Nat /\ all \in Nat /\ PlaneEnd(format, p, picture, packed) = S(p) + all
      BY <1>2, <1>4
    <3> HIDE DEF all, S
    <3> QED
      BY <3>1
  <2> DEFINE largest == SizeWithLayout(format, picture, packed)
  <2>2. /\ \E p \in DOMAIN format : largest = PlaneEnd(format, p, picture, packed)
        /\ \A p \in DOMAIN format : PlaneEnd(format, p, picture, packed) <= largest
    BY <2>1, SizeOfLargest
  <2>3. /\ \A p \in DOMAIN format : PlaneEnd(format, p, picture, packed) <= size
        /\ \E p \in DOMAIN format : PlaneEnd(format, p, picture, packed) = size
    BY <1>3, <1>4
  <2> HIDE DEF largest, size
  <2>4. largest <= size /\ size <= largest /\ largest \in Int
    BY <2>1, <2>2, <2>3
  <2>5. largest = size
    BY <1>3, <2>4
  <2> QED
    BY <2>5 DEF largest
<1>6. ASSUME NEW b \in Bytes(format, picture)
      PROVE  A(b) \in 0 .. size - 1
  <2>1. PICK p \in DOMAIN format : \E y \in 0 .. H(p) - 1 : \E x \in 0 .. R(p) - 1 : b = <<p, y, x>>
    BY BytesPlaced
  <2>2. PICK y \in 0 .. H(p) - 1, x \in 0 .. R(p) - 1 : b = <<p, y, x>>
    BY <2>1
  <2>3. A(b) = S(p) + y * R(p) + x
    BY <1>1, <2>2 DEF Address
  <2> DEFINE all == H(p) * R(p)
             before == y * R(p)
  <2>4. before + x \in 0 .. all - 1 /\ before \in Int
    <3>1. R(p) \in Nat \ {0} /\ H(p) \in Nat /\ y \in Int
      BY <1>2
    <3> HIDE DEF H, R
    <3> QED
      BY <3>1, InRows
  <2>5. S(p) \in Nat /\ all \in Nat /\ S(p) + all <= size /\ x \in Int
    BY <1>2, <1>3, <1>4
  <2>6. A(b) = S(p) + before + x
    BY <2>3
  <2> HIDE DEF all, before, S, size, A
  <2> QED
    BY <1>3, <2>4, <2>5, <2>6
<1>7. ASSUME NEW a \in 0 .. size - 1
      PROVE  \E b \in Bytes(format, picture) : A(b) = a
  <2>1. PICK p \in DOMAIN format : S(p) <= a /\ a < S(p) + H(p) * R(p)
    BY <1>3
  <2> DEFINE k == a - S(p)
             all == H(p) * R(p)
  <2>2. k \in 0 .. all - 1
    <3>1. S(p) \in Nat /\ all \in Nat /\ S(p) <= a /\ a < S(p) + all /\ a \in Int
      BY <1>2, <1>4, <2>1
    <3> HIDE DEF all, S
    <3> QED
      BY <3>1
  <2>3. PICK y \in 0 .. H(p) - 1, x \in 0 .. R(p) - 1 : k = y * R(p) + x
    <3>1. R(p) \in Nat \ {0} /\ H(p) \in Nat
      BY <1>2
    <3>2. \A m \in Nat \ {0}, n \in Nat : k \in 0 .. n * m - 1 =>
            \E y \in 0 .. n - 1, x \in 0 .. m - 1 : k = y * m + x
      <4> SUFFICES ASSUME NEW m \in Nat \ {0}, NEW n \in Nat, k \in 0 .. n * m - 1
                   PROVE  \E y \in 0 .. n - 1, x \in 0 .. m - 1 : k = y * m + x
        OBVIOUS
      <4> HIDE DEF k
      <4>1. \E y \in 0 .. n - 1, x \in 0 .. m - 1 : y = k \div m /\ x = k % m /\ k = y * m + x
        BY RowOf
      <4> QED
        BY <4>1
    <3> HIDE DEF H, R, k
    <3> QED
      BY <2>2, <3>1, <3>2, Zenon
  <2>4. <<p, y, x>> \in Bytes(format, picture)
    BY BytesPlaced
  <2>5. A(<<p, y, x>>) = S(p) + y * R(p) + x
    BY <1>1 DEF Address
  <2> DEFINE before == y * R(p)
  <2>6. S(p) + before + x = a
    <3>1. before \in Int /\ x \in Int /\ S(p) \in Nat /\ a \in Int /\ a - S(p) = before + x
      BY <1>2, <2>3
    <3> HIDE DEF before, S
    <3> QED
      BY <3>1
  <2> QED
    BY <2>4, <2>5, <2>6
<1>8. DOMAIN CopyWithLayout(format, picture, packed) = {A(b) : b \in Bytes(format, picture)}
  BY DEF CopyWithLayout
<1>9. {A(b) : b \in Bytes(format, picture)} = 0 .. size - 1
  BY <1>6, <1>7
<1> QED
  BY <1>5, <1>8, <1>9 DEF PackedFills

(* No picture outgrows a destination, and all of them come back as they    *)
(* went, whatever objects there are.                                       *)
LEMMA LayoutsTyped ==
  Formats \subseteq Format /\ Pictures \subseteq PictureSize /\ Layouts \subseteq Seq(PlaneLayout)
BY LayoutsAssumption DEF Format, PictureSize

THEOREM MediaVideoCopies == Spec => []VideoCopiesFit
<1>1. LayoutsFit
  BY LayoutsTyped, CopyWithinSize, PackedCopyFills DEF LayoutsFit
<1>2. VideoCopiesFit
  BY <1>1 DEF VideoCopiesFit
<1> QED
  BY <1>2, PTL

THEOREM MediaRoundTrips == Spec => []LayoutsRoundTrip
<1>1. PicturesSurvive
  BY LayoutsTyped, PictureRoundTrip DEF PicturesSurvive
<1>2. LayoutsRoundTrip
  BY <1>1 DEF LayoutsRoundTrip
<1> QED
  BY <1>2, PTL

-----------------------------------------------------------------------------
(* Timestamps.                                                             *)

(* A number between two multiples that follow each other.                  *)
LEMMA QuotientIs ==
  ASSUME NEW m \in Nat \ {0}, NEW q \in Int, NEW k \in Int, q * m <= k, k < q * m + m
  PROVE  k \div m = q
<1>1. q * m \in Int
  OBVIOUS
<1> DEFINE before == q * m
           r == k - before
<1>2. r \in 0 .. m - 1 /\ k = before + r
  <2> HIDE DEF before
  <2> QED
    BY <1>1 DEF before
<1> HIDE DEF r
<1>3. (q * m + r) \div m = q
  BY <1>2, QuotientRemainder
<1> QED
  BY <1>2, <1>3

(* A number that is not negative, rescaled.                                *)
LEMMA RescaleNearest ==
  ASSUME NEW a \in Nat, NEW b \in Nat \ {0}, NEW c \in Nat \ {0}
  PROVE  \E u \in Nat : /\ u = Rescale(a, b, c)
                        /\ 2 * (u * c) <= 2 * (a * b) + c
                        /\ 2 * (a * b) + c < 2 * (u * c) + 2 * c
<1> DEFINE k == 2 * a * b + c
           m == 2 * c
<1>1. k \in Nat /\ k = 2 * (a * b) + c /\ a * b \in Nat
  OBVIOUS
<1>2. m \in Nat \ {0}
  OBVIOUS
<1>3. Rescale(a, b, c) = k \div m
  BY DEF Rescale
<1>4. \E q \in Int, r \in 0 .. m - 1 : q = k \div m /\ r = k % m /\ k = q * m + r
  <2> HIDE DEF k, m
  <2> QED
    BY <1>1, <1>2, Divides
<1>5. PICK q \in Int, r \in 0 .. m - 1 : q = k \div m /\ k = q * m + r
  BY <1>4
<1>6. q * m = 2 * (q * c) /\ q * c \in Int
  OBVIOUS
<1>7. q >= 0
  <2>1. q <= -1 => q * m <= (-1) * m
    <3> HIDE DEF m
    <3> QED
      BY <1>2, Multiples
  <2>2. (-1) * m = -m
    OBVIOUS
  <2>3. q * m \in Int
    BY <1>6
  <2> DEFINE before == q * m
  <2> HIDE DEF before, m, k
  <2> QED
    BY <1>1, <1>2, <1>5, <2>1, <2>2, <2>3 DEF before
<1> DEFINE product == q * c
           numerator == a * b
<1>8. 2 * product <= 2 * numerator + c /\ 2 * numerator + c < 2 * product + 2 * c
  <2>1. k = 2 * product + r /\ k = 2 * numerator + c
    BY <1>1, <1>5, <1>6
  <2>2. r >= 0 /\ r < 2 * c
    BY <1>5
  <2> HIDE DEF product, numerator, k, m
  <2>3. product \in Int /\ numerator \in Int
    BY <1>1, <1>6 DEF product, numerator
  <2> QED
    BY <2>1, <2>2, <2>3
<1> QED
  BY <1>3, <1>5, <1>7, <1>8

(* What is rescaled has the opposite sign if what it is of has.            *)
LEMMA RescaleOdd ==
  ASSUME NEW a \in Int, NEW b \in Nat \ {0}, NEW c \in Nat \ {0}
  PROVE  Rescale(-a, b, c) = -Rescale(a, b, c)
<1>1. CASE a > 0
  <2>1. -(-a) = a /\ ~(-a >= 0) /\ a >= 0
    BY <1>1
  <2> QED
    BY <2>1 DEF Rescale
<1>2. CASE a < 0
  <2> DEFINE v == (2 * (-a) * b + c) \div (2 * c)
  <2>1. v \in Int
    <3>1. 2 * c \in Nat \ {0} /\ 2 * (-a) * b + c \in Int
      OBVIOUS
    <3> QED
      BY <3>1, Divides
  <2>2. Rescale(-a, b, c) = v /\ Rescale(a, b, c) = -v
    BY <1>2 DEF Rescale
  <2> HIDE DEF v
  <2> QED
    BY <2>1, <2>2
<1>3. CASE a = 0
  <2>1. 2 * c \in Nat \ {0} /\ 0 * (2 * c) <= c /\ c < 0 * (2 * c) + 2 * c
    OBVIOUS
  <2>2. c \div (2 * c) = 0
    BY <2>1, QuotientIs
  <2>3. 2 * 0 * b + c = c
    OBVIOUS
  <2>4. Rescale(0, b, c) = 0
    BY <2>2, <2>3 DEF Rescale
  <2> QED
    BY <1>3, <2>4
<1> QED
  BY <1>1, <1>2, <1>3

(* There and back, when the unit gets no larger.                           *)
LEMMA RescaleBack ==
  ASSUME NEW p \in Nat, NEW x \in Nat \ {0}, NEW d \in Nat \ {0}, d <= x
  PROVE  Rescale(p, x, d) \in Nat /\ Rescale(Rescale(p, x, d), d, x) = p
<1>1. PICK u \in Nat : /\ u = Rescale(p, x, d)
                       /\ 2 * (u * d) <= 2 * (p * x) + d
                       /\ 2 * (p * x) + d < 2 * (u * d) + 2 * d
  BY RescaleNearest
<1>2. Rescale(u, d, x) = (2 * u * d + x) \div (2 * x)
  BY DEF Rescale
<1> DEFINE k == 2 * u * d + x
           product == u * d
           numerator == p * x
<1>3. /\ product \in Int /\ numerator \in Int /\ k \in Int
      /\ k = 2 * product + x /\ p * (2 * x) = 2 * numerator
  OBVIOUS
<1>4. /\ 2 * product <= 2 * numerator + d
      /\ 2 * numerator + d < 2 * product + 2 * d
  BY <1>1
<1>5. 2 * numerator <= k
  <2> HIDE DEF product, numerator, k
  <2> QED
    BY <1>3, <1>4
<1>6. k < 2 * numerator + 2 * x
  <2>1. CASE d < x
    <3> HIDE DEF product, numerator, k
    <3> QED
      BY <1>3, <1>4, <2>1
  <2>2. CASE d = x
    <3>1. u <= p
      <4>1. ASSUME p + 1 <= u
            PROVE  FALSE
        <5>1. (p + 1) * x <= u * x
          BY <4>1, Multiples
        <5>2. (p + 1) * x = p * x + x
          OBVIOUS
        <5>3. u * x = product
          BY <2>2
        <5>4. numerator + x <= product
          BY <5>1, <5>2, <5>3
        <5> HIDE DEF product, numerator, k
        <5> QED
          BY <1>3, <1>4, <2>2, <5>4
      <4> QED
        BY <4>1
    <3>2. u * x <= p * x
      BY <3>1, Multiples
    <3>3. product <= numerator
      BY <2>2, <3>2
    <3> HIDE DEF product, numerator, k
    <3> QED
      BY <1>3, <3>3
  <2> QED
    BY <2>1, <2>2
<1>7. k \div (2 * x) = p
  <2>1. 2 * x \in Nat \ {0} /\ p * (2 * x) <= k /\ k < p * (2 * x) + 2 * x
    BY <1>3, <1>5, <1>6
  <2> HIDE DEF k
  <2> QED
    BY <1>3, <2>1, QuotientIs
<1> QED
  BY <1>1, <1>2, <1>7

LEMMA TickSurvives ==
  ASSUME NEW pts \in Int, NEW timebase \in [num : Nat \ {0}, den : Nat \ {0}]
  PROVE  TicksSurvive(pts, timebase)
<1> DEFINE x == timebase.num * MicrosPerSecond
           d == timebase.den
<1>1. x \in Nat \ {0} /\ d \in Nat \ {0}
  <2>1. timebase.num \in Nat \ {0} /\ MicrosPerSecond \in Nat \ {0} /\ d \in Nat \ {0}
    BY TimebaseAssumption
  <2>2. x \in Nat
    BY <2>1
  <2>3. 1 * MicrosPerSecond <= x /\ 1 * MicrosPerSecond = MicrosPerSecond
    BY <2>1, Multiples
  <2> HIDE DEF x
  <2> QED
    BY <2>1, <2>2, <2>3
<1>2. 1 * timebase.den = d
  BY <1>1
<1>3. \A t \in Int : /\ ToMicroseconds(t, timebase) = Rescale(t, x, d)
                     /\ FromMicroseconds(t, timebase) = Rescale(t, d, x)
  BY <1>2 DEF ToMicroseconds, FromMicroseconds, RescaleQ, kWebcodecsTimebase
<1> SUFFICES ASSUME d <= x
             PROVE  FromMicroseconds(ToMicroseconds(pts, timebase), timebase) = pts
  BY <1>1 DEF TicksSurvive
<1> HIDE DEF x, d
<1>4. CASE pts >= 0
  BY <1>1, <1>3, <1>4, RescaleBack
<1>5. CASE pts < 0
  <2>1. PICK p \in Nat : p = -pts /\ pts = -p
    BY <1>5
  <2>2. PICK u \in Nat : u = Rescale(p, x, d) /\ Rescale(u, d, x) = p
    BY <1>1, RescaleBack
  <2>3. Rescale(pts, x, d) = -u /\ Rescale(-u, d, x) = -p
    BY <1>1, <2>1, <2>2, RescaleOdd
  <2>4. -u \in Int
    OBVIOUS
  <2> QED
    BY <1>3, <2>1, <2>3, <2>4
<1> QED
  BY <1>4, <1>5

LEMMA OrderSurvives ==
  ASSUME NEW early \in Int, NEW late \in Int, NEW timebase \in [num : Nat \ {0}, den : Nat \ {0}]
  PROVE  OrderSurvivesWrap(early, late, timebase)
<1> SUFFICES ASSUME timebase.den = MpegTsClock, early < late, late - early < WrapThreshold
             PROVE  /\ PtsLessThan(early % PtsWrap, late % PtsWrap, timebase)
                    /\ ~PtsLessThan(late % PtsWrap, early % PtsWrap, timebase)
                    /\ PtsDiffUs(late % PtsWrap, early % PtsWrap, timebase)
                         = ToMicroseconds(late - early, timebase)
  BY DEF OrderSurvivesWrap
<1>1. PtsWrap \in Nat \ {0} /\ PtsWrap % 2 = 0
  BY TimebaseAssumption
<1>2. WrapThreshold \in Int /\ PtsWrap = 2 * WrapThreshold
  BY <1>1 DEF WrapThreshold
<1>3. PICK i \in Int, e \in 0 .. PtsWrap - 1 : e = early % PtsWrap /\ early = i * PtsWrap + e
  <2>1. \E q \in Int, r \in 0 .. PtsWrap - 1 :
          q = early \div PtsWrap /\ r = early % PtsWrap /\ early = q * PtsWrap + r
    BY <1>1, Divides, Zenon
  <2> QED
    BY <2>1, Zenon
<1>4. PICK j \in Int, l \in 0 .. PtsWrap - 1 : l = late % PtsWrap /\ late = j * PtsWrap + l
  <2>1. \E q \in Int, r \in 0 .. PtsWrap - 1 :
          q = late \div PtsWrap /\ r = late % PtsWrap /\ late = q * PtsWrap + r
    BY <1>1, Divides, Zenon
  <2> QED
    BY <2>1, Zenon
<1> DEFINE wraps == (j - i) * PtsWrap
<1>5. wraps = j * PtsWrap - i * PtsWrap /\ i * PtsWrap \in Int /\ j * PtsWrap \in Int
  BY <1>1
<1>6. wraps \in Int /\ late - early = wraps + (l - e)
  BY <1>1, <1>3, <1>4, <1>5
<1>7. wraps = 0 \/ wraps = PtsWrap
  <2>1. j - i >= 2 => 2 * PtsWrap <= wraps
    BY <1>1, Multiples
  <2>2. j - i <= -1 => wraps <= (-1) * PtsWrap
    BY <1>1, Multiples
  <2>3. j - i = 0 => wraps = 0
    BY <1>1
  <2>4. j - i = 1 => wraps = PtsWrap
    BY <1>1
  <2> HIDE DEF wraps
  <2>5. ~(j - i >= 2) /\ ~(j - i <= -1)
    BY <1>1, <1>2, <1>3, <1>4, <1>6, <2>1, <2>2
  <2> QED
    BY <2>3, <2>4, <2>5
<1> HIDE DEF wraps
<1>8. CASE wraps = 0
  <2>1. l - e = late - early
    BY <1>3, <1>4, <1>6, <1>8
  <2>2. /\ ~(l - e > WrapThreshold) /\ ~(l - e < -WrapThreshold) /\ e < l
        /\ ~(e - l > WrapThreshold) /\ ~(e - l < -WrapThreshold) /\ ~(l < e)
    BY <1>2, <1>3, <1>4, <2>1
  <2>3. PtsLessThan(e, l, timebase) /\ ~PtsLessThan(l, e, timebase)
    BY <2>2 DEF PtsLessThan
  <2>4. PtsDiffUs(l, e, timebase) = ToMicroseconds(late - early, timebase)
    BY <2>1, <2>2 DEF PtsDiffUs
  <2> QED
    BY <1>3, <1>4, <2>3, <2>4
<1>9. CASE wraps = PtsWrap
  <2>1. l - e + PtsWrap = late - early
    BY <1>1, <1>3, <1>4, <1>6, <1>9
  <2>2. ~(l - e > WrapThreshold) /\ l - e < -WrapThreshold /\ e - l > WrapThreshold
    BY <1>2, <1>3, <1>4, <2>1
  <2>3. PtsLessThan(e, l, timebase) /\ ~PtsLessThan(l, e, timebase)
    BY <2>2 DEF PtsLessThan
  <2>4. PtsDiffUs(l, e, timebase) = ToMicroseconds(late - early, timebase)
    BY <2>1, <2>2 DEF PtsDiffUs
  <2> QED
    BY <1>3, <1>4, <2>3, <2>4
<1> QED
  BY <1>7, <1>8, <1>9

(* Every timestamp survives, whatever objects there are.                   *)
THEOREM MediaTimestampsSurvive == Spec => []TimestampsSurvive
<1>1. ConversionsRight
  BY TimebaseAssumption, TickSurvives, OrderSurvives DEF ConversionsRight
<1>2. TimestampsSurvive
  BY <1>1 DEF TimestampsSurvive
<1> QED
  BY <1>2, PTL
=============================================================================
