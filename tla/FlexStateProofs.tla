-------------------------- MODULE FlexStateProofs --------------------------
(***************************************************************************)
(* Proofs about the cached state: the two maps of MeterMap stay inverse    *)
(* whatever ids and names the radio gives out, the events tell what the    *)
(* cache says, and the cache follows the radio.                            *)
(***************************************************************************)
EXTENDS FlexState, Integers, SequenceTheorems, TLAPS

-----------------------------------------------------------------------------
(* Queues: what appending and taking the first do to a sequence.           *)

\* Appending a line leaves the others.
LEMMA AppendLine ==
  ASSUME NEW S, NEW q \in Seq(S), NEW x \in S
  PROVE  /\ Append(q, x) \in Seq(S) /\ Len(q) \in Nat
         /\ Len(Append(q, x)) = Len(q) + 1
         /\ Append(q, x)[Len(q) + 1] = x
         /\ \A i \in 1..Len(q) : Append(q, x)[i] = q[i]
         /\ \A i \in 1..Len(Append(q, x)) : i \in 1..Len(q) \/ i = Len(q) + 1
OBVIOUS

\* Taking the first line leaves the others, one place further ahead.
LEMMA TailLine ==
  ASSUME NEW S, NEW q \in Seq(S), q # <<>>
  PROVE  /\ Head(q) = q[1] /\ 1 \in 1..Len(q) /\ Len(q) \in Nat
         /\ Tail(q) \in Seq(S) /\ Len(Tail(q)) = Len(q) - 1
         /\ \A i \in 1..Len(Tail(q)) : Tail(q)[i] = q[i + 1] /\ i + 1 \in 1..Len(q) /\ i + 1 # 1
         /\ \A i \in 1..Len(q) : i = 1 \/ (i - 1 \in 1..Len(Tail(q)) /\ Tail(q)[i - 1] = q[i])
BY HeadTailProperties

-----------------------------------------------------------------------------
(* MeterMap: removals and insertion.                                       *)

\* Removing what an id was called keeps the maps inverse; the id is unknown then.
LEMMA WithoutIdInverse ==
  ASSUME NEW m, NEW id, AreInverse(m)
  PROVE  /\ AreInverse(WithoutId(m, id))
         /\ id \notin DOMAIN WithoutId(m, id).names
<1>1. CASE id \in DOMAIN m.names
  <2>1. /\ WithoutId(m, id).ids = Remove(m.ids, m.names[id])
        /\ WithoutId(m, id).names = Remove(m.names, id)
    BY <1>1 DEF WithoutId
  <2>2. QED BY <1>1, <2>1 DEF AreInverse, Remove
<1>2. CASE id \notin DOMAIN m.names
  BY <1>2 DEF WithoutId
<1>3. QED BY <1>1, <1>2

\* Removing the id of a name keeps them inverse, too; the name is unknown then, and
\* no id becomes known.
LEMMA WithoutNameInverse ==
  ASSUME NEW m, NEW name, AreInverse(m)
  PROVE  /\ AreInverse(WithoutName(m, name))
         /\ name \notin DOMAIN WithoutName(m, name).ids
         /\ DOMAIN WithoutName(m, name).names \subseteq DOMAIN m.names
<1>1. CASE name \in DOMAIN m.ids
  <2>1. /\ WithoutName(m, name).ids = Remove(m.ids, name)
        /\ WithoutName(m, name).names = Remove(m.names, m.ids[name])
    BY <1>1 DEF WithoutName
  <2>2. QED BY <1>1, <2>1 DEF AreInverse, Remove
<1>2. CASE name \notin DOMAIN m.ids
  BY <1>2 DEF WithoutName
<1>3. QED BY <1>1, <1>2

\* MeterMap::insert keeps the maps inverse and makes the new pair known.
LEMMA InsertInverse ==
  ASSUME NEW m, NEW id, NEW name, AreInverse(m)
  PROVE  /\ AreInverse(Insert(m, id, name))
         /\ Insert(m, id, name).ids[name] = id
         /\ Insert(m, id, name).names[id] = name
<1> DEFINE n == WithoutName(WithoutId(m, id), name)
<1>1. /\ AreInverse(n)
      /\ id \notin DOMAIN n.names
      /\ name \notin DOMAIN n.ids
  BY WithoutIdInverse, WithoutNameInverse
<1>2. /\ Insert(m, id, name).ids = Put(n.ids, name, id)
      /\ Insert(m, id, name).names = Put(n.names, id, name)
  BY DEF Insert
<1> HIDE DEF n
<1>3. QED BY <1>1, <1>2 DEF AreInverse, Put

\* Types: an insertion adds one id and one name.
LEMMA RemoveType ==
  ASSUME NEW A, NEW B, NEW f, f \in [DOMAIN f -> B], DOMAIN f \subseteq A, NEW k
  PROVE  /\ Remove(f, k) \in [DOMAIN Remove(f, k) -> B]
         /\ DOMAIN Remove(f, k) \subseteq A
BY DEF Remove

LEMMA PutType ==
  ASSUME NEW A, NEW B, NEW f, f \in [DOMAIN f -> B], DOMAIN f \subseteq A,
         NEW k \in A, NEW v \in B
  PROVE  /\ Put(f, k, v) \in [DOMAIN Put(f, k, v) -> B]
         /\ DOMAIN Put(f, k, v) \subseteq A
BY DEF Put

LEMMA InsertType ==
  ASSUME NEW Ids, NEW Names, NEW m, MapType(m, Ids, Names),
         NEW id \in Ids, NEW name \in Names
  PROVE  MapType(Insert(m, id, name), Ids, Names)
<1> DEFINE a == WithoutId(m, id)
           n == WithoutName(a, name)
<1>1. MapType(a, Ids, Names)
  BY RemoveType DEF WithoutId, MapType
<1> HIDE DEF a
<1>2. MapType(n, Ids, Names)
  BY <1>1, RemoveType DEF WithoutName, MapType
<1>3. Insert(m, id, name) = [ids |-> Put(n.ids, name, id), names |-> Put(n.names, id, name)]
  BY DEF Insert, a
<1> HIDE DEF n
<1>4. /\ Put(n.ids, name, id) \in [DOMAIN Put(n.ids, name, id) -> Ids]
      /\ DOMAIN Put(n.ids, name, id) \subseteq Names
  BY <1>2, PutType DEF MapType
<1>5. /\ Put(n.names, id, name) \in [DOMAIN Put(n.names, id, name) -> Names]
      /\ DOMAIN Put(n.names, id, name) \subseteq Ids
  BY <1>2, PutType DEF MapType
<1>6. QED BY <1>3, <1>4, <1>5 DEF MapType

-----------------------------------------------------------------------------
(* The cache.                                                              *)

\* A status line updates a slice within its type.
LEMMA UpdateType ==
  ASSUME NEW f, SliceType(f), NEW s \in Params
  PROVE  SliceType(Update(f, s))
<1>1. CASE s = <<>>
  <2>1. \A k \in Keys : k \notin DOMAIN s
    BY <1>1 DEF Keys
  <2>2. QED BY <2>1 DEF SliceType, Update
<1>2. CASE s \in Statuses \cup {FullStatus}
  BY <1>2 DEF SliceType, Update
<1>3. QED BY <1>1, <1>2 DEF Params

LEMMA DefaultType == SliceType(Default)
BY DEF SliceType, Default

\* The line at the head of the wire is a line, and so is the rest.
LEMMA ReadLines ==
  ASSUME TypeOK, NEW object, Reads(object)
  PROVE  /\ Head(wire) \in Lines /\ Head(wire).object = object
         /\ wire' \in Seq(Lines)
BY DEF TypeOK, Reads

LEMMA SendLines ==
  ASSUME TypeOK, NEW l \in Lines, Sends(l)
  PROVE  wire' \in Seq(Lines) /\ changes' \in 0 .. MaxChanges
BY FlexStateAssumption DEF TypeOK, Sends

LEMMA PutSlice ==
  ASSUME NEW f, DOMAIN f \subseteq Slices, \A j \in DOMAIN f : SliceType(f[j]),
         NEW i \in Slices, NEW v, SliceType(v)
  PROVE  /\ DOMAIN Put(f, i, v) \subseteq Slices
         /\ \A j \in DOMAIN Put(f, i, v) : SliceType(Put(f, i, v)[j])
BY DEF Put

LEMMA FullType == SliceType(FullStatus)
BY FlexStateAssumption DEF SliceType

LEMMA TypeInit == Init => TypeOK
<1> SUFFICES ASSUME Init PROVE TypeOK
  OBVIOUS
<1>1. MapType(meters, MeterIds, MeterNames)
  BY DEF Init, MapType, EmptyMap
<1>2. ritOf \in [DOMAIN Settings -> Slices \cup {NoSlice}]
  BY DEF Init
<1>3. onAir \in [radio : BOOLEAN, cache : BOOLEAN, view : BOOLEAN]
  BY DEF Init
<1>4. /\ DOMAIN slices \subseteq Slices /\ \A i \in DOMAIN slices : SliceType(slices[i])
      /\ DOMAIN radio \subseteq Slices /\ \A i \in DOMAIN radio : SliceType(radio[i])
      /\ DOMAIN values \subseteq MeterIds
  <2>1. \A x : x \notin DOMAIN slices
    BY DEF Init
  <2>2. \A x : x \notin DOMAIN radio
    BY DEF Init
  <2>3. \A x : x \notin DOMAIN values
    BY DEF Init
  <2>4. QED BY <2>1, <2>2, <2>3
<1>5. wire \in Seq(Lines) /\ changes \in 0 .. MaxChanges
  BY FlexStateAssumption DEF Init
<1>6. named \in [MeterIds -> MeterNames \cup {NoName}]
  BY DEF Init
<1>7. packets \subseteq [id : MeterIds, name : MeterNames]
  BY DEF Init
<1>8. QED BY <1>1, <1>2, <1>3, <1>4, <1>5, <1>6, <1>7 DEF TypeOK

\* Types are kept by every step.
LEMMA TypeStep == TypeOK /\ [Next]_vars => TypeOK'
<1> SUFFICES ASSUME TypeOK, [Next]_vars PROVE TypeOK'
  OBVIOUS
<1> USE FlexStateAssumption
<1>1. ASSUME NEW i \in Slices, RadioSlice(i) PROVE TypeOK'
  <2>1. PICK s \in Statuses \cup {FullStatus} :
          /\ i \notin DOMAIN radio => s = FullStatus
          /\ radio' = Put(radio, i, IF i \in DOMAIN radio THEN Update(radio[i], s) ELSE s)
          /\ Sends([object |-> "slice", index |-> i, params |-> s])
    BY <1>1 DEF RadioSlice
  <2>2. [object |-> "slice", index |-> i, params |-> s] \in Lines
    BY DEF Lines, Params
  <2>3. SliceType(IF i \in DOMAIN radio THEN Update(radio[i], s) ELSE s)
    BY <2>1, UpdateType, FullType DEF TypeOK, Params
  <2>4. DOMAIN radio' \subseteq Slices /\ \A j \in DOMAIN radio' : SliceType(radio'[j])
    BY <2>1, <2>3, PutSlice DEF TypeOK
  <2>5. wire' \in Seq(Lines) /\ changes' \in 0 .. MaxChanges
    BY <2>1, <2>2, SendLines
  <2>6. QED BY <1>1, <2>4, <2>5 DEF RadioSlice, TypeOK, sliceVars, meterVars
<1>2. ASSUME NEW i \in Slices, RadioRemoves(i) PROVE TypeOK'
  <2>1. [object |-> "slice", index |-> i, params |-> <<>>] \in Lines
    BY DEF Lines, Params
  <2>2. wire' \in Seq(Lines) /\ changes' \in 0 .. MaxChanges
    BY <1>2, <2>1, SendLines DEF RadioRemoves
  <2>3. DOMAIN radio' \subseteq Slices /\ \A j \in DOMAIN radio' : SliceType(radio'[j])
    BY <1>2 DEF RadioRemoves, Remove, TypeOK
  <2>4. QED BY <1>2, <2>2, <2>3 DEF RadioRemoves, TypeOK, sliceVars, meterVars
<1>3. CASE RadioTx
  <2>1. [object |-> "tx", on |-> ~onAir.radio] \in Lines
    BY DEF Lines, TypeOK
  <2>2. wire' \in Seq(Lines) /\ changes' \in 0 .. MaxChanges
    BY <1>3, <2>1, SendLines DEF RadioTx
  <2>3. onAir' \in [{"radio", "cache", "view"} -> BOOLEAN]
    BY <1>3 DEF RadioTx, TypeOK
  <2>4. QED BY <1>3, <2>2, <2>3 DEF RadioTx, TypeOK, sliceVars, meterVars
<1>4. ASSUME NEW id \in MeterIds, RadioMeter(id) PROVE TypeOK'
  <2>1. PICK name \in MeterNames \cup {NoName} :
          /\ named' = IF name = NoName THEN named
                      ELSE [x \in MeterIds |-> IF x = id THEN name
                                               ELSE IF named[x] = name THEN NoName ELSE named[x]]
          /\ Sends([object |-> "meter", id |-> id, name |-> name])
    BY <1>4 DEF RadioMeter
  <2>2. [object |-> "meter", id |-> id, name |-> name] \in Lines
    BY DEF Lines
  <2>3. wire' \in Seq(Lines) /\ changes' \in 0 .. MaxChanges
    BY <2>1, <2>2, SendLines
  <2>4. named' \in [MeterIds -> MeterNames \cup {NoName}]
    BY <2>1 DEF TypeOK
  <2>5. QED BY <1>4, <2>3, <2>4 DEF RadioMeter, TypeOK, sliceVars, meterVars
<1>5. ASSUME NEW id \in MeterIds, RadioReports(id) PROVE TypeOK'
  BY <1>5 DEF RadioReports, TypeOK, sliceVars
<1>6. CASE ReadSlice
  <2> DEFINE i == Head(wire).index
             s == Head(wire).params
             old == IF i \in DOMAIN slices THEN slices[i] ELSE Default
  <2>1. i \in Slices /\ s \in Params /\ wire' \in Seq(Lines)
    BY <1>6, ReadLines DEF ReadSlice, Lines
  <2>2. SliceType(Update(old, s))
    BY <2>1, UpdateType, DefaultType DEF TypeOK
  <2>3. slices' = Put(slices, i, Update(old, s))
    BY <1>6 DEF ReadSlice, Stored
  <2>4. DOMAIN slices' \subseteq Slices /\ \A j \in DOMAIN slices' : SliceType(slices'[j])
    BY <2>1, <2>2, <2>3, PutSlice DEF TypeOK
  <2>5. ritOf' \in [DOMAIN Settings -> Slices \cup {NoSlice}]
    BY <1>6, <2>1 DEF ReadSlice, TypeOK
  <2>6. QED BY <1>6, <2>1, <2>4, <2>5 DEF ReadSlice, TypeOK, meterVars
<1>7. CASE ReadTx
  <2>1. Head(wire).on \in BOOLEAN /\ wire' \in Seq(Lines)
    BY <1>7, ReadLines DEF ReadTx, Lines
  <2>2. onAir' \in [{"radio", "cache", "view"} -> BOOLEAN]
    BY <1>7, <2>1 DEF ReadTx, TypeOK
  <2>3. QED BY <1>7, <2>1, <2>2 DEF ReadTx, TypeOK, sliceVars, meterVars
<1>8. CASE ReadMeter
  <2>1. /\ Head(wire).id \in MeterIds /\ Head(wire).name \in MeterNames \cup {NoName}
        /\ wire' \in Seq(Lines)
    BY <1>8, ReadLines DEF ReadMeter, Lines
  <2>2. MapType(meters', MeterIds, MeterNames)
    BY <1>8, <2>1, InsertType DEF ReadMeter, TypeOK
  <2>3. QED BY <1>8, <2>1, <2>2 DEF ReadMeter, TypeOK, sliceVars
<1>9. CASE ReceivePacket
  BY <1>9 DEF ReceivePacket, TypeOK, sliceVars, Put
<1>10. CASE UNCHANGED vars
  BY <1>10 DEF vars, sliceVars, meterVars, TypeOK
<1>11. QED
  BY <1>1, <1>2, <1>3, <1>4, <1>5, <1>6, <1>7, <1>8, <1>9, <1>10 DEF Next

\* The cache, the radio and what is under way between them keep their types: what
\* the radio sends is all that gets into the cache.
THEOREM TypeCorrect == Spec => []TypeOK
<1>1. QED BY TypeInit, TypeStep, PTL DEF Spec

\* No step disturbs the two maps.
LEMMA MetersStep == MetersInverse /\ [Next]_vars => MetersInverse'
<1> SUFFICES ASSUME MetersInverse, [Next]_vars PROVE MetersInverse'
  OBVIOUS
<1>1. CASE ReadMeter
  BY <1>1, InsertInverse DEF ReadMeter, MetersInverse
<1>2. CASE meters' = meters
  BY <1>2 DEF MetersInverse
<1>3. ReadMeter \/ meters' = meters
  BY DEF Next, RadioSlice, RadioRemoves, RadioTx, RadioMeter, RadioReports, ReadSlice,
         ReadTx, ReceivePacket, vars, meterVars
<1>4. QED BY <1>1, <1>2, <1>3

\* A lookup of a meter by name finds the id that has this name, for any number of
\* meters and whatever ids and names the radio gives out again (MeterMap::insert).
THEOREM MapsStayInverse == Spec => []MetersInverse
<1>1. Init => MetersInverse
  BY DEF Init, MetersInverse, AreInverse, EmptyMap
<1>2. QED BY <1>1, MetersStep, PTL DEF Spec

-----------------------------------------------------------------------------
(* What the events tell.                                                   *)

\* Nothing was said of a slice that is not cached, and the slice of the last event
\* about RIT or XIT is cached.
ViewAhead ==
  /\ \A i \in Slices \ DOMAIN slices : \A k \in Told : view[i][k] = Default[k]
  /\ \A o \in DOMAIN Settings : ritOf[o] # NoSlice => ritOf[o] \in DOMAIN slices
  /\ view = [i \in Slices |-> [k \in Told |-> view[i][k]]]
  /\ viewRit = [o \in DOMAIN Settings |-> viewRit[o]]

ViewInv == TypeOK /\ ViewAhead /\ EventsTell

\* The pair of settings of a slice that an event about RIT, or XIT, carries.
Pair(o, f) == <<f[Settings[o][1]], f[Settings[o][2]]>>

\* The last event of a line about RIT, or XIT, carries what is cached then; without
\* an event nothing has changed.
LEMMA LastOffsetEvent ==
  ASSUME NEW o, NEW old, NEW s
  PROVE  LET e == OffsetEvents(o, old, s)
         IN IF e = <<>> THEN Pair(o, Update(old, s)) = Pair(o, old)
                        ELSE e[Len(e)] = Pair(o, Update(old, s))
<1> DEFINE on == Settings[o][1]
           hz == Settings[o][2]
           new == Update(old, s)
           e == OffsetEvents(o, old, s)
<1>1. CASE new[on] # old[on] /\ new[hz] # old[hz]
  <2>1. e = <<Pair(o, new), Pair(o, new)>>
    BY <1>1 DEF OffsetEvents, Pair
  <2>2. QED BY <2>1
<1>2. CASE new[on] = old[on] /\ new[hz] = old[hz]
  <2>1. e = <<>>
    BY <1>2 DEF OffsetEvents
  <2>2. QED BY <1>2, <2>1 DEF Pair
<1>3. CASE ~(new[on] # old[on] /\ new[hz] # old[hz]) /\ ~(new[on] = old[on] /\ new[hz] = old[hz])
  <2>1. e = <<Pair(o, new)>>
    BY <1>3 DEF OffsetEvents, Pair
  <2>2. QED BY <2>1
<1>4. QED BY <1>1, <1>2, <1>3

LEMMA ViewInit == Init => ViewInv
<1> SUFFICES ASSUME Init PROVE ViewInv
  OBVIOUS
<1>1. TypeOK
  BY TypeInit
<1>2. \A x : x \notin DOMAIN slices
  BY DEF Init
<1>3. \A o \in DOMAIN Settings : ritOf[o] = NoSlice
  BY DEF Init
<1>4. onAir.view = onAir.cache
  BY DEF Init
<1>5. /\ view = [i \in Slices |-> [k \in Told |-> Default[k]]]
      /\ viewRit = [o \in DOMAIN Settings |-> <<FALSE, 0>>]
  BY DEF Init
<1>6. ViewAhead
  BY <1>2, <1>3, <1>5 DEF ViewAhead
<1>7. QED BY <1>1, <1>2, <1>3, <1>4, <1>6 DEF ViewInv, EventsTell

\* A status line of a slice: cache and view move together.
LEMMA ViewReadSlice ==
  ASSUME ViewInv, ReadSlice
  PROVE  ViewAhead' /\ EventsTell'
<1> DEFINE i == Head(wire).index
           s == Head(wire).params
           old == IF i \in DOMAIN slices THEN slices[i] ELSE Default
           new == Update(old, s)
           tells(o) == OffsetEvents(o, old, s)
<1>1. i \in Slices
  BY ReadLines DEF ReadSlice, Lines, ViewInv
<1>2. /\ slices' = Put(slices, i, new)
      /\ view' = [view EXCEPT ![i] =
                    [k \in Told |-> IF new[k] # old[k] /\ Known(k, new[k]) THEN new[k]
                                    ELSE view[i][k]]]
      /\ viewRit' = [o \in DOMAIN Settings |->
                       IF tells(o) = <<>> THEN viewRit[o] ELSE tells(o)[Len(tells(o))]]
      /\ ritOf' = [o \in DOMAIN Settings |-> IF tells(o) = <<>> THEN ritOf[o] ELSE i]
      /\ onAir' = onAir
  BY DEF ReadSlice, Stored
<1>3. \A o \in DOMAIN Settings :
        /\ tells(o) = <<>> => Pair(o, new) = Pair(o, old)
        /\ tells(o) # <<>> => tells(o)[Len(tells(o))] = Pair(o, new)
  BY LastOffsetEvent
<1>4. \A k \in Told : Known(k, old[k]) => view[i][k] = old[k]
  BY <1>1 DEF ViewInv, ViewAhead, EventsTell
<1> HIDE DEF i, s, old, new, tells
<1>5. /\ slices'[i] = new /\ i \in DOMAIN slices'
      /\ \A j \in DOMAIN slices : j # i => slices'[j] = slices[j]
      /\ DOMAIN slices' = DOMAIN slices \cup {i}
  BY <1>2 DEF Put
<1>6. /\ view' = [j \in Slices |-> [k \in Told |-> view'[j][k]]]
      /\ \A j \in Slices : j # i => view'[j] = view[j]
      /\ \A k \in Told : view'[i][k] = IF new[k] # old[k] /\ Known(k, new[k]) THEN new[k]
                                        ELSE view[i][k]
  BY <1>1, <1>2 DEF ViewInv, ViewAhead
<1>7. ViewAhead'
  BY <1>2, <1>5, <1>6 DEF ViewInv, ViewAhead
<1>8. \A j \in DOMAIN slices' : \A k \in Told :
        Known(k, slices'[j][k]) => view'[j][k] = slices'[j][k]
  <2> TAKE j \in DOMAIN slices'
  <2> TAKE k \in Told
  <2>1. CASE j = i
    BY <2>1, <1>4, <1>5, <1>6
  <2>2. CASE j # i
    BY <2>2, <1>5, <1>6 DEF ViewInv, EventsTell, TypeOK
  <2>3. QED BY <2>1, <2>2
<1>9. \A o \in DOMAIN Settings : ritOf'[o] # NoSlice => viewRit'[o] = Pair(o, slices'[ritOf'[o]])
  <2> TAKE o \in DOMAIN Settings
  <2>1. CASE tells(o) # <<>>
    BY <2>1, <1>2, <1>3, <1>5
  <2>2. CASE tells(o) = <<>>
    <3>1. ritOf'[o] = ritOf[o] /\ viewRit'[o] = viewRit[o]
      BY <2>2, <1>2
    <3>2. ritOf[o] # NoSlice => ritOf[o] \in DOMAIN slices /\ viewRit[o] = Pair(o, slices[ritOf[o]])
      BY DEF ViewInv, ViewAhead, EventsTell, Pair
    <3>3. ritOf[o] = i /\ i \in DOMAIN slices => slices[i] = old
      BY DEF old
    <3>4. QED BY <3>1, <3>2, <3>3, <2>2, <1>3, <1>5
  <2>3. QED BY <2>1, <2>2
<1>10. QED
  BY <1>2, <1>7, <1>8, <1>9 DEF ViewInv, EventsTell, Pair

LEMMA ViewStep == ViewInv /\ [Next]_vars => ViewInv'
<1> SUFFICES ASSUME ViewInv, [Next]_vars PROVE ViewInv'
  OBVIOUS
<1>1. TypeOK'
  BY TypeStep DEF ViewInv
<1>2. CASE ReadSlice
  BY <1>1, <1>2, ViewReadSlice DEF ViewInv
<1>3. CASE RadioTx \/ ReadTx
  <2>1. UNCHANGED sliceVars
    BY <1>3 DEF RadioTx, ReadTx
  <2>2. onAir'.view = onAir'.cache
    BY <1>3 DEF RadioTx, ReadTx, ViewInv, TypeOK, EventsTell
  <2>3. QED BY <1>1, <2>1, <2>2 DEF ViewInv, ViewAhead, EventsTell, sliceVars
<1>4. CASE UNCHANGED <<sliceVars, onAir>>
  BY <1>1, <1>4 DEF ViewInv, ViewAhead, EventsTell, sliceVars
<1>5. ReadSlice \/ RadioTx \/ ReadTx \/ UNCHANGED <<sliceVars, onAir>>
  BY DEF Next, RadioSlice, RadioRemoves, RadioMeter, RadioReports, ReadMeter, ReceivePacket, vars
<1>6. QED BY <1>2, <1>3, <1>4, <1>5

\* An application that only follows the events knows what the cache says, for any
\* slices and any status lines (process_status compares with the cache before it
\* publishes): the invariant needs that nothing was said of a slice not yet cached,
\* whose default values the application starts from.
THEOREM EventsTellTheCache == Spec => []EventsTell
<1>1. ViewInv => EventsTell
  BY DEF ViewInv
<1>2. QED BY ViewInit, ViewStep, <1>1, PTL DEF Spec

-----------------------------------------------------------------------------
(* What the cache will say when everything under way has been read: of     *)
(* each thing the radio has, the last line under way about it, or else the *)
(* cache, says what the radio has.                                         *)

\* The last line of q that is in W is in G; no line of q is in W.
Ends(q, W, G) == \E n \in 1..Len(q) : q[n] \in G /\ \A m \in 1..Len(q) : q[m] \in W => m <= n
None(q, W)    == \A m \in 1..Len(q) : q[m] \notin W

\* The lines about setting k of slice i, and those among them that say v.
SliceLines(i, k) == {l \in Lines : l.object = "slice" /\ l.index = i /\ k \in DOMAIN l.params}
Saying(i, k, v)  == {l \in SliceLines(i, k) : l.params[k] = v}

TxLines     == {l \in Lines : l.object = "tx"}
Keying(on)  == {l \in TxLines : l.on = on}

\* The lines that change who has meter id, or who is called name.
Naming(id, name) ==
  {l \in Lines : l.object = "meter" /\ l.name # NoName /\ (l.id = id \/ l.name = name)}
Called(id, name) == {l \in Naming(id, name) : l.id = id /\ l.name = name}

\* Each setting is as the last line about it says, or already in the cache.
SlicesFollow ==
  \A i \in DOMAIN radio : \A k \in Keys :
    \/ Ends(wire, SliceLines(i, k), Saying(i, k, radio[i][k]))
    \/ None(wire, SliceLines(i, k)) /\ i \in DOMAIN slices /\ slices[i][k] = radio[i][k]
AirFollows ==
  \/ Ends(wire, TxLines, Keying(onAir.radio))
  \/ None(wire, TxLines) /\ onAir.cache = onAir.radio
NamesFollow ==
  \A id \in MeterIds : named[id] # NoName =>
    \/ Ends(wire, Naming(id, named[id]), Called(id, named[id]))
    \/ None(wire, Naming(id, named[id])) /\ id \in DOMAIN meters.names /\ meters.names[id] = named[id]

\* Slices are functions on Keys and nothing else.
Slicing ==
  /\ \A i \in DOMAIN radio : radio[i] = [k \in Keys |-> radio[i][k]]
  /\ \A i \in DOMAIN slices : slices[i] = [k \in Keys |-> slices[i][k]]

Follows == SlicesFollow /\ AirFollows /\ NamesFollow /\ Slicing

\* A line that is sent is the last; one that is read was the first.
LEMMA EndsSent ==
  ASSUME NEW S, NEW q \in Seq(S), NEW l \in S, NEW W, NEW G
  PROVE  /\ l \in G => Ends(Append(q, l), W, G)
         /\ l \notin W /\ Ends(q, W, G) => Ends(Append(q, l), W, G)
         /\ l \notin W /\ None(q, W) => None(Append(q, l), W)
<1> DEFINE p == Append(q, l)
<1>1. /\ Len(q) \in Nat /\ Len(p) = Len(q) + 1 /\ p[Len(q) + 1] = l
      /\ \A i \in 1..Len(q) : p[i] = q[i]
      /\ \A i \in 1..Len(p) : i \in 1..Len(q) \/ i = Len(q) + 1
  BY AppendLine
<1> HIDE DEF p
<1>2. ASSUME l \in G  PROVE Ends(p, W, G)
  <2>1. Len(q) + 1 \in 1..Len(p) /\ \A m \in 1..Len(p) : m <= Len(q) + 1
    BY <1>1
  <2> QED  BY <1>1, <1>2, <2>1 DEF Ends
<1>3. ASSUME l \notin W, Ends(q, W, G)  PROVE Ends(p, W, G)
  <2>1. PICK n \in 1..Len(q) : q[n] \in G /\ \A m \in 1..Len(q) : q[m] \in W => m <= n
    BY <1>3 DEF Ends
  <2>2. n \in 1..Len(p) /\ p[n] \in G
    BY <1>1, <2>1
  <2>3. \A m \in 1..Len(p) : p[m] \in W => m <= n
    BY <1>1, <1>3, <2>1
  <2> QED  BY <2>2, <2>3 DEF Ends
<1>4. ASSUME l \notin W, None(q, W)  PROVE None(p, W)
  BY <1>1, <1>4 DEF None
<1> QED  BY <1>2, <1>3, <1>4 DEF p

LEMMA EndsRead ==
  ASSUME NEW S, NEW q \in Seq(S), q # <<>>, NEW W, NEW G
  PROVE  /\ Ends(q, W, G) => Ends(Tail(q), W, G) \/ (Head(q) \in G /\ None(Tail(q), W))
         /\ None(q, W) => None(Tail(q), W) /\ Head(q) \notin W
<1> DEFINE t == Tail(q)
<1>1. /\ Head(q) = q[1] /\ 1 \in 1..Len(q) /\ Len(q) \in Nat /\ Len(t) = Len(q) - 1
      /\ \A i \in 1..Len(t) : t[i] = q[i + 1] /\ i + 1 \in 1..Len(q) /\ i + 1 # 1
      /\ \A i \in 1..Len(q) : i = 1 \/ (i - 1 \in 1..Len(t) /\ t[i - 1] = q[i])
  BY TailLine
<1> HIDE DEF t
<1>2. ASSUME Ends(q, W, G)  PROVE Ends(t, W, G) \/ (Head(q) \in G /\ None(t, W))
  <2>1. PICK n \in 1..Len(q) : q[n] \in G /\ \A m \in 1..Len(q) : q[m] \in W => m <= n
    BY <1>2 DEF Ends
  <2>2. CASE n = 1
    <3>1. \A i \in 1..Len(t) : t[i] \notin W
      BY <1>1, <2>1, <2>2
    <3> QED  BY <1>1, <2>1, <2>2, <3>1 DEF None
  <2>3. CASE n # 1
    <3>1. n - 1 \in 1..Len(t) /\ t[n - 1] \in G
      BY <1>1, <2>1, <2>3
    <3>2. \A m \in 1..Len(t) : t[m] \in W => m <= n - 1
      BY <1>1, <2>1
    <3> QED  BY <3>1, <3>2 DEF Ends
  <2> QED  BY <2>2, <2>3
<1>3. ASSUME None(q, W)  PROVE None(t, W) /\ Head(q) \notin W
  BY <1>1, <1>3 DEF None
<1> QED  BY <1>2, <1>3 DEF t

\* The same of the wire, for a step that sends and a step that reads.
LEMMA Sent ==
  ASSUME TypeOK, NEW l \in Lines, Sends(l), NEW W, NEW G
  PROVE  /\ l \in G => Ends(wire', W, G)
         /\ l \notin W /\ Ends(wire, W, G) => Ends(wire', W, G)
         /\ l \notin W /\ None(wire, W) => None(wire', W)
BY EndsSent DEF TypeOK, Sends

LEMMA Read ==
  ASSUME TypeOK, NEW object, Reads(object), NEW W, NEW G
  PROVE  /\ Ends(wire, W, G) => Ends(wire', W, G) \/ (Head(wire) \in G /\ None(wire', W))
         /\ None(wire, W) => None(wire', W) /\ Head(wire) \notin W
BY EndsRead DEF TypeOK, Reads

\* At the start nothing is under way and the radio has nothing.
LEMMA FollowsInit == Init => Follows
<1> SUFFICES ASSUME Init PROVE Follows
  OBVIOUS
<1>1. /\ \A x : x \notin DOMAIN radio /\ x \notin DOMAIN slices
      /\ \A id \in MeterIds : named[id] = NoName
      /\ onAir.cache = onAir.radio
  BY DEF Init
<1>2. None(wire, TxLines)
  BY DEF Init, None
<1> QED  BY <1>1, <1>2 DEF Follows, SlicesFollow, AirFollows, NamesFollow, Slicing

\* What is cached of a slice stays the same if no line about it is sent or read.
LEMMA SlicesKept ==
  ASSUME Follows, UNCHANGED <<radio, slices>>,
         \A i \in DOMAIN radio : \A k \in Keys : \A G :
           /\ Ends(wire, SliceLines(i, k), G) => Ends(wire', SliceLines(i, k), G)
           /\ None(wire, SliceLines(i, k)) => None(wire', SliceLines(i, k))
  PROVE  SlicesFollow' /\ Slicing'
<1>1. Slicing'
  BY DEF Follows, Slicing
<1>2. ASSUME NEW i \in DOMAIN radio, NEW k \in Keys
      PROVE \/ Ends(wire', SliceLines(i, k), Saying(i, k, radio'[i][k]))
            \/ None(wire', SliceLines(i, k)) /\ i \in DOMAIN slices' /\ slices'[i][k] = radio'[i][k]
  BY <1>2 DEF Follows, SlicesFollow
<1> QED  BY <1>1, <1>2 DEF SlicesFollow

\* The same of the transmit state,
LEMMA AirKept ==
  ASSUME Follows, onAir'.radio = onAir.radio, onAir'.cache = onAir.cache,
         \A G : /\ Ends(wire, TxLines, G) => Ends(wire', TxLines, G)
                /\ None(wire, TxLines) => None(wire', TxLines)
  PROVE  AirFollows'
BY DEF Follows, AirFollows

\* and of the names of the meters.
LEMMA NamesKept ==
  ASSUME Follows, UNCHANGED <<named, meters>>,
         \A id \in MeterIds : \A G :
           /\ Ends(wire, Naming(id, named[id]), G) => Ends(wire', Naming(id, named[id]), G)
           /\ None(wire, Naming(id, named[id])) => None(wire', Naming(id, named[id]))
  PROVE  NamesFollow'
<1>1. ASSUME NEW id \in MeterIds, named'[id] # NoName
      PROVE \/ Ends(wire', Naming(id, named'[id]), Called(id, named'[id]))
            \/ /\ None(wire', Naming(id, named'[id]))
               /\ id \in DOMAIN meters'.names /\ meters'.names[id] = named'[id]
  BY <1>1 DEF Follows, NamesFollow
<1> QED  BY <1>1 DEF NamesFollow

\* A line of another kind, sent or read, leaves what is said of this one.
LEMMA OtherSent ==
  ASSUME TypeOK, NEW l \in Lines, Sends(l), NEW W, l \notin W
  PROVE  \A G : /\ Ends(wire, W, G) => Ends(wire', W, G)
                /\ None(wire, W) => None(wire', W)
<1> TAKE G
<1> QED  BY Sent

\* The same for a line that is read.
LEMMA OtherRead ==
  ASSUME TypeOK, NEW object, Reads(object), NEW W, \A l \in W : l.object # object
  PROVE  \A G : /\ G \subseteq W /\ Ends(wire, W, G) => Ends(wire', W, G)
                /\ None(wire, W) => None(wire', W)
<1> TAKE G
<1>1. Head(wire).object = object
  BY DEF Reads
<1> QED  BY <1>1, Read

\* A change of a slice is the last line about the settings it changes.
LEMMA FollowsRadioSlice ==
  ASSUME TypeOK, Follows, NEW i \in Slices, RadioSlice(i)
  PROVE  Follows'
<1>1. PICK s \in Statuses \cup {FullStatus} :
        /\ i \notin DOMAIN radio => s = FullStatus
        /\ radio' = Put(radio, i, IF i \in DOMAIN radio THEN Update(radio[i], s) ELSE s)
        /\ Sends([object |-> "slice", index |-> i, params |-> s])
  BY DEF RadioSlice
<1> DEFINE l == [object |-> "slice", index |-> i, params |-> s]
<1>2. l \in Lines /\ l.object = "slice" /\ l.index = i /\ l.params = s
  BY DEF Lines, Params
<1>3. Sends(l)
  BY <1>1
<1>4. UNCHANGED <<slices, onAir, named, meters>>
  BY DEF RadioSlice, sliceVars, meterVars
<1> HIDE DEF l
<1>5. AirFollows'
  <2>1. l \notin TxLines
    BY <1>2 DEF TxLines
  <2> QED  BY <1>2, <1>3, <1>4, <2>1, OtherSent, AirKept
<1>6. NamesFollow'
  <2>1. \A id \in MeterIds : l \notin Naming(id, named[id])
    BY <1>2 DEF Naming
  <2>2. ASSUME NEW id \in MeterIds, NEW G
        PROVE /\ Ends(wire, Naming(id, named[id]), G) => Ends(wire', Naming(id, named[id]), G)
              /\ None(wire, Naming(id, named[id])) => None(wire', Naming(id, named[id]))
    BY <1>2, <1>3, <2>1, OtherSent
  <2> QED  BY <1>4, <2>2, NamesKept
<1>7. Slicing'
  <2>1. DOMAIN radio' = DOMAIN radio \cup {i} /\ \A j \in DOMAIN radio : j # i => radio'[j] = radio[j]
    BY <1>1 DEF Put
  <2>2. radio'[i] = IF i \in DOMAIN radio THEN Update(radio[i], s) ELSE FullStatus
    BY <1>1 DEF Put
  <2>3. radio'[i] = [k \in Keys |-> radio'[i][k]]
    <3>1. CASE i \in DOMAIN radio
      BY <2>2, <3>1 DEF Update
    <3>2. CASE i \notin DOMAIN radio
      BY <2>2, <3>2, FlexStateAssumption
    <3> QED  BY <3>1, <3>2
  <2> QED  BY <1>4, <2>1, <2>3 DEF Follows, Slicing
<1>8. ASSUME NEW j \in DOMAIN radio', NEW k \in Keys
      PROVE \/ Ends(wire', SliceLines(j, k), Saying(j, k, radio'[j][k]))
            \/ None(wire', SliceLines(j, k)) /\ j \in DOMAIN slices' /\ slices'[j][k] = radio'[j][k]
  <2>1. CASE j = i /\ k \in DOMAIN s
    <3>1. radio'[j][k] = s[k]
      BY <1>1, <2>1 DEF Put, Update
    <3>2. l \in Saying(j, k, radio'[j][k])
      BY <1>2, <2>1, <3>1 DEF Saying, SliceLines
    <3> QED  BY <1>2, <1>3, <3>2, Sent
  <2>2. CASE ~(j = i /\ k \in DOMAIN s)
    <3>1. j \in DOMAIN radio /\ radio'[j][k] = radio[j][k]
      <4>1. CASE j # i
        BY <1>1, <4>1 DEF Put
      <4>2. CASE j = i
        <5>1. k \notin DOMAIN s
          BY <2>2, <4>2
        <5>2. i \in DOMAIN radio
          BY <1>1, <5>1, FlexStateAssumption
        <5> QED  BY <1>1, <4>2, <5>1, <5>2 DEF Put, Update
      <4> QED  BY <4>1, <4>2
    <3>2. l \notin SliceLines(j, k)
      BY <1>2, <2>2 DEF SliceLines
    <3>3. \/ Ends(wire, SliceLines(j, k), Saying(j, k, radio[j][k]))
          \/ None(wire, SliceLines(j, k)) /\ j \in DOMAIN slices /\ slices[j][k] = radio[j][k]
      BY <3>1 DEF Follows, SlicesFollow
    <3> QED  BY <1>2, <1>3, <1>4, <3>1, <3>2, <3>3, OtherSent
  <2> QED  BY <2>1, <2>2
<1> QED  BY <1>5, <1>6, <1>7, <1>8 DEF Follows, SlicesFollow

\* The line about a slice that is gone has no settings.
LEMMA FollowsRadioRemoves ==
  ASSUME TypeOK, Follows, NEW i \in Slices, RadioRemoves(i)
  PROVE  Follows'
<1> DEFINE l == [object |-> "slice", index |-> i, params |-> <<>>]
<1>2. l \in Lines /\ l.object = "slice" /\ l.index = i /\ l.params = <<>>
  BY DEF Lines, Params
<1>3. Sends(l) /\ radio' = Remove(radio, i)
  BY DEF RadioRemoves
<1>4. UNCHANGED <<slices, onAir, named, meters>>
  BY DEF RadioRemoves, sliceVars, meterVars
<1> HIDE DEF l
<1>5. AirFollows'
  <2>1. l \notin TxLines
    BY <1>2 DEF TxLines
  <2> QED  BY <1>2, <1>3, <1>4, <2>1, OtherSent, AirKept
<1>6. NamesFollow'
  <2>1. \A id \in MeterIds : l \notin Naming(id, named[id])
    BY <1>2 DEF Naming
  <2>2. ASSUME NEW id \in MeterIds, NEW G
        PROVE /\ Ends(wire, Naming(id, named[id]), G) => Ends(wire', Naming(id, named[id]), G)
              /\ None(wire, Naming(id, named[id])) => None(wire', Naming(id, named[id]))
    BY <1>2, <1>3, <2>1, OtherSent
  <2> QED  BY <1>4, <2>2, NamesKept
<1>7. DOMAIN radio' \subseteq DOMAIN radio /\ \A j \in DOMAIN radio' : radio'[j] = radio[j]
  BY <1>3 DEF Remove
<1>8. Slicing'
  BY <1>4, <1>7 DEF Follows, Slicing
<1>9. ASSUME NEW j \in DOMAIN radio', NEW k \in Keys
      PROVE \/ Ends(wire', SliceLines(j, k), Saying(j, k, radio'[j][k]))
            \/ None(wire', SliceLines(j, k)) /\ j \in DOMAIN slices' /\ slices'[j][k] = radio'[j][k]
  <2>1. l \notin SliceLines(j, k)
    <3>1. k \notin DOMAIN <<>>
      BY DEF Keys
    <3> QED  BY <1>2, <3>1 DEF SliceLines
  <2>2. \/ Ends(wire, SliceLines(j, k), Saying(j, k, radio[j][k]))
        \/ None(wire, SliceLines(j, k)) /\ j \in DOMAIN slices /\ slices[j][k] = radio[j][k]
    BY <1>7 DEF Follows, SlicesFollow
  <2> QED  BY <1>2, <1>3, <1>4, <1>7, <2>1, <2>2, OtherSent
<1> QED  BY <1>5, <1>6, <1>8, <1>9 DEF Follows, SlicesFollow

\* A change of the transmit state is the last line about it.
LEMMA FollowsRadioTx ==
  ASSUME TypeOK, Follows, RadioTx
  PROVE  Follows'
<1> DEFINE l == [object |-> "tx", on |-> ~onAir.radio]
<1>1. (~onAir.radio) \in BOOLEAN
  OBVIOUS
<1>2. l \in Lines /\ l.object = "tx" /\ l.on = ~onAir.radio
  BY <1>1 DEF Lines
<1>3. Sends(l) /\ UNCHANGED <<radio, slices, named, meters>>
  BY DEF RadioTx, sliceVars, meterVars
<1>4. onAir'.radio = ~onAir.radio
  BY DEF RadioTx, TypeOK
<1> HIDE DEF l
<1>5. l \in Keying(onAir'.radio)
  BY <1>2, <1>4 DEF Keying, TxLines
<1>6. AirFollows'
  BY <1>2, <1>3, <1>5, Sent DEF AirFollows
<1>7. NamesFollow'
  <2>1. \A id \in MeterIds : l \notin Naming(id, named[id])
    BY <1>2 DEF Naming
  <2>2. ASSUME NEW id \in MeterIds, NEW G
        PROVE /\ Ends(wire, Naming(id, named[id]), G) => Ends(wire', Naming(id, named[id]), G)
              /\ None(wire, Naming(id, named[id])) => None(wire', Naming(id, named[id]))
    BY <1>2, <1>3, <2>1, OtherSent
  <2> QED  BY <1>3, <2>2, NamesKept
<1>8. ASSUME NEW j \in DOMAIN radio, NEW k \in Keys, NEW G
      PROVE /\ Ends(wire, SliceLines(j, k), G) => Ends(wire', SliceLines(j, k), G)
            /\ None(wire, SliceLines(j, k)) => None(wire', SliceLines(j, k))
  <2>1. l \notin SliceLines(j, k)
    BY <1>2 DEF SliceLines
  <2> QED  BY <1>2, <1>3, <2>1, OtherSent
<1>9. SlicesFollow' /\ Slicing'
  BY <1>3, <1>8, SlicesKept
<1> QED  BY <1>6, <1>7, <1>9 DEF Follows

\* The line about a meter is the last one that names it.
LEMMA FollowsRadioMeter ==
  ASSUME TypeOK, Follows, NEW id \in MeterIds, RadioMeter(id)
  PROVE  Follows'
<1>1. PICK name \in MeterNames \cup {NoName} :
        /\ named' = IF name = NoName THEN named
                    ELSE [x \in MeterIds |-> IF x = id THEN name
                                             ELSE IF named[x] = name THEN NoName ELSE named[x]]
        /\ Sends([object |-> "meter", id |-> id, name |-> name])
  BY DEF RadioMeter
<1> DEFINE l == [object |-> "meter", id |-> id, name |-> name]
<1>2. l \in Lines /\ l.object = "meter" /\ l.id = id /\ l.name = name
  BY DEF Lines
<1>3. Sends(l) /\ UNCHANGED <<radio, slices, onAir, meters>>
  BY <1>1 DEF RadioMeter, sliceVars, meterVars
<1> HIDE DEF l
<1>4. AirFollows'
  <2>1. l \notin TxLines
    BY <1>2 DEF TxLines
  <2> QED  BY <1>2, <1>3, <2>1, OtherSent, AirKept
<1>5. ASSUME NEW j \in DOMAIN radio, NEW k \in Keys, NEW G
      PROVE /\ Ends(wire, SliceLines(j, k), G) => Ends(wire', SliceLines(j, k), G)
            /\ None(wire, SliceLines(j, k)) => None(wire', SliceLines(j, k))
  <2>1. l \notin SliceLines(j, k)
    BY <1>2 DEF SliceLines
  <2> QED  BY <1>2, <1>3, <2>1, OtherSent
<1>6. SlicesFollow' /\ Slicing'
  BY <1>3, <1>5, SlicesKept
<1>7. ASSUME NEW x \in MeterIds, named'[x] # NoName
      PROVE \/ Ends(wire', Naming(x, named'[x]), Called(x, named'[x]))
            \/ /\ None(wire', Naming(x, named'[x]))
               /\ x \in DOMAIN meters'.names /\ meters'.names[x] = named'[x]
  <2>1. CASE x = id /\ name # NoName
    <3>1. named'[x] = name
      BY <1>1, <2>1
    <3>2. l \in Called(x, named'[x])
      BY <1>2, <2>1, <3>1 DEF Called, Naming
    <3> QED  BY <1>2, <1>3, <3>2, Sent
  <2>2. CASE ~(x = id /\ name # NoName)
    <3>1. named'[x] = named[x] /\ (name = NoName \/ (x # id /\ name # named[x]))
      BY <1>1, <1>7, <2>2
    <3>2. l \notin Naming(x, named[x])
      BY <1>2, <3>1 DEF Naming
    <3>3. \/ Ends(wire, Naming(x, named[x]), Called(x, named[x]))
          \/ /\ None(wire, Naming(x, named[x]))
             /\ x \in DOMAIN meters.names /\ meters.names[x] = named[x]
      BY <1>7, <3>1 DEF Follows, NamesFollow
    <3> QED  BY <1>2, <1>3, <3>1, <3>2, <3>3, OtherSent
  <2> QED  BY <2>1, <2>2
<1> QED  BY <1>4, <1>6, <1>7 DEF Follows, NamesFollow

\* The cache takes what the line says: the last line about a setting is the one
\* that counts.
LEMMA FollowsReadSlice ==
  ASSUME TypeOK, Follows, ReadSlice
  PROVE  Follows'
<1> DEFINE i == Head(wire).index
           s == Head(wire).params
           old == IF i \in DOMAIN slices THEN slices[i] ELSE Default
<1>1. /\ Reads("slice") /\ slices' = Put(slices, i, Update(old, s))
      /\ UNCHANGED <<radio, onAir, named, meters>>
  BY DEF ReadSlice, Stored, meterVars
<1>2. Head(wire) \in Lines /\ Head(wire).object = "slice"
  BY <1>1, ReadLines
<1>3. AirFollows'
  <2>1. \A l \in TxLines : l.object # "slice"
    BY DEF TxLines
  <2>2. Keying(onAir.radio) \subseteq TxLines
    BY DEF Keying
  <2>3. /\ Ends(wire, TxLines, Keying(onAir.radio)) => Ends(wire', TxLines, Keying(onAir.radio))
        /\ None(wire, TxLines) => None(wire', TxLines)
    BY <1>1, <2>1, <2>2, OtherRead
  <2> QED  BY <1>1, <2>3 DEF Follows, AirFollows
<1>4. ASSUME NEW x \in MeterIds, named'[x] # NoName
      PROVE \/ Ends(wire', Naming(x, named'[x]), Called(x, named'[x]))
            \/ /\ None(wire', Naming(x, named'[x]))
               /\ x \in DOMAIN meters'.names /\ meters'.names[x] = named'[x]
  <2>1. \A l \in Naming(x, named[x]) : l.object # "slice"
    BY DEF Naming
  <2>2. Called(x, named[x]) \subseteq Naming(x, named[x])
    BY DEF Called
  <2>3. /\ Ends(wire, Naming(x, named[x]), Called(x, named[x]))
             => Ends(wire', Naming(x, named[x]), Called(x, named[x]))
        /\ None(wire, Naming(x, named[x])) => None(wire', Naming(x, named[x]))
    BY <1>1, <2>1, <2>2, OtherRead
  <2> QED  BY <1>1, <1>4, <2>3 DEF Follows, NamesFollow
<1>5. /\ slices'[i] = Update(old, s) /\ DOMAIN slices' = DOMAIN slices \cup {i}
      /\ \A j \in DOMAIN slices : j # i => slices'[j] = slices[j]
  BY <1>1 DEF Put
<1>6. Slicing'
  <2>1. slices'[i] = [k \in Keys |-> slices'[i][k]]
    BY <1>5 DEF Update
  <2> HIDE DEF i
  <2> QED  BY <1>1, <1>5, <2>1 DEF Follows, Slicing
<1>7. ASSUME NEW j \in DOMAIN radio, NEW k \in Keys
      PROVE \/ Ends(wire', SliceLines(j, k), Saying(j, k, radio[j][k]))
            \/ None(wire', SliceLines(j, k)) /\ j \in DOMAIN slices' /\ slices'[j][k] = radio[j][k]
  <2>1. CASE Ends(wire, SliceLines(j, k), Saying(j, k, radio[j][k]))
    <3>1. \/ Ends(wire', SliceLines(j, k), Saying(j, k, radio[j][k]))
          \/ Head(wire) \in Saying(j, k, radio[j][k]) /\ None(wire', SliceLines(j, k))
      BY <1>1, <2>1, Read
    <3>2. ASSUME Head(wire) \in Saying(j, k, radio[j][k])
          PROVE j \in DOMAIN slices' /\ slices'[j][k] = radio[j][k]
      <4>1. j = i /\ k \in DOMAIN s /\ s[k] = radio[j][k]
        BY <3>2 DEF Saying, SliceLines
      <4> HIDE DEF i, s, old
      <4> QED  BY <1>5, <4>1 DEF Update
    <3> QED  BY <3>1, <3>2
  <2>2. CASE None(wire, SliceLines(j, k)) /\ j \in DOMAIN slices /\ slices[j][k] = radio[j][k]
    <3>1. None(wire', SliceLines(j, k)) /\ Head(wire) \notin SliceLines(j, k)
      BY <1>1, <2>2, Read
    <3>2. j # i \/ k \notin DOMAIN s
      BY <1>2, <3>1 DEF SliceLines
    <3>3. j \in DOMAIN slices' /\ slices'[j][k] = slices[j][k]
      <4>1. j = i => old = slices[j]
        BY <2>2
      <4> HIDE DEF i, s, old
      <4> QED  BY <1>5, <2>2, <3>2, <4>1 DEF Update
    <3> QED  BY <2>2, <3>1, <3>3
  <2> QED  BY <2>1, <2>2 DEF Follows, SlicesFollow
<1> QED  BY <1>1, <1>3, <1>4, <1>6, <1>7 DEF Follows, SlicesFollow, NamesFollow

\* The cache takes the transmit state the line says.
LEMMA FollowsReadTx ==
  ASSUME TypeOK, Follows, ReadTx
  PROVE  Follows'
<1>1. Reads("tx") /\ UNCHANGED <<radio, slices, named, meters>>
  BY DEF ReadTx, sliceVars, meterVars
<1>2. Head(wire) \in Lines /\ Head(wire).object = "tx"
  BY <1>1, ReadLines
<1>3. onAir'.radio = onAir.radio /\ onAir'.cache = Head(wire).on
  BY DEF ReadTx, TypeOK
<1>4. AirFollows'
  <2>1. ~None(wire, TxLines)
    BY <1>1, <1>2, Read DEF TxLines
  <2>2. Ends(wire, TxLines, Keying(onAir.radio))
    BY <2>1 DEF Follows, AirFollows
  <2>3. \/ Ends(wire', TxLines, Keying(onAir.radio))
        \/ Head(wire) \in Keying(onAir.radio) /\ None(wire', TxLines)
    BY <1>1, <2>2, Read
  <2> QED  BY <1>3, <2>3 DEF AirFollows, Keying
<1>5. ASSUME NEW x \in MeterIds, named'[x] # NoName
      PROVE \/ Ends(wire', Naming(x, named'[x]), Called(x, named'[x]))
            \/ /\ None(wire', Naming(x, named'[x]))
               /\ x \in DOMAIN meters'.names /\ meters'.names[x] = named'[x]
  <2>1. \A l \in Naming(x, named[x]) : l.object # "tx"
    BY DEF Naming
  <2>2. Called(x, named[x]) \subseteq Naming(x, named[x])
    BY DEF Called
  <2>3. /\ Ends(wire, Naming(x, named[x]), Called(x, named[x]))
             => Ends(wire', Naming(x, named[x]), Called(x, named[x]))
        /\ None(wire, Naming(x, named[x])) => None(wire', Naming(x, named[x]))
    BY <1>1, <2>1, <2>2, OtherRead
  <2> QED  BY <1>1, <1>5, <2>3 DEF Follows, NamesFollow
<1>6. ASSUME NEW j \in DOMAIN radio, NEW k \in Keys
      PROVE \/ Ends(wire', SliceLines(j, k), Saying(j, k, radio[j][k]))
            \/ None(wire', SliceLines(j, k)) /\ j \in DOMAIN slices /\ slices[j][k] = radio[j][k]
  <2>1. \A l \in SliceLines(j, k) : l.object # "tx"
    BY DEF SliceLines
  <2>2. Saying(j, k, radio[j][k]) \subseteq SliceLines(j, k)
    BY DEF Saying
  <2>3. /\ Ends(wire, SliceLines(j, k), Saying(j, k, radio[j][k]))
             => Ends(wire', SliceLines(j, k), Saying(j, k, radio[j][k]))
        /\ None(wire, SliceLines(j, k)) => None(wire', SliceLines(j, k))
    BY <1>1, <2>1, <2>2, OtherRead
  <2> QED  BY <2>3 DEF Follows, SlicesFollow
<1>7. Slicing'
  BY <1>1 DEF Follows, Slicing
<1> QED  BY <1>1, <1>4, <1>5, <1>6, <1>7 DEF Follows, SlicesFollow, NamesFollow

\* An insertion leaves what other meters are called, if not by that name.
LEMMA InsertLeaves ==
  ASSUME NEW m, AreInverse(m), NEW id, NEW name, NEW x \in DOMAIN m.names,
         x # id, m.names[x] # name
  PROVE  /\ x \in DOMAIN Insert(m, id, name).names
         /\ Insert(m, id, name).names[x] = m.names[x]
<1> DEFINE a == WithoutId(m, id)
           n == WithoutName(a, name)
<1>1. x \in DOMAIN a.names /\ a.names[x] = m.names[x]
  BY DEF WithoutId, Remove
<1>2. AreInverse(a)
  BY WithoutIdInverse
<1>3. Insert(m, id, name).names = Put(n.names, id, name)
  BY DEF Insert
<1> HIDE DEF a
<1>4. name \in DOMAIN a.ids => a.ids[name] # x
  BY <1>1, <1>2 DEF AreInverse
<1>5. x \in DOMAIN n.names /\ n.names[x] = a.names[x]
  BY <1>1, <1>4 DEF WithoutName, Remove
<1> HIDE DEF n
<1> QED  BY <1>1, <1>3, <1>5 DEF Put

\* A meter is registered by the name the line gives it: other ids lose that name, and
\* the line is the last that named them.
LEMMA FollowsReadMeter ==
  ASSUME TypeOK, MetersInverse, Follows, ReadMeter
  PROVE  Follows'
<1> DEFINE id == Head(wire).id
           name == Head(wire).name
<1>1. /\ Reads("meter") /\ UNCHANGED <<radio, slices, onAir, named>>
      /\ meters' = IF name = NoName THEN meters ELSE Insert(meters, id, name)
  BY DEF ReadMeter, sliceVars
<1>2. Head(wire) \in Lines /\ Head(wire).object = "meter"
  BY <1>1, ReadLines
<1>3. AirFollows'
  <2>1. \A l \in TxLines : l.object # "meter"
    BY DEF TxLines
  <2>2. Keying(onAir.radio) \subseteq TxLines
    BY DEF Keying
  <2>3. /\ Ends(wire, TxLines, Keying(onAir.radio)) => Ends(wire', TxLines, Keying(onAir.radio))
        /\ None(wire, TxLines) => None(wire', TxLines)
    BY <1>1, <2>1, <2>2, OtherRead
  <2> QED  BY <1>1, <2>3 DEF Follows, AirFollows
<1>4. ASSUME NEW j \in DOMAIN radio, NEW k \in Keys
      PROVE \/ Ends(wire', SliceLines(j, k), Saying(j, k, radio[j][k]))
            \/ None(wire', SliceLines(j, k)) /\ j \in DOMAIN slices /\ slices[j][k] = radio[j][k]
  <2>1. \A l \in SliceLines(j, k) : l.object # "meter"
    BY DEF SliceLines
  <2>2. Saying(j, k, radio[j][k]) \subseteq SliceLines(j, k)
    BY DEF Saying
  <2>3. /\ Ends(wire, SliceLines(j, k), Saying(j, k, radio[j][k]))
             => Ends(wire', SliceLines(j, k), Saying(j, k, radio[j][k]))
        /\ None(wire, SliceLines(j, k)) => None(wire', SliceLines(j, k))
    BY <1>1, <2>1, <2>2, OtherRead
  <2> QED  BY <2>3 DEF Follows, SlicesFollow
<1>5. Slicing'
  BY <1>1 DEF Follows, Slicing
<1>6. ASSUME NEW x \in MeterIds, named[x] # NoName
      PROVE \/ Ends(wire', Naming(x, named[x]), Called(x, named[x]))
            \/ /\ None(wire', Naming(x, named[x]))
               /\ x \in DOMAIN meters'.names /\ meters'.names[x] = named[x]
  <2>1. CASE Ends(wire, Naming(x, named[x]), Called(x, named[x]))
    <3>1. \/ Ends(wire', Naming(x, named[x]), Called(x, named[x]))
          \/ Head(wire) \in Called(x, named[x]) /\ None(wire', Naming(x, named[x]))
      BY <1>1, <2>1, Read
    <3>2. ASSUME Head(wire) \in Called(x, named[x])
          PROVE x \in DOMAIN meters'.names /\ meters'.names[x] = named[x]
      <4>1. x = id /\ name = named[x] /\ name # NoName
        BY <1>6, <3>2 DEF Called, Naming
      <4>2. meters' = Insert(meters, x, named[x])
        BY <1>1, <4>1
      <4>3. x \in DOMAIN Insert(meters, x, named[x]).names
        BY DEF Insert, Put
      <4> QED  BY <4>2, <4>3, InsertInverse DEF MetersInverse
    <3> QED  BY <3>1, <3>2
  <2>2. CASE None(wire, Naming(x, named[x])) /\ x \in DOMAIN meters.names /\ meters.names[x] = named[x]
    <3>1. None(wire', Naming(x, named[x])) /\ Head(wire) \notin Naming(x, named[x])
      BY <1>1, <2>2, Read
    <3>2. name = NoName \/ (id # x /\ name # named[x])
      BY <1>2, <3>1 DEF Naming
    <3>3. x \in DOMAIN meters'.names /\ meters'.names[x] = named[x]
      <4> HIDE DEF id, name
      <4>1. CASE name = NoName
        BY <1>1, <2>2, <4>1
      <4>2. CASE name # NoName
        BY <1>1, <2>2, <3>2, <4>2, InsertLeaves DEF MetersInverse
      <4> QED  BY <4>1, <4>2
    <3> QED  BY <3>1, <3>3
  <2> QED  BY <1>6, <2>1, <2>2 DEF Follows, NamesFollow
<1> QED  BY <1>1, <1>3, <1>4, <1>5, <1>6 DEF Follows, SlicesFollow, NamesFollow

\* The inductive invariant.
MirrorInv == TypeOK /\ MetersInverse /\ Follows

\* Every step keeps it.
LEMMA FollowsStep == MirrorInv /\ [Next]_vars => Follows'
<1> SUFFICES ASSUME MirrorInv, [Next]_vars PROVE Follows'
  OBVIOUS
<1> USE DEF MirrorInv
<1>1. ASSUME NEW i \in Slices, RadioSlice(i) \/ RadioRemoves(i)  PROVE Follows'
  BY <1>1, FollowsRadioSlice, FollowsRadioRemoves
<1>2. ASSUME NEW id \in MeterIds, RadioMeter(id)  PROVE Follows'
  BY <1>2, FollowsRadioMeter
<1>3. CASE RadioTx \/ ReadSlice \/ ReadTx \/ ReadMeter
  BY <1>3, FollowsRadioTx, FollowsReadSlice, FollowsReadTx, FollowsReadMeter
<1>4. CASE UNCHANGED <<radio, wire, slices, onAir, named, meters>>
  BY <1>4 DEF Follows, SlicesFollow, AirFollows, NamesFollow, Slicing
<1>5. ASSUME NEW id \in MeterIds, RadioReports(id)
      PROVE  UNCHANGED <<radio, wire, slices, onAir, named, meters>>
  BY <1>5 DEF RadioReports, sliceVars
<1>6. ReceivePacket \/ UNCHANGED vars => UNCHANGED <<radio, wire, slices, onAir, named, meters>>
  BY DEF ReceivePacket, vars, sliceVars, meterVars
<1> QED  BY <1>1, <1>2, <1>3, <1>4, <1>5, <1>6 DEF Next

\* With nothing under way, no line is the last of anything: the cache has it all.
LEMMA FollowsMirrors == TypeOK /\ Follows => Mirrors
<1> SUFFICES ASSUME TypeOK, Follows, wire = <<>>
             PROVE  /\ \A i \in DOMAIN radio : i \in DOMAIN slices /\ slices[i] = radio[i]
                    /\ onAir.cache = onAir.radio
                    /\ \A id \in MeterIds : named[id] # NoName =>
                         id \in DOMAIN meters.names /\ meters.names[id] = named[id]
  BY DEF Mirrors
<1>1. \A W, G : ~Ends(wire, W, G)
  BY DEF Ends
<1>2. ASSUME NEW i \in DOMAIN radio  PROVE i \in DOMAIN slices /\ slices[i] = radio[i]
  <2>1. \A k \in Keys : i \in DOMAIN slices /\ slices[i][k] = radio[i][k]
    BY <1>1 DEF Follows, SlicesFollow
  <2>2. i \in DOMAIN slices
    BY <2>1 DEF Keys
  <2>3. /\ radio[i] = [k \in Keys |-> radio[i][k]]
        /\ slices[i] = [k \in Keys |-> slices[i][k]]
    BY <2>2 DEF Follows, Slicing
  <2> QED  BY <2>1, <2>2, <2>3
<1> QED  BY <1>1, <1>2 DEF Follows, AirFollows, NamesFollow

\* When everything the radio sent has been read, the cache agrees with the radio on
\* every slice, on the transmit state and on the meters' names, for any slices, any
\* status lines and any ids given out again.
THEOREM CacheMirrors == Spec => []Mirrors
<1>1. Init => MirrorInv
  <2>1. Init => MetersInverse
    BY DEF Init, MetersInverse, AreInverse, EmptyMap
  <2> QED  BY <2>1, TypeInit, FollowsInit DEF MirrorInv
<1>2. MirrorInv /\ [Next]_vars => MirrorInv'
  <2>1. MirrorInv /\ [Next]_vars => MetersInverse'
    BY MetersStep DEF MirrorInv
  <2> QED  BY <2>1, TypeStep, FollowsStep DEF MirrorInv
<1>3. MirrorInv => Mirrors
  BY FollowsMirrors DEF MirrorInv
<1> QED  BY <1>1, <1>2, <1>3, PTL DEF Spec
=============================================================================
