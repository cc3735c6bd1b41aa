----------------------------- MODULE FlexState -----------------------------
(***************************************************************************)
(* The cached state of a FlexRadio and the events about it: process_status *)
(* and process_vita49_packet of riglib-flex, client.rs, with state.rs and  *)
(* meters.rs.                                                              *)
(*                                                                         *)
(* The radio sends a status line for everything that changes; the read     *)
(* loop puts it into the cache, where the getters look, and publishes an   *)
(* event for each change it understands.  view is what an application      *)
(* knows that has seen all events and nothing else.  Meter values come in  *)
(* UDP packets, by id, and may be lost or late.                            *)
(***************************************************************************)
EXTENDS Naturals, Sequences

CONSTANTS
  Slices,      \* slice numbers
  Statuses,    \* changes the radio may make to a slice: partial functions on Keys
  FullStatus,  \* what the radio says of a new slice: a function on all Keys
  KnownModes,  \* modes flex_to_mode understands
  KnownAgc,    \* AGC modes AgcMode::from_str understands
  MeterIds, MeterNames,
  NoName,      \* a meter status without a name
  NoSlice,
  MaxChanges   \* bound: changes the radio makes

Keys     == {"freq", "mode", "agc", "rit_on", "rit_hz", "xit_on", "xit_hz", "other"}
Told     == {"freq", "mode", "agc"}
Settings == [rit |-> <<"rit_on", "rit_hz">>, xit |-> <<"xit_on", "xit_hz">>]

\* SliceState::default().
Default == [k \in Keys |-> CASE k \in {"rit_on", "xit_on"} -> FALSE
                             [] k \in {"mode", "agc"} -> ""
                             [] OTHER -> 0]

ASSUME FlexStateAssumption ==
  /\ FullStatus = [k \in Keys |-> FullStatus[k]]
  /\ \A s \in Statuses : DOMAIN s \subseteq Keys
  /\ NoName \notin MeterNames /\ NoSlice \notin Slices
  /\ MaxChanges \in Nat

-----------------------------------------------------------------------------
(* MeterMap: the names the radio gives to meters and the ids it assigns at *)
(* runtime, as two maps that are updated together.  A map m is a record:   *)
(* m.ids by name, m.names by id.                                           *)

EmptyMap == [ids |-> <<>>, names |-> <<>>]

Remove(f, k)  == [x \in DOMAIN f \ {k} |-> f[x]]
Put(f, k, v)  == [x \in DOMAIN f \cup {k} |-> IF x = k THEN v ELSE f[x]]

\* The two removals that come before an insertion: of what the id was called, and
\* of the id the name had.
WithoutId(m, id) ==
  IF id \in DOMAIN m.names
  THEN [ids |-> Remove(m.ids, m.names[id]), names |-> Remove(m.names, id)]
  ELSE m
WithoutName(m, name) ==
  IF name \in DOMAIN m.ids
  THEN [ids |-> Remove(m.ids, name), names |-> Remove(m.names, m.ids[name])]
  ELSE m

\* Mutant of Insert: the name's old id keeps the name.
InsertNameKept(m, id, name) ==
  LET n == WithoutId(m, id)
  IN [ids |-> Put(n.ids, name, id), names |-> Put(n.names, id, name)]

Insert(m, id, name) ==
  LET n == WithoutName(WithoutId(m, id), name)
  IN [ids |-> Put(n.ids, name, id), names |-> Put(n.names, id, name)]

\* The two maps are inverse to each other.
AreInverse(m) ==
  /\ \A n \in DOMAIN m.ids : m.ids[n] \in DOMAIN m.names /\ m.names[m.ids[n]] = n
  /\ \A i \in DOMAIN m.names : m.names[i] \in DOMAIN m.ids /\ m.ids[m.names[i]] = i

MapType(m, Ids, Names) ==
  /\ m = [ids |-> m.ids, names |-> m.names]
  /\ m.ids \in [DOMAIN m.ids -> Ids] /\ DOMAIN m.ids \subseteq Names
  /\ m.names \in [DOMAIN m.names -> Names] /\ DOMAIN m.names \subseteq Ids

-----------------------------------------------------------------------------

VARIABLES
  radio,     \* slices of the radio: [a subset of Slices -> [Keys -> values]]
  wire,      \* status lines under way
  slices,    \* RadioState::slices
  onAir,     \* [radio, cache, view]: the transmit state in the three places
  view,      \* what the events said of slices: [Slices -> [Told -> values]]
  viewRit,   \* what the events said of RIT and XIT: [on, hz], of no slice in particular
  ritOf,     \* the slice of the last such event
  meters,    \* RadioState::meters
  values,    \* RadioState::meter_values: [a subset of MeterIds -> name of the meter then]
  named,     \* the radio's meters: [MeterIds -> MeterNames, or NoName]
  packets,   \* meter packets under way: [id, name]
  reported,  \* names for which a value has been received
  changes    \* changes so far

sliceVars == <<slices, view, viewRit, ritOf>>
meterVars == <<meters, values, packets, reported>>
vars == <<radio, wire, sliceVars, onAir, meterVars, named, changes>>

Init ==
  /\ radio = <<>> /\ wire = <<>> /\ slices = <<>>
  /\ onAir = [radio |-> FALSE, cache |-> FALSE, view |-> FALSE]
  /\ view = [i \in Slices |-> [k \in Told |-> Default[k]]]
  /\ viewRit = [o \in DOMAIN Settings |-> <<FALSE, 0>>]
  /\ ritOf = [o \in DOMAIN Settings |-> NoSlice]
  /\ meters = EmptyMap /\ values = <<>>
  /\ named = [id \in MeterIds |-> NoName]
  /\ packets = {} /\ reported = {}
  /\ changes = 0

-----------------------------------------------------------------------------
(* The radio.                                                              *)

Sends(line) ==
  /\ changes < MaxChanges
  /\ changes' = changes + 1
  /\ wire' = Append(wire, line)

Update(old, s) == [k \in Keys |-> IF k \in DOMAIN s THEN s[k] ELSE old[k]]

RadioSlice(i) ==
  /\ \E s \in Statuses \cup {FullStatus} :
       /\ i \notin DOMAIN radio => s = FullStatus
       /\ radio' = Put(radio, i, IF i \in DOMAIN radio THEN Update(radio[i], s) ELSE s)
       /\ Sends([object |-> "slice", index |-> i, params |-> s])
  /\ UNCHANGED <<sliceVars, onAir, meterVars, named>>

\* A slice is gone: the status line has no field that the client knows.
RadioRemoves(i) ==
  /\ i \in DOMAIN radio
  /\ radio' = Remove(radio, i)
  /\ Sends([object |-> "slice", index |-> i, params |-> <<>>])
  /\ UNCHANGED <<sliceVars, onAir, meterVars, named>>

RadioTx ==
  /\ onAir' = [onAir EXCEPT !.radio = ~@]
  /\ Sends([object |-> "tx", on |-> ~onAir.radio])
  /\ UNCHANGED <<radio, sliceVars, meterVars, named>>

\* A meter gets an id, which another may have had, or moves to another id, or is described without a name.
RadioMeter(id) ==
  /\ \E name \in MeterNames \cup {NoName} :
       /\ named' = IF name = NoName THEN named
                   ELSE [x \in MeterIds |-> IF x = id THEN name
                                            ELSE IF named[x] = name THEN NoName ELSE named[x]]
       /\ Sends([object |-> "meter", id |-> id, name |-> name])
  /\ UNCHANGED <<radio, sliceVars, onAir, meterVars>>

RadioReports(id) ==
  /\ changes < MaxChanges
  /\ changes' = changes + 1
  /\ named[id] # NoName
  /\ packets' = packets \cup {[id |-> id, name |-> named[id]]}
  /\ UNCHANGED <<radio, wire, sliceVars, onAir, meters, values, reported, named>>

-----------------------------------------------------------------------------
(* process_status.                                                         *)

Known(k, v) == CASE k = "mode" -> v \in KnownModes
                 [] k = "agc"  -> v \in KnownAgc
                 [] OTHER      -> TRUE

Reads(object) == wire # <<>> /\ Head(wire).object = object /\ wire' = Tail(wire)

\* Mutant of OffsetEvents: one event is enough when the switch changes.
OffsetEventsOne(o, old, s) ==
  LET on  == Settings[o][1]
      hz  == Settings[o][2]
      new == Update(old, s)
  IN CASE new[on] # old[on] -> <<<<new[on], old[hz]>>>>
       [] new[on] = old[on] /\ new[hz] # old[hz] -> <<<<new[on], new[hz]>>>>
       [] OTHER -> <<>>

\* The events about RIT, or XIT, of one status line, in order: one when the switch
\* changes, one when the offset does, both with what the line says of the other.
OffsetEvents(o, old, s) ==
  LET on  == Settings[o][1]
      hz  == Settings[o][2]
      new == Update(old, s)
      event == <<new[on], new[hz]>>
  IN CASE new[on] # old[on] /\ new[hz] # old[hz] -> <<event, event>>
       [] new[on] = old[on] /\ new[hz] = old[hz] -> <<>>
       [] OTHER -> <<event>>

\* Mutant of Stored: a mode that is not understood is not stored.
StoredKnown(old, s) ==
  [k \in Keys |-> IF k \in DOMAIN s /\ Known(k, s[k]) THEN s[k] ELSE old[k]]

\* The cached slice after a status line: default values first, when it is new.
Stored(old, s) == Update(old, s)

ReadSlice ==
  /\ Reads("slice")
  /\ LET i   == Head(wire).index
         s   == Head(wire).params
         old == IF i \in DOMAIN slices THEN slices[i] ELSE Default
         new == Stored(old, s)
         tells(o) == OffsetEvents(o, old, s)
     IN /\ slices' = Put(slices, i, new)
        /\ view' = [view EXCEPT ![i] =
                      [k \in Told |-> IF new[k] # old[k] /\ Known(k, new[k]) THEN new[k]
                                      ELSE view[i][k]]]
        /\ viewRit' = [o \in DOMAIN Settings |->
                         IF tells(o) = <<>> THEN viewRit[o] ELSE tells(o)[Len(tells(o))]]
        /\ ritOf' = [o \in DOMAIN Settings |-> IF tells(o) = <<>> THEN ritOf[o] ELSE i]
  /\ UNCHANGED <<radio, onAir, meterVars, named, changes>>

ReadTx ==
  /\ Reads("tx")
  /\ LET on == Head(wire).on
     IN onAir' = [onAir EXCEPT !.cache = on, !.view = IF onAir.cache # on THEN on ELSE @]
  /\ UNCHANGED <<radio, sliceVars, meterVars, named, changes>>

\* Mutant of ReadMeter: a meter without a name is registered all the same.
ReadMeterNameless ==
  /\ Reads("meter")
  /\ meters' = Insert(meters, Head(wire).id, Head(wire).name)
  /\ UNCHANGED <<radio, sliceVars, onAir, values, packets, reported, named, changes>>

ReadMeter ==
  /\ Reads("meter")
  /\ meters' = IF Head(wire).name = NoName THEN meters
               ELSE Insert(meters, Head(wire).id, Head(wire).name)
  /\ UNCHANGED <<radio, sliceVars, onAir, values, packets, reported, named, changes>>

\* A meter packet: the value is kept by id.  Packets that never come stay under way.
ReceivePacket ==
  /\ \E p \in packets :
       /\ packets' = packets \ {p}
       /\ values' = Put(values, p.id, p.name)
       /\ reported' = reported \cup {p.name}
  /\ UNCHANGED <<radio, wire, sliceVars, onAir, meters, named, changes>>

Next ==
  \/ \E i \in Slices : RadioSlice(i) \/ RadioRemoves(i)
  \/ RadioTx
  \/ \E id \in MeterIds : RadioMeter(id) \/ RadioReports(id)
  \/ ReadSlice \/ ReadTx \/ ReadMeter \/ ReceivePacket

Spec == Init /\ [][Next]_vars

-----------------------------------------------------------------------------
(* Properties.                                                             *)

SliceType(f) ==
  /\ DOMAIN f = Keys
  /\ \A k \in Keys : \/ f[k] = Default[k]
                    \/ \E s \in Statuses \cup {FullStatus} : k \in DOMAIN s /\ f[k] = s[k]

Params == Statuses \cup {FullStatus, <<>>}
Lines ==
  [object : {"slice"}, index : Slices, params : Params]
    \cup [object : {"tx"}, on : BOOLEAN]
    \cup [object : {"meter"}, id : MeterIds, name : MeterNames \cup {NoName}]

TypeOK ==
  /\ wire \in Seq(Lines)
  /\ DOMAIN slices \subseteq Slices /\ \A i \in DOMAIN slices : SliceType(slices[i])
  /\ DOMAIN radio \subseteq Slices /\ \A i \in DOMAIN radio : SliceType(radio[i])
  /\ onAir \in [radio : BOOLEAN, cache : BOOLEAN, view : BOOLEAN]
  /\ ritOf \in [DOMAIN Settings -> Slices \cup {NoSlice}]
  /\ MapType(meters, MeterIds, MeterNames)
  /\ named \in [MeterIds -> MeterNames \cup {NoName}]
  /\ packets \subseteq [id : MeterIds, name : MeterNames]
  /\ DOMAIN values \subseteq MeterIds
  /\ changes \in 0 .. MaxChanges

\* An application that follows the events knows what the getters would say: of
\* frequency, mode and AGC where the library has a value for them, of PTT, and of
\* RIT and XIT of the slice the last event was about, though an event is only sent
\* for a difference to the cache and a line may change switch and offset at once.
EventsTell ==
  /\ \A i \in DOMAIN slices : \A k \in Told :
       Known(k, slices[i][k]) => view[i][k] = slices[i][k]
  /\ onAir.view = onAir.cache
  /\ \A o \in DOMAIN Settings : ritOf[o] # NoSlice =>
       viewRit[o] = <<slices[ritOf[o]][Settings[o][1]], slices[ritOf[o]][Settings[o][2]]>>

\* When everything sent has been read, the cache agrees with the radio on every
\* slice there is, on the transmit state and on the meters' names.
Mirrors ==
  wire = <<>> =>
    /\ \A i \in DOMAIN radio : i \in DOMAIN slices /\ slices[i] = radio[i]
    /\ onAir.cache = onAir.radio
    /\ \A id \in MeterIds :
         named[id] # NoName => id \in DOMAIN meters.names /\ meters.names[id] = named[id]

\* The two maps of MeterMap are inverse, whatever ids and names the radio gives
\* out again: a lookup by name finds the id that has this name.
MetersInverse == AreInverse(meters)

\* meter_value says: "Returns None if the meter is not registered or has no value".
\* Then a meter of which no value was ever received has none.
MeterHasOwnValue ==
  \A name \in DOMAIN meters.ids :
    meters.ids[name] \in DOMAIN values => name \in reported

\* ensure_slice and receivers take a slice for existing that is in the cache: then
\* what the radio has removed, and said so, is not in the cache any more.
SlicesExist == wire = <<>> => DOMAIN slices \subseteq DOMAIN radio
=============================================================================
