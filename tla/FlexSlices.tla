----------------------------- MODULE FlexSlices -----------------------------
(***************************************************************************)
(* A FlexRadio at work: tasks call the operations of FlexRig, the client   *)
(* sends their commands and keeps the cache, the radio answers and tells   *)
(* what has changed.  Responses and status lines come in one stream, and a *)
(* command's status may come before its response or after it; the read     *)
(* loop takes one line after another, and the getters look at the cache as *)
(* it is.  Meter values come in UDP packets, if anybody receives them.     *)
(***************************************************************************)
EXTENDS FlexCodec

CONSTANTS
  Tasks,         \* tasks of the application, positive numbers
  Setups,        \* how an application comes to its rig: the datagrams heard, each with its
                 \* sender; the builder; the radios on the network, by address; and udp,
                 \* whether somebody receives meters
  Starts,        \* the slices of the radio when the rig is built
  Told,          \* the client has read what the radio says after the subscription
  Calls(_, _),   \* the calls a task makes on a rig
  Turns(_),      \* commands by which the operator, or another client, changes the radio
  MaxCalls,      \* bound: calls of one task
  MaxMishaps     \* bound: turns, lost responses and lines that come late

ASSUME FlexSlicesAssumption ==
  Tasks \subseteq Nat \ {0} /\ MaxCalls \in Nat /\ MaxMishaps \in Nat /\ Told \subseteq BOOLEAN

VARIABLES
  self,     \* the rig: model, auto_create_slices, udp
  radio,    \* unit: its model; slices: number -> settings as they are on the wire;
            \* transmitting, power, keyer; raw: slice -> what its S-meter last read
  wire,     \* lines under way to the client
  cache,    \* RadioState: slices, transmitting, power; raw, the reading it has, if any
  call, r,  \* the call each task is in, and the answers it has
  waits,    \* waits[t]: t has sent a command and waits for the response
  done,     \* how a call ended, in the step just made
  before,   \* the radio when the call began
  held,     \* what the radio has held, during the call, of what it is about
  calm,     \* the client knew the radio's state when the call began
  alone,    \* nobody else has changed the radio during the call
  left, mishaps

taskVars == <<call, r, waits, before, calm>>
seenVars == <<held, alone>>
vars == <<self, radio, wire, cache, taskVars, seenVars, done, left, mishaps>>

Driver(rig) == INSTANCE FlexRig WITH self <- rig
Operation(c, answers) == Driver(self)!Operation(c, answers)

-----------------------------------------------------------------------------
(* External: the radio.                                                    *)

FreshSlice(freq, word, tx) ==
  [RF_frequency |-> freq, mode |-> word, filter_lo |-> 100, filter_hi |-> 2900, tx |-> tx,
   active |-> tx, agc_mode |-> "med", rit_on |-> "0", rit_freq |-> 0, xit_on |-> "0",
   xit_freq |-> 0]
Started(n) == [i \in 0..n - 1 |-> FreshSlice(hz_to_mhz(7000000 + i), "USB", Switch(i = 0))]

Pairs(f) == FoldSet(LAMBDA key, seq : Append(seq, Pair(key, f[key])), <<>>, DOMAIN f)
Line(object, f) == <<"S", 0, [i \in DOMAIN object |-> Word(object[i])] \o Pairs(f)>>
SliceLine(i, f) == Line(<<"slice", i>>, f)

\* Marks slice i and unmarks the others, with a line for each that changes.
Marks(at, i, mark) ==
  LET new == [j \in DOMAIN at.slices |-> [at.slices[j] EXCEPT ![mark] = Switch(i = j)]]
      changed == SetToSeq({j \in DOMAIN new : new[j] # at.slices[j]})
  IN  [radio |-> [at EXCEPT !.slices = new],
       lines |-> [k \in DOMAIN changed |->
                    SliceLine(changed[k], mark :> new[changed[k]][mark])]]

Least(set) == CHOOSE i \in set : \A j \in set : i <= j
Executed(at, lines, message) == [code |-> 0, radio |-> at, lines |-> lines, message |-> message]
Refusal(at) == [code |-> 1, radio |-> at, lines |-> <<>>, message |-> ""]

Execute(at, cmd) ==
  LET i    == cmd.index
      p    == cmd.params
      free == {j \in 0..at.unit.max_slices - 1 : j \notin DOMAIN at.slices}
  IN  CASE cmd.to = "xmit" ->
             Executed([at EXCEPT !.transmitting = p.state], <<Line(<<"tx">>, p)>>, "")
        [] cmd.to = "transmit set" ->
             Executed([at EXCEPT !.power = p.power], <<Line(<<"tx">>, [rfpower |-> p.power])>>, "")
        [] cmd.to = "cwx send" -> Executed([at EXCEPT !.keyer = @ \o p.text], <<>>, "")
        [] cmd.to = "cwx clear" -> Executed([at EXCEPT !.keyer = <<>>], <<>>, "")
        [] cmd.to = "slice create" ->
             IF free = {} THEN Refusal(at)
             ELSE LET j == Least(free)
                      s == FreshSlice(p.freq, p.mode, Switch(DOMAIN at.slices = {}))
                  IN  Executed([at EXCEPT !.slices = (j :> s) @@ @], <<SliceLine(j, s)>>, j)
        [] cmd.to \in {"slice set", "slice tune", "slice remove"} /\ i \notin DOMAIN at.slices ->
             Refusal(at)
        [] cmd.to = "slice remove" /\ i \in DOMAIN at.slices ->
             Executed([at EXCEPT !.slices = [j \in DOMAIN @ \ {i} |-> @[j]]],
                      <<SliceLine(i, [in_use |-> "0"])>>, "")
        [] cmd.to \in {"slice set", "slice tune"} /\ i \in DOMAIN at.slices ->
             IF DOMAIN p \subseteq {"tx", "active"}
             THEN LET m == Marks(at, i, CHOOSE k \in DOMAIN p : TRUE)
                  IN  Executed(m.radio, m.lines, "")
             ELSE IF p = [k \in DOMAIN p \cap DOMAIN at.slices[i] |-> at.slices[i][k]]
             THEN Executed(at, <<>>, "")
             ELSE Executed([at EXCEPT !.slices[i] =
                              [k \in DOMAIN @ |-> IF k \in DOMAIN p THEN p[k] ELSE @[k]]],
                           <<SliceLine(i, p)>>, "")

-----------------------------------------------------------------------------
(* The cache: process_status.                                              *)

Default == [frequency_hz |-> 0, mode |-> "", filter_lo |-> 0, filter_hi |-> 0, is_tx |-> FALSE,
            active |-> FALSE, agc_mode |-> "", rit_on |-> FALSE, rit_freq_hz |-> 0,
            xit_on |-> FALSE, xit_freq_hz |-> 0]

TxParam(c, p) ==
  CASE p.key = "state"              -> [c EXCEPT !.transmitting = p.value = "1"]
    [] p.key \in {"power", "rfpower"} -> [c EXCEPT !.power = p.value]
    [] OTHER                        -> c
process_status(status, c) ==
  LET s   == parse_slice_status(status.params, status.object)
      old == IF s.v.index \in DOMAIN c.slices THEN c.slices[s.v.index] ELSE Default
  IN  CASE status.object[1] = "slice" ->
             IF s.ok THEN [c EXCEPT !.slices = (s.v.index :> (s.v.fields @@ old)) @@ @] ELSE c
        [] status.object[1] = "tx" -> FoldLeft(TxParam, c, status.params)
        [] OTHER -> c

\* What the client holds when it has read lines.
ReadAll(c, lines) ==
  FoldLeft(LAMBDA x, line : process_status(parse_message(line).v, x), c, lines)

EmptyCache == [slices |-> <<>>, transmitting |-> FALSE, power |-> 0, raw |-> <<>>]
Dump(at) == LET is == SetToSeq(DOMAIN at.slices)
            IN  [k \in DOMAIN is |-> SliceLine(is[k], at.slices[is[k]])]

-----------------------------------------------------------------------------
(* What a call is about, and what is true of it on the radio.              *)

Idle == <<"none">>
GetterOf ==
  [set_frequency |-> "get_frequency", set_mode |-> "get_mode", set_passband |-> "get_passband",
   set_agc |-> "get_agc", set_ptt |-> "get_ptt", set_power |-> "get_power",
   set_rit |-> "get_rit", set_xit |-> "get_xit", set_tx_receiver |-> "primary_receiver",
   set_tx_slice |-> "primary_receiver"]
Setters == DOMAIN GetterOf
OfSlice == {"get_frequency", "get_mode", "get_passband", "get_agc"}
Getters == {GetterOf[s] : s \in Setters} \cup {"get_split", "get_s_meter"}
Subject(c) ==
  CASE c[1] \in Getters -> c
    [] c[1] \in Setters -> IF GetterOf[c[1]] \in OfSlice THEN <<GetterOf[c[1]], c[2]>>
                           ELSE <<GetterOf[c[1]]>>
    [] OTHER -> Idle

Marked(at, mark) == {i \in DOMAIN at.slices : at.slices[i][mark] = "1"}
Primary(at) == IF Marked(at, "tx") # {} THEN Least(Marked(at, "tx"))
               ELSE IF at.slices = <<>> THEN 0 ELSE Least(DOMAIN at.slices)
\* What there is of it: a sequence of one value, or of none.
Maybe(res) == IF res.ok THEN <<res.v>> ELSE <<>>
Truth(at, g) ==
  LET i == CASE g[1] \in OfSlice \cup {"get_s_meter"} -> g[2]
             [] g[1] \in {"get_rit", "get_xit"} -> Primary(at)
             [] OTHER -> -1
      s == at.slices[i]
  IN  IF g = Idle \/ i \notin DOMAIN at.slices \cup {-1} THEN <<>>
      ELSE CASE g[1] = "get_frequency" -> <<Mega * s.RF_frequency.mhz + s.RF_frequency.micro>>
             [] g[1] = "get_mode"      -> Maybe(flex_to_mode(s.mode))
             [] g[1] = "get_passband"  -> <<s.filter_hi - s.filter_lo>>
             [] g[1] = "get_agc"       -> Maybe(agc_from_str(s.agc_mode))
             [] g[1] = "get_rit"       -> <<<<s.rit_on = "1", s.rit_freq>>>>
             [] g[1] = "get_xit"       -> <<<<s.xit_on = "1", s.xit_freq>>>>
             [] g[1] = "primary_receiver" -> <<Primary(at)>>
             [] g[1] = "get_ptt"       -> <<at.transmitting = "1">>
             [] g[1] = "get_power"     -> <<10 * at.power>>
             [] g[1] = "get_s_meter"   -> IF i \in DOMAIN at.raw THEN <<at.raw[i]>> ELSE <<>>
             [] g[1] = "get_split"     -> <<{} \notin {Marked(at, "tx"), Marked(at, "active")}
                                             /\ Marked(at, "tx") # Marked(at, "active")>>

-----------------------------------------------------------------------------
(* The steps.                                                              *)

Of(v)    == [t \in Tasks |-> v]
NotEnded == [call |-> Idle]
Nothing  == Of(NotEnded)

\* Without discovery the application names the host, or hands streams over.
Builders(setup) ==
  IF setup.heard = <<>> THEN {setup.builder}
  ELSE {WithRadio(setup.builder, found) : found \in discover_on_port(setup.heard)}
Connected(b) == IF b.host = "" THEN build_with_transport(b) ELSE build(b)

Init ==
  \E setup \in Setups : \E b \in Builders(setup), n \in Starts, told \in Told :
    LET rig == Connected(b).v
    IN /\ self = [model |-> rig.model, auto_create_slices |-> rig.auto_create_slices,
                  udp |-> setup.udp]
       /\ radio = [unit |-> setup.units[b.host], slices |-> Started(n), transmitting |-> "0",
                   power |-> 0, raw |-> <<>>, keyer |-> <<>>]
       /\ wire = IF told THEN <<>> ELSE Dump(radio)
       /\ cache = IF told THEN ReadAll(EmptyCache, Dump(radio)) ELSE EmptyCache
       /\ call = Of(Idle) /\ r = Of(<<>>) /\ waits = Of(FALSE) /\ done = Nothing
       /\ before = Of(<<>>) /\ held = Of({}) /\ calm = Of(FALSE) /\ alone = Of(FALSE)
       /\ left = Of(MaxCalls) /\ mishaps = 0

\* The client knows what the radio has: nothing is under way, no slice is stale.
Known == wire = <<>> /\ DOMAIN cache.slices = DOMAIN radio.slices

Call(t) ==
  /\ call[t] = Idle /\ left[t] > 0
  /\ \E c \in Calls(t, self) :
       /\ call' = [call EXCEPT ![t] = c]
       /\ held' = [held EXCEPT ![t] = {Truth(radio, Subject(c))}]
  /\ r' = [r EXCEPT ![t] = <<>>] /\ before' = [before EXCEPT ![t] = radio]
  /\ calm' = [calm EXCEPT ![t] = Known] /\ alone' = [alone EXCEPT ![t] = TRUE]
  /\ left' = [left EXCEPT ![t] = @ - 1]
  /\ done' = Nothing
  /\ UNCHANGED <<self, radio, wire, cache, waits, mishaps>>

Now(t)     == Operation(call[t], r[t])
Awaiting(t, kind) == call[t] # Idle /\ ~waits[t] /\ "next" \in DOMAIN Now(t) /\ Now(t).next.kind = kind
Answered(t, a) == r' = [r EXCEPT ![t] = Append(@, a)]

\* The radio becomes at, by t's command or by nobody's (0).
Becomes(at, t) ==
  /\ radio' = at
  /\ held' = [u \in Tasks |-> IF call[u] = Idle THEN held[u]
                              ELSE held[u] \cup {Truth(at, Subject(call[u]))}]
  /\ alone' = [u \in Tasks |-> alone[u] /\ (u = t \/ at = radio)]

Ends(t, res) ==
  /\ done' = [Nothing EXCEPT ![t] =
       [call |-> call[t], res |-> res, held |-> held[t], calm |-> calm[t], alone |-> alone[t],
        before |-> before[t], after |-> radio]]
  /\ call' = [call EXCEPT ![t] = Idle] /\ r' = [r EXCEPT ![t] = <<>>]
  /\ before' = [before EXCEPT ![t] = <<>>] /\ held' = [held EXCEPT ![t] = {}]
  /\ calm' = [calm EXCEPT ![t] = FALSE] /\ alone' = [alone EXCEPT ![t] = FALSE]
  /\ waits' = [waits EXCEPT ![t] = FALSE]

\* state().await: a copy of the cache, and the order in which its map is walked.
Firsts(set) == IF set = {} THEN {{}} ELSE {{i} : i \in set}
Copies(t) ==
  /\ Awaiting(t, "state")
  /\ LET txs == {i \in DOMAIN cache.slices : cache.slices[i].is_tx}
         act == {i \in DOMAIN cache.slices : cache.slices[i].active}
     IN  \E first, last \in Firsts(txs), focus \in Firsts(act) :
           Answered(t, [slices |-> cache.slices, transmitting |-> cache.transmitting,
                        power |-> cache.power, tx |-> first, tx_last |-> last,
                        active_last |-> focus])
  /\ done' = Nothing
  /\ UNCHANGED <<self, radio, wire, cache, call, waits, before, calm, seenVars, left, mishaps>>

MeterValue(t) ==
  /\ Awaiting(t, "meter")
  /\ Answered(t, IF Now(t).next.name = "s-meter" THEN cache.raw ELSE <<>>)
  /\ done' = Nothing
  /\ UNCHANGED <<self, radio, wire, cache, call, waits, before, calm, seenVars, left, mishaps>>

\* The pause is long enough for the lines under way, or it is not.
Pauses(t) ==
  /\ Awaiting(t, "settle")
  /\ mishaps' = IF wire = <<>> THEN mishaps ELSE mishaps + 1
  /\ mishaps' <= MaxMishaps
  /\ Answered(t, "()")
  /\ done' = Nothing
  /\ UNCHANGED <<self, radio, wire, cache, call, waits, before, calm, seenVars, left>>

\* send_command: the radio executes it and responds, before or after it tells
\* of the change.
Sends(t) ==
  /\ Awaiting(t, "cmd")
  /\ LET e == Execute(radio, Now(t).next.cmd)
         response == <<"R", t, e.code, e.message>>
     IN  /\ Becomes(e.radio, t)
         /\ wire' \in {wire \o <<response>> \o e.lines, wire \o e.lines \o <<response>>}
  /\ waits' = [waits EXCEPT ![t] = TRUE]
  /\ done' = Nothing
  /\ UNCHANGED <<self, cache, call, r, before, calm, left, mishaps>>

\* The response does not come in time, and is passed over when it comes.
Expires(t) ==
  /\ waits[t] /\ mishaps < MaxMishaps
  /\ wire' = SelectSeq(wire, LAMBDA line : ~(line[1] = "R" /\ line[2] = t))
  /\ wire' # wire
  /\ Ends(t, Err("Timeout"))
  /\ mishaps' = mishaps + 1
  /\ UNCHANGED <<self, radio, cache, left>>

\* tcp_read_loop takes the next line.
ReadLine ==
  /\ wire # <<>> /\ wire' = Tail(wire)
  /\ LET m == parse_message(Head(wire)).v
         t == m.sequence
     IN  IF m.is = "Status"
         THEN /\ cache' = process_status(m, cache)
              /\ done' = Nothing
              /\ UNCHANGED <<taskVars, seenVars>>
         ELSE /\ cache' = cache
              /\ IF m.error_code = 0
                 THEN /\ Answered(t, m.message) /\ waits' = [waits EXCEPT ![t] = FALSE]
                      /\ done' = Nothing /\ UNCHANGED <<call, before, calm, seenVars>>
                 ELSE Ends(t, Err("Protocol"))
  /\ UNCHANGED <<self, radio, left, mishaps>>

Finishes(t) ==
  /\ call[t] # Idle /\ ~waits[t] /\ "ret" \in DOMAIN Now(t)
  /\ Ends(t, Now(t).ret)
  /\ UNCHANGED <<self, radio, wire, cache, left, mishaps>>

\* External: somebody else changes the radio.
Turn ==
  /\ mishaps < MaxMishaps /\ mishaps' = mishaps + 1
  /\ \E cmd \in Turns(self) :
       LET e == Execute(radio, cmd)
       IN  /\ e.code = 0 /\ e.radio # radio
           /\ Becomes(e.radio, 0) /\ wire' = wire \o e.lines
  /\ done' = Nothing
  /\ UNCHANGED <<self, cache, taskVars, left>>

\* process_vita49_packet, with the readings of one meter kept apart.
Metered(c, data, meter) ==
  LET p == parse_packet(data)
      readings == parse_meter_payload(p.v.payload).v
      s == SelectSeq(readings, LAMBDA reading : reading.meter_id = meter)
  IN IF ~p.ok \/ p.v.stream_type # "MeterData" \/ s = <<>> THEN c
     ELSE [c EXCEPT !.raw = <<Last(s).value>>]

\* The radio sends readings of a slice in a datagram, which the UDP task, if it
\* runs, takes.  One that is cut on the way is as good as lost, and the next
\* brings the same.  Each slice has an S-meter; under the name the client has
\* the number of one, that which it was told last (meters.rs, insert).
S_METER(i) == 7 + i
RadioReports ==
  /\ mishaps < MaxMishaps /\ mishaps' = mishaps + 1
  /\ \E i \in DOMAIN radio.slices :
       LET value == -(90 + i) * 128
           body  == <<<<S_METER(i), 0>>, <<3, 12>>, <<S_METER(i), value>>>>
           named == S_METER(CHOOSE j \in DOMAIN radio.slices : \A k \in DOMAIN radio.slices : k <= j)
           whole == Datagram("8002", 0, body, 0)
           cut   == Datagram("8002", 0, body, 2)
       IN /\ Becomes([radio EXCEPT !.raw = (i :> value) @@ @], 0)
          /\ cache' = IF self.udp THEN Metered(Metered(cache, cut, named), whole, named) ELSE cache
  /\ done' = Nothing
  /\ UNCHANGED <<self, wire, taskVars, left>>

Next ==
  \/ \E t \in Tasks : \/ Call(t) \/ Copies(t) \/ MeterValue(t) \/ Pauses(t)
                      \/ Sends(t) \/ Expires(t) \/ Finishes(t)
  \/ ReadLine \/ Turn \/ RadioReports

Spec == Init /\ [][Next]_vars

-----------------------------------------------------------------------------
(* Properties.                                                             *)

Ended(t)  == done[t].call # Idle
Values(t) == {h[1] : h \in done[t].held \ {<<>>}}

\* What is read off one slice that was looked for before, or off two slices.
Chained == {"get_rit", "get_xit", "primary_receiver", "get_split"}
Settled(t) == done[t].calm /\ (done[t].alone \/ Subject(done[t].call)[1] \notin Chained)

\* v is what call c asked for, as the radio can hold it: half the width each
\* way, whole watts, and no mode of its own for RTTY reverse and data on AM.
Near(c, v) ==
  LET want == c[Len(c)] IN
  CASE c[1] = "set_passband" -> v = 2 * (want \div 2)
    [] c[1] = "set_power"    -> v = 10 * Rounded(want)
    [] c[1] = "set_mode"     -> mode_to_flex(v) = mode_to_flex(want)
    [] c[1] \in {"set_rit", "set_xit"} -> v = <<c[2], c[3]>>
    [] OTHER                 -> v = want

\* What call c may change: a part of the radio, or a setting of slices.
Parts(c) ==
  CASE c[1] = "set_ptt"   -> {"transmitting"}
    [] c[1] = "set_power" -> {"power"}
    [] c[1] \in {"send_cw_message", "stop_cw_message"} -> {"keyer"}
    [] OTHER -> {}
Settings(c) ==
  CASE c[1] = "set_frequency" -> {"RF_frequency"}
    [] c[1] = "set_mode"      -> {"mode"}
    [] c[1] = "set_passband"  -> {"filter_lo", "filter_hi"}
    [] c[1] = "set_agc"       -> {"agc_mode"}
    [] c[1] = "set_rit"       -> {"rit_on", "rit_freq"}
    [] c[1] = "set_xit"       -> {"xit_on", "xit_freq"}
    [] c[1] \in {"set_split", "set_tx_receiver", "set_tx_slice"} -> {"tx"}
    [] OTHER -> {}
\* The slices whose settings they are.
Theirs(c, at) ==
  CASE c[1] \in {"set_rit", "set_xit"} -> {Primary(at)}
    [] Settings(c) = {"tx"}            -> DOMAIN at.slices
    [] OTHER                           -> {c[2]}

\* How many slices call c may add, and which it may take away.
Adds(c, at) ==
  CASE c[1] = "create_slice" -> 1
    [] c[1] = "set_split"    ->
         IF c[2] /\ Cardinality(DOMAIN at.slices) < 2 /\ self.auto_create_slices THEN 1 ELSE 0
    [] c[1] \in {"get_rit", "get_xit", "set_rit", "set_xit"} ->
         IF at.slices = <<>> /\ self.auto_create_slices THEN 1 ELSE 0
    [] c[1] \in OfSlice \/ Subject(c)[1] \in OfSlice ->
         IF c[2] \notin DOMAIN at.slices /\ self.auto_create_slices THEN 1 ELSE 0
    [] OTHER -> 0
Removes(c) == IF c[1] = "destroy_slice" THEN {c[2]} ELSE {}

-----------------------------------------------------------------------------
(* The properties.                                                         *)

\* The state is what the declarations say; the rig has the model of the radio
\* that was found or named, if the library knows it, whatever else was heard on
\* the network; and the radio is never told a power that it does not have.
TypeOK ==
  /\ self.model \in all_flex_models /\ mishaps \in 0..MaxMishaps
  /\ (\E m \in all_flex_models : m.name = radio.unit.name) => self.model.name = radio.unit.name
  /\ radio.power \in 0..self.model.capabilities.max_power_watts
  /\ \A i \in DOMAIN cache.slices : DOMAIN cache.slices[i] = DOMAIN Default
  /\ \A t \in Tasks : /\ left[t] \in 0..MaxCalls /\ calm[t] \in BOOLEAN /\ alone[t] \in BOOLEAN
                      /\ call[t] = Idle => r[t] = <<>> /\ ~waits[t]

\* A getter that succeeds returns what the radio has held, of the slice that it
\* was asked about, since it was called, if the client was up to date then: for
\* all that it reads a cache, creates the slice if there is none and looks for
\* the transmitting slice first, while others change the radio and status lines
\* and responses overtake each other (get_frequency and the others in rig.rs).
\* But get_s_meter takes no notice of it: what it returns has been read on the
\* S-meter of some slice, not on another meter (see MeterOfItsSlice).
Honest ==
  \A t \in Tasks :
    Ended(t) /\ done[t].call[1] \in Getters /\ done[t].res.ok =>
      IF done[t].call[1] = "get_s_meter"
      THEN \E i \in DOMAIN done[t].after.raw : done[t].res.v = done[t].after.raw[i]
      ELSE Settled(t) => done[t].res.v \in Values(t)

\* A setter that succeeds has had the radio hold what it was asked to set, on
\* the slice that it was asked about: what the status line is parsed to is what
\* the command was encoded from (set_frequency and the others in rig.rs).
SetHolds ==
  \A t \in Tasks :
    Ended(t) /\ done[t].call[1] \in Setters /\ done[t].res.ok /\ Settled(t)
    => \E v \in Values(t) : Near(done[t].call, v)

\* An operation changes what it is about and nothing else: no other slice, no
\* other setting, and nothing at all when it is refused for its argument; and it
\* creates one slice at most, and only if the one it needs is missing and
\* auto_create_slices allows it (ensure_slice and set_split in rig.rs).
NothingElseChanges ==
  \A t \in Tasks :
    Ended(t) /\ done[t].alone /\ done[t].calm =>
      LET c    == done[t].call
          was  == done[t].before
          is   == done[t].after
          refused == ~done[t].res.ok /\ done[t].res.v \in {"InvalidParameter", "Unsupported"}
          new  == DOMAIN is.slices \ DOMAIN was.slices
      IN  /\ \A part \in {"transmitting", "power", "raw", "keyer"} :
               is[part] # was[part] => part \in Parts(c) /\ ~refused
          /\ DOMAIN was.slices \ DOMAIN is.slices \subseteq Removes(c)
          /\ Cardinality(new) <= Adds(c, was)
          /\ \A i \in DOMAIN was.slices \cap DOMAIN is.slices :
               \A key \in DOMAIN was.slices[i] :
                 is.slices[i][key] # was.slices[i][key]
                 => key \in Settings(c) /\ i \in Theirs(c, was) /\ ~refused

-----------------------------------------------------------------------------
(* What the code does not keep.                                            *)

\* "Read the S-meter value for a receiver" (riglib-core, rig.rs:83): get_s_meter
\* returns a reading of the slice that it was asked about (rig.rs).
MeterOfItsSlice ==
  \A t \in Tasks :
    Ended(t) /\ done[t].call[1] = "get_s_meter" /\ done[t].res.ok
    => done[t].res.v \in Values(t)

\* An operation creates a slice only if the one it needs does not exist
\* (ensure_slice, rig.rs).
CreatesOnlyMissing ==
  \A t \in Tasks :
    Ended(t) /\ done[t].alone
    => Cardinality(DOMAIN done[t].after.slices \ DOMAIN done[t].before.slices)
         <= Adds(done[t].call, done[t].before)

\* A set_split(true) that succeeds has made two slices of which the second
\* transmits (set_split, rig.rs).
SplitHolds ==
  \A t \in Tasks :
    Ended(t) /\ done[t].call = <<"set_split", TRUE>> /\ done[t].res.ok /\ done[t].alone
    /\ done[t].calm
    => /\ Cardinality(DOMAIN done[t].after.slices) >= 2
       /\ Marked(done[t].after, "tx") \ {Least(DOMAIN done[t].after.slices)} # {}
=============================================================================
