-------------------------------- MODULE Rigs --------------------------------
(***************************************************************************)
(* The rig drivers at work.  One rig of any make is shared by tasks that   *)
(* call the operations of the Rig trait.  An operation awaits one exchange *)
(* after another; between two exchanges of one task another task's         *)
(* exchange, or the operator at the front panel, may come.  What an        *)
(* exchange is here is what RigLink promises of one: the IO task does them *)
(* one at a time, and one whose answer is not in by the deadline may or    *)
(* may not have been executed.                                             *)
(***************************************************************************)
EXTENDS Cat, SequencesExt

CONSTANTS
  Tasks,              \* tasks of the application
  Rigs,               \* the rigs, as their builders make them
  Calls(_, _),        \* the calls a task makes on a rig
  Turns(_),           \* what the operator may do at a rig's panel
  MaxCalls,           \* bound: calls of one task
  MaxMishaps,         \* bound: exchanges that are lost, and turns of a knob
  MAX_BUFFER_RETRIES, \* polls of the CW buffer for one chunk
  KEYER_ROOM,         \* chunks the keyer can hold
  RigOperation(_, _, _)  \* the script of a rig, a call and the answers it has (OperationOf)

ASSUME RigsAssumption ==
  /\ MaxCalls \in Nat /\ MaxMishaps \in Nat
  /\ MAX_BUFFER_RETRIES \in Nat \ {0} /\ KEYER_ROOM \in Nat \ {0}

VARIABLES
  self,     \* the rig
  radio,    \* its transceiver
  call,     \* call[t]: the call task t is in
  r,        \* r[t]: the answers it has received
  done,     \* done[t]: how its call ended, in the step just made
  held,     \* held[t]: what the radio has held, during the call, of what it is about
  before,   \* before[t]: the radio when the call began
  alone,    \* alone[t]: nobody else has exchanged anything during the call
  left,     \* left[t]: calls still to make
  faults,   \* exchanges lost
  turns,    \* turns made at the panel
  heard     \* the events of the last turn

vars == <<self, radio, call, r, done, held, before, alone, left, faults, turns, heard>>

KenwoodDriver(rig)  == INSTANCE KenwoodRig WITH self <- rig
ElecraftDriver(rig) == INSTANCE ElecraftRig WITH self <- rig
YaesuDriver(rig)    == INSTANCE YaesuRig WITH self <- rig
IcomDriver(rig)     == INSTANCE IcomRig WITH self <- rig
Serial(rig)         == INSTANCE TextRadio WITH radio_of <- rig
Bus(rig)            == INSTANCE CivRadio WITH radio_of <- rig

Icom(rig) == rig.model.make = "Icom"

\* What an instance takes as RigOperation.
OperationOf(rig, c, answers) ==
  LET make == rig.model.make IN
  CASE make = "Kenwood"  -> KenwoodDriver(rig)!Operation(c, answers)
    [] make = "Elecraft" -> ElecraftDriver(rig)!Operation(c, answers)
    [] make = "Yaesu"    -> YaesuDriver(rig)!Operation(c, answers)
    [] make = "Icom"     -> IcomDriver(rig)!Operation(c, answers)

Built(rig) ==
  LET Build(b) == b.ret.ok IN
  CASE rig.model.make = "Kenwood"  ->
         Build(KenwoodDriver(rig)!build_with_transport(rig.ptt_method, rig.key_line, rig.io.ai_enabled))
    [] rig.model.make = "Elecraft" ->
         Build(ElecraftDriver(rig)!build_with_transport(rig.ptt_method, rig.key_line, rig.io.ai_enabled))
    [] rig.model.make = "Yaesu"    ->
         Build(YaesuDriver(rig)!build_with_transport(rig.ptt_method, rig.key_line, rig.io.ai_enabled))
    [] rig.model.make = "Icom"     ->
         Build(IcomDriver(rig)!lines_differ(rig.ptt_method, rig.key_line, rig.io.ai_enabled))

Fresh(rig)          == IF Icom(rig) THEN Bus(rig)!Fresh ELSE Serial(rig)!Fresh
Exchange(rig, at, x) == IF Icom(rig) THEN Bus(rig)!Exchange(at, x) ELSE Serial(rig)!Exchange(at, x)
Facing(rig, at, rx) == IF Icom(rig) THEN Bus(rig)!Facing(at, rx) ELSE Serial(rig)!Facing(at, rx)
Transmits(rig, at)  == IF Icom(rig) THEN Bus(rig)!Transmits(at) ELSE Serial(rig)!Transmits(at)

\* The operations of the trait.
Operations ==
  {"receivers", "get_frequency", "set_frequency", "get_mode", "set_mode", "get_passband",
   "set_passband", "get_ptt", "set_ptt", "get_power", "set_power", "get_s_meter", "get_swr",
   "get_alc", "get_split", "set_split", "set_tx_receiver", "set_cw_key", "get_cw_speed",
   "set_cw_speed", "send_cw_message", "stop_cw_message", "get_agc", "set_agc", "get_preamp",
   "set_preamp", "get_attenuator", "set_attenuator", "get_antenna", "set_antenna", "get_rit",
   "set_rit", "get_xit", "set_xit", "set_vfo_a_eq_b", "swap_vfo", "enable_transceive",
   "disable_transceive"}

\* What the builders and the trait make of the parameters: a rig has one of the
\* makes and methods, a call names an operation and has its arguments, and the
\* operator turns no knob that would key the transmitter.
ASSUME ParametersAssumption ==
  \A rig \in Rigs :
    /\ rig.model.make \in {"Kenwood", "Elecraft", "Yaesu", "Icom"}
    /\ rig.model.make = "Kenwood" =>
         rig.model.agc_command_style \in {"GcSimple", "GcVfo", "GtTimeConstant"}
    /\ rig.model.make \in {"Kenwood", "Elecraft"} => rig.model.rit_step_hz \in Nat \ {0}
    /\ rig.ptt_method \in PttMethod /\ rig.key_line \in KeyLine
    /\ \A t \in Tasks : \A c \in Calls(t, rig) :
         /\ c[1] \in Operations
         /\ c[1] = "set_ptt" => c \in {<<"set_ptt", TRUE>>, <<"set_ptt", FALSE>>}
         /\ c[1] \in {"set_rit", "set_xit"} => c[3] \in Int
    /\ \A turn \in Turns(rig) :
         IF Icom(rig) THEN turn.x.kind = "ack" /\ turn.x.p # <<\h1C, 0>>
         ELSE turn.x.kind = "set" /\ turn.x.p # "TX"

-----------------------------------------------------------------------------
(* What a call is about: the getter of what it sets or gets, for the       *)
(* receiver that it reaches, and what a radio holds of that.               *)

GetterOf ==
  [set_frequency |-> "get_frequency", set_mode |-> "get_mode", set_passband |-> "get_passband",
   set_ptt |-> "get_ptt", set_power |-> "get_power", set_split |-> "get_split",
   set_cw_speed |-> "get_cw_speed", set_agc |-> "get_agc", set_preamp |-> "get_preamp",
   set_attenuator |-> "get_attenuator", set_antenna |-> "get_antenna",
   set_rit |-> "get_rit", set_xit |-> "get_xit"]
Setters == DOMAIN GetterOf
Getters == {GetterOf[op] : op \in Setters}
OfReceiver == {"set_frequency", "set_mode", "set_passband", "set_agc", "set_preamp",
               "set_attenuator", "set_antenna"}

OfReceiverGets == {GetterOf[op] : op \in OfReceiver}

\* What the rig asks the receiver for that the call names.  All else it asks
\* the first receiver for, whatever the call names (`_rx` in every rig.rs, and
\* commands that have no place for a receiver).
Heeded(rig) ==
  CASE rig.model.make = "Kenwood"  ->
         {"get_frequency"} \cup IF rig.model.agc_command_style = "GcVfo" THEN {"get_agc"} ELSE {}
    [] rig.model.make = "Elecraft" -> {"get_frequency"}
    [] rig.model.make = "Yaesu"    -> {"get_frequency", "get_mode"}
    [] rig.model.make = "Icom"     -> OfReceiverGets \ {"get_antenna"}
Reached(rig, g) ==
  IF g # <<>> /\ g[1] \in OfReceiverGets \ Heeded(rig) THEN <<g[1], VFO_A>> ELSE g

\* The getter that a call names, and what it comes to.
Named(c) ==
  CASE c[1] \in Getters      -> c
    [] c[1] \in OfReceiver -> <<GetterOf[c[1]], c[2]>>
    [] c[1] \in Setters \ OfReceiver -> <<GetterOf[c[1]]>>
    [] OTHER               -> <<>>
Subject(rig, c) == Reached(rig, Named(c))

\* What a radio holds of what a getter asks for: the getter's reading of it, but
\* of the registers of the receiver that it names, whatever it selects or asks.
LongestGet == 3
Peek(rig, at, getter) ==
  LET here == IF Len(getter) = 2 THEN Facing(rig, at, getter[2]) ELSE at
      asked[n \in 0..LongestGet] ==   \* the answers to the first n exchanges
        IF n = 0 THEN <<>>
        ELSE LET s    == asked[n - 1]
                 cmds == RigOperation(rig, getter, s).cmds
             IN  IF Len(s) < Len(cmds)
                 THEN LET x == cmds[Len(s) + 1]
                      IN  Append(s, [x |-> x, d |-> Exchange(rig, here, x).d])
                 ELSE s
  IN  IF getter = <<>> THEN Err("none") ELSE RigOperation(rig, getter, asked[LongestGet]).ret
Holding(rig, at, c) == LET p == Peek(rig, at, Subject(rig, c)) IN IF p.ok THEN {p.v} ELSE {}

-----------------------------------------------------------------------------
(* The steps.                                                              *)

Idle == <<"none">>
NotEnded == [call |-> Idle, res |-> Err("none"), evts |-> <<>>, held |-> {}, alone |-> FALSE,
             exchanges |-> 0, before |-> <<>>, after |-> <<>>]
Nothing == [t \in Tasks |-> NotEnded]

Init ==
  /\ self \in Rigs /\ Built(self)
  /\ radio = Fresh(self)
  /\ call = [t \in Tasks |-> Idle] /\ r = [t \in Tasks |-> <<>>]
  /\ done = Nothing
  /\ held = [t \in Tasks |-> {}] /\ before = [t \in Tasks |-> <<>>]
  /\ alone = [t \in Tasks |-> FALSE]
  /\ left = [t \in Tasks |-> MaxCalls] /\ faults = 0 /\ turns = 0 /\ heard = <<>>

\* Task t calls an operation of the rig.
Call(t) ==
  /\ call[t] = Idle /\ left[t] > 0
  /\ \E c \in Calls(t, self) :
       /\ call' = [call EXCEPT ![t] = c]
       /\ held' = [held EXCEPT ![t] = Holding(self, radio, c)]
  /\ r' = [r EXCEPT ![t] = <<>>]
  /\ done' = Nothing
  /\ before' = [before EXCEPT ![t] = radio]
  /\ alone' = [alone EXCEPT ![t] = TRUE]
  /\ left' = [left EXCEPT ![t] = @ - 1]
  /\ heard' = <<>>
  /\ UNCHANGED <<self, radio, faults, turns>>

Now(t)   == RigOperation(self, call[t], r[t])
Asks(t)  == call[t] # Idle /\ Len(r[t]) < Len(Now(t).cmds)
Wanted(t) == Now(t).cmds[Len(r[t]) + 1]

\* The radio becomes at; everybody in a call gets to see it.
Becomes(at, t) ==
  /\ radio' = at
  /\ held' = [u \in Tasks |-> IF call[u] = Idle THEN held[u]
                              ELSE held[u] \cup Holding(self, at, call[u])]
  /\ alone' = [u \in Tasks |-> alone[u] /\ u = t]

Ends(t, res, evts) ==
  /\ done' = [Nothing EXCEPT ![t] =
       [call |-> call[t], res |-> res, evts |-> evts, held |-> held'[t], alone |-> alone'[t],
        exchanges |-> Len(r[t]), before |-> before[t], after |-> radio']]
  /\ call' = [call EXCEPT ![t] = Idle] /\ r' = [r EXCEPT ![t] = <<>>]
  /\ before' = [before EXCEPT ![t] = <<>>]

\* The IO task does the next exchange of t's operation.
Exchanged(t) ==
  /\ Asks(t)
  /\ LET x == Wanted(t)
         e == Exchange(self, radio, x)
     IN  /\ Becomes(e.radio, t)
         /\ IF e.ok
            THEN /\ r' = [r EXCEPT ![t] = Append(@, [x |-> x, d |-> e.d])]
                 /\ done' = Nothing /\ UNCHANGED <<call, before>>
            ELSE Ends(t, Err("Protocol"), <<>>)
  /\ heard' = <<>>
  /\ UNCHANGED <<self, left, faults, turns>>

\* The exchange is lost.  A setting of the text protocols has no answer and is
\* taken for done; for the others the time is up, and a CI-V setting may
\* nevertheless have been executed.
Lost(t) ==
  /\ Asks(t) /\ faults + turns < MaxMishaps
  /\ LET x == Wanted(t)
     IN  /\ x.kind # "line"
         /\ \/ Becomes(radio, t)
            \/ x.kind = "ack" /\ Becomes(Exchange(self, radio, x).radio, t)
         /\ IF x.kind = "set"
            THEN /\ r' = [r EXCEPT ![t] = Append(@, [x |-> x, d |-> Empty])]
                 /\ done' = Nothing /\ UNCHANGED <<call, before>>
            ELSE Ends(t, Err("Timeout"), <<>>)
  /\ faults' = faults + 1 /\ heard' = <<>>
  /\ UNCHANGED <<self, left, turns>>

\* The operation has nothing more to ask: it publishes its events and returns.
Returns(t) ==
  /\ call[t] # Idle /\ ~Asks(t)
  /\ UNCHANGED <<radio, held, alone>>
  /\ Ends(t, Now(t).ret, Now(t).evts)
  /\ heard' = <<>>
  /\ UNCHANGED <<self, left, faults, turns>>

\* External: the keyer has sent a chunk.
KeyerSends ==
  /\ ~Icom(self) /\ radio.keyer.room < KEYER_ROOM
  /\ radio' = [radio EXCEPT !.keyer.room = @ + 1]
  /\ heard' = <<>> /\ done' = Nothing
  /\ UNCHANGED <<self, call, r, held, before, alone, left, faults, turns>>

\* External: the operator changes a setting, and the radio says so unasked.
\* A turn is the exchange that would have had the same effect, and the frame.
Turn ==
  /\ faults + turns < MaxMishaps
  /\ \E turn \in Turns(self) :
       /\ Becomes(Exchange(self, radio, turn.x).radio, "operator")
       /\ heard' =
            CASE ~self.io.ai_enabled        -> <<>>
              [] self.io.ai_enabled /\ self.model.make = "Kenwood"  ->
                   KenwoodDriver(self)!process(turn.p, turn.d)
              [] self.io.ai_enabled /\ self.model.make = "Elecraft" ->
                   ElecraftDriver(self)!process(turn.p, turn.d)
              [] self.io.ai_enabled /\ self.model.make = "Yaesu"    ->
                   YaesuDriver(self)!process(turn.p, turn.d)
              [] self.io.ai_enabled /\ self.model.make = "Icom"     ->
                   IcomDriver(self)!process(turn.p, turn.d)
  /\ turns' = turns + 1 /\ done' = Nothing
  /\ UNCHANGED <<self, call, r, before, left, faults>>

Next == \/ \E t \in Tasks : Call(t) \/ Exchanged(t) \/ Lost(t) \/ Returns(t)
        \/ KeyerSends \/ Turn

Spec == Init /\ [][Next]_vars

-----------------------------------------------------------------------------
(* Properties.                                                             *)

Ended(t) == done[t].call # Idle
Values(t) == done[t].held
\* A rig with one receiver is not told to select VFO A: the operation acts on
\* the VFO that was selected before (see VfoAIsActive).
OnItsVfo(t) ==
  Icom(self) /\ "sub_receiver" \notin self.model.capabilities.has => done[t].before.sel = VFO_A
Quiet(t)  == done[t].alone /\ faults = 0 /\ OnItsVfo(t)
Failed(t, errors) == IF done[t].res.ok THEN FALSE ELSE done[t].res.v \in errors

\* The settings that a rig in Verify mode reads back.
ReadBack == {"set_frequency", "set_mode", "set_power", "set_split", "set_cw_speed", "set_agc",
             "set_preamp", "set_attenuator", "set_antenna"}
Verified(c) == ~Icom(self) /\ self.set_command_mode = "Verify" /\ c[1] \in ReadBack

\* The code a mode has on the air.  Kenwood has no codes for data modes, and
\* Elecraft has one for RTTY and data.
OnAir(mode) ==
  CASE self.model.make = "Kenwood"  -> KenwoodDriver(self)!mode_to_kenwood(mode)
    [] self.model.make = "Elecraft" -> ElecraftDriver(self)!mode_to_elecraft(mode)
    [] self.model.make = "Yaesu"    -> YaesuDriver(self)!mode_to_yaesu(mode)
    [] self.model.make = "Icom"     -> IcomDriver(self)!mode_to_civ(mode)

OffsetStep == IF self.model.make \in {"Icom", "Yaesu"} THEN 1 ELSE self.model.rit_step_hz

\* v is what call c asked for, as closely as the radio's registers can hold it.
Near(c, v) ==
  LET want == c[Len(c)] IN
  CASE c[1] = "set_mode"       -> OnAir(v) = OnAir(want)
    [] c[1] = "set_passband"   -> Abs(v - want) < 150
    [] c[1] = "set_power"      -> Abs(v - want) <= IF self.model.capabilities.max_power_watts > 100
                                                   THEN 8 ELSE 5
    [] c[1] = "set_cw_speed"   -> Abs(v - want) <= IF Icom(self) THEN 1 ELSE 0
    [] c[1] = "set_agc"        -> v = want \/ (self.model.name = "K4" /\ {v, want} = {"Medium", "Slow"})
    [] c[1] = "set_attenuator" -> IF self.model.make \in {"Elecraft", "Yaesu"}
                                  THEN (v > 0) = (want > 0) ELSE v = want
    [] c[1] \in {"set_rit", "set_xit"} ->
         /\ v[1] = c[2] /\ Abs(v[2]) <= Abs(want) /\ Abs(v[2] - want) < OffsetStep
    [] OTHER                   -> v = want

\* The capabilities list the argument, or have no list for it.
Offered(c) ==
  LET caps == self.model.capabilities IN
  CASE c[1] = "set_mode"       -> c[3] \in caps.supported_modes
    [] c[1] = "set_agc"        -> c[3] \in caps.agc_modes
    [] c[1] = "set_preamp"     -> c[3] \in caps.preamp_levels
    [] c[1] = "set_attenuator" -> c[3] \in caps.attenuator_levels
    [] c[1] = "set_antenna"    -> c[3] \in caps.antenna_ports
    [] c[1] = "set_power"      -> c[2] \in 0..(10 * caps.max_power_watts)
    [] c[1] = "swap_vfo"       -> "vfo_ab_swap" \in caps.has
    [] c[1] = "set_vfo_a_eq_b" -> "vfo_ab_equal" \in caps.has
    [] c[1] = "set_tx_receiver" -> "sub_receiver" \in caps.has
    [] c[1] \in {"set_frequency", "get_frequency", "get_mode", "set_ptt", "get_ptt", "set_split",
                 "get_split", "set_cw_speed", "get_cw_speed", "set_rit", "get_rit"} -> TRUE
    [] OTHER                   -> FALSE
Listed(c) ==
  c[1] \in {"set_mode", "set_agc", "set_preamp", "set_attenuator", "set_antenna"} => Offered(c)

-----------------------------------------------------------------------------
(* The properties.                                                         *)

\* The state is what the declarations say, and so is every event; no line of a
\* rig that was built is both its PTT and its key.
TypeOK ==
  /\ self.ptt_method # "Cat" => self.ptt_method # self.key_line
  /\ faults + turns \in 0..MaxMishaps
  /\ \A t \in Tasks : /\ left[t] \in 0..MaxCalls /\ alone[t] \in BOOLEAN
                      /\ call[t] = Idle => r[t] = <<>>
                      /\ \A i \in DOMAIN done[t].evts : RigEvent(done[t].evts[i])
  /\ \A i \in DOMAIN heard : RigEvent(heard[i])

\* A getter that succeeds returns something that the receiver it reaches has held
\* since it was called, whatever was selected before (get_frequency and the
\* others in every rig.rs): with several tasks at work if it takes one exchange,
\* and otherwise if nobody came in between its exchanges.  Where the rig does
\* not heed the receiver (Heeded) that is the first one: see ReceiverHeeded.
Honest ==
  \A t \in Tasks :
    /\ Ended(t) /\ done[t].call[1] \in Getters /\ done[t].res.ok /\ OnItsVfo(t)
    /\ done[t].alone \/ (~Icom(self) /\ done[t].exchanges = 1)
    => done[t].res.v \in Values(t)

\* What is listed and set is not held after all: CW filters above 3600 Hz, which
\* an Icom has none of, and an AGC mode that set_agc(Off) has left a time
\* constant of 0 (icom rig.rs:653-658), which no other set_agc gives back (666).
NotHeld(c, at) ==
  /\ Icom(self)
  /\ \/ c[1] = "set_passband" /\ c[3] > 3600
     \/ /\ c[1] = "set_agc" /\ c[3] # "Off" /\ self.model.has_agc_time_constant
        /\ Bus(self)!SwitchedOff(at, c[2], c[3])

\* A setter that succeeds has set what it was asked to on the receiver that it
\* reaches, as closely as the radio can hold it: what the getter decodes is what
\* the setter encoded, for every make, model and listed setting, but for
\* NotHeld.  In Verify mode this holds whatever is lost and whoever else is at
\* work (set_frequency and the others in every rig.rs).
SetHolds ==
  \A t \in Tasks :
    Ended(t) /\ done[t].call[1] \in Setters /\ Listed(done[t].call) /\ done[t].res.ok =>
      LET c == done[t].call
          now == Peek(self, done[t].after, Subject(self, c))
      IN  /\ Verified(c) => \E v \in Values(t) : Near(c, v)
          /\ Verified(c) /\ done[t].alone => now.ok /\ Near(c, now.v)
          /\ Quiet(t) /\ ~NotHeld(c, done[t].before)
             => now.ok /\ Near(c, now.v)

\* An operation that is refused for its argument, or is not supported, has
\* changed no setting (set_power's range check, set_preamp's and
\* set_tx_receiver's capability checks); on an Icom the receiver that is
\* selected may have changed.
Settings(at) == IF Icom(self) THEN [at EXCEPT !.sel = 0] ELSE at
RefusedChangesNothing ==
  \A t \in Tasks :
    Ended(t) /\ done[t].alone /\ Failed(t, {"Unsupported", "InvalidParameter"})
    => Settings(done[t].after) = Settings(done[t].before)

\* The getters that call c may change: its own, and of RIT and XIT both, for
\* they share the offset.
Touches(c) ==
  CASE c[1] \in {"set_rit", "set_xit"}        -> {"get_rit", "get_xit"}
    [] c[1] = "set_mode"                      -> {"get_mode", "get_passband"}
    [] c[1] = "set_tx_receiver"               -> {"get_split"}
    [] c[1] = "set_vfo_a_eq_b"                -> {"get_frequency", "get_mode", "get_passband"}
    [] c[1] = "swap_vfo"                      -> OfReceiverGets
    [] c[1] \in Setters                       -> {GetterOf[c[1]]}
    [] OTHER                                  -> {}
Others(c) ==
  {g \in {<<op>> : op \in Getters \ OfReceiverGets}
         \cup {<<op, rx>> : op \in OfReceiverGets, rx \in {VFO_A, VFO_B}} :
     \/ g[1] \notin Touches(c)
     \/ c[1] \in OfReceiver /\ g[2] # Subject(self, c)[2] /\ ~(Icom(self) /\ c[1] = "set_antenna")}

\* An operation leaves alone what it is not about: every other setting, and the
\* receiver that it does not reach (of an Icom both have the one antenna).
OthersKept ==
  \A t \in Tasks :
    Ended(t) /\ done[t].alone /\ OnItsVfo(t) =>
      \A g \in Others(done[t].call) :
        Peek(self, done[t].after, g) = Peek(self, done[t].before, g)


\* What the capabilities offer works: an argument that they list is accepted by
\* a radio that answers (RigCapabilities in types.rs).  It does not hold: see
\* Broken.
OfferKept(t) == Ended(t) /\ Quiet(t) /\ Offered(done[t].call) => done[t].res.ok
OffersKept == \A t \in Tasks : OfferKept(t)

\* What the capabilities list and the rig refuses: in Verify mode the data modes
\* of Kenwood (rig.rs:343) and the RTTY and data modes of Elecraft (rig.rs:346),
\* which share a code; Kenwood's swap (rig.rs:853); Elecraft's second
\* preamplifier (rig.rs:673) and its antennas (rig.rs:847).
Broken(c) ==
  \/ self.model.make \in {"Kenwood", "Elecraft"} /\ c[1] = "set_mode"
     /\ \E mode \in Mode \ {c[3]} : OnAir(mode) = OnAir(c[3])
  \/ self.model.make = "Kenwood" /\ c[1] = "swap_vfo"
  \/ self.model.make = "Elecraft" /\ c[1] = "set_antenna"
  \/ self.model.make = "Elecraft" /\ c[1] = "set_preamp" /\ c[3] = "Preamp2"
OtherOffersKept == \A t \in Tasks : OfferKept(t) \/ Broken(done[t].call)

\* An operation does its own work and no other: what is offered is accepted,
\* but for what Broken lists, what is refused has changed nothing, and everything
\* but what the operation reaches (Subject) is left alone.
NothingElseChanges == RefusedChangesNothing /\ OthersKept /\ OtherOffersKept

\* CW text reaches the keyer whole and in order, and the keyer's buffer never
\* overflows, as long as one task sends: send_cw_message asks for room before
\* every chunk, and goes on only when there is some.  Of a message that an Icom
\* cuts inside a character (negative chunks) the pieces beside the cut are
\* missing, and the call succeeds all the same (icom rig.rs:890).
CwWhole ==
  /\ ~radio.keyer.lost
  /\ \A t \in Tasks :
       Ended(t) /\ done[t].call[1] = "send_cw_message" /\ done[t].res.ok /\ faults = 0
       => done[t].after.keyer.took = done[t].before.keyer.took
              \o SelectSeq(done[t].call[2], LAMBDA chunk : chunk > 0)

\* Only a call of set_ptt(true) switches the transmitter on: nothing else,
\* the CW key line in particular, keys it (the builders refuse the same line for
\* both).
OnlyPttTransmits ==
  [][~Transmits(self, radio) /\ Transmits(self, radio)' =>
     \E t \in Tasks : call[t] = <<"set_ptt", TRUE>>]_vars

\* The getter of what an event tells, and the setter of that; the readings of
\* meters have none.
Kinds_ ==
  [FrequencyChanged |-> "set_frequency", ModeChanged |-> "set_mode", AgcChanged |-> "set_agc",
   PreampChanged |-> "set_preamp", AttenuatorChanged |-> "set_attenuator",
   PttChanged |-> "set_ptt", SplitChanged |-> "set_split", CwSpeedChanged |-> "set_cw_speed",
   PowerReading |-> "set_power", RitChanged |-> "set_rit", XitChanged |-> "set_xit"]

\* Event e is the call that would have set what it tells.
AsCall(e) == <<Kinds_[e[1]]>> \o Tail(e)
Told(e) == IF e[1] \in {"RitChanged", "XitChanged"} THEN <<e[2], e[3]>> ELSE e[Len(e)]

\* What an operation tells subscribers of a reading that takes one exchange, its
\* own or the read-back of a setting, is something the radio has held during the
\* operation, also when the operation then fails; and whatever an operation
\* tells, of any rig, is true when it ends, as closely as the radio can hold it,
\* if nobody came in between and nothing was lost, but for NotHeld.
EventsHeld ==
  \A t \in Tasks :
    LET c == done[t].call
        evts == done[t].evts IN
    Ended(t) =>
      /\ /\ ~Icom(self) /\ ~Failed(t, {"Timeout"})
         /\ Verified(c) \/ (c[1] \in Getters /\ done[t].exchanges = 1 /\ c[1] \notin {"get_rit", "get_xit"})
         => \A i \in DOMAIN evts : Told(evts[i]) \in Values(t)
      /\ Quiet(t) => \A i \in DOMAIN evts :
           LET e == evts[i] IN
           e[1] \in DOMAIN Kinds_ /\ ~NotHeld(AsCall(e), done[t].before) =>
             LET now == Peek(self, done[t].after, Subject(self, AsCall(e)))
             IN  now.ok /\ Near(AsCall(e), now.v)

\* A frame that the radio sends unasked tells what the operator has turned (the
\* AI handlers), of the receiver that it names.  It is made to tell two things
\* that it does not hold, and they may be false (HeardAsTold).  The frame of a
\* RIT or XIT switch has no offset, and 0 is told; an Icom's frame of the offset
\* has no switch, and RIT is told to be on.  A transceive frame of an Icom names
\* no receiver: VFO A is told with the value of the one that is selected.
HeardTrue ==
  \A i \in DOMAIN heard :
    LET e == heard[i]
        of(getter) == Peek(self, radio, getter).v
        now == of(Named(AsCall(e)))
    IN  CASE e[1] \in {"RitChanged", "XitChanged"} ->
               IF e[3] = 0 THEN e[2] = now[1] ELSE e[3] = now[2]
          [] e[1] \in {"FrequencyChanged", "ModeChanged"} ->
               \/ Told(e) = now
               \/ Icom(self) /\ radio.sel # VFO_A /\ Told(e) = of(<<Named(AsCall(e))[1], radio.sel>>)
          [] OTHER -> Told(e) = now

\* What an application hears is true, from its own calls or unasked, within what
\* EventsHeld and HeardTrue leave out.
EventsTrue == EventsHeld /\ HeardTrue

-----------------------------------------------------------------------------
(* What the documentation says and the code does not keep.  TLC finds each *)
(* violated in the instance of MCRigs.                                     *)

\* A getter answers for the receiver it was asked about: "the current operating
\* mode of a receiver" (core rig.rs:54, and the others there).  The getters that
\* are not in Heeded answer for the first one.
ReceiverHeeded ==
  \A t \in Tasks :
    Ended(t) /\ done[t].call[1] \in Getters /\ done[t].res.ok /\ Quiet(t)
    => done[t].res.v = Peek(self, done[t].after, Named(done[t].call)).v

\* Every setting that is listed holds: set_agc is to "Set the AGC mode for a
\* receiver" (core rig.rs:166), also after it has been Off.
AgcComesBack ==
  \A t \in Tasks :
    Ended(t) /\ done[t].call[1] = "set_agc" /\ Listed(done[t].call) /\ done[t].res.ok /\ Quiet(t)
    => Near(done[t].call, Peek(self, done[t].after, Subject(self, done[t].call)).v)

\* An event is true in all it tells: offset_hz is the "Current RIT offset in
\* hertz" (core events.rs:98), and receiver is the one that was turned.
HeardAsTold ==
  \A i \in DOMAIN heard :
    Told(heard[i]) = Peek(self, radio, Named(AsCall(heard[i]))).v

\* A message reaches the keyer whole: "Longer messages will be chunked
\* automatically" (core rig.rs:234).
CwWholeText ==
  \A t \in Tasks :
    Ended(t) /\ done[t].call[1] = "send_cw_message" /\ done[t].res.ok /\ faults = 0
    => Len(done[t].after.keyer.took) = Len(done[t].before.keyer.took) + Len(done[t].call[2])

\* VFO A of a rig with one receiver is always active: what get_frequency returns
\* for it is its frequency (select_receiver in riglib-icom rig.rs says so).
VfoAIsActive ==
  \A t \in Tasks :
    /\ Ended(t) /\ done[t].call = <<"get_frequency", VFO_A>> /\ done[t].res.ok /\ done[t].alone
    => done[t].res.v \in Values(t)
=============================================================================
