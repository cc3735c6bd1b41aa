------------------------------ MODULE FlexRig ------------------------------
(***************************************************************************)
(* The FlexRadio driver: riglib-flex, rig.rs.                              *)
(*                                                                         *)
(* An operation awaits one step after another: a snapshot of the cached    *)
(* state, a meter value, a command with its response, or the pause after   *)
(* a slice was created.  From the answers r that it has, an operation here *)
(* says what it awaits next, or what it returns.  A snapshot carries the   *)
(* cache (slices, transmitting, power) and, because a HashMap is walked in *)
(* any order, which of the slices marked tx and active is met first, and   *)
(* which last.                                                             *)
(***************************************************************************)
EXTENDS FlexCodec

CONSTANT self   \* the rig: model, auto_create_slices

DEFAULT_SLICE_FREQ_HZ == 14250000
DEFAULT_SLICE_MODE    == "USB"

State       == [kind |-> "state"]
Settle      == [kind |-> "settle"]
Meter(name) == [kind |-> "meter", name |-> name]
Sent(cmd)   == [kind |-> "cmd", cmd |-> cmd]

Awaits(step) == [next |-> step]
Returns(res) == [ret |-> res]

\* Commands in a row; the responses have nothing in them.
Sends(cmds, r) ==
  IF Len(r) < Len(cmds) THEN Awaits(Sent(cmds[Len(r) + 1])) ELSE Returns(Done)

CreateDefault == Sent(cmd_slice_create(DEFAULT_SLICE_FREQ_HZ, mode_to_flex(DEFAULT_SLICE_MODE)))

Lacks(snapshot, rx) == rx \notin DOMAIN snapshot.slices

\* The slice is there, or one is created and the slice is there then.
ensure_slice(rx, r) ==
  IF r = <<>> THEN Awaits(State)
  ELSE IF ~Lacks(r[1], rx) THEN Returns(Done)
  ELSE IF ~self.auto_create_slices THEN Returns(Err("InvalidParameter"))
  ELSE IF Len(r) < 4 THEN Awaits(<<CreateDefault, Settle, State>>[Len(r)])
  ELSE Returns(IF Lacks(r[4], rx) THEN Err("InvalidParameter") ELSE Done)

\* What follows once the slice is there.
Ensured(rx, r, Rest(_)) ==
  LET first == ensure_slice(rx, r)
  IN  IF "next" \in DOMAIN first \/ ~first.ret.ok THEN first
      ELSE Rest(After(r, IF Lacks(r[1], rx) THEN 4 ELSE 1))

Getter(rx, r, Value(_)) ==
  Ensured(rx, r, LAMBDA a :
    IF a = <<>> THEN Awaits(State)
    ELSE Returns(IF Lacks(a[1], rx) THEN Err("InvalidParameter") ELSE Value(a[1].slices[rx])))
Setter(rx, r, cmds) == Ensured(rx, r, LAMBDA a : Sends(cmds, a))

Snapshot(r, Value(_)) == IF r = <<>> THEN Awaits(State) ELSE Returns(Ok(Value(r[1])))

-----------------------------------------------------------------------------
(* Receivers.                                                              *)

Ascending(set) == SetToSortSeq(set, LAMBDA a, b : a < b)

receivers(r) ==
  Snapshot(r, LAMBDA s : IF DOMAIN s.slices = {} /\ self.auto_create_slices THEN <<0>>
                         ELSE Ascending(DOMAIN s.slices))

\* Mutant of PrimaryOf: whatever transmits, the first slice is the one.
PrimaryFirst(s) == IF DOMAIN s.slices = {} THEN 0 ELSE Ascending(DOMAIN s.slices)[1]

\* The slice that transmits, or else slice 0, or else the first; s.tx is the
\* first slice met that is marked, or none.
PrimaryOf(s) ==
  IF s.tx # {} THEN CHOOSE i \in s.tx : TRUE
  ELSE IF DOMAIN s.slices = {} THEN 0 ELSE Ascending(DOMAIN s.slices)[1]
primary_receiver(r) == Snapshot(r, PrimaryOf)

secondary_receiver(r) ==
  IF Len(r) < 2 THEN Awaits(State)
  ELSE LET others == SelectSeq(Ascending(DOMAIN r[1].slices), LAMBDA i : i # PrimaryOf(r[2]))
       IN  Returns(Ok(IF others = <<>> THEN <<>> ELSE <<others[1]>>))

\* An operation on the primary receiver.
OfPrimary(r, Rest(_, _)) ==
  IF r = <<>> THEN Awaits(State) ELSE Rest(PrimaryOf(r[1]), After(r, 1))

create_slice(hz, mode, r) ==
  CASE Len(r) = 0 -> Awaits(Sent(cmd_slice_create(hz, mode_to_flex(mode))))
    [] Len(r) = 1 /\ r[1] \notin 0..255 -> Returns(Err("Protocol"))
    [] Len(r) = 1 /\ r[1] \in 0..255    -> Awaits(Settle)
    [] OTHER -> Returns(Ok(r[1]))
destroy_slice(rx, r)       == Sends(<<cmd_slice_remove(rx)>>, r)
set_dax_channel(rx, ch, r) == Sends(<<cmd_slice_set_dax(rx, ch)>>, r)
set_tx_slice(rx, r)        == Sends(<<cmd_slice_set_tx(rx)>>, r)
set_tx_receiver(rx, r)     == Sends(<<cmd_slice_set_tx(rx)>>, r)

-----------------------------------------------------------------------------
(* Settings of a slice.                                                    *)

get_frequency(rx, r)     == Getter(rx, r, LAMBDA s : Ok(s.frequency_hz))
set_frequency(rx, hz, r) == Setter(rx, r, <<cmd_slice_tune(rx, hz)>>)

get_mode(rx, r) ==
  Getter(rx, r, LAMBDA s : IF s.mode = "" THEN Err("Protocol") ELSE flex_to_mode(s.mode))
set_mode(rx, mode, r) == Setter(rx, r, <<cmd_slice_set_mode(rx, mode_to_flex(mode))>>)

get_agc(rx, r) ==
  Getter(rx, r, LAMBDA s : IF s.agc_mode = "" THEN Err("Protocol") ELSE agc_from_str(s.agc_mode))
set_agc(rx, mode, r) == Setter(rx, r, <<cmd_slice_set_agc_mode(rx, FlexAgc[mode])>>)

get_passband(rx, r) == Getter(rx, r, LAMBDA s : Ok(Abs(s.filter_hi - s.filter_lo)))

\* Halves are rounded towards zero, as i32 division does.
Half(v) == IF v < 0 THEN -((-v) \div 2) ELSE v \div 2

\* Mutant of Edges: the upper edge is where the width ends.
EdgesFromZero(s, width) == <<0, width>>

\* The new edges lie around the middle of the old ones.
Edges(s, width) ==
  LET centre == Half(s.filter_hi + s.filter_lo)
  IN  <<centre - Half(width), centre + Half(width)>>
set_passband(rx, width, r) ==
  Ensured(rx, r, LAMBDA a :
    IF a = <<>> THEN Awaits(State)
    ELSE IF Lacks(a[1], rx) THEN Returns(Err("InvalidParameter"))
    ELSE LET e == Edges(a[1].slices[rx], width)
         IN  Sends(<<cmd_slice_set_filter(rx, e[1], e[2])>>, After(a, 1)))

get_rit(r) == OfPrimary(r, LAMBDA rx, a : Getter(rx, a, LAMBDA s : Ok(<<s.rit_on, s.rit_freq_hz>>)))
get_xit(r) == OfPrimary(r, LAMBDA rx, a : Getter(rx, a, LAMBDA s : Ok(<<s.xit_on, s.xit_freq_hz>>)))
set_rit(on, hz, r) ==
  OfPrimary(r, LAMBDA rx, a :
    Setter(rx, a, <<cmd_slice_set_rit_on(rx, on), cmd_slice_set_rit_freq(rx, hz)>>))
set_xit(on, hz, r) ==
  OfPrimary(r, LAMBDA rx, a :
    Setter(rx, a, <<cmd_slice_set_xit_on(rx, on), cmd_slice_set_xit_freq(rx, hz)>>))

-----------------------------------------------------------------------------
(* Transmitter, meters, split, CW.                                         *)

get_ptt(r)     == Snapshot(r, LAMBDA s : s.transmitting)
set_ptt(on, r) == Sends(<<cmd_xmit(on)>>, r)

get_power(r) == Snapshot(r, LAMBDA s : 10 * s.power)

\* Mutant of set_power: the range is looked at after the command.
set_power_unchecked(tenths, r) ==
  LET max == 10 * self.model.capabilities.max_power_watts
  IN  IF r # <<>> /\ (tenths < 0 \/ tenths > max) THEN Returns(Err("InvalidParameter"))
      ELSE Sends(<<cmd_set_power(Rounded(IF tenths < 0 THEN 0 ELSE tenths))>>, r)

\* Tenths of a watt; a whole number of watts is sent.
set_power(tenths, r) ==
  IF tenths < 0 \/ tenths > 10 * self.model.capabilities.max_power_watts
  THEN Returns(Err("InvalidParameter"))
  ELSE Sends(<<cmd_set_power(Rounded(tenths))>>, r)

\* Meter values are given in 1/128 of the unit.
Unit == 128
MeterValue(name, r, Value(_)) ==
  IF r = <<>> THEN Awaits(Meter(name))
  ELSE Returns(IF r[1] = <<>> THEN Err("Unsupported") ELSE Ok(Value(r[1][1])))
get_s_meter(rx, r) == MeterValue("s-meter", r, LAMBDA raw : raw)
get_swr(r)         == MeterValue("swr", r, LAMBDA raw : Larger(raw, Unit))
get_alc(r)         == MeterValue("alc", r, LAMBDA raw : raw)

\* The slice that transmits is not the one in focus; of several that are marked
\* the one met last counts.
get_split(r) ==
  Snapshot(r, LAMBDA s : s.tx_last # {} /\ s.active_last # {} /\ s.tx_last # s.active_last)

\* The second slice transmits, or the first; a second one is created if there
\* is only one.
set_split(on, r) ==
  LET had    == IF r = <<>> THEN <<>> ELSE Ascending(DOMAIN r[1].slices)
      creates == on /\ Len(had) < 2
      have   == IF creates /\ Len(r) >= 4 THEN Ascending(DOMAIN r[4].slices) ELSE had
      which  == IF on THEN 2 ELSE 1
  IN  IF r = <<>> THEN Awaits(State)
      ELSE IF creates /\ ~self.auto_create_slices THEN Returns(Err("InvalidParameter"))
      ELSE IF creates /\ Len(r) < 4 THEN Awaits(<<CreateDefault, Settle, State>>[Len(r)])
      ELSE IF Len(have) < which THEN Returns(Done)
      ELSE Sends(<<cmd_slice_set_tx(have[which])>>, After(r, IF creates THEN 4 ELSE 1))

send_cw_message(text, r) == IF text = <<>> THEN Returns(Done) ELSE Sends(<<cmd_cwx_send(text)>>, r)
stop_cw_message(r)       == Sends(<<cmd_cwx_clear>>, r)
enable_transceive        == Returns(Done)
disable_transceive       == Returns(Err("Unsupported"))
set_cw_key               == Returns(Err("Unsupported"))

-----------------------------------------------------------------------------
\* The trait Rig, and FlexRadio's own operations; what a FlexRadio does not
\* implement is refused by the trait.
Operation(c, r) ==
  CASE c[1] = "receivers"          -> receivers(r)
    [] c[1] = "primary_receiver"   -> primary_receiver(r)
    [] c[1] = "secondary_receiver" -> secondary_receiver(r)
    [] c[1] = "get_frequency"      -> get_frequency(c[2], r)
    [] c[1] = "set_frequency"      -> set_frequency(c[2], c[3], r)
    [] c[1] = "get_mode"           -> get_mode(c[2], r)
    [] c[1] = "set_mode"           -> set_mode(c[2], c[3], r)
    [] c[1] = "get_passband"       -> get_passband(c[2], r)
    [] c[1] = "set_passband"       -> set_passband(c[2], c[3], r)
    [] c[1] = "get_agc"            -> get_agc(c[2], r)
    [] c[1] = "set_agc"            -> set_agc(c[2], c[3], r)
    [] c[1] = "get_ptt"            -> get_ptt(r)
    [] c[1] = "set_ptt"            -> set_ptt(c[2], r)
    [] c[1] = "get_power"          -> get_power(r)
    [] c[1] = "set_power"          -> set_power(c[2], r)
    [] c[1] = "get_s_meter"        -> get_s_meter(c[2], r)
    [] c[1] = "get_swr"            -> get_swr(r)
    [] c[1] = "get_alc"            -> get_alc(r)
    [] c[1] = "get_split"          -> get_split(r)
    [] c[1] = "set_split"          -> set_split(c[2], r)
    [] c[1] = "set_tx_receiver"    -> set_tx_receiver(c[2], r)
    [] c[1] = "get_rit"            -> get_rit(r)
    [] c[1] = "set_rit"            -> set_rit(c[2], c[3], r)
    [] c[1] = "get_xit"            -> get_xit(r)
    [] c[1] = "set_xit"            -> set_xit(c[2], c[3], r)
    [] c[1] = "send_cw_message"    -> send_cw_message(c[2], r)
    [] c[1] = "stop_cw_message"    -> stop_cw_message(r)
    [] c[1] = "enable_transceive"  -> enable_transceive
    [] c[1] = "disable_transceive" -> disable_transceive
    [] c[1] = "set_cw_key"         -> set_cw_key
    [] c[1] = "create_slice"       -> create_slice(c[2], c[3], r)
    [] c[1] = "destroy_slice"      -> destroy_slice(c[2], r)
    [] c[1] = "set_dax_channel"    -> set_dax_channel(c[2], c[3], r)
    [] c[1] = "set_tx_slice"       -> set_tx_slice(c[2], r)
    [] OTHER                       -> Returns(Err("Unsupported"))
=============================================================================
