----------------------------- MODULE YaesuRig ------------------------------
(***************************************************************************)
(* YaesuRig, riglib-yaesu rig.rs: the operations of the Rig trait as       *)
(* scripts (module Cat), the AI handler, and the builder's check.          *)
(***************************************************************************)
EXTENDS YaesuCommands, YaesuModels

CONSTANT self      \* the rig: model, ptt_method, key_line, set_command_mode

execute_command(cmd)     == command(cmd)
execute_set_command(cmd) == set_command(cmd)
Verify == self.set_command_mode = "Verify"

-----------------------------------------------------------------------------
(* Unsolicited frames.                                                     *)

\* YaesuAiHandler::process: the events of a frame.
process(prefix, d) ==
  LET Tell(res, evt(_)) == IF res.ok THEN <<evt(res.v)>> ELSE <<>> IN
  CASE prefix = "FA" -> Tell(parse_frequency_response(d), LAMBDA v : <<"FrequencyChanged", VFO_A, v>>)
    [] prefix = "FB" -> Tell(parse_frequency_response(d), LAMBDA v : <<"FrequencyChanged", VFO_B, v>>)
    [] prefix = "MD0" -> Tell(parse_mode_response(d), LAMBDA v : <<"ModeChanged", VFO_A, v>>)
    [] prefix = "MD1" -> Tell(parse_mode_response(d), LAMBDA v : <<"ModeChanged", VFO_B, v>>)
    [] prefix = "TX" -> Tell(parse_ptt_response(d), LAMBDA v : <<"PttChanged", v>>)
    [] prefix = "RT" -> <<<<"RitChanged", d = Bit(TRUE), 0>>>>
    [] prefix = "XT" -> <<<<"XitChanged", d = Bit(TRUE), 0>>>>
    [] OTHER -> <<>>

\* YaesuBuilder::build_with_transport.
build_with_transport(ptt, key, tell) ==
  IF ptt = key /\ key # "None" THEN Refused("InvalidParameter")
  ELSE Sets(IF tell THEN <<execute_set_command(cmd_set_on("ai", TRUE))>>
            ELSE <<>>, <<>>)

-----------------------------------------------------------------------------
(* Receivers, frequency, mode, filter.                                     *)

\* Tenths of a dB.
meter_to_dbm(raw) == IF raw <= 120 THEN -1270 + (540 * raw) \div 120
                     ELSE -730 + (600 * (raw - 120)) \div 135

Dual == self.model.capabilities.max_receivers >= 2
receivers          == Return(IF Dual THEN <<VFO_A, VFO_B>> ELSE <<VFO_A>>)
primary_receiver   == Return(VFO_A)
secondary_receiver == Return(IF Dual THEN <<VFO_B>> ELSE <<>>)

get_frequency(rx, r) ==
  LET cmd == IF rx = VFO_B THEN cmd_read("frequency_b") ELSE cmd_read("frequency_a")
      res == parse_frequency_response(Data(r, 1))
  IN  ReadsAndTells(execute_command(cmd), res, <<"FrequencyChanged", rx, res.v>>)

set_frequency(rx, hz, r) ==
  LET cmd  == IF rx = VFO_B THEN cmd_set("frequency_b", hz) ELSE cmd_set("frequency_a", hz)
      sets == <<execute_set_command(cmd)>>
      read == get_frequency(rx, After(r, 1))
  IN  IF Verify THEN Verifies(sets, read, read.ret.v = hz)
      ELSE Sets(sets, <<<<"FrequencyChanged", rx, hz>>>>)

get_mode(rx, r) ==
  LET res == parse_mode_response(Data(r, 1))
  IN  ReadsAndTells(execute_command(cmd_read(IF rx = VFO_B THEN "mode_b" ELSE "mode_a")),
                    res, <<"ModeChanged", rx, res.v>>)

set_mode(rx, mode, r) ==
  LET cmd  == IF rx = VFO_B THEN cmd_set_mode_b(mode) ELSE cmd_set_mode_a(mode)
      sets == <<execute_set_command(cmd)>>
      read == get_mode(rx, After(r, 1))
  IN  IF Verify THEN Verifies(sets, read, read.ret.v = mode)
      ELSE Sets(sets, <<<<"ModeChanged", rx, mode>>>>)

get_passband(rx)     == Refused("Unsupported")
set_passband(rx, hz) == Refused("Unsupported")

-----------------------------------------------------------------------------
(* Transmitter, meters, split.                                             *)

get_ptt(r) == Reads(execute_command(cmd_read("ptt")), parse_ptt_response(Data(r, 1)))

set_ptt(on) ==
  LET x == CASE self.ptt_method = "Cat" -> rt_set_command(cmd_set_ptt(on))
             [] self.ptt_method = "Dtr" -> rt_set_line(TRUE, on)
             [] self.ptt_method = "Rts" -> rt_set_line(FALSE, on)
  IN  Sets(<<x>>, <<<<"PttChanged", on>>>>)

get_power(r) ==
  LET watts == parse_response("power", Data(r, 1))
  IN  Reads(execute_command(cmd_read("power")),
            IF watts.ok THEN Ok(10 * watts.v) ELSE watts)

set_power(tenths, r) ==
  LET watts == Rounded(tenths)
      sets  == <<execute_set_command(cmd_set("power", watts))>>
      read  == get_power(After(r, 1))
  IN  IF tenths < 0 \/ tenths > 10 * self.model.capabilities.max_power_watts
      THEN Refused("InvalidParameter")
      ELSE IF Verify THEN Verifies(sets, read, Abs(read.ret.v - 10 * watts) <= 10)
      ELSE Sets(sets, <<>>)

\* The main receiver's meter, whichever receiver is asked for.
get_s_meter(rx, r) ==
  LET raw == parse_response("meter", Data(r, 1))
      res == IF raw.ok THEN Ok(meter_to_dbm(raw.v)) ELSE raw
  IN  ReadsAndTells(execute_command(cmd_read("s_meter")), res, <<"SmeterReading", rx, res.v>>)
get_swr(r) == Reads(execute_command(cmd_read("swr")), parse_response("meter", Data(r, 1)))
get_alc(r) == Reads(execute_command(cmd_read("alc")), parse_response("meter", Data(r, 1)))

get_split(r) == Reads(execute_command(cmd_read("split")), parse_split_response(Data(r, 1)))

set_split(on, r) ==
  LET sets == <<execute_set_command(cmd_set_on("split", on))>>
      read == get_split(After(r, 1))
      base == IF Verify THEN Verifies(sets, read, read.ret.v = on) ELSE Sets(sets, <<>>)
  IN  [base EXCEPT !.evts = IF base.ret.ok THEN <<<<"SplitChanged", on>>>> ELSE <<>>]

\* The transmitter is moved by switching split.
set_tx_receiver(rx) ==
  Sets(<<execute_set_command(cmd_set_on("split", rx # VFO_A))>>, <<<<"SplitChanged", rx # VFO_A>>>>)

-----------------------------------------------------------------------------
(* CW.                                                                     *)

set_cw_key(on) ==
  IF self.key_line = "None" THEN Refused("Unsupported")
  ELSE Sets(<<rt_set_line(self.key_line = "Dtr", on)>>, <<>>)

get_cw_speed(r) ==
  LET res == parse_response("cw_speed", Data(r, 1))
  IN  ReadsAndTells(execute_command(cmd_read("cw_speed")), res, <<"CwSpeedChanged", res.v>>)

set_cw_speed(wpm, r) ==
  LET sets == <<execute_set_command(cmd_set("cw_speed", wpm))>>
      read == get_cw_speed(After(r, 1))
  IN  IF Verify THEN Verifies(sets, read, read.ret.v = wpm)
      ELSE Sets(sets, <<<<"CwSpeedChanged", wpm>>>>)

send_cw_message == Refused("Unsupported")
stop_cw_message == Refused("Unsupported")

-----------------------------------------------------------------------------
(* AGC, preamplifier, attenuator, antenna.                                 *)

get_agc(rx, r) ==
  LET res == Decode(parse_agc_response(Data(r, 1)),
                    [v \in 0..3 |-> <<"Off", "Fast", "Medium", "Slow">>[v + 1]])
  IN  ReadsAndTells(execute_command(cmd_read("agc")), res, <<"AgcChanged", rx, res.v>>)

set_agc(rx, mode, r) ==
  LET value == [Off |-> 0, Fast |-> 1, Medium |-> 2, Slow |-> 3][mode]
      sets  == <<execute_set_command(cmd_set_level("agc", value))>>
      read  == get_agc(rx, After(r, 1))
  IN  IF Verify THEN Verifies(sets, read, read.ret.v = mode)
      ELSE Sets(sets, <<<<"AgcChanged", rx, mode>>>>)

get_preamp(rx, r) ==
  LET res == Decode(parse_level_response(Data(r, 1)),
                    [v \in 0..2 |-> <<"Off", "Preamp1", "Preamp2">>[v + 1]])
  IN  ReadsAndTells(execute_command(cmd_read("preamp")), res, <<"PreampChanged", rx, res.v>>)

set_preamp(rx, level, r) ==
  LET value == [Off |-> 0, Preamp1 |-> 1, Preamp2 |-> 2][level]
      sets  == <<execute_set_command(cmd_set_level("preamp", value))>>
      read  == get_preamp(rx, After(r, 1))
  IN  IF level = "Preamp2" /\ ~self.model.has_preamp2 THEN Refused("Unsupported")
      ELSE IF Verify THEN Verifies(sets, read, read.ret.v = level)
      ELSE Sets(sets, <<<<"PreampChanged", rx, level>>>>)

\* The attenuator is on or off; on is the first step of the model, or 6 dB.
FirstStep ==
  LET steps == self.model.capabilities.attenuator_levels \ {0}
  IN  IF steps = {} THEN 6 ELSE CHOOSE db \in steps : \A other \in steps : db <= other

get_attenuator(rx, r) ==
  LET raw == parse_level_response(Data(r, 1))
      res == IF raw.ok THEN Ok(IF raw.v = 0 THEN 0 ELSE FirstStep) ELSE raw
  IN  ReadsAndTells(execute_command(cmd_read("attenuator")), res, <<"AttenuatorChanged", rx, res.v>>)

set_attenuator(rx, db, r) ==
  LET sets == <<execute_set_command(cmd_set_level("attenuator", IF db = 0 THEN 0 ELSE 1))>>
      read == get_attenuator(rx, After(r, 1))
  IN  IF Verify THEN Verifies(sets, read, (read.ret.v > 0) = (db > 0))
      ELSE Sets(sets, <<<<"AttenuatorChanged", rx, db>>>>)

get_antenna(rx, r) ==
  Reads(execute_command(cmd_read("antenna")),
        Decode(parse_response("antenna", Data(r, 1)),
               <<"Ant1", "Ant2", "Ant3">>))

set_antenna(rx, port, r) ==
  LET ant  == [Ant1 |-> 1, Ant2 |-> 2, Ant3 |-> 3, Ant4 |-> 4][port]
      sets == <<execute_set_command(cmd_set_level("antenna", ant))>>
      read == get_antenna(rx, After(r, 1))
  IN  IF Verify THEN Verifies(sets, read, read.ret.v = port) ELSE Sets(sets, <<>>)

-----------------------------------------------------------------------------
(* RIT and XIT: a switch each, and the clarifier they share.               *)

get_rit(r) ==
  LET res == parse_clarifier_from_info(Data(r, 1), "rit")
  IN  ReadsAndTells(execute_command(cmd_read("information")), res,
                    <<"RitChanged", res.v[1], res.v[2]>>)

Shift(hz) ==
  <<execute_set_command(cmd_rit_clear)>> \o
  CASE hz > 0 -> <<execute_set_command(cmd_rit("up", hz))>>
    [] hz < 0 -> <<execute_set_command(cmd_rit("down", Abs(hz)))>>
    [] hz = 0 -> <<>>

set_rit(on, hz) ==
  Sets(<<execute_set_command(cmd_set_on("rit", on))>> \o Shift(hz), <<<<"RitChanged", on, hz>>>>)

get_xit(r) ==
  LET res == parse_clarifier_from_info(Data(r, 1), "xit")
  IN  ReadsAndTells(execute_command(cmd_read("information")), res,
                    <<"XitChanged", res.v[1], res.v[2]>>)

set_xit(on, hz) ==
  Sets(<<execute_set_command(cmd_set_on("xit", on))>> \o Shift(hz), <<<<"XitChanged", on, hz>>>>)

set_vfo_a_eq_b(rx) == Sets(<<execute_set_command(cmd_vfo("a_eq_b"))>>, <<>>)
swap_vfo(rx)       == Sets(<<execute_set_command(cmd_vfo("swap"))>>, <<>>)
enable_transceive  == Return("()")
disable_transceive == Return("()")

-----------------------------------------------------------------------------
\* The operation of a call <<name, arguments...>>, after the answers r.
Operation(call, r) ==
  LET op == call[1] IN
  CASE op = "receivers"       -> receivers
    [] op = "get_frequency"   -> get_frequency(call[2], r)
    [] op = "set_frequency"   -> set_frequency(call[2], call[3], r)
    [] op = "get_mode"        -> get_mode(call[2], r)
    [] op = "set_mode"        -> set_mode(call[2], call[3], r)
    [] op = "get_passband"    -> get_passband(call[2])
    [] op = "set_passband"    -> set_passband(call[2], call[3])
    [] op = "get_ptt"         -> get_ptt(r)
    [] op = "set_ptt"         -> set_ptt(call[2])
    [] op = "get_power"       -> get_power(r)
    [] op = "set_power"       -> set_power(call[2], r)
    [] op = "get_s_meter"     -> get_s_meter(call[2], r)
    [] op = "get_swr"         -> get_swr(r)
    [] op = "get_alc"         -> get_alc(r)
    [] op = "get_split"       -> get_split(r)
    [] op = "set_split"       -> set_split(call[2], r)
    [] op = "set_tx_receiver" -> set_tx_receiver(call[2])
    [] op = "set_cw_key"      -> set_cw_key(call[2])
    [] op = "get_cw_speed"    -> get_cw_speed(r)
    [] op = "set_cw_speed"    -> set_cw_speed(call[2], r)
    [] op = "send_cw_message" -> send_cw_message
    [] op = "stop_cw_message" -> stop_cw_message
    [] op = "get_agc"         -> get_agc(call[2], r)
    [] op = "set_agc"         -> set_agc(call[2], call[3], r)
    [] op = "get_preamp"      -> get_preamp(call[2], r)
    [] op = "set_preamp"      -> set_preamp(call[2], call[3], r)
    [] op = "get_attenuator"  -> get_attenuator(call[2], r)
    [] op = "set_attenuator"  -> set_attenuator(call[2], call[3], r)
    [] op = "get_antenna"     -> get_antenna(call[2], r)
    [] op = "set_antenna"     -> set_antenna(call[2], call[3], r)
    [] op = "get_rit"         -> get_rit(r)
    [] op = "set_rit"         -> set_rit(call[2], call[3])
    [] op = "get_xit"         -> get_xit(r)
    [] op = "set_xit"         -> set_xit(call[2], call[3])
    [] op = "set_vfo_a_eq_b"  -> set_vfo_a_eq_b(call[2])
    [] op = "swap_vfo"        -> swap_vfo(call[2])
    [] op \in {"enable_transceive", "disable_transceive"} -> Return("()")
=============================================================================
