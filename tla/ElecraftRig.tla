---------------------------- MODULE ElecraftRig ----------------------------
(***************************************************************************)
(* ElecraftRig, riglib-elecraft rig.rs: the operations of the Rig trait as *)
(* scripts (module Cat), the AI handler, and the builder's check.  Powers  *)
(* are in tenths of a watt, meters in tenths of their unit.                *)
(***************************************************************************)
EXTENDS ElecraftCommands, ElecraftModels

CONSTANTS
  self,               \* the rig: model, ptt_method, key_line, set_command_mode
  MAX_BUFFER_RETRIES  \* polls of the CW buffer for one chunk

execute_command(cmd)     == command(cmd)
execute_set_command(cmd) == set_command(cmd)
Verify == self.set_command_mode = "Verify"

-----------------------------------------------------------------------------
(* Unsolicited frames.                                                     *)

\* ElecraftAiHandler::process: the events of a frame.
process(prefix, d) ==
  LET Tell(res, evt(_)) == IF res.ok THEN <<evt(res.v)>> ELSE <<>> IN
  CASE prefix = "FA" -> Tell(parse_frequency_response(d), LAMBDA v : <<"FrequencyChanged", VFO_A, v>>)
    [] prefix = "FB" -> Tell(parse_frequency_response(d), LAMBDA v : <<"FrequencyChanged", VFO_B, v>>)
    [] prefix = "MD" -> Tell(parse_mode_response(d), LAMBDA v : <<"ModeChanged", VFO_A, v>>)
    [] prefix = "TX" -> Tell(parse_ptt_response(d), LAMBDA v : <<"PttChanged", v>>)
    [] prefix = "RT" -> Tell(parse_switch_response(d), LAMBDA v : <<"RitChanged", v, 0>>)
    [] prefix = "XT" -> Tell(parse_switch_response(d), LAMBDA v : <<"XitChanged", v, 0>>)
    [] OTHER -> <<>>

\* ElecraftBuilder::build_with_transport.
build_with_transport(ptt, key, tell) ==
  IF ptt = key /\ key # "None" THEN Refused("InvalidParameter")
  ELSE Sets(IF tell THEN <<execute_set_command(cmd_set_ai(TRUE))>>
            ELSE <<>>, <<>>)

-----------------------------------------------------------------------------
(* Receivers, frequency, mode, filter.                                     *)

meter_to_dbm(raw) == IF raw <= 15 THEN -1270 + 36 * raw ELSE -730 + 40 * (raw - 15)
meter_to_swr(raw) == IF raw = 0 THEN 10 ELSE 10 + raw
meter_to_alc(raw) == IF raw >= 30 THEN 10 ELSE raw \div 3

Dual == self.model.has_sub_receiver
receivers          == Return(IF Dual THEN <<VFO_A, VFO_B>> ELSE <<VFO_A>>)
primary_receiver   == Return(VFO_A)
secondary_receiver == Return(IF Dual THEN <<VFO_B>> ELSE <<>>)

get_frequency(rx, r) ==
  LET cmd == IF rx = VFO_B THEN cmd_read("frequency_b") ELSE cmd_read("frequency_a")
      res == parse_frequency_response(Data(r, 1))
  IN  ReadsAndTells(execute_command(cmd), res, <<"FrequencyChanged", rx, res.v>>)

set_frequency(rx, hz, r) ==
  LET cmd  == IF rx = VFO_B THEN cmd_set("frequency_b", hz) ELSE cmd_set("frequency_a", hz)
      sets == <<execute_set_command(cmd)>>
      read == get_frequency(rx, After(r, 1))
  IN  IF Verify THEN Verifies(sets, read, read.ret.v = hz)
      ELSE Sets(sets, <<<<"FrequencyChanged", rx, hz>>>>)

get_mode(rx, r) ==
  LET res == parse_mode_response(Data(r, 1))
  IN  ReadsAndTells(execute_command(cmd_read("mode")), res, <<"ModeChanged", rx, res.v>>)

set_mode(rx, mode, r) ==
  LET sets == <<execute_set_command(cmd_set_mode(mode))>>
      read == get_mode(rx, After(r, 1))
  IN  IF Verify THEN Verifies(sets, read, read.ret.v = mode)
      ELSE Sets(sets, <<<<"ModeChanged", rx, mode>>>>)

get_passband(rx, r) ==
  Reads(execute_command(cmd_read(IF self.model.is_k4 THEN "bandwidth_bw" ELSE "bandwidth_fw")),
        parse_level_response("bandwidth", Data(r, 1)))

set_passband(rx, hz) ==
  LET cmd == IF self.model.is_k4 THEN cmd_set_bandwidth("bw", hz) ELSE cmd_set_bandwidth("fw", hz)
  IN  Sets(<<execute_set_command(cmd)>>, <<>>)

-----------------------------------------------------------------------------
(* Transmitter, meters, split.                                             *)

get_ptt(r) == Reads(execute_command(cmd_read("ptt")), parse_ptt_response(Data(r, 1)))

set_ptt(on) ==
  LET x == CASE self.ptt_method = "Cat" -> rt_set_command(cmd_set_ptt(on))
             [] self.ptt_method = "Dtr" -> rt_set_line(TRUE, on)
             [] self.ptt_method = "Rts" -> rt_set_line(FALSE, on)
  IN  Sets(<<x>>, <<<<"PttChanged", on>>>>)

get_power(r) ==
  LET watts == parse_response("power", Data(r, 1))
  IN  Reads(execute_command(cmd_read("power")),
            IF watts.ok THEN Ok(10 * watts.v) ELSE watts)

set_power(tenths, r) ==
  LET watts == Rounded(tenths)
      sets  == <<execute_set_command(cmd_set("power", watts))>>
      read  == get_power(After(r, 1))
  IN  IF tenths < 0 \/ tenths > 10 * self.model.capabilities.max_power_watts
      THEN Refused("InvalidParameter")
      ELSE IF Verify THEN Verifies(sets, read, Abs(read.ret.v - 10 * watts) <= 10)
      ELSE Sets(sets, <<>>)

Meter(cmd, convert(_), r) ==
  LET raw == parse_meter_response(Data(r, 1))
  IN  Reads(execute_command(cmd), IF raw.ok THEN Ok(convert(raw.v)) ELSE raw)
Tells(script, evt) == [script EXCEPT !.evts = IF script.ret.ok THEN <<evt>> ELSE <<>>]

get_s_meter(rx, r) ==
  LET read == Meter(cmd_read("s_meter"), meter_to_dbm, r)
  IN  Tells(read, <<"SmeterReading", rx, read.ret.v>>)
get_swr(r) ==
  LET read == Meter(cmd_read("swr"), meter_to_swr, r)
  IN  Tells(read, <<"SwrReading", read.ret.v>>)
get_alc(r) == Meter(cmd_read("alc"), meter_to_alc, r)

\* Split is on when the transmitter is on VFO B; the receiver is not asked for.
get_split(r) == Reads(execute_command(cmd_read("tx_vfo")), parse_switch_response(Data(r, 1)))

set_split(on, r) ==
  LET cmds == cmd_set_split(on)
      sets == <<execute_set_command(cmds[1]), execute_set_command(cmds[2])>>
      read == get_split(After(r, 2))
      base == IF Verify THEN Verifies(sets, read, read.ret.v = on) ELSE Sets(sets, <<>>)
  IN  Tells(base, <<"SplitChanged", on>>)

set_tx_receiver(rx) == Sets(<<execute_set_command(cmd_set_tx_vfo(rx = VFO_B))>>, <<>>)

-----------------------------------------------------------------------------
(* CW.                                                                     *)

set_cw_key(on) ==
  IF self.key_line = "None" THEN Refused("Unsupported")
  ELSE Sets(<<rt_set_line(self.key_line = "Dtr", on)>>, <<>>)

get_cw_speed(r) ==
  LET res == parse_response("cw_speed", Data(r, 1))
  IN  ReadsAndTells(execute_command(cmd_read("cw_speed")), res, <<"CwSpeedChanged", res.v>>)

set_cw_speed(wpm, r) ==
  LET sets == <<execute_set_command(cmd_set("cw_speed", wpm))>>
      read == get_cw_speed(After(r, 1))
  IN  IF Verify THEN Verifies(sets, read, read.ret.v = wpm)
      ELSE Sets(sets, <<<<"CwSpeedChanged", wpm>>>>)

\* chunks: the message, cut into pieces of 24 characters.
send_cw_message(chunks, r) ==
  Chunked(chunks, execute_command(cmd_read("cw_buffer")), parse_cw_buffer_response,
          LAMBDA c : execute_set_command(cmd_send_cw_message(c)), MAX_BUFFER_RETRIES, r)

stop_cw_message == Sets(<<execute_set_command(cmd_stop_cw_message)>>, <<>>)

-----------------------------------------------------------------------------
(* AGC, preamplifier, attenuator.  The K4 knows no medium AGC; an          *)
(* attenuator is on or off.                                                *)

get_agc(rx, r) ==
  LET d  == Data(r, 1)
      both == parse_agc_response_k3(d)
      SpeedOf(speed, on) ==
        CASE ~on \/ speed = 0 -> "Off"
          [] on /\ speed \in 1..4 -> "Fast"
          [] on /\ speed \in 5..12 -> "Medium"
          [] on /\ speed > 12 -> "Slow"
      res == IF self.model.is_k4
             THEN Decode(parse_response_k4(d), [v \in 0..2 |-> <<"Off", "Slow", "Fast">>[v + 1]])
             ELSE IF both.ok THEN Ok(SpeedOf(both.v[1], both.v[2])) ELSE both
  IN  ReadsAndTells(execute_command(cmd_read(IF self.model.is_k4 THEN "agc_k4" ELSE "agc_k3")),
                    res, <<"AgcChanged", rx, res.v>>)

set_agc(rx, mode, r) ==
  LET value == [Off |-> 0, Slow |-> 1, Medium |-> 1, Fast |-> 2][mode]
      speed == [Off |-> 0, Fast |-> 2, Medium |-> 10, Slow |-> 18][mode]
      sets  == <<execute_set_command(IF self.model.is_k4 THEN cmd_set_agc_k4(value)
                                     ELSE cmd_set_agc_k3(speed, mode # "Off"))>>
      read  == get_agc(rx, After(r, 1))
      acceptable == mode = "Medium" /\ read.ret.v = "Slow" /\ self.model.is_k4
  IN  IF Verify THEN Verifies(sets, read, read.ret.v = mode \/ acceptable)
      ELSE Sets(sets, <<<<"AgcChanged", rx, mode>>>>)

get_preamp(rx, r) ==
  LET res == Decode(parse_level_response("preamp", Data(r, 1)),
                    [v \in 0..1 |-> <<"Off", "Preamp1">>[v + 1]])
  IN  ReadsAndTells(execute_command(cmd_read("preamp")), res, <<"PreampChanged", rx, res.v>>)

set_preamp(rx, level, r) ==
  LET sets == <<execute_set_command(cmd_set_level("preamp", IF level = "Off" THEN 0 ELSE 1))>>
      read == get_preamp(rx, After(r, 1))
  IN  IF level = "Preamp2" THEN Refused("Unsupported")
      ELSE IF Verify THEN Verifies(sets, read, read.ret.v = level)
      ELSE Sets(sets, <<<<"PreampChanged", rx, level>>>>)

get_attenuator(rx, r) ==
  LET res == IF self.model.is_k4 THEN parse_response_k4(Data(r, 1))
             ELSE parse_level_response("attenuator", Data(r, 1))
  IN  ReadsAndTells(execute_command(IF self.model.is_k4 THEN cmd_read("attenuator_k4")
                                    ELSE cmd_read("attenuator_k3")),
                    res, <<"AttenuatorChanged", rx, res.v>>)

set_attenuator(rx, db, r) ==
  LET value == IF db = 0 THEN 0 ELSE 1
      sets  == <<execute_set_command(IF self.model.is_k4 THEN cmd_set_level("attenuator_k4", value)
                                     ELSE cmd_set_level("attenuator_k3", value))>>
      read  == get_attenuator(rx, After(r, 1))
  IN  IF Verify THEN Verifies(sets, read, (read.ret.v > 0) = (db > 0))
      ELSE Sets(sets, <<<<"AttenuatorChanged", rx, db>>>>)

get_antenna(rx)       == Refused("Unsupported")
set_antenna(rx, port) == Refused("Unsupported")

-----------------------------------------------------------------------------
(* RIT and XIT: a switch each, and the offset register they share, which   *)
(* is cleared and then counted up or down in steps of the model.           *)

SwitchAndOffset(read_switch, name, r) ==
  LET on     == parse_switch_response(Data(r, 1))
      offset == parse_rit_xit_offset_response(Data(r, 2))
      first  == execute_command(read_switch)
  IN  IF Len(r) >= 1 /\ ~on.ok THEN Script(<<first>>, on, <<>>)
      ELSE Script(<<first, execute_command(cmd_read("rit_xit_offset"))>>,
                  IF offset.ok THEN Ok(<<on.v, offset.v>>) ELSE offset,
                  IF offset.ok THEN <<<<name, on.v, offset.v>>>> ELSE <<>>)

CountTo(hz) == [i \in 1..(Abs(hz) \div self.model.rit_step_hz) |->
                  execute_set_command(IF hz > 0 THEN cmd_rit("up") ELSE cmd_rit("down"))]

get_rit(r) == SwitchAndOffset(cmd_read("rit"), "RitChanged", r)
set_rit(on, hz) ==
  Sets(<<execute_set_command(cmd_set_on("rit", on)), execute_set_command(cmd_rit("clear"))>>
         \o CountTo(hz), <<<<"RitChanged", on, hz>>>>)

get_xit(r) == SwitchAndOffset(cmd_read("xit"), "XitChanged", r)
set_xit(on, hz) ==
  Sets(<<execute_set_command(cmd_set_on("xit", on)), execute_set_command(cmd_rit("clear"))>>
         \o CountTo(hz), <<<<"XitChanged", on, hz>>>>)

set_vfo_a_eq_b(rx) == Sets(<<execute_set_command(cmd_vfo("a_eq_b"))>>, <<>>)
swap_vfo(rx)       == Sets(<<execute_set_command(cmd_vfo("swap"))>>, <<>>)
enable_transceive  == Return("()")
disable_transceive == Return("()")

-----------------------------------------------------------------------------
\* The operation of a call <<name, arguments...>>, after the answers r.
Operation(call, r) ==
  LET op == call[1] IN
  CASE op = "receivers"       -> receivers
    [] op = "get_frequency"   -> get_frequency(call[2], r)
    [] op = "set_frequency"   -> set_frequency(call[2], call[3], r)
    [] op = "get_mode"        -> get_mode(call[2], r)
    [] op = "set_mode"        -> set_mode(call[2], call[3], r)
    [] op = "get_passband"    -> get_passband(call[2], r)
    [] op = "set_passband"    -> set_passband(call[2], call[3])
    [] op = "get_ptt"         -> get_ptt(r)
    [] op = "set_ptt"         -> set_ptt(call[2])
    [] op = "get_power"       -> get_power(r)
    [] op = "set_power"       -> set_power(call[2], r)
    [] op = "get_s_meter"     -> get_s_meter(call[2], r)
    [] op = "get_swr"         -> get_swr(r)
    [] op = "get_alc"         -> get_alc(r)
    [] op = "get_split"       -> get_split(r)
    [] op = "set_split"       -> set_split(call[2], r)
    [] op = "set_tx_receiver" -> set_tx_receiver(call[2])
    [] op = "set_cw_key"      -> set_cw_key(call[2])
    [] op = "get_cw_speed"    -> get_cw_speed(r)
    [] op = "set_cw_speed"    -> set_cw_speed(call[2], r)
    [] op = "send_cw_message" -> send_cw_message(call[2], r)
    [] op = "stop_cw_message" -> stop_cw_message
    [] op = "get_agc"         -> get_agc(call[2], r)
    [] op = "set_agc"         -> set_agc(call[2], call[3], r)
    [] op = "get_preamp"      -> get_preamp(call[2], r)
    [] op = "set_preamp"      -> set_preamp(call[2], call[3], r)
    [] op = "get_attenuator"  -> get_attenuator(call[2], r)
    [] op = "set_attenuator"  -> set_attenuator(call[2], call[3], r)
    [] op = "get_antenna"     -> get_antenna(call[2])
    [] op = "set_antenna"     -> set_antenna(call[2], call[3])
    [] op = "get_rit"         -> get_rit(r)
    [] op = "set_rit"         -> set_rit(call[2], call[3])
    [] op = "get_xit"         -> get_xit(r)
    [] op = "set_xit"         -> set_xit(call[2], call[3])
    [] op = "set_vfo_a_eq_b"  -> set_vfo_a_eq_b(call[2])
    [] op = "swap_vfo"        -> swap_vfo(call[2])
    [] op \in {"enable_transceive", "disable_transceive"} -> Return("()")
=============================================================================
