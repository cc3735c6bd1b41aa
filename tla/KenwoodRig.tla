----------------------------- MODULE KenwoodRig -----------------------------
(***************************************************************************)
(* KenwoodRig, riglib-kenwood rig.rs: the operations of the Rig trait as   *)
(* scripts (module Cat), the AI handler, and the builder's check.  Powers  *)
(* are in tenths of a watt, meters in tenths of their unit.                *)
(***************************************************************************)
EXTENDS KenwoodCommands, KenwoodModels

CONSTANTS
  self,               \* the rig: model, ptt_method, key_line, set_command_mode
  MAX_BUFFER_RETRIES  \* polls of the CW buffer for one chunk

execute_command(cmd)     == command(cmd)
execute_set_command(cmd) == set_command(cmd)
Verify == self.set_command_mode = "Verify"

-----------------------------------------------------------------------------
(* Unsolicited frames.                                                     *)

\* Mutant of process: FB is told of VFO A.
processOneVfo(prefix, d) ==
  LET res == parse_frequency_response(d)
  IN  IF prefix \in {"FA", "FB"} /\ res.ok THEN <<<<"FrequencyChanged", VFO_A, res.v>>>> ELSE <<>>

\* KenwoodAiHandler::process: the events of a frame.
process(prefix, d) ==
  LET Tell(res, evt(_)) == IF res.ok THEN <<evt(res.v)>> ELSE <<>> IN
  CASE prefix = "FA" -> Tell(parse_frequency_response(d), LAMBDA v : <<"FrequencyChanged", VFO_A, v>>)
    [] prefix = "FB" -> Tell(parse_frequency_response(d), LAMBDA v : <<"FrequencyChanged", VFO_B, v>>)
    [] prefix = "MD" -> Tell(parse_mode_response(d), LAMBDA v : <<"ModeChanged", VFO_A, v>>)
    [] prefix = "TX" -> Tell(parse_ptt_response(d), LAMBDA v : <<"PttChanged", v>>)
    [] prefix = "RT" -> Tell(parse_switch_response(d), LAMBDA v : <<"RitChanged", v, 0>>)
    [] prefix = "XT" -> Tell(parse_switch_response(d), LAMBDA v : <<"XitChanged", v, 0>>)
    [] OTHER -> <<>>

\* Mutant of build_with_transport: one line may have both uses.
build_with_any_line(ptt, key, tell) == Sets(<<>>, <<>>)

\* KenwoodBuilder::build_with_transport.
build_with_transport(ptt, key, tell) ==
  IF ptt = key /\ key # "None" THEN Refused("InvalidParameter")
  ELSE Sets(IF tell THEN <<execute_set_command(cmd_set_ai(TRUE, self.model.ai_enable_byte))>>
            ELSE <<>>, <<>>)

-----------------------------------------------------------------------------
(* Receivers, frequency, mode, filter.                                     *)

meter_to_dbm(raw) == IF raw <= 15 THEN -1270 + 36 * raw ELSE -730 + 40 * (raw - 15)
meter_to_swr(raw) == IF raw = 0 THEN 10 ELSE 10 + raw
meter_to_alc(raw) == IF raw >= 30 THEN 10 ELSE raw \div 3

Dual == "sub_receiver" \in self.model.capabilities.has
receivers          == Return(IF Dual THEN <<VFO_A, VFO_B>> ELSE <<VFO_A>>)
primary_receiver   == Return(VFO_A)
secondary_receiver == Return(IF Dual THEN <<VFO_B>> ELSE <<>>)

get_frequency(rx, r) ==
  LET cmd == IF rx = VFO_B THEN cmd_read("frequency_b") ELSE cmd_read("frequency_a")
      res == parse_frequency_response(Data(r, 1))
  IN  ReadsAndTells(execute_command(cmd), res, <<"FrequencyChanged", rx, res.v>>)

\* Mutant of set_frequency: the change is told before it is read back.
set_frequency_told(rx, hz, r) ==
  LET cmd  == IF rx = VFO_B THEN cmd_set("frequency_b", hz) ELSE cmd_set("frequency_a", hz)
      sets == <<execute_set_command(cmd)>>
      read == get_frequency(rx, After(r, 1))
  IN  [Verifies(sets, read, read.ret.v = hz) EXCEPT !.evts = <<<<"FrequencyChanged", rx, hz>>>>]

set_frequency(rx, hz, r) ==
  LET cmd  == IF rx = VFO_B THEN cmd_set("frequency_b", hz) ELSE cmd_set("frequency_a", hz)
      sets == <<execute_set_command(cmd)>>
      read == get_frequency(rx, After(r, 1))
  IN  IF Verify THEN Verifies(sets, read, read.ret.v = hz)
      ELSE Sets(sets, <<<<"FrequencyChanged", rx, hz>>>>)

get_mode(rx, r) ==
  LET res == parse_mode_response(Data(r, 1))
  IN  ReadsAndTells(execute_command(cmd_read("mode")), res, <<"ModeChanged", rx, res.v>>)

set_mode(rx, mode, r) ==
  LET sets == <<execute_set_command(cmd_set_mode(mode))>>
      read == get_mode(rx, After(r, 1))
  IN  IF Verify THEN Verifies(sets, read, read.ret.v = mode)
      ELSE Sets(sets, <<<<"ModeChanged", rx, mode>>>>)

get_passband(rx, r) ==
  LET d == Data(r, 1)
  IN  Reads(execute_command(cmd_read("passband")),
            IF d.s = "" /\ d.w > 0 THEN Ok(200 + d.v * 150) ELSE Err("Protocol"))

set_passband(rx, hz) ==
  LET steps == (hz - 200) \div 150
      index == IF hz <= 200 THEN 0 ELSE IF steps > 31 THEN 31 ELSE steps
  IN  Sets(<<execute_set_command(cmd_set_level("passband", index))>>, <<>>)

-----------------------------------------------------------------------------
(* Transmitter, meters, split.                                             *)

get_ptt(r) == Reads(execute_command(cmd_read("ptt")), parse_ptt_response(Data(r, 1)))

set_ptt(on) ==
  LET x == CASE self.ptt_method = "Cat" -> rt_set_command(cmd_set_ptt(on))
             [] self.ptt_method = "Dtr" -> rt_set_line(TRUE, on)
             [] self.ptt_method = "Rts" -> rt_set_line(FALSE, on)
  IN  Sets(<<x>>, <<<<"PttChanged", on>>>>)

get_power(r) ==
  LET watts == parse_response("power", Data(r, 1))
  IN  Reads(execute_command(cmd_read("power")),
            IF watts.ok THEN Ok(10 * watts.v) ELSE watts)

\* Mutant of set_power: the range is looked at when the command has been sent.
set_power_unchecked(tenths, r) ==
  Script(<<execute_set_command(cmd_set("power", Rounded(tenths)))>>,
         IF tenths \in 0..(10 * self.model.capabilities.max_power_watts) THEN Done
         ELSE Err("InvalidParameter"), <<>>)

set_power(tenths, r) ==
  LET watts == Rounded(tenths)
      sets  == <<execute_set_command(cmd_set("power", watts))>>
      read  == get_power(After(r, 1))
  IN  IF tenths < 0 \/ tenths > 10 * self.model.capabilities.max_power_watts
      THEN Refused("InvalidParameter")
      ELSE IF Verify THEN Verifies(sets, read, Abs(read.ret.v - 10 * watts) <= 10)
      ELSE Sets(sets, <<>>)

Meter(cmd, convert(_), r) ==
  LET raw == parse_meter_response(Data(r, 1))
  IN  Reads(execute_command(cmd), IF raw.ok THEN Ok(convert(raw.v)) ELSE raw)
Tells(script, evt) == [script EXCEPT !.evts = IF script.ret.ok THEN <<evt>> ELSE <<>>]

get_s_meter(rx, r) ==
  LET read == Meter(cmd_read("s_meter"), meter_to_dbm, r)
  IN  Tells(read, <<"SmeterReading", rx, read.ret.v>>)
get_swr(r) ==
  LET read == Meter(cmd_read("swr"), meter_to_swr, r)
  IN  Tells(read, <<"SwrReading", read.ret.v>>)
get_alc(r) == Meter(cmd_read("alc"), meter_to_alc, r)

\* Split is on when the transmitter is on VFO B; the receiver is not asked for.
get_split(r) == Reads(execute_command(cmd_read("tx_vfo")), parse_switch_response(Data(r, 1)))

set_split(on, r) ==
  LET cmds == cmd_set_split(on)
      sets == <<execute_set_command(cmds[1]), execute_set_command(cmds[2])>>
      read == get_split(After(r, 2))
      base == IF Verify THEN Verifies(sets, read, read.ret.v = on) ELSE Sets(sets, <<>>)
  IN  Tells(base, <<"SplitChanged", on>>)

set_tx_receiver(rx) == Sets(<<execute_set_command(cmd_set_tx_vfo(rx = VFO_B))>>, <<>>)

-----------------------------------------------------------------------------
(* CW.                                                                     *)

set_cw_key(on) ==
  IF self.key_line = "None" THEN Refused("Unsupported")
  ELSE Sets(<<rt_set_line(self.key_line = "Dtr", on)>>, <<>>)

get_cw_speed(r) ==
  LET res == parse_response("cw_speed", Data(r, 1))
  IN  ReadsAndTells(execute_command(cmd_read("cw_speed")), res, <<"CwSpeedChanged", res.v>>)

set_cw_speed(wpm, r) ==
  LET sets == <<execute_set_command(cmd_set_level("cw_speed", wpm))>>
      read == get_cw_speed(After(r, 1))
  IN  IF Verify THEN Verifies(sets, read, read.ret.v = wpm)
      ELSE Sets(sets, <<<<"CwSpeedChanged", wpm>>>>)

\* Mutant of send_cw_message: nobody asks whether there is room.
send_cw_at_once(chunks, r) ==
  Sets([i \in DOMAIN chunks |-> execute_set_command(cmd_send_cw_message(chunks[i]))], <<>>)

\* chunks: the message, cut into pieces of 24 characters.
send_cw_message(chunks, r) ==
  Chunked(chunks, execute_command(cmd_read("cw_buffer")), parse_cw_buffer_response,
          LAMBDA c : execute_set_command(cmd_send_cw_message(c)), MAX_BUFFER_RETRIES, r)

stop_cw_message == Sets(<<execute_set_command(cmd_stop_cw_message)>>, <<>>)

-----------------------------------------------------------------------------
(* AGC, preamplifier, attenuator, antenna.                                 *)

AgcOfGc == [v \in 0..3 |-> <<"Off", "Slow", "Medium", "Fast">>[v + 1]]
AgcOfGt == [v \in {0, 5, 10, 20} |->
              CASE v = 0 -> "Off" [] v = 5 -> "Fast" [] v = 10 -> "Medium" [] v = 20 -> "Slow"]

get_agc(rx, r) ==
  LET d     == Data(r, 1)
      style == self.model.agc_command_style
      both  == parse_agc_mode_vfo_response(d)
      cmd   == CASE style = "GcSimple" -> cmd_read("agc_mode")
                 [] style = "GcVfo" -> cmd_read_agc_mode_vfo(rx)
                 [] style = "GtTimeConstant" -> cmd_read("agc_time_constant")
      res   == CASE style = "GcSimple" -> Decode(parse_response("agc_mode", d), AgcOfGc)
                 [] style = "GcVfo" -> IF both.ok THEN Decode(Ok(both.v[2]), AgcOfGc) ELSE both
                 [] style = "GtTimeConstant" ->
                      Decode(parse_response("agc_time_constant", d), AgcOfGt)
  IN  ReadsAndTells(execute_command(cmd), res, <<"AgcChanged", rx, res.v>>)

set_agc(rx, mode, r) ==
  LET style == self.model.agc_command_style
      value == [Off |-> 0, Slow |-> 1, Medium |-> 2, Fast |-> 3][mode]
      tc    == [Off |-> 0, Fast |-> 5, Medium |-> 10, Slow |-> 20][mode]
      cmd   == CASE style = "GcSimple" -> cmd_set_level("agc_mode", value)
                 [] style = "GcVfo" -> cmd_set_agc_mode_vfo(rx, value)
                 [] style = "GtTimeConstant" -> cmd_set_level("agc_time_constant", tc)
      sets  == <<execute_set_command(cmd)>>
      read  == get_agc(rx, After(r, 1))
  IN  IF Verify THEN Verifies(sets, read, read.ret.v = mode)
      ELSE Sets(sets, <<<<"AgcChanged", rx, mode>>>>)

get_preamp(rx, r) ==
  LET res == Decode(parse_response("preamp", Data(r, 1)),
                    [v \in 0..2 |-> <<"Off", "Preamp1", "Preamp2">>[v + 1]])
  IN  ReadsAndTells(execute_command(cmd_read("preamp")), res, <<"PreampChanged", rx, res.v>>)

set_preamp(rx, level, r) ==
  LET value == [Off |-> 0, Preamp1 |-> 1, Preamp2 |-> 2][level]
      sets  == <<execute_set_command(cmd_set_level("preamp", value))>>
      read  == get_preamp(rx, After(r, 1))
  IN  IF level = "Preamp2" /\ ~self.model.has_preamp2 THEN Refused("Unsupported")
      ELSE IF Verify THEN Verifies(sets, read, read.ret.v = level)
      ELSE Sets(sets, <<<<"PreampChanged", rx, level>>>>)

get_attenuator(rx, r) ==
  LET res == parse_response("attenuator", Data(r, 1))
  IN  ReadsAndTells(execute_command(cmd_read("attenuator")), res, <<"AttenuatorChanged", rx, res.v>>)

set_attenuator(rx, db, r) ==
  LET sets == <<execute_set_command(cmd_set_level("attenuator", db))>>
      read == get_attenuator(rx, After(r, 1))
  IN  IF Verify THEN Verifies(sets, read, read.ret.v = db)
      ELSE Sets(sets, <<<<"AttenuatorChanged", rx, db>>>>)

get_antenna(rx, r) ==
  Reads(execute_command(cmd_read("antenna")),
        Decode(parse_response("antenna", Data(r, 1)),
               [v \in 1..4 |-> <<"Ant1", "Ant2", "Ant3", "Ant4">>[v]]))

set_antenna(rx, port, r) ==
  LET ant  == [Ant1 |-> 1, Ant2 |-> 2, Ant3 |-> 3, Ant4 |-> 4][port]
      sets == <<execute_set_command(cmd_set_level("antenna", ant))>>
      read == get_antenna(rx, After(r, 1))
  IN  IF Verify THEN Verifies(sets, read, read.ret.v = port) ELSE Sets(sets, <<>>)

-----------------------------------------------------------------------------
(* RIT and XIT: a switch each, and the offset register they share, which   *)
(* is cleared and then counted up or down in steps of the model.           *)

SwitchAndOffset(read_switch, name, r) ==
  LET on     == parse_switch_response(Data(r, 1))
      offset == parse_rit_xit_offset_response(Data(r, 2))
      first  == execute_command(read_switch)
  IN  IF Len(r) >= 1 /\ ~on.ok THEN Script(<<first>>, on, <<>>)
      ELSE Script(<<first, execute_command(cmd_read("rit_xit_offset"))>>,
                  IF offset.ok THEN Ok(<<on.v, offset.v>>) ELSE offset,
                  IF offset.ok THEN <<<<name, on.v, offset.v>>>> ELSE <<>>)

CountTo(hz) == [i \in 1..(Abs(hz) \div self.model.rit_step_hz) |->
                  execute_set_command(IF hz > 0 THEN cmd_rit("up") ELSE cmd_rit("down"))]

get_rit(r) == SwitchAndOffset(cmd_read("rit"), "RitChanged", r)
set_rit(on, hz) ==
  Sets(<<execute_set_command(cmd_set_on("rit", on)), execute_set_command(cmd_rit("clear"))>>
         \o CountTo(hz), <<<<"RitChanged", on, hz>>>>)

get_xit(r) == SwitchAndOffset(cmd_read("xit"), "XitChanged", r)
set_xit(on, hz) ==
  Sets(<<execute_set_command(cmd_set_on("xit", on)), execute_set_command(cmd_rit("clear"))>>
         \o CountTo(hz), <<<<"XitChanged", on, hz>>>>)

set_vfo_a_eq_b(rx) == Sets(<<execute_set_command(cmd_vfo_a_eq_b)>>, <<>>)
swap_vfo(rx)       == Refused("Unsupported")
enable_transceive  == Return("()")
disable_transceive == Return("()")

-----------------------------------------------------------------------------
\* The operation of a call <<name, arguments...>>, after the answers r.
Operation(call, r) ==
  LET op == call[1] IN
  CASE op = "receivers"       -> receivers
    [] op = "get_frequency"   -> get_frequency(call[2], r)
    [] op = "set_frequency"   -> set_frequency(call[2], call[3], r)
    [] op = "get_mode"        -> get_mode(call[2], r)
    [] op = "set_mode"        -> set_mode(call[2], call[3], r)
    [] op = "get_passband"    -> get_passband(call[2], r)
    [] op = "set_passband"    -> set_passband(call[2], call[3])
    [] op = "get_ptt"         -> get_ptt(r)
    [] op = "set_ptt"         -> set_ptt(call[2])
    [] op = "get_power"       -> get_power(r)
    [] op = "set_power"       -> set_power(call[2], r)
    [] op = "get_s_meter"     -> get_s_meter(call[2], r)
    [] op = "get_swr"         -> get_swr(r)
    [] op = "get_alc"         -> get_alc(r)
    [] op = "get_split"       -> get_split(r)
    [] op = "set_split"       -> set_split(call[2], r)
    [] op = "set_tx_receiver" -> set_tx_receiver(call[2])
    [] op = "set_cw_key"      -> set_cw_key(call[2])
    [] op = "get_cw_speed"    -> get_cw_speed(r)
    [] op = "set_cw_speed"    -> set_cw_speed(call[2], r)
    [] op = "send_cw_message" -> send_cw_message(call[2], r)
    [] op = "stop_cw_message" -> stop_cw_message
    [] op = "get_agc"         -> get_agc(call[2], r)
    [] op = "set_agc"         -> set_agc(call[2], call[3], r)
    [] op = "get_preamp"      -> get_preamp(call[2], r)
    [] op = "set_preamp"      -> set_preamp(call[2], call[3], r)
    [] op = "get_attenuator"  -> get_attenuator(call[2], r)
    [] op = "set_attenuator"  -> set_attenuator(call[2], call[3], r)
    [] op = "get_antenna"     -> get_antenna(call[2], r)
    [] op = "set_antenna"     -> set_antenna(call[2], call[3], r)
    [] op = "get_rit"         -> get_rit(r)
    [] op = "set_rit"         -> set_rit(call[2], call[3])
    [] op = "get_xit"         -> get_xit(r)
    [] op = "set_xit"         -> set_xit(call[2], call[3])
    [] op = "set_vfo_a_eq_b"  -> set_vfo_a_eq_b(call[2])
    [] op = "swap_vfo"        -> swap_vfo(call[2])
    [] op \in {"enable_transceive", "disable_transceive"} -> Return("()")
=============================================================================
