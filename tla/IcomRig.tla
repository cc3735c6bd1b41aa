------------------------------ MODULE IcomRig ------------------------------
(***************************************************************************)
(* IcomRig, riglib-icom rig.rs: the operations of the Rig trait as scripts *)
(* (module Cat), the transceive frames, and the builder's check.  Powers   *)
(* are in tenths of a watt, meters in tenths of their unit, rounded down.  *)
(*                                                                         *)
(* CI-V has one set of commands for both receivers: an operation on a      *)
(* receiver selects it first, in an exchange of its own.                   *)
(***************************************************************************)
EXTENDS IcomCommands, IcomModels

CONSTANT self      \* the rig: model, ptt_method, key_line

Civ(kind, rt, c) == [kind |-> kind, rt |-> rt, p |-> c.p, d |-> c.d]
execute_command(c)        == Civ("query", FALSE, c)
execute_ack_command(c)    == Civ("ack", FALSE, c)
execute_rt_ack_command(c) == Civ("ack", TRUE, c)
set_serial_line_rt(dtr, on) == rt_set_line(dtr, on)

Dual == "sub_receiver" \in self.model.capabilities.has

\* Mutant of select_receiver: only the second receiver is ever selected.
select_second(rx) == IF rx = VFO_B THEN <<execute_ack_command(cmd_select_main_sub(rx))>> ELSE <<>>

select_receiver(rx) ==
  CASE Dual               -> <<execute_ack_command(cmd_select_main_sub(rx))>>
    [] ~Dual /\ rx = VFO_B -> <<execute_ack_command(cmd_select_vfo(rx))>>
    [] ~Dual /\ rx # VFO_B -> <<>>

\* The payload of the i-th answer, and without the echo of a sub-command.
frame_payload(r, i) == IF i <= Len(r) THEN reassemble_payload(r[i].d) ELSE <<>>
frame_freq_data(r, i) == frame_payload(r, i)
frame_mode_data(r, i) == frame_payload(r, i)
Stripped(d, sub, n) == IF Len(d) > n /\ d[1] = sub THEN Tail(d) ELSE d
FrameData(r, i) == IF i <= Len(r) THEN data(r[i].d) ELSE <<>>

-----------------------------------------------------------------------------
(* Transceive frames and the builder.                                      *)

\* process_single_transceive_frame: the events of a frame that is broadcast.
process(cmd, d) ==
  LET Tell(res, evt(_)) == IF res.ok THEN <<evt(res.v)>> ELSE <<>>
      rest == Tail(d) IN
  CASE cmd = \h00 -> Tell(parse_frequency_response(d), LAMBDA v : <<"FrequencyChanged", VFO_A, v>>)
    [] cmd = \h01 -> Tell(parse_mode_response(d), LAMBDA v : <<"ModeChanged", VFO_A, v>>)
    [] cmd = \h21 /\ d # <<>> /\ d[1] = 0 ->
         Tell(parse_rit_xit_offset_response(rest), LAMBDA v : <<"RitChanged", TRUE, v>>)
    [] cmd = \h21 /\ d # <<>> /\ d[1] = 1 ->
         Tell(parse_on_response(rest), LAMBDA v : <<"RitChanged", v, 0>>)
    [] cmd = \h21 /\ d # <<>> /\ d[1] = 2 ->
         Tell(parse_on_response(rest), LAMBDA v : <<"XitChanged", v, 0>>)
    [] OTHER -> <<>>

\* IcomBuilder::build_with_transport: the radio's own settings are left alone.
lines_differ(ptt, key, tell) ==
  IF <<ptt, key>> \in {<<"Dtr", "Dtr">>, <<"Rts", "Rts">>}
  THEN Refused("InvalidParameter") ELSE Sets(<<>>, <<>>)

-----------------------------------------------------------------------------
(* Receivers, frequency, mode, filter.                                     *)

meter_to_dbm(raw) == IF raw <= 120 THEN -1270 + (raw * 540) \div 120
                     ELSE -730 + ((raw - 120) * 600) \div 121
meter_to_swr(raw) == IF raw < 1 THEN 10
                     ELSE 10 + (raw * 5) \div 48 + (raw * raw * 80) \div (255 * 255)
meter_to_alc(raw) == (10 * raw) \div 255

receivers          == Return(IF Dual THEN <<VFO_A, VFO_B>> ELSE <<VFO_A>>)
primary_receiver   == Return(VFO_A)
secondary_receiver == Return(IF Dual THEN <<VFO_B>> ELSE <<>>)

\* The selection, then one query, whose answer is told if it can be parsed.
\* Parsed(i) is the result, from the i-th answer.
SelectedRead(rx, c, Parsed(_), name, r) ==
  LET sel == select_receiver(rx)
      res == Parsed(Len(sel) + 1)
  IN  Script(Append(sel, execute_command(c)), res,
             IF res.ok THEN <<<<name, rx, res.v>>>> ELSE <<>>)

\* The selection, then one setting, which is told once it is acknowledged.
SelectedSet(rx, c, name, value) ==
  Sets(Append(select_receiver(rx), execute_ack_command(c)), <<<<name, rx, value>>>>)

get_frequency(rx, r) ==
  SelectedRead(rx, cmd_read("frequency"),
               LAMBDA i : parse_frequency_response(frame_freq_data(r, i)), "FrequencyChanged", r)
set_frequency(rx, hz) == SelectedSet(rx, cmd_set_frequency(hz), "FrequencyChanged", hz)

get_mode(rx, r) ==
  SelectedRead(rx, cmd_read("mode"),
               LAMBDA i : parse_mode_response(frame_mode_data(r, i)), "ModeChanged", r)
set_mode(rx, mode) == SelectedSet(rx, cmd_set_mode(mode), "ModeChanged", mode)

read_mode_raw(r, i) == parse_mode_response(frame_mode_data(r, i))

\* The filter is an index into a table that depends on the mode, which is
\* read first.
AfterMode(rx, Then(_), r) ==
  LET sel   == select_receiver(rx)
      first == Append(sel, execute_command(cmd_read("mode")))
      mode  == read_mode_raw(r, Len(first))
  IN  IF Len(r) < Len(first) THEN Script(first, Err("pending"), <<>>)
      ELSE IF ~mode.ok THEN Script(first, mode, <<>>)
      ELSE LET last == Then(mode.v) IN Script(first \o last.cmds, last.ret, <<>>)

get_passband(rx, r) ==
  LET d == Stripped(frame_payload(r, Len(select_receiver(rx)) + 2), \h03, 0)
  IN  AfterMode(rx, LAMBDA mode :
        Reads(execute_command(cmd_read("if_filter")),
              IF Len(d) < 2 THEN Err("Protocol") ELSE index_to_hz(mode, FromBcd4(d))), r)

set_passband(rx, hz, r) ==
  AfterMode(rx, LAMBDA mode :
    LET index == hz_to_index(mode, hz)
    IN  IF ~index.ok THEN Refused(index.v)
        ELSE Sets(<<execute_ack_command(encode_frame(\h1A, <<\h03>>, Bcd4(index.v)))>>, <<>>), r)

-----------------------------------------------------------------------------
(* Transmitter, meters, split.                                             *)

get_ptt(r) == Reads(execute_command(cmd_read("ptt")), parse_bit_response(FrameData(r, 1)))

set_ptt(on) ==
  LET x == CASE self.ptt_method = "Cat" -> execute_rt_ack_command(cmd_set_ptt(on))
             [] self.ptt_method = "Dtr" -> set_serial_line_rt(TRUE, on)
             [] self.ptt_method = "Rts" -> set_serial_line_rt(FALSE, on)
  IN  Sets(<<x>>, <<<<"PttChanged", on>>>>)

\* A level of 255 stands for the model's maximum.
get_power(r) ==
  LET raw == parse_meter_response(FrameData(r, 1))
  IN  Reads(execute_command(cmd_read("power")),
            IF raw.ok THEN Ok((10 * raw.v * self.model.capabilities.max_power_watts) \div 255)
            ELSE raw)

set_power(tenths) ==
  LET max == 10 * self.model.capabilities.max_power_watts
  IN  IF tenths < 0 \/ tenths > max THEN Refused("InvalidParameter")
      ELSE Sets(<<execute_ack_command(cmd_set_level("power", (2 * tenths * 255 + max) \div (2 * max)))>>,
                <<>>)

get_s_meter(rx, r) ==
  LET Dbm(raw) == IF raw.ok THEN Ok(meter_to_dbm(raw.v)) ELSE raw
  IN  SelectedRead(rx, cmd_read("s_meter"),
                   LAMBDA i : Dbm(parse_meter_response(FrameData(r, i))), "SmeterReading", r)
get_swr(r) ==
  LET raw == parse_meter_response(FrameData(r, 1))
      res == IF raw.ok THEN Ok(meter_to_swr(raw.v)) ELSE raw
  IN  ReadsAndTells(execute_command(cmd_read("swr")), res, <<"SwrReading", res.v>>)
get_alc(r) ==
  LET raw == parse_meter_response(FrameData(r, 1))
  IN  Reads(execute_command(cmd_read("alc")), IF raw.ok THEN Ok(meter_to_alc(raw.v)) ELSE raw)

get_split(r)  == Reads(execute_command(cmd_read("split")), parse_bit_response(frame_payload(r, 1)))
set_split(on) == Sets(<<execute_ack_command(cmd_set_split(on))>>, <<<<"SplitChanged", on>>>>)

set_tx_receiver(rx) ==
  IF Dual THEN Sets(<<execute_ack_command(cmd_select_vfo(rx))>>, <<>>) ELSE Refused("Unsupported")

-----------------------------------------------------------------------------
(* CW.  A level of 0 to 255 stands for 6 to 48 words per minute.           *)

set_cw_key(on) ==
  IF self.key_line = "None" THEN Refused("Unsupported")
  ELSE Sets(<<set_serial_line_rt(self.key_line = "Dtr", on)>>, <<>>)

get_cw_speed(r) ==
  LET d   == frame_payload(r, 1)
      res == IF Len(d) < 3 THEN Err("Protocol")
             ELSE Ok((6 + (FromBcd4(Tail(d)) * 42) \div 255) % 256)
  IN  ReadsAndTells(execute_command(cmd_read("cw_speed")), res, <<"CwSpeedChanged", res.v>>)

set_cw_speed(wpm) ==
  LET level == (Larger(wpm - 6, 0) * 255) \div 42
  IN  Sets(<<execute_ack_command(cmd_set_level("cw_speed", IF level > 255 THEN 255 ELSE level))>>,
           <<<<"CwSpeedChanged", wpm>>>>)

\* chunks: the message, cut into pieces of 30 bytes; nothing is polled.  A piece
\* that begins or ends inside a character is negative: it is no text, and the
\* empty text is sent for it.
from_utf8(chunk) == IF chunk > 0 THEN <<chunk>> ELSE <<>>
send_cw_message(chunks) ==
  Sets([i \in DOMAIN chunks |-> execute_rt_ack_command(cmd_send_cw_message(from_utf8(chunks[i])))],
       <<>>)
stop_cw_message == Sets(<<execute_rt_ack_command(cmd_stop_cw_message)>>, <<>>)

set_vfo_a_eq_b(rx) == Sets(<<execute_ack_command(cmd_vfo("a_eq_b"))>>, <<>>)
swap_vfo(rx)       == Sets(<<execute_ack_command(cmd_vfo("swap"))>>, <<>>)

-----------------------------------------------------------------------------
(* Antenna, AGC, preamplifier, attenuator.                                 *)

get_antenna(rx, r) ==
  Reads(execute_command(cmd_read("antenna")),
        Decode(parse_byte_response(frame_payload(r, 1)), <<"Ant1", "Ant2", "Ant3", "Ant4">>))
set_antenna(rx, port) ==
  LET ant == [Ant1 |-> 1, Ant2 |-> 2, Ant3 |-> 3, Ant4 |-> 4][port]
  IN  Sets(<<execute_ack_command(cmd_set("antenna", ant))>>, <<>>)

AgcOfMode == [v \in 0..3 |-> <<"Off", "Fast", "Medium", "Slow">>[v + 1]]

\* Where the time constant switches AGC off, it is read before the mode.
get_agc(rx, r) ==
  LET sel   == select_receiver(rx)
      n     == Len(sel) + IF self.model.has_agc_time_constant THEN 2 ELSE 1
      first == Append(sel, execute_command(cmd_read("agc_time_constant")))
      tc    == parse_byte_response(Stripped(frame_payload(r, n - 1), \h04, 1))
      mode  == Decode(parse_byte_response(Stripped(frame_payload(r, n), \h12, 1)), AgcOfMode)
      Told(cmds, res) == Script(cmds, res, IF res.ok THEN <<<<"AgcChanged", rx, res.v>>>> ELSE <<>>)
  IN  CASE ~self.model.has_agc_time_constant ->
             Told(Append(sel, execute_command(cmd_read("agc_mode"))), mode)
        [] self.model.has_agc_time_constant /\ Len(r) >= n - 1 /\ ~tc.ok -> Told(first, tc)
        [] self.model.has_agc_time_constant /\ Len(r) >= n - 1 /\ tc.ok /\ tc.v = 0 ->
             Told(first, Ok("Off"))
        [] OTHER -> Told(Append(first, execute_command(cmd_read("agc_mode"))), mode)

set_agc(rx, mode) ==
  LET byte == [Off |-> 0, Fast |-> 1, Medium |-> 2, Slow |-> 3][mode]
      c    == IF mode = "Off" /\ self.model.has_agc_time_constant
              THEN cmd_set("agc_time_constant", 0) ELSE cmd_set("agc_mode", byte)
  IN  SelectedSet(rx, c, "AgcChanged", mode)

get_preamp(rx, r) ==
  SelectedRead(rx, cmd_read("preamp"),
               LAMBDA i : Decode(parse_byte_response(Stripped(frame_payload(r, i), \h02, 1)),
                                 [v \in 0..2 |-> <<"Off", "Preamp1", "Preamp2">>[v + 1]]),
               "PreampChanged", r)

\* The level is looked at when the receiver has been selected.
set_preamp(rx, level) ==
  LET raw == [Off |-> 0, Preamp1 |-> 1, Preamp2 |-> 2][level]
  IN  IF level = "Preamp2" /\ ~self.model.has_preamp2
      THEN Script(select_receiver(rx), Err("Unsupported"), <<>>)
      ELSE SelectedSet(rx, cmd_set("preamp", raw), "PreampChanged", level)

\* Mutant of db_to_bcd: the decibels are sent as a plain number.
db_to_byte(db) == db

bcd_to_db(byte) == 10 * hi(byte) + lo(byte)
db_to_bcd(db)   == Pack(db \div 10, db % 10)

get_attenuator(rx, r) ==
  LET Db(raw) == IF raw.ok THEN Ok(bcd_to_db(raw.v)) ELSE raw
  IN  SelectedRead(rx, cmd_read("attenuator"),
                   LAMBDA i : Db(parse_byte_response(frame_payload(r, i))),
                   "AttenuatorChanged", r)
set_attenuator(rx, db) ==
  SelectedSet(rx, cmd_set("attenuator", db_to_bcd(db)), "AttenuatorChanged", db)

-----------------------------------------------------------------------------
(* RIT and XIT: a switch each, and the offset register they share.         *)

SwitchAndOffset(read_switch, sub, parse(_), name, r) ==
  LET on     == parse(Stripped(frame_payload(r, 1), sub, 1))
      offset == parse_rit_xit_offset_response(Stripped(frame_payload(r, 2), 0, 3))
      first  == execute_command(read_switch)
  IN  IF Len(r) >= 1 /\ ~on.ok THEN Script(<<first>>, on, <<>>)
      ELSE Script(<<first, execute_command(cmd_read("rit_offset"))>>,
                  IF offset.ok THEN Ok(<<on.v, offset.v>>) ELSE offset,
                  IF offset.ok THEN <<<<name, on.v, offset.v>>>> ELSE <<>>)

get_rit(r) == SwitchAndOffset(cmd_read("rit_on"), 1, parse_on_response, "RitChanged", r)
set_rit(on, hz) ==
  Sets(<<execute_ack_command(cmd_set_on("rit", on)), execute_ack_command(cmd_set_rit_xit_offset(hz))>>,
       <<<<"RitChanged", on, hz>>>>)

get_xit(r) == SwitchAndOffset(cmd_read("xit_on"), 2, parse_on_response, "XitChanged", r)
set_xit(on, hz) ==
  Sets(<<execute_ack_command(cmd_set_on("xit", on)), execute_ack_command(cmd_set_rit_xit_offset(hz))>>,
       <<<<"XitChanged", on, hz>>>>)

enable_transceive  == Return("()")
disable_transceive == Return("()")

-----------------------------------------------------------------------------
\* The operation of a call <<name, arguments...>>, after the answers r.
Operation(call, r) ==
  LET op == call[1] IN
  CASE op = "receivers"       -> receivers
    [] op = "get_frequency"   -> get_frequency(call[2], r)
    [] op = "set_frequency"   -> set_frequency(call[2], call[3])
    [] op = "get_mode"        -> get_mode(call[2], r)
    [] op = "set_mode"        -> set_mode(call[2], call[3])
    [] op = "get_passband"    -> get_passband(call[2], r)
    [] op = "set_passband"    -> set_passband(call[2], call[3], r)
    [] op = "get_ptt"         -> get_ptt(r)
    [] op = "set_ptt"         -> set_ptt(call[2])
    [] op = "get_power"       -> get_power(r)
    [] op = "set_power"       -> set_power(call[2])
    [] op = "get_s_meter"     -> get_s_meter(call[2], r)
    [] op = "get_swr"         -> get_swr(r)
    [] op = "get_alc"         -> get_alc(r)
    [] op = "get_split"       -> get_split(r)
    [] op = "set_split"       -> set_split(call[2])
    [] op = "set_tx_receiver" -> set_tx_receiver(call[2])
    [] op = "set_cw_key"      -> set_cw_key(call[2])
    [] op = "get_cw_speed"    -> get_cw_speed(r)
    [] op = "set_cw_speed"    -> set_cw_speed(call[2])
    [] op = "send_cw_message" -> send_cw_message(call[2])
    [] op = "stop_cw_message" -> stop_cw_message
    [] op = "get_agc"         -> get_agc(call[2], r)
    [] op = "set_agc"         -> set_agc(call[2], call[3])
    [] op = "get_preamp"      -> get_preamp(call[2], r)
    [] op = "set_preamp"      -> set_preamp(call[2], call[3])
    [] op = "get_attenuator"  -> get_attenuator(call[2], r)
    [] op = "set_attenuator"  -> set_attenuator(call[2], call[3])
    [] op = "get_antenna"     -> get_antenna(call[2], r)
    [] op = "set_antenna"     -> set_antenna(call[2], call[3])
    [] op = "get_rit"         -> get_rit(r)
    [] op = "set_rit"         -> set_rit(call[2], call[3])
    [] op = "get_xit"         -> get_xit(r)
    [] op = "set_xit"         -> set_xit(call[2], call[3])
    [] op = "set_vfo_a_eq_b"  -> set_vfo_a_eq_b(call[2])
    [] op = "swap_vfo"        -> swap_vfo(call[2])
    [] op \in {"enable_transceive", "disable_transceive"} -> Return("()")
=============================================================================
