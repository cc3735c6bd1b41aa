--------------------------- MODULE KenwoodModels ---------------------------
(***************************************************************************)
(* The Kenwood transceivers: riglib-kenwood, models.rs.  Of a model's      *)
(* record, the fields that the rig code or the capabilities are tested on. *)
(***************************************************************************)
EXTENDS Cat

standard_hf_modes == Mode

Kenwood(receivers, watts, preamps, antennas, flags) ==
  Capable(receivers, standard_hf_modes, watts, AgcMode, preamps, {0, 6, 12, 18}, antennas,
          flags \cup {"split", "rit", "xit", "cw_keyer", "cw_messages",
                      "vfo_ab_swap", "vfo_ab_equal", "transceive"})

OnePreamp   == {"Off", "Preamp1"}
TwoAntennas == {"Ant1", "Ant2"}

ts_590s == [make |-> "Kenwood", name |-> "TS-590S",
  capabilities |-> Kenwood(1, 100, OnePreamp, TwoAntennas, {}),
  agc_command_style |-> "GtTimeConstant", has_preamp2 |-> FALSE, rit_step_hz |-> 10,
  ai_enable_byte |-> 1]

ts_590sg == [make |-> "Kenwood", name |-> "TS-590SG",
  capabilities |-> Kenwood(1, 100, OnePreamp, TwoAntennas, {}),
  agc_command_style |-> "GtTimeConstant", has_preamp2 |-> FALSE, rit_step_hz |-> 10,
  ai_enable_byte |-> 1]

ts_990s == [make |-> "Kenwood", name |-> "TS-990S",
  capabilities |-> Kenwood(2, 200, PreampLevel, AntennaPort, {"sub_receiver"}),
  agc_command_style |-> "GcVfo", has_preamp2 |-> TRUE, rit_step_hz |-> 1,
  ai_enable_byte |-> 2]

ts_890s == [make |-> "Kenwood", name |-> "TS-890S",
  capabilities |-> Kenwood(2, 100, OnePreamp, TwoAntennas, {"sub_receiver"}),
  agc_command_style |-> "GcSimple", has_preamp2 |-> FALSE, rit_step_hz |-> 1,
  ai_enable_byte |-> 1]

all_kenwood_models == {ts_590s, ts_590sg, ts_990s, ts_890s}

-----------------------------------------------------------------------------
(* KenwoodBuilder, builder.rs, as functions of the builder b: what a rig   *)
(* and its IO task are made from.  Times are in milliseconds.              *)

None    == <<>>
Some(v) == <<v>>

new(model) ==
  [model |-> model, serial_port |-> None, baud_rate |-> None, auto_retry |-> TRUE,
   max_retries |-> 3, command_timeout |-> 500, ptt_method |-> "Cat", key_line |-> "None",
   set_command_mode |-> "Verify", ai |-> FALSE, audio_device_name |-> None]

\* The setters: one for each setting, of the name of its field (audio_device
\* for audio_device_name).
set(b, setting, value) ==
  [b EXCEPT ![setting] = IF setting \in {"serial_port", "baud_rate", "audio_device_name"}
                         THEN Some(value) ELSE value]

\* KenwoodRig::new: what the IO task and the rig get, once the lines are found to
\* differ (KenwoodRig's build_with_transport).
rig(b, transport) ==
  [io  |-> [transport |-> transport, ai_enabled |-> b.ai,
            attempts |-> IF b.auto_retry THEN b.max_retries + 1 ELSE 1,
            command_timeout |-> b.command_timeout],
   model |-> b.model, ptt_method |-> b.ptt_method, key_line |-> b.key_line,
   set_command_mode |-> b.set_command_mode, audio_device_name |-> b.audio_device_name]

\* ports are the serial ports that can be opened; no rate is the model's own.
build(b, ports) ==
  IF b.serial_port = None THEN Err("InvalidParameter")
  ELSE IF b.serial_port[1] \notin ports THEN Err("Transport")
  ELSE Ok(rig(b, [port |-> b.serial_port[1], baud |-> b.baud_rate]))
=============================================================================
