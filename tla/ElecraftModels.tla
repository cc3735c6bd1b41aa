-------------------------- MODULE ElecraftModels --------------------------
(***************************************************************************)
(* The Elecraft transceivers: riglib-elecraft, models.rs.                  *)
(***************************************************************************)
EXTENDS Cat

standard_hf_modes == Mode

Elecraft(receivers, watts, preamps, antennas, flags) ==
  Capable(receivers, standard_hf_modes, watts, {"Off", "Fast", "Slow"}, preamps, {}, antennas,
          flags \cup {"split", "rit", "xit", "cw_keyer", "cw_messages",
                      "vfo_ab_swap", "vfo_ab_equal", "transceive"})

OnePreamp   == {"Off", "Preamp1"}
TwoAntennas == {"Ant1", "Ant2"}

k3 == [make |-> "Elecraft", name |-> "K3",
  capabilities |-> Elecraft(2, 100, OnePreamp, TwoAntennas, {"sub_receiver"}),
  is_k4 |-> FALSE, has_sub_receiver |-> TRUE, rit_step_hz |-> 10]

k3s == [make |-> "Elecraft", name |-> "K3S",
  capabilities |-> Elecraft(2, 100, OnePreamp, TwoAntennas, {"sub_receiver"}),
  is_k4 |-> FALSE, has_sub_receiver |-> TRUE, rit_step_hz |-> 10]

kx3 == [make |-> "Elecraft", name |-> "KX3",
  capabilities |-> Elecraft(1, 15, OnePreamp, {"Ant1"}, {}),
  is_k4 |-> FALSE, has_sub_receiver |-> FALSE, rit_step_hz |-> 10]

kx2 == [make |-> "Elecraft", name |-> "KX2",
  capabilities |-> Elecraft(1, 10, OnePreamp, {"Ant1"}, {}),
  is_k4 |-> FALSE, has_sub_receiver |-> FALSE, rit_step_hz |-> 10]

k4 == [make |-> "Elecraft", name |-> "K4",
  capabilities |-> Elecraft(2, 100, PreampLevel, AntennaPort, {"sub_receiver"}),
  is_k4 |-> TRUE, has_sub_receiver |-> TRUE, rit_step_hz |-> 1]

all_elecraft_models == {k3, k3s, kx3, kx2, k4}

-----------------------------------------------------------------------------
(* ElecraftBuilder, builder.rs, as functions of the builder b: what a rig  *)
(* and its IO task are made from.  Times are in milliseconds.              *)

None    == <<>>
Some(v) == <<v>>

new(model) ==
  [model |-> model, serial_port |-> None, baud_rate |-> None, auto_retry |-> TRUE,
   max_retries |-> 3, command_timeout |-> 500, ptt_method |-> "Cat", key_line |-> "None",
   set_command_mode |-> "Verify", ai |-> FALSE, audio_device_name |-> None]

\* The setters: one for each setting, of the name of its field (audio_device
\* for audio_device_name).
set(b, setting, value) ==
  [b EXCEPT ![setting] = IF setting \in {"serial_port", "baud_rate", "audio_device_name"}
                         THEN Some(value) ELSE value]

\* ElecraftRig::new: what the IO task and the rig get, once the lines are found to
\* differ (ElecraftRig's build_with_transport).
rig(b, transport) ==
  [io  |-> [transport |-> transport, ai_enabled |-> b.ai,
            attempts |-> IF b.auto_retry THEN b.max_retries + 1 ELSE 1,
            command_timeout |-> b.command_timeout],
   model |-> b.model, ptt_method |-> b.ptt_method, key_line |-> b.key_line,
   set_command_mode |-> b.set_command_mode, audio_device_name |-> b.audio_device_name]

\* ports are the serial ports that can be opened; no rate is the model's own.
build(b, ports) ==
  IF b.serial_port = None THEN Err("InvalidParameter")
  ELSE IF b.serial_port[1] \notin ports THEN Err("Transport")
  ELSE Ok(rig(b, [port |-> b.serial_port[1], baud |-> b.baud_rate]))
=============================================================================
