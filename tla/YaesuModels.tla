---------------------------- MODULE YaesuModels ----------------------------
(***************************************************************************)
(* The Yaesu transceivers: riglib-yaesu, models.rs.                        *)
(***************************************************************************)
EXTENDS Cat

standard_hf_modes == Mode

Yaesu(receivers, watts, preamps, attenuators, antennas, flags) ==
  Capable(receivers, standard_hf_modes, watts, AgcMode, preamps, attenuators, antennas,
          flags \cup {"split", "rit", "xit", "cw_keyer",
                      "vfo_ab_swap", "vfo_ab_equal", "transceive"})

Steps       == {0, 6, 12, 18}
TwoAntennas == {"Ant1", "Ant2"}

ft_dx10    == [make |-> "Yaesu", name |-> "FT-DX10", has_preamp2 |-> TRUE,
  capabilities |-> Yaesu(1, 100, PreampLevel, Steps, TwoAntennas, {})]
ft_891     == [make |-> "Yaesu", name |-> "FT-891", has_preamp2 |-> FALSE,
  capabilities |-> Yaesu(1, 100, {"Off", "Preamp1"}, {}, {"Ant1"}, {})]
ft_991a    == [make |-> "Yaesu", name |-> "FT-991A", has_preamp2 |-> TRUE,
  capabilities |-> Yaesu(1, 100, PreampLevel, Steps, {"Ant1"}, {})]
ft_dx101d  == [make |-> "Yaesu", name |-> "FT-DX101D", has_preamp2 |-> TRUE,
  capabilities |-> Yaesu(2, 100, PreampLevel, Steps, TwoAntennas, {"sub_receiver"})]
ft_dx101mp == [make |-> "Yaesu", name |-> "FT-DX101MP", has_preamp2 |-> TRUE,
  capabilities |-> Yaesu(2, 200, PreampLevel, Steps, TwoAntennas, {"sub_receiver"})]
ft_710     == [make |-> "Yaesu", name |-> "FT-710", has_preamp2 |-> TRUE,
  capabilities |-> Yaesu(1, 100, PreampLevel, Steps, {"Ant1"}, {})]

all_yaesu_models == {ft_dx10, ft_891, ft_991a, ft_dx101d, ft_dx101mp, ft_710}

-----------------------------------------------------------------------------
(* YaesuBuilder, builder.rs, as functions of the builder b: what a rig     *)
(* and its IO task are made from.  Times are in milliseconds.              *)

None    == <<>>
Some(v) == <<v>>

new(model) ==
  [model |-> model, serial_port |-> None, baud_rate |-> None, auto_retry |-> TRUE,
   max_retries |-> 3, command_timeout |-> 500, audio_device_name |-> None,
   ptt_method |-> "Cat", key_line |-> "None", set_command_mode |-> "Verify", ai |-> FALSE]

\* The setters: one for each setting, of the name of its field (audio_device
\* for audio_device_name).
set(b, setting, value) ==
  [b EXCEPT ![setting] = IF setting \in {"serial_port", "baud_rate", "audio_device_name"}
                         THEN Some(value) ELSE value]

\* YaesuRig::new: what the IO task and the rig get, once the lines are found to
\* differ (YaesuRig's build_with_transport).
rig(b, transport) ==
  [io  |-> [transport |-> transport, ai_enabled |-> b.ai,
            attempts |-> IF b.auto_retry THEN b.max_retries + 1 ELSE 1,
            command_timeout |-> b.command_timeout],
   model |-> b.model, ptt_method |-> b.ptt_method, key_line |-> b.key_line,
   set_command_mode |-> b.set_command_mode, audio_device_name |-> b.audio_device_name]

\* ports are the serial ports that can be opened; no rate is the model's own.
build(b, ports) ==
  IF b.serial_port = None THEN Err("InvalidParameter")
  ELSE IF b.serial_port[1] \notin ports THEN Err("Transport")
  ELSE Ok(rig(b, [port |-> b.serial_port[1], baud |-> b.baud_rate]))
=============================================================================
