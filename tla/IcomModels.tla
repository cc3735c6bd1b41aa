---------------------------- MODULE IcomModels ----------------------------
(***************************************************************************)
(* The Icom transceivers: riglib-icom, models.rs.  A model is its name,    *)
(* whether AGC is switched off by its time constant, whether there is a    *)
(* second preamplifier, and the capabilities.                              *)
(***************************************************************************)
EXTENDS Cat

hf_modes  == Mode
all_modes == hf_modes

Icom(name, agc_tc, preamp2, receivers, watts, attenuators, antennas, iq) ==
  [make |-> "Icom", name |-> name, has_agc_time_constant |-> agc_tc, has_preamp2 |-> preamp2,
   capabilities |->
     Capable(receivers, hf_modes, watts, AgcMode,
             IF preamp2 THEN PreampLevel ELSE PreampLevel \ {"Preamp2"}, attenuators,
             {<<"Ant1", "Ant2", "Ant3", "Ant4">>[i] : i \in 1..antennas},
             {"split", "rit", "xit", "cw_keyer", "cw_messages", "vfo_ab_swap",
              "vfo_ab_equal", "transceive"} \cup iq
               \cup (IF receivers = 2 THEN {"sub_receiver"} ELSE {}))]

SixSteps   == {0, 6, 12, 18}
ThreeSteps == {0, 3, 6, 9, 12, 15, 18, 21}

ic_7600   == Icom("IC-7600", FALSE, TRUE, 1, 100, SixSteps, 2, {})
ic_7700   == Icom("IC-7700", FALSE, TRUE, 2, 200, SixSteps, 4, {})
ic_7800   == Icom("IC-7800", FALSE, TRUE, 2, 200, ThreeSteps, 4, {})
ic_7850   == Icom("IC-7850", FALSE, TRUE, 2, 200, ThreeSteps, 4, {"iq_output"})
ic_7851   == Icom("IC-7851", FALSE, TRUE, 2, 200, ThreeSteps, 4, {"iq_output"})
ic_7300   == Icom("IC-7300", TRUE, FALSE, 1, 100, {0, 20}, 1, {})
ic_7610   == Icom("IC-7610", TRUE, TRUE, 2, 100, SixSteps, 2, {"iq_output"})
ic_9700   == Icom("IC-9700", TRUE, FALSE, 2, 100, {0, 10}, 1, {"iq_output"})
ic_705    == Icom("IC-705", TRUE, FALSE, 1, 10, {0, 20}, 1, {})
ic_7300mk2 == Icom("IC-7300MK2", TRUE, FALSE, 1, 100, {0, 20}, 1, {})
ic_7100   == Icom("IC-7100", FALSE, FALSE, 1, 100, {0, 20}, 1, {})
ic_9100   == Icom("IC-9100", FALSE, FALSE, 1, 100, {0, 20}, 2, {})
ic_7410   == Icom("IC-7410", FALSE, FALSE, 1, 100, SixSteps, 2, {})
ic_905    == Icom("IC-905", TRUE, FALSE, 1, 10, {0, 20}, 1, {})

all_icom_models == {ic_7600, ic_7700, ic_7800, ic_7850, ic_7851, ic_7300, ic_7610,
                    ic_9700, ic_705, ic_7300mk2, ic_7100, ic_9100, ic_7410, ic_905}

-----------------------------------------------------------------------------
(* IcomBuilder, builder.rs, as functions of the builder b: what a rig      *)
(* and its IO task are made from.  Times are in milliseconds.              *)

None    == <<>>
Some(v) == <<v>>

new(model) ==
  [model |-> model, serial_port |-> None, baud_rate |-> None, civ_address |-> None,
   auto_retry |-> TRUE, max_retries |-> 3, collision_recovery |-> TRUE,
   reconnect_on_drop |-> TRUE, command_timeout |-> 500, audio_device_name |-> None,
   ptt_method |-> "Cat", ai |-> FALSE, key_line |-> "None", reconnect_delay |-> 1000,
   max_reconnect_attempts |-> 5]

\* The setters: one for each setting, of the name of its field (audio_device
\* for audio_device_name).
set(b, setting, value) ==
  [b EXCEPT ![setting] = IF setting \in {"serial_port", "baud_rate", "civ_address", "audio_device_name"}
                         THEN Some(value) ELSE value]

\* A rig (IcomRig); the settings of its IO task are part of it here.
rig(b, io) ==
  [io |-> io, model |-> b.model, ptt_method |-> b.ptt_method, key_line |-> b.key_line,
   set_command_mode |-> "Verify", audio_device_name |-> b.audio_device_name]

\* What the IO task and the rig get, once the lines are found to differ (IcomRig.tla).
\* No address is the model's own.  The fields about reconnecting are read by nobody.
build_with_transport(b, transport) ==
  rig(b, [transport |-> transport, ai_enabled |-> b.ai, collision_recovery |-> b.collision_recovery,
          attempts |-> IF b.auto_retry THEN b.max_retries + 1 ELSE 1,
          command_timeout |-> b.command_timeout, civ_address |-> b.civ_address])

\* ports are the serial ports that can be opened; no rate is the model's own.
build(b, ports) ==
  IF b.serial_port = None THEN Err("InvalidParameter")
  ELSE IF b.serial_port[1] \notin ports THEN Err("Transport")
  ELSE Ok(build_with_transport(b, [port |-> b.serial_port[1], baud |-> b.baud_rate]))
=============================================================================
