------------------------------- MODULE MCRigs -------------------------------
(* Instances of Rigs for TLC.                                              *)
EXTENDS Rigs

K == INSTANCE KenwoodModels
E == INSTANCE ElecraftModels
Y == INSTANCE YaesuModels
I == INSTANCE IcomModels

Models == K!all_kenwood_models \cup E!all_elecraft_models \cup Y!all_yaesu_models
          \cup I!all_icom_models

\* Rigs at the port, by their builders: first the line, then the rig.
Ports == {"port"}
Line == <<<<"serial_port", "port">>, <<"baud_rate", 9600>>, <<"auto_retry", TRUE>>,
          <<"max_retries", 2>>, <<"command_timeout", 200>>>>
Bus_ == <<<<"civ_address", 148>>, <<"collision_recovery", TRUE>>, <<"reconnect_on_drop", FALSE>>>>
Use(ptt, key) == <<<<"ptt_method", ptt>>, <<"key_line", key>>, <<"ai", TRUE>>,
                   <<"audio_device_name", "codec">>>>
Mode_(mode) == <<<<"set_command_mode", mode>>>>
KenwoodRig_(model, ptt, key, mode) ==
  K!build(FoldSeq(LAMBDA s, b : K!set(b, s[1], s[2]), K!new(model),
                  Line \o Use(ptt, key) \o Mode_(mode)), Ports).v
ElecraftRig_(model, ptt, key, mode) ==
  E!build(FoldSeq(LAMBDA s, b : E!set(b, s[1], s[2]), E!new(model),
                  Line \o Use(ptt, key) \o Mode_(mode)), Ports).v
YaesuRig_(model, ptt, key, mode) ==
  Y!build(FoldSeq(LAMBDA s, b : Y!set(b, s[1], s[2]), Y!new(model),
                  Line \o Use(ptt, key) \o Mode_(mode)), Ports).v
IcomRig_(model, ptt, key) ==
  I!build(FoldSeq(LAMBDA s, b : I!set(b, s[1], s[2]), I!new(model),
                  Line \o Bus_ \o Use(ptt, key)), Ports).v
Rig_(model, ptt, key, mode) ==
  CASE model.make = "Kenwood"  -> KenwoodRig_(model, ptt, key, mode)
    [] model.make = "Elecraft" -> ElecraftRig_(model, ptt, key, mode)
    [] model.make = "Yaesu"    -> YaesuRig_(model, ptt, key, mode)
    [] model.make = "Icom"     -> IcomRig_(model, ptt, key)

\* One model of each kind is shared by two tasks and the operator.
Shared == {Rig_(model, "Cat", "Rts", "Verify") :
             model \in {K!ts_590s, E!k4, Y!ft_dx101d, I!ic_7610, I!ic_7300}}

\* Icom has no NoVerify.
AllRigs ==
  {Rig_(model, "Cat", "None", "Verify") : model \in Models}
  \cup {Rig_(model, "Cat", "None", "NoVerify") : model \in {m \in Models : m.make # "Icom"}}
  \cup {Rig_(model, ptt, key, "Verify") : model \in {K!ts_590s, I!ic_7300},
                                          ptt \in PttMethod, key \in KeyLine}
  \cup Shared
OneVfoIcoms == {Rig_(I!ic_7300, "Cat", "None", "Verify")}

Receivers == {VFO_A, VFO_B}
RxGets == {"get_frequency", "get_mode", "get_passband", "get_s_meter", "get_agc", "get_preamp",
           "get_attenuator", "get_antenna"}
PlainGets == {"receivers", "get_ptt", "get_power", "get_swr", "get_alc", "get_split",
              "get_cw_speed", "get_rit", "get_xit", "stop_cw_message", "enable_transceive"}
\* One step and a bit up, two down: each step is an exchange.
Offsets(rig) == IF rig.model.make \in {"Kenwood", "Elecraft"}
                THEN LET step == rig.model.rit_step_hz IN {0, step + step \div 2, -2 * step}
                ELSE {0, 15, -20}
AllCalls(rig) ==
  {<<op, rx>> : op \in RxGets \cup {"set_tx_receiver", "set_vfo_a_eq_b", "swap_vfo"}, rx \in Receivers}
  \cup {<<op>> : op \in PlainGets}
  \cup {<<op, on>> : op \in {"set_ptt", "set_split", "set_cw_key"}, on \in BOOLEAN}
  \cup {<<"set_frequency", rx, hz>> : rx \in Receivers, hz \in {7000, 1407425}}
  \cup {<<"set_mode", rx, mode>> : rx \in Receivers, mode \in Mode}
  \cup {<<"set_passband", VFO_A, hz>> : hz \in {200, 2425, 4850}}
  \cup {<<"set_power", tenths>> : tenths \in {-1, 0, 55, 10 * rig.model.capabilities.max_power_watts,
                                              10 * rig.model.capabilities.max_power_watts + 1}}
  \cup {<<"set_cw_speed", wpm>> : wpm \in {6, 25, 48}}
  \cup {<<"set_agc", rx, mode>> : rx \in Receivers, mode \in AgcMode}
  \cup {<<"set_preamp", VFO_A, level>> : level \in PreampLevel}
  \cup {<<"set_attenuator", rx, db>> : rx \in {VFO_B}, db \in rig.model.capabilities.attenuator_levels}
  \cup {<<"set_antenna", VFO_A, port>> : port \in AntennaPort}
  \cup {<<op, on, hz>> : op \in {"set_rit", "set_xit"}, on \in BOOLEAN, hz \in Offsets(rig)}
  \cup {<<"send_cw_message", chunks>> : chunks \in {<<>>, <<1>>, <<1, 2, 3>>}}
  \cup IF Icom(rig) THEN {<<"send_cw_message", <<1, -2, -3, 4>>>>} ELSE {}   \* cut in a character

\* What another task may have set before, on a rig of each kind: AGC off and the
\* modes with filters of their own, an offset and split.
Prepared == {Rig_(model, "Cat", "None", "Verify") :
               model \in {I!ic_7300, I!ic_9700, I!ic_7800, K!ts_990s, E!k3, Y!ft_dx10}}
Preparations(rig) ==
  IF Icom(rig)
  THEN {<<"set_agc", VFO_A, "Off">>} \cup {<<"set_mode", VFO_A, mode>> : mode \in {"USB", "AM", "FM"}}
  ELSE {<<"set_rit", TRUE, IF rig.model.make = "Yaesu" THEN 25 ELSE rig.model.rit_step_hz>>,
        <<"set_split", TRUE>>}

\* What the first task calls on a shared rig, and the second.
SharedCalls(rig) ==
  {<<op, VFO_B>> : op \in {"get_frequency", "get_mode", "get_agc", "swap_vfo"}}
  \cup {<<"get_frequency", VFO_A>>, <<"get_passband", VFO_A>>, <<"get_rit">>, <<"get_split">>, <<"set_ptt", TRUE>>,
        <<"set_frequency", VFO_A, 7000>>, <<"set_mode", VFO_B, "CW">>, <<"set_mode", VFO_A, "LSB">>,
        <<"set_passband", VFO_A, 2425>>, <<"set_agc", VFO_A, "Slow">>, <<"set_split", TRUE>>,
        <<"set_rit", TRUE, 20>>, <<"send_cw_message", <<1, 2>>>>}
Rivals == {<<"set_frequency", VFO_B, 21000>>, <<"set_mode", VFO_A, "USB">>}

TheCalls(t, rig) ==
  IF rig \notin Shared THEN IF t = "a" THEN AllCalls(rig) ELSE IF rig \in Prepared THEN Preparations(rig) ELSE {}
  ELSE IF t = "a" THEN SharedCalls(rig) ELSE Rivals

TheFrequencyCalls(t, rig) ==
  {<<"get_frequency", rx>> : rx \in Receivers} \cup {<<"set_frequency", rx, 7000>> : rx \in Receivers}

\* A turn at the panel: the exchange with the same effect, and the frame.
Set(p, d) == [x |-> [kind |-> "set", rt |-> FALSE, p |-> p, d |-> d], p |-> p, d |-> d]
Ack(c, p, d) == [x |-> [kind |-> "ack", rt |-> FALSE, p |-> c.p, d |-> c.d], p |-> p, d |-> d]
TheTurns(rig) ==
  CASE rig \notin Shared -> {}
    [] rig \in Shared /\ rig.model.make = "Yaesu" ->
         {Set("FA", Digits(9, 18100)), Set("FB", Digits(9, 18200)), Set("MD1", Hex(2)),
          Set("RT", Bit(TRUE)), Set("XT", Bit(TRUE))}
    [] rig \in Shared /\ rig.model.make = "Icom" ->
         LET C == INSTANCE IcomCommands
         IN  {Ack(C!cmd_set_frequency(18100), \h00, C!freq_to_bcd(18100)),
              Ack(C!cmd_set_mode("USB"), \h01, C!mode_to_civ("USB")),
              Ack(C!cmd_set_on("rit", TRUE), \h21, <<1, 1>>), Ack(C!cmd_set_on("xit", TRUE), \h21, <<2, 1>>),
              Ack(C!cmd_set_rit_xit_offset(50), \h21, <<0>> \o C!cmd_set_rit_xit_offset(50).d)}
    [] OTHER ->
         {Set("FA", Digits(11, 18100)), Set("FB", Digits(11, 18200)), Set("MD", Digits(1, 2)),
          Set("RT", Bit(TRUE)), Set("XT", Bit(TRUE))}
NoTurns(rig) == {}
=============================================================================
