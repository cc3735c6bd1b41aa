---------------------------- MODULE MCFlexSlices ----------------------------
(* Instances of FlexSlices for TLC.                                        *)
EXTENDS FlexSlices

Unit(name, max_slices) == [name |-> name, max_slices |-> max_slices]
Announces(name, serial, ip) ==
  Datagram("FFFF", 0, <<<<"model", name>>, <<"serial", serial>>, <<"callsign", "K1">>, <<"ip", ip>>>>, 0)
From(src_ip, data) == [src_ip |-> src_ip, data |-> data]
Setup(heard, builder, units, udp) ==
  [heard |-> heard, builder |-> builder, units |-> units, udp |-> udp]

\* A radio on streams that the application has connected, which is shared by two
\* tasks and other clients.
SharedSetup ==
  Setup(<<>>, WithModel(FlexRadioBuilder_new, "FLEX-6400"), "" :> Unit("FLEX-6400", 2), TRUE)
\* A radio that announces itself twice, meanwhile under another address, among
\* meters and an announcement that is cut.
Busy ==
  <<From("h", Datagram("8002", 0, <<<<7, 1>>>>, 0)),
    From("b", [Announces("FLEX-6700", "2", "b") EXCEPT !.len = @ - 4]),
    From("a", Announces("FLEX-6600", "1", "a")), From("b", Announces("FLEX-6600", "1", "b"))>>
Found == Setup(Busy, FlexRadioBuilder_new, "a" :> Unit("FLEX-6600", 4), FALSE)
\* Two radios, of which one has a name that the library does not know.
Two ==
  Setup(<<From("c", Announces("FLEX-9000", "3", "c")), From("d", Announces("FLEX-6400", "4", "d"))>>,
        WithAutoCreate(FlexRadioBuilder_new, FALSE),
        "c" :> Unit("FLEX-9000", 2) @@ "d" :> Unit("FLEX-6400", 2), FALSE)
TheSetups == {SharedSetup, Found, Two}
Shared == [model |-> flex_6400, auto_create_slices |-> TRUE, udp |-> TRUE]

SliceNumbers == {0, 1}
AllCalls ==
  {<<op, i>> : op \in OfSlice \cup {"set_tx_receiver", "destroy_slice", "get_s_meter"},
               i \in SliceNumbers}
  \cup {<<op>> : op \in {"receivers", "primary_receiver", "secondary_receiver", "get_rit",
                         "get_xit", "get_ptt", "get_power", "get_swr", "get_alc", "get_split",
                         "stop_cw_message", "enable_transceive", "disable_transceive",
                         "set_cw_key"}}
  \cup {<<op, on>> : op \in {"set_ptt", "set_split"}, on \in BOOLEAN}
  \cup {<<"set_frequency", i, 14074000>> : i \in SliceNumbers}
  \cup {<<"set_mode", 0, mode>> : mode \in Mode}
  \cup {<<"set_agc", 0, mode>> : mode \in AgcMode}
  \cup {<<"set_passband", i, 501>> : i \in SliceNumbers}
  \cup {<<"set_power", tenths>> : tenths \in {-1, 0, 55, 1000, 1006}}
  \cup {<<op, TRUE, hz>> : op \in {"set_rit", "set_xit"}, hz \in {-50, 120}}
  \cup {<<"send_cw_message", text>> : text \in {<<>>, <<"C", " ", "Q">>}}
  \cup {<<"create_slice", 7000000, "LSB">>, <<"set_dax_channel", 0, 1>>, <<"set_tx_slice", 1>>}


\* What the first task calls on the shared rig, and the second.
SharedCalls ==
  {<<op, i>> : op \in {"get_frequency", "set_tx_receiver", "get_s_meter"}, i \in SliceNumbers}
  \cup {<<op>> : op \in {"get_rit", "get_split"}}
  \cup {<<"set_frequency", 0, 14074000>>, <<"set_mode", 0, "RTTYR">>, <<"set_split", TRUE>>,
        <<"set_rit", TRUE, -50>>, <<"destroy_slice", 1>>}
Rivals == {<<"set_frequency", 0, 21000000>>, <<"set_tx_receiver", 1>>}
TheCalls(t, rig) ==
  IF rig = Shared THEN IF t = 1 THEN SharedCalls ELSE Rivals ELSE IF t = 1 THEN AllCalls ELSE {}

TheTurns(rig) ==
  {cmd_slice_tune(0, 3500000), cmd_slice_set_tx(1), cmd_slice_remove(1),
   Cmd("slice set", 1, [active |-> "1"])}
=============================================================================
