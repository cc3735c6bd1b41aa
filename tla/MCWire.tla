------------------------------- MODULE MCWire -------------------------------
(* An instance of Wire for TLC: short frames of each protocol, and for each *)
(* make another kind of port.                                              *)
EXTENDS Wire

Port(link, eof, stuck) == [link |-> link, eof |-> eof, stuck |-> stuck]
OfMakes(kenwood, elecraft, yaesu, icom) ==
  [m \in {"kenwood", "elecraft", "yaesu", "icom"} |->
     CASE m = "kenwood" -> kenwood [] m = "elecraft" -> elecraft
       [] m = "yaesu"   -> yaesu   [] m = "icom"     -> icom]

MCPorts == OfMakes({Port("serial", FALSE, TRUE)}, {Port("tcp", FALSE, FALSE)},
                   {Port("serial", TRUE, FALSE)}, {Port("serial", FALSE, FALSE)})
MCUnsolicited == OfMakes({<<"F", "1", ";">>}, {<<"F", "1", ";">>}, {<<"F", "1", ";">>},
                         {<<"FE", "FE", "00", "98", "05", "FD">>})
MCCommand ==
  OfMakes(encode_command(<<"M">>, <<>>), encode_command(<<"M">>, <<>>),
          encode_command(<<"M", "D">>, <<"0">>), encode_civ_frame("98", CONTROLLER_ADDR, "03", <<>>))
MCAnswers ==
  OfMakes({<<"M", "2", ";">>, <<"?", ";">>}, {<<"M", "A", ";">>}, {<<"M", "D", "0", "2", ";">>},
          {encode_civ_frame(CONTROLLER_ADDR, "98", ACK, <<>>)})
MCNoise == OfMakes({";", NonUtf8}, {";", "M"}, {"0", NonUtf8}, {"FD", "FE"})
MCMaxFrames == OfMakes(2, 1, 2, 1)
=============================================================================
