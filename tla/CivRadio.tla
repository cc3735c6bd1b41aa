----------------------------- MODULE CivRadio ------------------------------
(***************************************************************************)
(* External: an Icom transceiver as seen over CI-V.  It is not part of the *)
(* repository; what it does is what the Icom crate expects of it: commands *)
(* on a receiver act on the one that is selected, every setting is         *)
(* acknowledged, an answer repeats the sub-command in front of its data.   *)
(* A filter width belongs to the mode it is used in, a time constant to    *)
(* the AGC mode; the time constant 0 switches that AGC mode off.           *)
(***************************************************************************)
EXTENDS Cat, IcomCommands

CONSTANT radio_of      \* the rig record whose transceiver this is

\* A function given by its pairs of argument and value.
Table(pairs) == [key \in {p[1] : p \in pairs} |-> (CHOOSE p \in pairs : p[1] = key)[2]]

Receiver(i) ==
  [freq |-> freq_to_bcd(3500 + 100 * i), mode |-> mode_to_civ(IF i = 0 THEN "CW" ELSE "USB"),
   filter |-> [f \in {"Ssb", "Am", "Fm"} |-> Bcd4(20 - i)],
   preamp |-> <<i>>, att |-> <<0>>, agc |-> <<3 - i>>, tc |-> [v \in 0..3 |-> <<6>>]]

\* The settings that belong to no receiver.
Common ==
  {<<<<\h14, \h0A>>, Bcd4(100)>>, <<<<\h14, \h0C>>, Bcd4(80)>>, <<<<\h0F>>, <<0>>>>,
   <<<<\h12>>, <<1>>>>, <<<<\h21, 1>>, <<0>>>>, <<<<\h21, 2>>, <<0>>>>,
   <<<<\h21, 0>>, <<0, 0, 0>>>>, <<<<\h1C, 0>>, <<0>>>>}

Fresh ==
  [sel   |-> 0,
   rx    |-> [i \in {0, 1} |-> Receiver(i)],
   set   |-> Table(Common),
   keyer |-> [room |-> 1, took |-> <<>>, lost |-> FALSE],
   lines |-> [line \in {"DTR", "RTS"} |-> FALSE]]

\* The radio with receiver rx selected.
Facing(radio, rx) == [radio EXCEPT !.sel = rx]

Line(method) == CASE method = "Dtr" -> "DTR" [] method = "Rts" -> "RTS" [] OTHER -> "none"
Transmits(radio) ==
  \/ radio.set[<<\h1C, 0>>] = <<1>>
  \/ radio_of.ptt_method # "Cat" /\ radio.lines[Line(radio_of.ptt_method)]

\* What the selected receiver holds for a command, as a field of its record.
Family(receiver) == filter_family(civ_to_mode(receiver.mode[1], receiver.mode[2]).v)
OfReceiver(receiver, p) ==
  CASE p = <<\h03>>       -> receiver.freq
    [] p = <<\h04>>       -> receiver.mode
    [] p = <<\h1A, \h03>> -> receiver.filter[Family(receiver)]
    [] p = <<\h1A, \h04>> -> receiver.tc[receiver.agc[1]]
    [] p = <<\h16, \h12>> -> receiver.agc
    [] p = <<\h16, \h02>> -> receiver.preamp
    [] p = <<\h11>>       -> receiver.att
Changed(receiver, p, d) ==
  CASE p = <<\h05>>       -> [receiver EXCEPT !.freq = d]
    [] p = <<\h06>>       -> [receiver EXCEPT !.mode = d]
    [] p = <<\h1A, \h03>> -> [receiver EXCEPT !.filter[Family(receiver)] = d]
    [] p = <<\h1A, \h04>> -> [receiver EXCEPT !.tc[receiver.agc[1]] = d]
    [] p = <<\h16, \h12>> -> [receiver EXCEPT !.agc = d]
    [] p = <<\h16, \h02>> -> [receiver EXCEPT !.preamp = d]
    [] p = <<\h11>>       -> [receiver EXCEPT !.att = d]

\* The time constant of an AGC mode of receiver rx is 0.
SwitchedOff(radio, rx, mode) ==
  radio.rx[rx].tc[[Fast |-> 1, Medium |-> 2, Slow |-> 3][mode]] = <<0>>

Reading == <<\h00, \h80>>

Says(radio, x) ==
  LET d == CASE x.p[1] = \h15             -> Reading
             [] x.p = <<\h1C, 0>>         -> <<IF Transmits(radio) THEN 1 ELSE 0>>
             [] x.p[1] # \h15 /\ x.p # <<\h1C, 0>> /\ x.p \in DOMAIN radio.set -> radio.set[x.p]
             [] OTHER                     -> OfReceiver(radio.rx[radio.sel], x.p)
  IN  Tail(x.p) \o d

Does(radio, x) ==
  LET here == radio.rx[radio.sel]
      there == 1 - radio.sel
  IN  CASE x.p \in {<<\h07, \hD0>>, <<\h07, \h00>>} -> [radio EXCEPT !.sel = 0]
        [] x.p \in {<<\h07, \hD1>>, <<\h07, \h01>>} -> [radio EXCEPT !.sel = 1]
        [] x.p = <<\h07, \hA0>> ->
             [radio EXCEPT !.rx[there] = [@ EXCEPT !.freq = here.freq, !.mode = here.mode]]
        [] x.p = <<\h07, \hB0>> ->
             [radio EXCEPT !.rx = [i \in {0, 1} |-> radio.rx[1 - i]]]
        [] x.p[1] = \h0F -> [radio EXCEPT !.set[<<\h0F>>] = Tail(x.p)]
        [] x.p = <<\h17>> ->
             IF x.d = <<\hFF>> THEN radio ELSE [radio EXCEPT !.keyer.took = @ \o x.d]
        [] x.p \in DOMAIN radio.set -> [radio EXCEPT !.set[x.p] = x.d]
        [] OTHER -> [radio EXCEPT !.rx[radio.sel] = Changed(here, x.p, x.d)]

Exchange(radio, x) ==
  CASE x.kind = "line"  -> [radio |-> [radio EXCEPT !.lines[x.p] = (x.d.v = 1)], ok |-> TRUE, d |-> <<>>]
    [] x.kind = "ack"   -> [radio |-> Does(radio, x), ok |-> TRUE, d |-> <<>>]
    [] x.kind = "query" -> [radio |-> radio, ok |-> TRUE, d |-> Says(radio, x)]
=============================================================================
