----------------------------- MODULE TextRadio -----------------------------
(***************************************************************************)
(* External: a Kenwood, Elecraft or Yaesu transceiver as seen over its CAT *)
(* port.  It is not part of the repository; what it does is what the rig   *)
(* crates expect of it: it keeps a register for every setting, answers a   *)
(* query from its register, executes a setting of the right form, and says *)
(* nothing about a setting.  A setting of another form is ignored, a query *)
(* of another form is refused.                                             *)
(*                                                                         *)
(* The settings that the Rig trait has for a receiver are kept for each of *)
(* the two; a command that names no receiver is about the first one.  A    *)
(* register is named by the command, and by a dollar sign or nothing.  The *)
(* keyer buffers KEYER_ROOM chunks of CW and loses what it is sent when it *)
(* is full.                                                                *)
(***************************************************************************)
EXTENDS Cat, YaesuCommands

CONSTANTS
  radio_of,       \* the rig record (module Rigs) whose transceiver this is
  KEYER_ROOM      \* chunks the keyer can hold

model == radio_of.model
PerVfo == model.make = "Kenwood" /\ model.agc_command_style = "GcVfo"
Step   == IF model.make = "Yaesu" THEN 1 ELSE model.rit_step_hz

\* The receiver a command is about, and the register it names.
Reaches(x) ==
  LET vfo == IF x.d.w = 1 THEN x.d.v ELSE x.d.v \div 10
  IN  IF x.p \in {"FB", "MD1"} \/ (x.p = "GC" /\ PerVfo /\ vfo # 0) THEN 1 ELSE 0
Key(x) ==
  CASE x.p \in {"FA", "FB"}   -> <<"F", "">>
    [] x.p \in {"MD0", "MD1"} -> <<"MD", "">>
    [] x.d.s = "$"            -> <<x.p, "$">>
    [] OTHER                  -> <<x.p, "">>

\* A function given by its pairs of argument and value.
Table(pairs) == [key \in {p[1] : p \in pairs} |-> (CHOOSE p \in pairs : p[1] = key)[2]]

\* The registers all three makes have, and those a make has for receiver i.
Common ==
  {<<<<"TX", "">>, Bit(FALSE)>>, <<<<"PC", "">>, Digits(3, 10)>>, <<<<"KS", "">>, Digits(3, 20)>>,
   <<<<"FR", "">>, Bit(FALSE)>>, <<<<"FT", "">>, Bit(FALSE)>>, <<<<"RT", "">>, Bit(FALSE)>>,
   <<<<"XT", "">>, Bit(FALSE)>>, <<<<"RO", "">>, Signed(5, 0)>>}
KenwoodReceiver(i) ==
  {<<<<"F", "">>, Digits(11, 3500 + 100 * i)>>, <<<<"MD", "">>, Digits(1, 3 - i)>>,
   <<<<"AN", "">>, Digits(1, 1 + i)>>, <<<<"GC", "">>, Digits(1, 1 + i)>>,
   <<<<"GT", "">>, Digits(3, 20 - 10 * i)>>, <<<<"PA", "">>, Digits(1, i)>>,
   <<<<"RA", "">>, Digits(2, 6 * i)>>, <<<<"SH", "">>, Digits(2, 10 + i)>>}
ElecraftReceiver(i) ==
  {<<<<"F", "">>, Digits(11, 3500 + 100 * i)>>, <<<<"MD", "">>, Digits(1, 3 - i)>>,
   <<<<"GT", "">>, Digits(4, 181 - 80 * i)>>, <<<<"GT", "$">>, Dollars(1 + i)>>,
   <<<<"PA", "">>, Digits(1, i)>>, <<<<"RA", "">>, Digits(2, i)>>, <<<<"RA", "$">>, Dollars(i)>>,
   <<<<"BW", "">>, Digits(4, 1000 + 500 * i)>>, <<<<"FW", "">>, Digits(4, 1000 + 500 * i)>>}
YaesuReceiver(i) ==
  {<<<<"F", "">>, Digits(9, 3500 + 100 * i)>>, <<<<"MD", "">>, Hex(3 - i)>>,
   <<<<"AN0", "">>, Digits(1, 1 + i)>>, <<<<"GT", "">>, Digits(2, 3 - i)>>,
   <<<<"PA0", "">>, Digits(1, i)>>, <<<<"RA0", "">>, Digits(1, i)>>}

Fresh ==
  [rx    |-> [i \in {0, 1} |-> Table(CASE model.make = "Kenwood"  -> KenwoodReceiver(i)
                                       [] model.make = "Elecraft" -> ElecraftReceiver(i)
                                       [] model.make = "Yaesu"    -> YaesuReceiver(i))],
   reg   |-> Table(Common),
   keyer |-> [room |-> KEYER_ROOM, took |-> <<>>, lost |-> FALSE],
   lines |-> [line \in {"DTR", "RTS"} |-> FALSE]]

\* The radio as one who asks about receiver rx, and only that, should see it.
Facing(radio, rx) == [radio EXCEPT !.rx = [i \in {0, 1} |-> radio.rx[rx]]]

Line(method) == CASE method = "Dtr" -> "DTR" [] method = "Rts" -> "RTS" [] OTHER -> "none"
PttLine(radio) == radio_of.ptt_method # "Cat" /\ radio.lines[Line(radio_of.ptt_method)]
Transmits(radio) == radio.reg[<<"TX", "">>].v # 0 \/ PttLine(radio)

-----------------------------------------------------------------------------
(* One exchange: the radio after it, the data of the answer, and whether   *)
(* there is one.                                                           *)

Reading == 20           \* what every meter shows

Says(radio, x) ==
  LET key == Key(x)
      here == radio.rx[Reaches(x)]
  IN  CASE x.p = "TX" -> Ok(IF Transmits(radio) THEN Digits(1, 1) ELSE Digits(1, 0))
        [] x.p \in {"SM", "RM"} -> Ok(Digits(5, 10000 * x.d.v + Reading))
        [] x.p \in {"SM0", "RM1", "RM5"} -> Ok(Digits(3, Reading))
        [] x.p = "KY" -> Ok(Bit(radio.keyer.room = 0))
        [] x.p = "IF" ->
             LET o == radio.reg[<<"RO", "">>]
             IN  Ok(Information(IF o.s = "-" THEN -o.v ELSE o.v,
                                radio.reg[<<"RT", "">>].v = 1, radio.reg[<<"XT", "">>].v = 1))
        [] x.p = "GC" /\ PerVfo -> Ok(Digits(2, 10 * x.d.v + here[key].v))
        [] OTHER -> CASE key \in DOMAIN here -> Ok(here[key])
                      [] key \in DOMAIN radio.reg \ DOMAIN here -> Ok(radio.reg[key])
                      [] OTHER -> Err("Protocol")

Shifted(radio, hz) ==
  LET o == radio.reg[<<"RO", "">>]
  IN  [radio EXCEPT !.reg[<<"RO", "">>] = Signed(5, hz + IF o.s = "-" THEN -o.v ELSE o.v)]

\* A register takes what has its form.
Takes(reg, key, d) ==
  IF key \in DOMAIN reg /\ reg[key].s = d.s /\ reg[key].w = d.w THEN [reg EXCEPT ![key] = d] ELSE reg

Does(radio, x) ==
  LET key  == Key(x)
      i    == Reaches(x)
      amount == IF x.d = Empty THEN Step ELSE x.d.v
      one == Digits(1, x.d.v % 10)
      A == radio.rx[0]
      B == radio.rx[1]
  IN  CASE x.p = "RC" -> [radio EXCEPT !.reg[<<"RO", "">>] = Signed(5, 0)]
        [] x.p = "RU" -> Shifted(radio, amount)
        [] x.p = "RD" -> Shifted(radio, -amount)
        [] x.p = "RX" -> [radio EXCEPT !.reg[<<"TX", "">>] = Bit(FALSE)]
        [] x.p = "AB" \/ (x.p = "SWT" /\ x.d.v = 11) ->
             [radio EXCEPT !.rx[1] = [B EXCEPT ![<<"F", "">>] = A[<<"F", "">>],
                                               ![<<"MD", "">>] = A[<<"MD", "">>]]]
        [] x.p = "SV" \/ (x.p = "SWT" /\ x.d.v = 0) ->
             [radio EXCEPT !.rx = [j \in {0, 1} |-> radio.rx[1 - j]]]
        [] x.p = "KY" /\ x.d.v = Blank -> [radio EXCEPT !.keyer.room = KEYER_ROOM]
        [] x.p = "KY" /\ x.d.v # Blank ->
             IF radio.keyer.room = 0 THEN [radio EXCEPT !.keyer.lost = TRUE]
             ELSE [radio EXCEPT !.keyer = [@ EXCEPT !.room = @ - 1, !.took = Append(@, x.d.v)]]
        [] x.p = "GC" /\ PerVfo -> [radio EXCEPT !.rx[i] = [@ EXCEPT ![key] = one]]
        [] OTHER -> IF key \in DOMAIN radio.rx[i]
                    THEN [radio EXCEPT !.rx[i] = Takes(@, key, x.d)]
                    ELSE [radio EXCEPT !.reg = Takes(@, key, x.d)]

Exchange(radio, x) ==
  LET says == Says(radio, x) IN
  CASE x.kind = "line"  -> [radio |-> [radio EXCEPT !.lines[x.p] = (x.d.v = 1)], ok |-> TRUE, d |-> Empty]
    [] x.kind = "set"   -> [radio |-> Does(radio, x), ok |-> TRUE, d |-> Empty]
    [] x.kind = "query" -> [radio |-> radio, ok |-> says.ok, d |-> IF says.ok THEN says.v ELSE Empty]
=============================================================================
