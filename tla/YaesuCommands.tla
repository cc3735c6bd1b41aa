--------------------------- MODULE YaesuCommands ---------------------------
(***************************************************************************)
(* The CAT commands and answers of Yaesu transceivers: riglib-yaesu,       *)
(* commands.rs.  9-digit frequencies, hexadecimal mode codes, prefixes     *)
(* that end in a digit, a clarifier that counts by a number of hertz and   *)
(* is read from the IF answer.  Functions of one form are one operator     *)
(* here, which takes from a table what tells them apart:                   *)
(* cmd_read("power") is cmd_read_power().                                  *)
(***************************************************************************)
EXTENDS Cat

-----------------------------------------------------------------------------
(* Mode codes.  FM-N (11) is read as FM and never set; 14 is not known.    *)

mode_to_yaesu(mode) ==
  [LSB |-> 1, USB |-> 2, CW |-> 3, FM |-> 4, AM |-> 5, RTTY |-> 6, CWR |-> 7, DataLSB |-> 8,
   RTTYR |-> 9, DataFM |-> 10, DataUSB |-> 12, DataAM |-> 13][mode]

yaesu_to_mode(res) ==
  Decode(res, <<"LSB", "USB", "CW", "FM", "AM", "RTTY", "CWR", "DataLSB", "RTTYR",
                "DataFM", "FM", "DataUSB", "DataAM">>)

-----------------------------------------------------------------------------
(* Command builders.                                                       *)

cmd_read(what) ==
  IF what = "agc" THEN encode_command("GT", Digits(1, 0))
  ELSE encode_command(
    [frequency_a |-> "FA", frequency_b |-> "FB", mode_a |-> "MD0", mode_b |-> "MD1",
     ptt |-> "TX", power |-> "PC", s_meter |-> "SM0", swr |-> "RM1", alc |-> "RM5",
     cw_speed |-> "KS", antenna |-> "AN0", preamp |-> "PA0", attenuator |-> "RA0",
     split |-> "FT", information |-> "IF"][what], Empty)

\* A number in a fixed count of digits: frequencies, powers and the keyer.
cmd_set(what, v) ==
  LET Form == [frequency_a |-> <<"FA", 9>>, frequency_b |-> <<"FB", 9>>,
               power |-> <<"PC", 3>>, cw_speed |-> <<"KS", 3>>]
  IN  encode_command(Form[what][1], Digits(Form[what][2], v))

cmd_set_mode_a(mode) == encode_command("MD0", Hex(mode_to_yaesu(mode)))
cmd_set_mode_b(mode) == encode_command("MD1", Hex(mode_to_yaesu(mode)))
cmd_set_ptt(on)      == encode_command("TX", Bit(on))
cmd_vfo(what)        == encode_command([a_eq_b |-> "AB", swap |-> "SV"][what], Empty)

cmd_set_level(what, v) ==
  LET Form == [antenna |-> <<"AN0", 1>>, agc |-> <<"GT", 2>>, preamp |-> <<"PA0", 1>>,
               attenuator |-> <<"RA0", 1>>]
  IN  encode_command(Form[what][1], Digits(Form[what][2], v))

\* Switches.
cmd_set_on(what, on) ==
  encode_command([split |-> "FT", rit |-> "RT", xit |-> "XT", ai |-> "AI"][what], Bit(on))

\* The clarifier, by a number of hertz, and to zero.
cmd_rit(what, hz) == encode_command([up |-> "RU", down |-> "RD"][what], Digits(4, hz))
cmd_rit_clear     == encode_command("RC", Empty)

-----------------------------------------------------------------------------
(* Answer parsers.                                                         *)

parse_frequency_response(d) == ParseDigits(d, 9, 999999999)
parse_mode_response(d)      == yaesu_to_mode(ParseDigits(d, 1, 15))

\* 1: keyed over CAT, 2: keyed at the radio.
parse_ptt_response(d) ==
  LET state == ParseDigits(d, 1, 2)
  IN  IF state.ok THEN Ok(state.v # 0) ELSE state

\* A number in a fixed count of digits.
parse_response(what, d) ==
  LET Form == [meter |-> <<3, u16>>, power |-> <<3, u16>>, cw_speed |-> <<3, u8>>,
               antenna |-> <<1, u8>>]
  IN  ParseDigits(d, Form[what][1], Form[what][2])

\* A receiver digit, which is skipped, and the mode.
parse_agc_response(d) ==
  LET both == ParseDigits(d, 2, 99)
  IN  IF both.ok THEN Ok(both.v % 10) ELSE both

\* The preamplifier and the attenuator: one digit, or two.
parse_level_response(d) == IF d.s = "" /\ d.w \in {1, 2} THEN Ok(d.v) ELSE Err("Protocol")
parse_split_response(d) == ParseBit(d)

\* The IF answer carries the clarifier, and the switches of RIT and XIT: flag
\* is the one that is wanted.
Information(offset, rit, xit) ==
  [s |-> "IF", w |-> 25, v |-> [offset |-> offset, rit |-> rit, xit |-> xit]]
parse_clarifier_from_info(d, flag) ==
  IF d.s = "IF" /\ d.w >= 19 THEN Ok(<<d.v[flag], d.v.offset>>) ELSE Err("Protocol")
=============================================================================
