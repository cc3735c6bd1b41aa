-------------------------- MODULE KenwoodCommands --------------------------
(***************************************************************************)
(* The CAT commands and answers of Kenwood transceivers: riglib-kenwood,   *)
(* commands.rs.  11-digit frequencies, one digit for most settings, one    *)
(* offset register shared by RIT and XIT that only counts up and down.     *)
(* Functions of one form are one operator here, which takes from a table   *)
(* what tells them apart: cmd_read("power") is cmd_read_power().           *)
(***************************************************************************)
EXTENDS Cat

-----------------------------------------------------------------------------
(* Mode codes.                                                             *)

mode_to_kenwood(mode) ==
  CASE mode \in {"LSB", "DataLSB"} -> 1
    [] mode \in {"USB", "DataUSB"} -> 2
    [] mode = "CW"                 -> 3
    [] mode \in {"FM", "DataFM"}   -> 4
    [] mode \in {"AM", "DataAM"}   -> 5
    [] mode = "RTTY"               -> 6
    [] mode = "CWR"                -> 7
    [] mode = "RTTYR"              -> 9

kenwood_to_mode(res) ==
  LET modes == <<"LSB", "USB", "CW", "FM", "AM", "RTTY", "CWR", "none", "RTTYR">>
  IN  Decode(res, [code \in (1..9) \ {8} |-> modes[code]])

-----------------------------------------------------------------------------
(* Command builders.                                                       *)

cmd_read(what) ==
  CASE what = "s_meter" -> encode_command("SM", Digits(1, 0))
    [] what = "swr"     -> encode_command("RM", Digits(1, 1))
    [] what = "alc"     -> encode_command("RM", Digits(1, 2))
    [] OTHER -> encode_command(
         [frequency_a |-> "FA", frequency_b |-> "FB", mode |-> "MD", ptt |-> "TX", power |-> "PC",
          rx_vfo |-> "FR", tx_vfo |-> "FT", cw_speed |-> "KS", antenna |-> "AN",
          agc_mode |-> "GC", agc_time_constant |-> "GT", preamp |-> "PA", attenuator |-> "RA",
          passband |-> "SH", rit |-> "RT", xit |-> "XT", rit_xit_offset |-> "RO",
          cw_buffer |-> "KY"][what], Empty)

cmd_set_mode(mode)  == encode_command("MD", Digits(1, mode_to_kenwood(mode)))
cmd_set_ptt(on)     == encode_command("TX", Bit(on))
cmd_force_receive   == encode_command("RX", Empty)
cmd_set_split(on)   == <<encode_command("FR", Bit(FALSE)), encode_command("FT", Bit(on))>>
cmd_set_tx_vfo(vfo_b)  == encode_command("FT", Bit(vfo_b))
cmd_set_ai(on, enable) == encode_command("AI", Digits(1, IF on THEN enable ELSE 0))
cmd_vfo_a_eq_b         == encode_command("AB", Empty)

\* A number in a fixed count of digits: frequencies and powers, and the rest.
cmd_set(what, v) ==
  LET Form == [frequency_a |-> <<"FA", 11>>, frequency_b |-> <<"FB", 11>>, power |-> <<"PC", 3>>]
  IN  encode_command(Form[what][1], Digits(Form[what][2], v))
cmd_set_level(what, v) ==
  LET Form == [cw_speed |-> <<"KS", 3>>, antenna |-> <<"AN", 1>>, agc_mode |-> <<"GC", 1>>,
               agc_time_constant |-> <<"GT", 3>>, preamp |-> <<"PA", 1>>,
               attenuator |-> <<"RA", 2>>, passband |-> <<"SH", 2>>]
  IN  encode_command(Form[what][1], Digits(Form[what][2], v))

cmd_read_agc_mode_vfo(vfo)   == encode_command("GC", Digits(1, vfo))
cmd_set_agc_mode_vfo(vfo, v) == encode_command("GC", Digits(2, 10 * vfo + v))

\* The switches of RIT and XIT, and the offset, up, down and to zero.
cmd_set_on(what, on) == encode_command([rit |-> "RT", xit |-> "XT"][what], Bit(on))
cmd_rit(what) == encode_command([up |-> "RU", down |-> "RD", clear |-> "RC"][what], Empty)

\* A space and 24 characters, of which the chunk takes the first ones.
cmd_send_cw_message(chunk) == encode_command("KY", Text(25, chunk))
cmd_stop_cw_message        == encode_command("KY", Text(25, Blank))

-----------------------------------------------------------------------------
(* Answer parsers.                                                         *)

\* Bound: TLC has no 11-digit values.
parse_frequency_response(d) == ParseDigits(d, 11, 2147483647)
parse_mode_response(d)      == kenwood_to_mode(ParseDigits(d, 1, 9))
parse_ptt_response(d)       == ParseBit(d)

\* A selector digit, which is skipped, and four digits.
parse_meter_response(d) ==
  LET all == ParseDigits(d, 5, 99999)
  IN  IF all.ok THEN Ok(all.v % 10000) ELSE all

\* A number in a fixed count of digits.
parse_response(what, d) ==
  LET Form == [power |-> <<3, u16>>, cw_speed |-> <<3, u8>>, antenna |-> <<1, u8>>,
               agc_mode |-> <<1, u8>>, agc_time_constant |-> <<3, u8>>, preamp |-> <<1, u8>>,
               attenuator |-> <<2, u8>>]
  IN  ParseDigits(d, Form[what][1], Form[what][2])

\* The VFO and its AGC mode.
parse_agc_mode_vfo_response(d) ==
  LET both == ParseDigits(d, 2, 99)
  IN  IF both.ok THEN Ok(<<both.v \div 10, both.v % 10>>) ELSE both

\* The VFO of the receiver or the transmitter, and the switches of RIT and XIT.
parse_switch_response(d) == ParseBit(d)

parse_rit_xit_offset_response(d) ==
  IF d.w = 6 /\ d.s \in {"+", "-"}
  THEN Ok(IF d.s = "+" THEN d.v ELSE -d.v)
  ELSE Err("Protocol")

parse_cw_buffer_response(d) ==
  LET full == ParseBit(d)
  IN  IF full.ok THEN Ok(~full.v) ELSE full
=============================================================================
