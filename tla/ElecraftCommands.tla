-------------------------- MODULE ElecraftCommands -------------------------
(***************************************************************************)
(* The CAT commands and answers of Elecraft transceivers: riglib-elecraft, *)
(* commands.rs.  Kenwood's text protocol with commands of its own; the K4  *)
(* differs from the K3 family in bandwidth, AGC and attenuator.  Functions *)
(* of one form are one operator here, which takes from a table what tells  *)
(* them apart: cmd_read("power") is cmd_read_power().                      *)
(***************************************************************************)
EXTENDS Cat

-----------------------------------------------------------------------------
(* Mode codes.                                                             *)

mode_to_elecraft(mode) ==
  CASE mode = "LSB"                -> 1
    [] mode = "USB"                -> 2
    [] mode = "CW"                 -> 3
    [] mode \in {"FM", "DataFM"}   -> 4
    [] mode \in {"AM", "DataAM"}   -> 5
    [] mode \in {"RTTY", "DataUSB"}  -> 6
    [] mode = "CWR"                -> 7
    [] mode \in {"RTTYR", "DataLSB"} -> 9

elecraft_to_mode(res) ==
  LET modes == <<"LSB", "USB", "CW", "FM", "AM", "DataUSB", "CWR", "none", "DataLSB">>
  IN  Decode(res, [code \in (1..9) \ {8} |-> modes[code]])

-----------------------------------------------------------------------------
(* Command builders.                                                       *)

cmd_read(what) ==
  CASE what = "s_meter" -> encode_command("SM", Digits(1, 0))
    [] what = "swr"     -> encode_command("RM", Digits(1, 1))
    [] what = "alc"     -> encode_command("RM", Digits(1, 2))
    [] what \in {"agc_k4", "attenuator_k4"} ->
         encode_command([agc_k4 |-> "GT", attenuator_k4 |-> "RA"][what], Dollar)
    [] OTHER -> encode_command(
         [frequency_a |-> "FA", frequency_b |-> "FB", mode |-> "MD", ptt |-> "TX", power |-> "PC",
          rx_vfo |-> "FR", tx_vfo |-> "FT", cw_speed |-> "KS", agc_k3 |-> "GT", preamp |-> "PA",
          attenuator_k3 |-> "RA", rit |-> "RT", xit |-> "XT", rit_xit_offset |-> "RO",
          cw_buffer |-> "KY", bandwidth_bw |-> "BW", bandwidth_fw |-> "FW"][what], Empty)

cmd_set_mode(mode)  == encode_command("MD", Digits(1, mode_to_elecraft(mode)))
cmd_set_ptt(on)     == encode_command("TX", Bit(on))
cmd_force_receive   == encode_command("RX", Empty)
cmd_set_split(on)   == <<encode_command("FR", Bit(FALSE)), encode_command("FT", Bit(on))>>
cmd_set_tx_vfo(vfo_b) == encode_command("FT", Bit(vfo_b))
cmd_set_ai(on)      == encode_command("AI", Digits(1, IF on THEN 2 ELSE 0))

\* A number in a fixed count of digits: frequencies, powers and the keyer.
cmd_set(what, v) ==
  LET Form == [frequency_a |-> <<"FA", 11>>, frequency_b |-> <<"FB", 11>>,
               power |-> <<"PC", 3>>, cw_speed |-> <<"KS", 3>>]
  IN  encode_command(Form[what][1], Digits(Form[what][2], v))

\* Keys of the front panel, pressed by their number.
cmd_vfo(what) == encode_command("SWT", Digits(2, [a_eq_b |-> 11, swap |-> 0][what]))

cmd_set_agc_k3(speed, agc_on) ==
  encode_command("GT", Digits(4, 10 * speed + IF agc_on THEN 1 ELSE 0))
cmd_set_agc_k4(v) == encode_command("GT", Dollars(v))

cmd_set_level(what, level) ==
  CASE what = "preamp"        -> encode_command("PA", Digits(1, level))
    [] what = "attenuator_k3" -> encode_command("RA", Digits(2, level))
    [] what = "attenuator_k4" -> encode_command("RA", Dollars(level))

\* The switches of RIT and XIT, and the offset, up, down and to zero.
cmd_set_on(what, on) == encode_command([rit |-> "RT", xit |-> "XT"][what], Bit(on))
cmd_rit(what) == encode_command([up |-> "RU", down |-> "RD", clear |-> "RC"][what], Empty)

\* A space and 24 characters, of which the chunk takes the first ones.
cmd_send_cw_message(chunk) == encode_command("KY", Text(25, chunk))
cmd_stop_cw_message        == encode_command("KY", Text(25, Blank))

\* The K4 has a command of its own for the bandwidth; both ask who is there.
cmd_set_bandwidth(what, hz) == encode_command([bw |-> "BW", fw |-> "FW"][what], Digits(4, hz))
cmd_identify(what)          == encode_command([k3 |-> "K3", k4 |-> "K4"][what], Empty)

-----------------------------------------------------------------------------
(* Answer parsers.                                                         *)

\* Bound: TLC has no 11-digit values.
parse_frequency_response(d) == ParseDigits(d, 11, 2147483647)
parse_mode_response(d)      == elecraft_to_mode(ParseDigits(d, 1, 9))
parse_ptt_response(d)       == ParseBit(d)

\* A selector digit, which is skipped, and four digits.
parse_meter_response(d) ==
  LET all == ParseDigits(d, 5, 99999)
  IN  IF all.ok THEN Ok(all.v % 10000) ELSE all

\* A number in a fixed count of digits.
parse_response(what, d) ==
  LET Form == [power |-> <<3, u16>>, cw_speed |-> <<3, u8>>]
  IN  ParseDigits(d, Form[what][1], Form[what][2])

\* The VFO of the receiver or the transmitter, and the switches of RIT and XIT.
parse_switch_response(d) == ParseBit(d)

\* Three digits of speed, and a digit that says whether AGC is on; a missing
\* one means on.
parse_agc_response_k3(d) ==
  CASE d.s = "" /\ d.w = 3 -> Ok(<<d.v, TRUE>>)
    [] d.s = "" /\ d.w = 4 -> Ok(<<d.v \div 10, d.v % 10 = 1>>)
    [] OTHER -> Err("Protocol")

\* The K4's answers about AGC and attenuator.
parse_response_k4(d) == IF d.s = "$" /\ d.w = 2 THEN Ok(d.v) ELSE Err("Protocol")

\* The others': a number in a fixed count of digits.
parse_level_response(what, d) ==
  LET Form == [preamp |-> <<1, u8>>, attenuator |-> <<2, u8>>, bandwidth |-> <<4, 9999>>]
  IN  ParseDigits(d, Form[what][1], Form[what][2])

parse_rit_xit_offset_response(d) ==
  IF d.w = 6 /\ d.s \in {"+", "-"}
  THEN Ok(IF d.s = "+" THEN d.v ELSE -d.v)
  ELSE Err("Protocol")

parse_cw_buffer_response(d) ==
  LET full == ParseBit(d)
  IN  IF full.ok THEN Ok(~full.v) ELSE full
=============================================================================
