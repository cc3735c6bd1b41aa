--------------------------- MODULE IcomCommands ---------------------------
(***************************************************************************)
(* The CI-V commands and answers of Icom transceivers: riglib-icom,        *)
(* civ.rs, commands.rs and filter.rs.  Functions of one form are one       *)
(* operator here, which takes from a table what tells them apart:          *)
(* cmd_read("power") is cmd_read_power().                                  *)
(***************************************************************************)
EXTENDS Cat, FiniteSetsExt

-----------------------------------------------------------------------------
(* Numbers and frames, as the driver builds them and takes them apart.  A  *)
(* byte is a number in 0..255; a payload is the sequence of the bytes      *)
(* behind the command.                                                     *)

hi(byte) == byte \div 16
lo(byte) == byte % 16
Pack(tens, ones) == 16 * tens + ones

\* Ten digits, two a byte, the last ones first.  TLC stops at 2^31 - 1 Hz.
freq_to_bcd(hz) ==
  [i \in 1..5 |-> LET two == (hz \div 100^(i - 1)) % 100 IN Pack(two \div 10, two % 10)]

bcd_to_freq(bcd) ==
  MapThenSumSet(LAMBDA i : 100^(i - 1) * (10 * hi(bcd[i]) + lo(bcd[i])), 1..5)

validate_bcd(bytes) == \A i \in DOMAIN bytes : lo(bytes[i]) <= 9 /\ hi(bytes[i]) <= 9

\* Two bytes, four digits, the first ones first.
Bcd4(v)       == <<Pack((v \div 1000) % 10, (v \div 100) % 10), Pack((v \div 10) % 10, v % 10)>>
FromBcd4(two) == 1000 * hi(two[1]) + 100 * lo(two[1]) + 10 * hi(two[2]) + lo(two[2])

\* A command of the controller: the command byte, a sub-command or none, data.
encode_frame(cmd, sub, data) == [p |-> <<cmd>> \o sub, d |-> data]

\* decode_frame takes the first byte behind the command for a sub-command;
\* reassemble_payload puts it back.  frame is the payload as it was received.
sub_cmd(frame) == SubSeq(frame, 1, 1)
data(frame)    == SubSeq(frame, 2, Len(frame))
reassemble_payload(frame) == sub_cmd(frame) \o data(frame)

-----------------------------------------------------------------------------
(* Modes: a mode byte and a filter byte, 3 for the data modes.             *)

CIV_FILTER_DATA == 3

ModeByte == [LSB |-> 0, DataLSB |-> 0, USB |-> 1, DataUSB |-> 1, AM |-> 2, DataAM |-> 2,
             CW |-> 3, RTTY |-> 4, FM |-> 5, DataFM |-> 5, CWR |-> 7, RTTYR |-> 8]
DataMode == {"DataLSB", "DataUSB", "DataAM", "DataFM"}

mode_to_civ(mode) ==
  <<ModeByte[mode], IF mode \in DataMode THEN CIV_FILTER_DATA ELSE 1>>

civ_to_mode(mode_byte, filter_byte) ==
  LET is_data == filter_byte = CIV_FILTER_DATA
      fits    == {mode \in Mode : /\ ModeByte[mode] = mode_byte
                                  /\ mode \in DataMode => is_data
                                  /\ mode \in {"LSB", "USB", "AM", "FM"} => ~is_data}
  IN  IF fits = {} THEN Err("Protocol") ELSE Ok(CHOOSE mode \in fits : TRUE)

-----------------------------------------------------------------------------
(* Command builders.                                                       *)

\* The command byte and the sub-command of what is read.
cmd_read(what) ==
  LET Of == [frequency |-> <<\h03>>, mode |-> <<\h04>>, ptt |-> <<\h1C, 0>>,
             s_meter |-> <<\h15, \h02>>, swr |-> <<\h15, \h12>>, alc |-> <<\h15, \h13>>,
             power |-> <<\h14, \h0A>>, split |-> <<\h0F>>, if_filter |-> <<\h1A, \h03>>,
             cw_speed |-> <<\h14, \h0C>>, antenna |-> <<\h12>>, agc_mode |-> <<\h16, \h12>>,
             agc_time_constant |-> <<\h1A, \h04>>, preamp |-> <<\h16, \h02>>,
             attenuator |-> <<\h11>>, rit_on |-> <<\h21, 1>>, xit_on |-> <<\h21, 2>>,
             rit_offset |-> <<\h21, 0>>, xit_offset |-> <<\h21, 0>>][what]
  IN  encode_frame(Head(Of), Tail(Of), <<>>)

Switch(on) == <<IF on THEN 1 ELSE 0>>

cmd_set_frequency(hz)   == encode_frame(\h05, <<>>, freq_to_bcd(hz))
cmd_set_mode(mode)      == encode_frame(\h06, <<>>, mode_to_civ(mode))
cmd_set_ptt(on)         == encode_frame(\h1C, <<0>>, Switch(on))
cmd_set_split(on)       == encode_frame(\h0F, Switch(on), <<>>)
cmd_select_vfo(rx)      == encode_frame(\h07, <<IF rx = 0 THEN \h00 ELSE \h01>>, <<>>)
cmd_select_main_sub(rx) == encode_frame(\h07, <<IF rx = 0 THEN \hD0 ELSE \hD1>>, <<>>)
cmd_vfo(what) == encode_frame(\h07, <<[a_eq_b |-> \hA0, swap |-> \hB0][what]>>, <<>>)

\* A level of four digits, and the settings of one byte.
cmd_set_level(what, level) ==
  encode_frame(\h14, <<[power |-> \h0A, cw_speed |-> \h0C][what]>>, Bcd4(level % 1000))
cmd_set(what, byte) ==
  LET Of == [antenna |-> <<\h12>>, agc_mode |-> <<\h16, \h12>>, agc_time_constant |-> <<\h1A, \h04>>,
             preamp |-> <<\h16, \h02>>, attenuator |-> <<\h11>>][what]
  IN  encode_frame(Head(Of), Tail(Of), <<byte>>)

\* RIT and XIT: a switch each, and an offset they share, of four digits, the
\* last ones first, and a byte for the sign.
cmd_set_on(what, on) == encode_frame(\h21, <<[rit |-> 1, xit |-> 2][what]>>, Switch(on))
encode_rit_xit_offset(hz) ==
  LET bcd == Bcd4(IF Abs(hz) > 9999 THEN 9999 ELSE Abs(hz))
  IN  <<bcd[2], bcd[1], IF hz < 0 THEN 1 ELSE 0>>
cmd_set_rit_xit_offset(hz) == encode_frame(\h21, <<0>>, encode_rit_xit_offset(hz))

\* A chunk of at most 30 bytes, or the empty text; \hFF stops.
cmd_send_cw_message(text) == encode_frame(\h17, <<>>, text)
cmd_stop_cw_message        == encode_frame(\h17, <<>>, <<\hFF>>)

-----------------------------------------------------------------------------
(* Answer parsers.                                                         *)

parse_frequency_response(d) ==
  IF Len(d) = 5 /\ validate_bcd(d) THEN Ok(bcd_to_freq(d)) ELSE Err("Protocol")
parse_mode_response(d) ==
  IF Len(d) < 2 THEN Err("Protocol") ELSE civ_to_mode(d[1], d[2])

\* PTT and split, and the switches of RIT and XIT.
parse_bit_response(d) == IF d = <<>> THEN Err("Protocol") ELSE Ok(d[1] # 0)
parse_on_response(d)  == parse_bit_response(d)

\* AGC mode and time constant, preamplifier, attenuator, antenna.
parse_byte_response(d) == IF d = <<>> THEN Err("Protocol") ELSE Ok(d[1])

\* The reading, where the code divides by 255.
parse_meter_response(d) ==
  IF Len(d) = 2 /\ validate_bcd(d) THEN Ok(FromBcd4(d)) ELSE Err("Protocol")

parse_rit_xit_offset_response(d) ==
  IF Len(d) # 3 \/ ~validate_bcd(SubSeq(d, 1, 2)) THEN Err("Protocol")
  ELSE LET hz == FromBcd4(<<d[2], d[1]>>) IN Ok(IF d[3] = 1 THEN -hz ELSE hz)

-----------------------------------------------------------------------------
(* filter.rs: the index of a filter width.                                 *)

AM_STEP_HZ == 200
AM_MAX_INDEX == 49
SSB_FILTER_TABLE == [i \in 0..40 |-> IF i < 10 THEN 50 * (i + 1) ELSE 100 * (i - 4)]

filter_family(mode) == CASE mode \in {"FM", "DataFM"} -> "Fm"
                         [] mode \in {"AM", "DataAM"} -> "Am"
                         [] OTHER -> "Ssb"

index_to_hz(mode, index) ==
  CASE filter_family(mode) = "Ssb" /\ index <= 40 -> Ok(SSB_FILTER_TABLE[index])
    [] filter_family(mode) = "Am" /\ index <= AM_MAX_INDEX -> Ok((index + 1) * AM_STEP_HZ)
    [] OTHER -> Err("Protocol")

\* The nearest width; of two, the narrower one.
hz_to_index(mode, hz) ==
  LET Far(i) == Abs(SSB_FILTER_TABLE[i] - hz)
      steps  == (hz + AM_STEP_HZ \div 2) \div AM_STEP_HZ
  IN  CASE filter_family(mode) = "Ssb" ->
             Ok(Min({i \in 0..40 : \A j \in 0..40 : Far(i) <= Far(j)}))
        [] filter_family(mode) = "Am" ->
             Ok(IF steps = 0 THEN 0 ELSE Min({steps - 1, AM_MAX_INDEX}))
        [] filter_family(mode) = "Fm" -> Err("Unsupported")
=============================================================================
