----------------------------- MODULE FlexCodec -----------------------------
(***************************************************************************)
(* The SmartSDR protocol: riglib-flex, codec.rs, mode.rs and vita49.rs;    *)
(* then discovery.rs, models.rs and builder.rs, the ways to a rig.         *)
(* A line is a sequence of fields: its first letter and what the bars      *)
(* separate.  A command is the object it is for, the slice or stream it    *)
(* names, and its parameters; the payload of a status line is a sequence   *)
(* of tokens, each a word or a key with a value.                           *)
(***************************************************************************)
EXTENDS Cat, SequencesExt

\* Hz in the API, megahertz with six decimals on the wire.
Mega == 1000000
hz_to_mhz(hz)  == [mhz |-> hz \div Mega, micro |-> hz % Mega]
mhz_to_hz(mhz) == mhz.mhz * Mega + mhz.micro

\* mode.rs: RTTY reverse and data on AM have no mode of their own.
FlexModes == [USB |-> "USB", LSB |-> "LSB", CW |-> "CW", CWR |-> "CWR", AM |-> "AM", FM |-> "FM",
              RTTY |-> "RTTY", RTTYR |-> "RTTY", DataUSB |-> "DIGU", DataLSB |-> "DIGL",
              DataFM |-> "DFM", DataAM |-> "AM"]
mode_to_flex(mode) == FlexModes[mode]
flex_to_mode(word) ==
  Decode(Ok(word), [USB |-> "USB", LSB |-> "LSB", CW |-> "CW", CWR |-> "CWR", AM |-> "AM",
                    SAM |-> "AM", FM |-> "FM", NFM |-> "FM", DIGU |-> "DataUSB",
                    DIGL |-> "DataLSB", RTTY |-> "RTTY", DFM |-> "DataFM", FDV |-> "DataUSB"])

\* AgcMode: from_str takes any case and both spellings of the middle one.
FlexAgc == [Off |-> "off", Fast |-> "fast", Medium |-> "med", Slow |-> "slow"]
agc_from_str(word) ==
  Decode(Ok(word), [off |-> "Off", fast |-> "Fast", med |-> "Medium", medium |-> "Medium",
                    slow |-> "Slow"])

-----------------------------------------------------------------------------
(* Commands.                                                               *)

Switch(on) == IF on THEN "1" ELSE "0"
None == [none |-> "none"]
Cmd(to, index, params) == [to |-> to, index |-> index, params |-> params]

cmd_slice_tune(i, hz)         == Cmd("slice tune", i, [RF_frequency |-> hz_to_mhz(hz)])
cmd_slice_set_mode(i, word)   == Cmd("slice set", i, [mode |-> word])
cmd_slice_set_filter(i, l, h) == Cmd("slice set", i, [filter_lo |-> l, filter_hi |-> h])
cmd_slice_set_tx(i)           == Cmd("slice set", i, [tx |-> "1"])
cmd_slice_create(hz, word)    == Cmd("slice create", 0, [freq |-> hz_to_mhz(hz), mode |-> word])
cmd_slice_remove(i)           == Cmd("slice remove", i, None)
cmd_slice_set_agc_mode(i, a)  == Cmd("slice set", i, [agc_mode |-> a])
cmd_slice_set_rit_on(i, on)   == Cmd("slice set", i, [rit_on |-> Switch(on)])
cmd_slice_set_rit_freq(i, hz) == Cmd("slice set", i, [rit_freq |-> hz])
cmd_slice_set_xit_on(i, on)   == Cmd("slice set", i, [xit_on |-> Switch(on)])
cmd_slice_set_xit_freq(i, hz) == Cmd("slice set", i, [xit_freq |-> hz])
cmd_slice_set_dax(i, ch)      == Cmd("slice set", i, [dax |-> ch])
cmd_xmit(on)                  == Cmd("xmit", 0, [state |-> Switch(on)])
cmd_set_power(watts)          == Cmd("transmit set", 0, [power |-> watts])
\* A space would end the text: it goes as DEL.
escape_cwx_text(text)         == [i \in DOMAIN text |-> IF text[i] = " " THEN "DEL" ELSE text[i]]
cmd_cwx_send(text)            == Cmd("cwx send", 0, [text |-> escape_cwx_text(text)])
cmd_cwx_clear                 == Cmd("cwx clear", 0, None)
cmd_client_program(name)      == Cmd("client program", 0, [name |-> name])
cmd_subscribe(object)         == Cmd("sub", 0, [object |-> object])

-----------------------------------------------------------------------------
(* Lines.                                                                  *)

Bad == -1   \* a field that str::parse refuses as an unsigned number

\* A number for each of the fields i..j.
Numbers(line, i, j) == \A k \in i..j : line[k] # Bad

parse_version(line) ==
  IF Len(line) = 5 /\ Numbers(line, 2, 5) THEN Ok([is |-> "Version"]) ELSE Err("Protocol")
parse_handle(line) ==
  IF Len(line) = 2 /\ Numbers(line, 2, 2) THEN Ok([is |-> "Handle"]) ELSE Err("Protocol")
parse_response(line) ==
  IF Len(line) < 3 \/ ~Numbers(line, 2, 3) THEN Err("Protocol")
  ELSE Ok([is |-> "Response", sequence |-> line[2], error_code |-> line[3],
           message |-> IF Len(line) = 3 THEN "" ELSE line[4]])

\* The words before the first key are the object; words after it are passed over.
Word(w)     == [word |-> w]
Pair(k, v)  == [key |-> k, value |-> v]
BadPair(k)  == [key |-> k, bad |-> "no number"]
IsPair(tok) == "key" \in DOMAIN tok
parse_status(line) ==
  IF Len(line) < 3 \/ line[2] = Bad THEN Err("Protocol")
  ELSE LET tokens == line[3]
           keys   == {i \in DOMAIN tokens : IsPair(tokens[i])}
           start  == IF keys = {} THEN Len(tokens) + 1
                     ELSE CHOOSE i \in keys : \A j \in keys : i <= j
       IN  Ok([is |-> "Status", object |-> [i \in 1..start - 1 |-> tokens[i].word],
               params |-> SelectSeq(SubSeq(tokens, start, Len(tokens)), IsPair)])

parse_msg(line) == IF Len(line) < 3 THEN Err("Protocol") ELSE Ok([is |-> "Message"])

parse_message(line) ==
  IF line = <<>> THEN Err("Protocol")
  ELSE CASE line[1] = "V" -> parse_version(line)
         [] line[1] = "H" -> parse_handle(line)
         [] line[1] = "R" -> parse_response(line)
         [] line[1] = "S" -> parse_status(line)
         [] line[1] = "M" -> parse_msg(line)
         [] OTHER         -> Ok([is |-> "Unknown"])

-----------------------------------------------------------------------------
(* The parameters of a slice status, as fields of SliceStatus.             *)

FieldOf == [RF_frequency |-> "frequency_hz", mode |-> "mode", filter_lo |-> "filter_lo",
            filter_hi |-> "filter_hi", tx |-> "is_tx", active |-> "active",
            agc_mode |-> "agc_mode", rit_on |-> "rit_on", rit_freq |-> "rit_freq_hz",
            xit_on |-> "xit_on", xit_freq |-> "xit_freq_hz"]
Parsed(key, value) ==
  CASE key = "RF_frequency" -> mhz_to_hz(value)
    [] key \in {"tx", "active", "rit_on", "xit_on"} -> value = "1"
    [] OTHER -> value

\* One number that does not parse spoils the line; unknown keys do not.
parse_slice_status(params, object) ==
  LET known == SelectSeq(params, LAMBDA p : p.key \in DOMAIN FieldOf)
      Add(fields, p) == [f \in DOMAIN fields \cup {FieldOf[p.key]} |->
                           IF f = FieldOf[p.key] THEN Parsed(p.key, p.value) ELSE fields[f]]
  IN  IF Len(object) < 2 \/ object[2] = Bad \/ \E i \in DOMAIN known : "bad" \in DOMAIN known[i]
      THEN Err("Protocol")
      ELSE Ok([index |-> object[2], fields |-> FoldLeft(Add, <<>>, known)])

-----------------------------------------------------------------------------
(* VITA-49 datagrams, vita49.rs.  The body of a datagram is a sequence of  *)
(* words of four bytes: a meter reading is one, a sample of one channel is *)
(* one, and so is a piece of the text of an announcement.  The header says *)
(* how many words there are, itself included; more bytes than that may     *)
(* have come, or fewer.                                                    *)

HEADER_SIZE == 28
HeaderWords == HEADER_SIZE \div 4

stream_type_from_class_code(code) ==
  CASE code = "8002" -> "MeterData"
    [] code = "8003" -> "Fft"
    [] code = "8004" -> "Waterfall"
    [] code = "8005" -> "OpusAudio"
    [] code \in {"02E3", "02E4", "02E5", "02E6"} -> "DaxIq"
    [] code = "03E3" -> "DaxAudio"
    [] code = "FFFF" -> "Discovery"
    [] OTHER         -> "Unknown"

\* A datagram with the header of its class, of which cut bytes have been lost.
Datagram(code, stream_id, body, cut) ==
  [packet_class_code |-> code, stream_id |-> stream_id, body |-> body,
   packet_size_words |-> HeaderWords + Len(body), len |-> HEADER_SIZE + 4 * Len(body) - cut]

\* A declared size below that of the header makes the task panic.
parse_packet(data) ==
  IF data.len < HEADER_SIZE \/ data.packet_size_words * 4 > data.len THEN Err("Protocol")
  ELSE IF data.packet_size_words < HeaderWords THEN Err("panic")
  ELSE Ok([stream_type |-> stream_type_from_class_code(data.packet_class_code),
               stream_id |-> data.stream_id,
               payload |-> SubSeq(data.body, 1, data.packet_size_words - HeaderWords)])

\* Whole words are whole readings, and every two of them a pair of samples.
MeterReading(word) == [meter_id |-> word[1], value |-> word[2]]
parse_meter_payload(payload) ==
  Ok([i \in DOMAIN payload |-> MeterReading(payload[i])])

AudioSample(left, right) == [left |-> left, right |-> right]
parse_dax_audio_payload(payload) ==
  IF Len(payload) % 2 # 0 THEN Err("Protocol")
  ELSE Ok([i \in 1..Len(payload) \div 2 |-> AudioSample(payload[2 * i - 1], payload[2 * i])])

-----------------------------------------------------------------------------
(* discovery.rs: radios announce themselves in datagrams of key and value  *)
(* pairs, which come in any order and more than once, on a port on which   *)
(* there may be others.                                                    *)

DISCOVERY_PORT == 4992

\* The value of the last pair with a key, or what stands for it.
LastValue(payload, key, default) ==
  LET at == {i \in DOMAIN payload : payload[i][1] = key}
  IN IF at = {} THEN default ELSE payload[CHOOSE i \in at : \A j \in at : j <= i][2]

parse_discovery_packet(data, src_ip) ==
  LET p  == parse_packet(data)
      kv == p.v.payload
  IN IF ~p.ok THEN p
     ELSE IF p.v.stream_type # "Discovery" THEN Err("Protocol")
     ELSE Ok([model |-> LastValue(kv, "model", ""), serial |-> LastValue(kv, "serial", ""),
                  nickname |-> LastValue(kv, "nickname", LastValue(kv, "callsign", "")),
                  port |-> LastValue(kv, "port", DISCOVERY_PORT), ip |-> LastValue(kv, "ip", src_ip)])

\* The radios that were heard until the deadline, in no order: of each serial
\* number the announcement that came first.
Announced(heard) ==
  SelectSeq([i \in DOMAIN heard |-> parse_discovery_packet(heard[i].data, heard[i].src_ip)],
            LAMBDA p : p.ok)
discover_on_port(heard) ==
  LET all == Announced(heard)
  IN {all[i].v : i \in {j \in DOMAIN all : \A k \in 1..j - 1 : all[k].v.serial # all[j].v.serial}}

-----------------------------------------------------------------------------
(* models.rs.                                                              *)

flex_capabilities(max_slices) ==
  Capable(max_slices, Mode, 100, AgcMode, {}, {}, {"Ant1", "Ant2"},
          {"split", "rit", "xit", "audio_streaming", "iq_output", "cw_keyer", "cw_messages"}
            \cup IF max_slices > 1 THEN {"sub_receiver"} ELSE {})
Flex(name, max_slices) ==
  [make |-> "FlexRadio", name |-> name, max_slices |-> max_slices,
   capabilities |-> flex_capabilities(max_slices)]

flex_6400  == Flex("FLEX-6400", 2)
flex_6400m == Flex("FLEX-6400M", 2)
flex_6600  == Flex("FLEX-6600", 4)
flex_6600m == Flex("FLEX-6600M", 4)
flex_6700  == Flex("FLEX-6700", 8)
flex_8400  == Flex("FLEX-8400", 4)
flex_8600  == Flex("FLEX-8600", 8)
all_flex_models == {flex_6400, flex_6400m, flex_6600, flex_6600m, flex_6700, flex_8400, flex_8600}

-----------------------------------------------------------------------------
(* builder.rs: FlexRadioBuilder.  Nothing is "".                           *)

FlexRadioBuilder_new ==
  [model |-> "", host |-> "", tcp_port |-> 4992, auto_create_slices |-> TRUE]
WithModel(b, model) == [b EXCEPT !.model = model]
WithHost(b, host)   == [b EXCEPT !.host = host]
WithPort(b, port)   == [b EXCEPT !.tcp_port = port]
WithAutoCreate(b, enable) == [b EXCEPT !.auto_create_slices = enable]

\* radio: a name that is not known leaves the model as it was.
WithRadio(b, found) ==
  LET matched == {m \in all_flex_models : m.name = found.model}
      at == WithPort(WithHost(b, found.ip), found.port)
  IN IF matched = {} THEN at ELSE WithModel(at, found.model)

Named(name) == CHOOSE m \in all_flex_models : m.name = name
FlexRadio_new(b) ==
  [model |-> IF b.model = "" THEN flex_6600 ELSE Named(b.model),
   auto_create_slices |-> b.auto_create_slices]

\* Connecting, which FlexClient has, comes in between; build needs a host.
build(b) ==
  IF b.host = "" THEN Err("InvalidParameter") ELSE Ok(FlexRadio_new(b))
build_with_transport(b) == Ok(FlexRadio_new(b))
=============================================================================
