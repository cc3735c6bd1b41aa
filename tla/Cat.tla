-------------------------------- MODULE Cat --------------------------------
(***************************************************************************)
(* What the rig crates share: the types of riglib-core, results, the       *)
(* numerals of the text protocols, and the form in which an operation of   *)
(* the Rig trait is written down.                                          *)
(*                                                                         *)
(* An operation of the trait awaits one exchange with the IO task after    *)
(* another, and what it does next may depend on the answers.  It is given  *)
(* here as a script: a record that, from the answers r received so far,    *)
(* says which exchanges the operation makes (cmds; the ones beyond Len(r)  *)
(* are still to come), what it returns after the last one (ret) and which  *)
(* events it publishes (evts).  The operator `?` is not written out: an    *)
(* exchange that fails ends the operation with the error of the exchange.  *)
(***************************************************************************)
EXTENDS Integers, Sequences, FiniteSets

-----------------------------------------------------------------------------
(* types.rs and events.rs: what an application sets, reads and is told,    *)
(* whatever the make.  The enumerations are sets of strings.               *)

\* ReceiverId wraps a u8; the two VFOs of a transceiver are 0 and 1.
VFO_A == 0
VFO_B == 1

Mode == {"USB", "LSB", "CW", "CWR", "AM", "FM", "RTTY", "RTTYR",
         "DataUSB", "DataLSB", "DataFM", "DataAM"}
AgcMode     == {"Off", "Fast", "Medium", "Slow"}
PreampLevel == {"Off", "Preamp1", "Preamp2"}
AntennaPort == {"Ant1", "Ant2", "Ant3", "Ant4"}
PttMethod   == {"Cat", "Dtr", "Rts"}
KeyLine     == {"None", "Dtr", "Rts"}
SetCommandMode == {"Verify", "NoVerify"}

\* A RigEvent is a tuple: its name, the receiver if it has one, and what is told.
RigEvent(e) ==
  LET OfReceiver(value) == Len(e) = 3 /\ e[2] \in Nat /\ e[3] \in value
      OfRig(value)      == Len(e) = 2 /\ e[2] \in value
  IN  CASE e[1] \in {"FrequencyChanged", "AttenuatorChanged"} -> OfReceiver(Nat)
        [] e[1] = "SmeterReading"                 -> OfReceiver(Int)
        [] e[1] = "ModeChanged"                   -> OfReceiver(Mode)
        [] e[1] = "AgcChanged"                    -> OfReceiver(AgcMode)
        [] e[1] = "PreampChanged"                 -> OfReceiver(PreampLevel)
        [] e[1] \in {"PttChanged", "SplitChanged"} -> OfRig(BOOLEAN)
        [] e[1] \in {"PowerReading", "SwrReading", "CwSpeedChanged"} -> OfRig(Nat)
        [] e[1] \in {"RitChanged", "XitChanged"} -> e[2] \in BOOLEAN /\ e[3] \in Int
        [] OTHER -> e \in {<<"Connected">>, <<"Disconnected">>}

\* RigCapabilities: the lists, and the has_ flags that are set.
Capable(receivers, modes, watts, agc, preamps, attenuators, antennas, has) ==
  [max_receivers |-> receivers, supported_modes |-> modes, max_power_watts |-> watts,
   agc_modes |-> agc, preamp_levels |-> preamps, attenuator_levels |-> attenuators,
   antenna_ports |-> antennas, has |-> has]
RigCapabilities_default == Capable(1, {}, 0, {}, {}, {}, {}, {})

-----------------------------------------------------------------------------
(* Results.                                                                *)

\* Result<T>: the value and the error are only looked at after ok.
Ok(v)  == [ok |-> TRUE, v |-> v]
Err(e) == [ok |-> FALSE, v |-> e]
Done   == Ok("()")

\* A table lookup that has an error for what is not in the table.
Decode(res, table) ==
  IF ~res.ok THEN res
  ELSE IF res.v \in DOMAIN table THEN Ok(table[res.v]) ELSE Err("Protocol")

-----------------------------------------------------------------------------
(* The parameters of a command and the data of an answer: a sign or none,  *)
(* the number of characters, and the value the digits stand for.           *)

Width(v) == 1 + Cardinality({k \in 1..9 : v >= 10^k})
Larger(a, b) == IF a >= b THEN a ELSE b
Abs(v) == IF v < 0 THEN -v ELSE v

Empty == [s |-> "", w |-> 0, v |-> 0]

\* format!("{v:0w}") of an unsigned value.
Digits(w, v) == [s |-> "", w |-> Larger(w, Width(v)), v |-> v]
Bit(on) == Digits(1, IF on THEN 1 ELSE 0)

\* A sign and w digits.
Signed(w, v) == [s |-> IF v < 0 THEN "-" ELSE "+",
                 w |-> 1 + Larger(w, Width(Abs(v))), v |-> Abs(v)]

\* One hexadecimal digit.
Hex(v) == [s |-> "", w |-> 1, v |-> v]

\* The K4's prefix for its main receiver, and one digit or none.
Dollar     == [s |-> "$", w |-> 1, v |-> 0]
Dollars(v) == [s |-> "$", w |-> 1 + Width(v), v |-> v]

\* A text of n characters, which is number what of a message, or blank.
Text(n, what) == [s |-> "text", w |-> n, v |-> what]
Blank == 0

\* A length check and str::parse into a type that holds 0..max.
ParseDigits(d, w, max) ==
  IF d.s = "" /\ d.w = w /\ d.v \in 0..max THEN Ok(d.v) ELSE Err("Protocol")
ParseBit(d) ==
  IF d.s = "" /\ d.w = 1 /\ d.v \in {0, 1} THEN Ok(d.v = 1) ELSE Err("Protocol")

u8  == 255
u16 == 65535

-----------------------------------------------------------------------------
(* Exchanges: a command of the text protocol, its kind on the IO handle    *)
(* (a query awaits an answer, a set does not, a line is a serial control   *)
(* line) and its channel.                                                  *)

encode_command(prefix, params) == [p |-> prefix, d |-> params]

command(c)      == [kind |-> "query", rt |-> FALSE, p |-> c.p, d |-> c.d]
set_command(c)  == [kind |-> "set", rt |-> FALSE, p |-> c.p, d |-> c.d]
rt_command(c)   == [kind |-> "query", rt |-> TRUE, p |-> c.p, d |-> c.d]
rt_set_command(c) == [kind |-> "set", rt |-> TRUE, p |-> c.p, d |-> c.d]
rt_set_line(dtr, on) ==
  [kind |-> "line", rt |-> TRUE, p |-> IF dtr THEN "DTR" ELSE "RTS", d |-> Bit(on)]

\* The data of the i-th answer; r is a sequence of [x |-> exchange, d |-> data].
Data(r, i)  == IF i <= Len(r) THEN r[i].d ELSE Empty
After(r, n) == SubSeq(r, n + 1, Len(r))
Made(r)     == [i \in 1..Len(r) |-> r[i].x]

Script(cmds, ret, evts) == [cmds |-> cmds, ret |-> ret, evts |-> evts]
Refused(e) == Script(<<>>, Err(e), <<>>)
Return(v)  == Script(<<>>, Ok(v), <<>>)

\* One query whose parsed answer is the result, with an event or without.
Reads(x, res) == Script(<<x>>, res, <<>>)
ReadsAndTells(x, res, evt) == Script(<<x>>, res, IF res.ok THEN <<evt>> ELSE <<>>)

\* Settings, with nothing read back.
Sets(cmds, evts) == Script(cmds, Done, evts)

\* Settings followed by a read-back that must agree.
Verifies(cmds, read, same) ==
  Script(cmds \o read.cmds,
         IF read.ret.ok THEN IF same THEN Done ELSE Err("Protocol") ELSE read.ret,
         read.evts)

\* A power in tenths of a watt, as watts.round() makes whole watts of it.
Rounded(tenths) == (tenths + 5) \div 10

\* Sends a CW message in chunks, each after the buffer has been found ready:
\* poll asks for it, ready(d) parses the answer, send(c) puts chunk c into it.
\* The buffer is asked at most tries times for each chunk.
Chunked(chunks, poll, ready(_), send(_), tries, r) ==
  LET sent  == {i \in DOMAIN r : r[i].x.kind = "set"}
      last  == IF sent = {} THEN 0 ELSE CHOOSE i \in sent : \A j \in sent : j <= i
      polls == After(r, last)
      seen  == ready(Data(r, Len(r)))
  IN  IF Cardinality(sent) = Len(chunks) THEN Script(Made(r), Done, <<>>)
      ELSE IF polls = <<>> THEN Script(Append(Made(r), poll), Done, <<>>)
      ELSE IF ~seen.ok THEN Script(Made(r), seen, <<>>)
      ELSE IF seen.v
      THEN Script(Append(Made(r), send(chunks[Cardinality(sent) + 1])), Done, <<>>)
      ELSE IF Len(polls) = tries THEN Script(Made(r), Err("Timeout"), <<>>)
      ELSE Script(Append(Made(r), poll), Done, <<>>)
=============================================================================
