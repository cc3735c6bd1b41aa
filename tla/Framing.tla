------------------------------- MODULE Framing -------------------------------
(***************************************************************************)
(* How frames are cut out of a stream of bytes: the text protocol of       *)
(* Kenwood, Elecraft and Yaesu (protocol.rs of riglib-text-io, and a copy  *)
(* in each make's crate) and CI-V (civ.rs of riglib-icom).                 *)
(*                                                                         *)
(* A byte is a string: a character, or two hexadecimal digits.  A decoder  *)
(* looks at the whole buffer and tells what its first frame is and how     *)
(* many bytes that takes.                                                  *)
(***************************************************************************)
EXTENDS Naturals, Sequences, SequencesExt

Letters == {"A", "F", "M", "D"}
Figures == {"0", "1", "2"}
NonUtf8 == "\\xFF"
TERMINATOR == ";"

Incomplete      == [kind |-> "Incomplete", consumed |-> 0]
Error(consumed) == [kind |-> "Error", consumed |-> consumed]
Collision(consumed) == [kind |-> "Collision", consumed |-> consumed]
Response(prefix, data, consumed) ==
  [kind |-> "Response", prefix |-> prefix, data |-> data, consumed |-> consumed]

First(buf, byte) == CHOOSE i \in DOMAIN buf : buf[i] = byte /\ \A j \in 1..i-1 : buf[j] # byte
Has(buf, byte)   == \E i \in DOMAIN buf : buf[i] = byte

\* How many letters a text begins with.
alpha_end(text) ==
  CHOOSE n \in 0..Len(text) : /\ \A i \in 1..n : text[i] \in Letters
                              /\ n < Len(text) => text[n + 1] \notin Letters
Figure(text, i) == i <= Len(text) /\ text[i] \in Figures

-----------------------------------------------------------------------------
\* riglib-text-io.  A digit belongs to the prefix after the letters given.
prefix_end(text, digit_suffix_prefixes) ==
  LET n == alpha_end(text)
  IN IF SubSeq(text, 1, n) \in digit_suffix_prefixes /\ Figure(text, n + 1) THEN n + 1 ELSE n

\* Mutant of decode_response: the terminator stays in the buffer.
decode_response_short(buf, digit_suffix_prefixes) ==
  IF ~Has(buf, TERMINATOR) THEN Incomplete
  ELSE LET body == SubSeq(buf, 1, First(buf, TERMINATOR) - 1)
           n == prefix_end(body, digit_suffix_prefixes)
       IN Response(SubSeq(body, 1, n), SubSeq(body, n + 1, Len(body)), Len(body))

decode_response(buf, digit_suffix_prefixes) ==
  IF ~Has(buf, TERMINATOR) THEN Incomplete
  ELSE LET consumed == First(buf, TERMINATOR)
           body == SubSeq(buf, 1, consumed - 1)
           n == prefix_end(body, digit_suffix_prefixes)
       IN IF body = <<"?">> \/ Has(body, NonUtf8) THEN Error(consumed)
          ELSE Response(SubSeq(body, 1, n), SubSeq(body, n + 1, Len(body)), consumed)

extract_command_prefix(cmd, digit_suffix_prefixes) ==
  IF Has(cmd, NonUtf8) THEN <<>> ELSE SubSeq(cmd, 1, prefix_end(cmd, digit_suffix_prefixes))

encode_command(prefix, params) == prefix \o params \o <<TERMINATOR>>

\* The decoders of the makes' own crates, which the drivers document and their
\* tests use; the IO task takes the shared one.
Body(buf) == SubSeq(buf, 1, First(buf, TERMINATOR) - 1)
Malformed(body) == body = <<"?">> \/ Has(body, NonUtf8)
Split(body, n) ==
  Response(SubSeq(body, 1, n), SubSeq(body, n + 1, Len(body)), Len(body) + 1)

kenwood_decode_response(buf) ==
  IF ~Has(buf, TERMINATOR) THEN Incomplete
  ELSE IF Malformed(Body(buf)) THEN Error(Len(Body(buf)) + 1)
  ELSE Split(Body(buf), alpha_end(Body(buf)))

elecraft_decode_response(buf) ==
  IF ~Has(buf, TERMINATOR) THEN Incomplete
  ELSE IF Malformed(Body(buf)) THEN Error(First(buf, TERMINATOR))
  ELSE Split(Body(buf), alpha_end(Body(buf)))

DIGIT_SUFFIX_PREFIXES == {<<"M", "D">>}   \* and RM, SM, SH, NA, AN, PA, RA
yaesu_decode_response(buf) ==
  IF ~Has(buf, TERMINATOR) THEN Incomplete
  ELSE IF Malformed(Body(buf)) THEN Error(First(buf, TERMINATOR))
  ELSE LET n == alpha_end(Body(buf))
           takes == SubSeq(buf, 1, n) \in DIGIT_SUFFIX_PREFIXES /\ Figure(Body(buf), n + 1)
       IN Split(Body(buf), IF takes THEN n + 1 ELSE n)

-----------------------------------------------------------------------------
\* CI-V.  Whatever stands before the first two preamble bytes is skipped; from
\* there the next terminator ends the frame, also when another one began.
CONTROLLER_ADDR == "E0"
ACK == "FB"
NAK == "FA"
Preambles(buf) == {i \in 1..Len(buf) - 1 : buf[i] = "FE" /\ buf[i + 1] = "FE"}
find_preamble(buf) == CHOOSE i \in Preambles(buf) : \A j \in Preambles(buf) : i <= j

CivFrame(body, consumed) ==
  [kind |-> "Frame", dst_addr |-> body[1], src_addr |-> body[2], cmd |-> body[3],
   rest |-> IF body[3] \in {ACK, NAK} THEN <<>> ELSE SubSeq(body, 4, Len(body)),
   consumed |-> consumed]

decode_frame(buf) ==
  IF Preambles(buf) = {} THEN Incomplete
  ELSE LET start == find_preamble(buf) + 2
           open  == SubSeq(buf, start, Len(buf))
       IN IF ~Has(open, "FD")
          THEN IF Has(open, "FC") THEN Collision(Len(buf)) ELSE Incomplete
          ELSE LET body == SubSeq(open, 1, First(open, "FD") - 1)
                   consumed == start + Len(body)
               IN IF Has(body, "FC") \/ Len(body) < 3 THEN Collision(consumed)
                  ELSE CivFrame(body, consumed)

encode_civ_frame(dst_addr, src_addr, cmd, rest) ==
  <<"FE", "FE", dst_addr, src_addr, cmd>> \o rest \o <<"FD">>
=============================================================================
