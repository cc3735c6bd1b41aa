-------------------------------- MODULE Wire --------------------------------
(***************************************************************************)
(* The line between an IO task and its radio, byte by byte: the transports *)
(* of riglib-transport and what the two IO tasks do with what they read.   *)
(*                                                                         *)
(* Reads return whatever has come, so a frame is cut anywhere.  While it   *)
(* idles the task collects bytes in idle_buf; each exchange collects in a  *)
(* buffer of its own, which begins empty and is forgotten at the end.  A   *)
(* frame whose bytes fall on both sides is torn.  A byte may also be lost  *)
(* or garbled on the way, and the line may go down.                        *)
(*                                                                         *)
(* TextIo and CivIo have the requests, their order and their retries; here *)
(* there is one request at a time and a retry is another exchange.  Each   *)
(* byte carries history values: the frame it was sent in, its place there, *)
(* and whether it still is what was sent.                                  *)
(***************************************************************************)
EXTENDS Framing, Integers, FiniteSets, FiniteSetsExt

CONSTANTS
  Makes,         \* "kenwood", "elecraft", "yaesu", "icom": the makes to look at
  Ports,         \* [Makes -> sets of ports]: link, whether a read of the dead line says
                 \* no bytes, whether the control lines do not obey
  Lines,         \* control lines looked at, of "dtr" and "rts"
  Unsolicited,   \* [Makes -> sets of frames the radio sends unasked]
  Command,       \* [Makes -> the command that is sent]
  Answers,       \* [Makes -> the frames that may answer it]
  Noise,         \* [Makes -> what a byte may be garbled into]
  MaxFrames,     \* [Makes -> bound]: frames the radio sends, echoes apart
  MaxExchanges,  \* bound: exchanges
  MaxDamages     \* bound: bytes lost or garbled

ASSUME WireAssumption ==
  /\ Makes \subseteq {"kenwood", "elecraft", "yaesu", "icom"}
  /\ \A m \in Makes :
       /\ Ports[m] \subseteq [link : {"serial", "tcp"}, eof : BOOLEAN, stuck : BOOLEAN]
       /\ \A p \in Ports[m] : p.link = "tcp" => ~p.eof /\ ~p.stuck
  /\ Lines \subseteq {"dtr", "rts"}
  /\ \A m \in Makes : Noise[m] \subseteq STRING /\ MaxFrames[m] \in Nat
  /\ MaxExchanges \in Nat /\ MaxDamages \in Nat

\* The frames that may come, on CI-V also the echo of the command, have the form the
\* encoders give them: in text the terminator is the last byte and no other; in CI-V
\* the preamble is the first two bytes, and data has none of the marks.
Terminator(m) == IF m = "icom" THEN "FD" ELSE TERMINATOR
WellFormed(m, frame) ==
  IF m = "icom"
  THEN /\ Len(frame) >= 6 /\ frame[1] = "FE" /\ frame[2] = "FE" /\ frame[Len(frame)] = "FD"
       /\ \A i \in 3..Len(frame) - 1 : frame[i] \notin {"FE", "FD", "FC"}
  ELSE /\ frame # <<>> /\ frame[Len(frame)] = TERMINATOR
       /\ \A i \in 1..Len(frame) - 1 : frame[i] # TERMINATOR
Frames(m) == Unsolicited[m] \cup Answers[m] \cup IF m = "icom" THEN {Command[m]} ELSE {}

\* In text the end of a frame is no answer: behind the letters a frame begins with
\* there are figures, and a command begins with its letters.
suffixes(m) == IF m = "yaesu" THEN DIGIT_SUFFIX_PREFIXES ELSE {}
EndsDiffer(m, frame) ==
  \A a \in 2..Len(frame) :
    LET d == decode_response(SubSeq(frame, a, Len(frame)), suffixes(m))
    IN  d.kind = "Response" => d.prefix # extract_command_prefix(Command[m], suffixes(m))

ASSUME FramesAssumption ==
  \A m \in Makes :
    /\ Frames(m) \subseteq Seq(STRING) /\ Command[m] \in Seq(STRING)
    /\ \A frame \in Frames(m) :
         /\ WellFormed(m, frame)
         /\ m # "icom" => EndsDiffer(m, frame)

VARIABLES
  make,
  port, up,   \* what the port is, and whether it is open and the line there
  lines,      \* the control lines that are asserted
  wanted,     \* those that were last asked for
  flow,       \* bytes on their way to the computer
  sent,       \* how many frames the radio has sent
  idle_buf, response_buf,
  phase,      \* "idle", "query", "set"; "ended" by itself, "closed" when asked to
  owes,       \* the radio has got a query and not answered
  exchanges,  \* exchanges so far
  read,       \* frames decoded as they were sent
  wrong,      \* how many frames were decoded that nobody sent so
  answers,    \* of the queries that returned a frame: whether it was sent so
  forgotten,  \* whole frames that lay behind an answer
  cuts,       \* tears: a buffer was left with a part of a frame
  damages,    \* bytes lost or garbled
  fakes,      \* those garbled into a terminator: frame and place
  told        \* Disconnected was published

bufVars  == <<flow, idle_buf, response_buf>>
pastVars == <<read, wrong, answers, forgotten, cuts>>
lossVars == <<damages, fakes>>
portVars == <<make, port, up, lines, wanted>>
vars == <<portVars, bufVars, sent, phase, owes, exchanges, pastVars, lossVars, told>>

Civ == make = "icom"
digit_suffix_prefixes == suffixes(make)
decode(bytes) ==
  IF Civ THEN decode_frame(bytes) ELSE decode_response(bytes, digit_suffix_prefixes)

\* The bytes of a frame with the history values, and without.
Tagged(frame, nr) ==
  [i \in DOMAIN frame |-> [byte |-> frame[i], of |-> nr, at |-> i, size |-> Len(frame),
                           ok |-> TRUE]]
Bytes(buf) == [i \in DOMAIN buf |-> buf[i].byte]

\* What is decoded of a buffer: nothing, or one result.
Decodes(buf) == {decode(Bytes(buf))} \ {Incomplete}
Ready(buf)   == Decodes(buf) # {}

\* The bytes end with a whole frame, before which CI-V skips what is not one.
Whole(bytes) ==
  /\ bytes # <<>>
  /\ LET last == bytes[Len(bytes)]
         from == Len(bytes) - last.size + 1
     IN /\ last.at = last.size /\ from >= 1 /\ (from = 1 \/ Civ)
        /\ \A i \in from..Len(bytes) : /\ bytes[i].of = last.of /\ bytes[i].at = i - from + 1
                                   /\ bytes[i].ok
        /\ Civ => find_preamble(Bytes(bytes)) = from
Number(bytes) == bytes[Len(bytes)].of

\* Frames all of whose bytes are in a buffer.
Inside(buf) == {n \in 1..sent :
                  Cardinality({i \in DOMAIN buf : buf[i].of = n})
                    = Max({0} \cup {buf[i].size : i \in {j \in DOMAIN buf : buf[j].of = n}})
                  /\ \E i \in DOMAIN buf : buf[i].of = n}
Partial(buf) == \E i \in DOMAIN buf : buf[i].of \notin Inside(buf)

-----------------------------------------------------------------------------
\* The system may assert the lines, the transport takes them back before anybody
\* uses it.  A line that does not obey is only logged.  TCP has no such lines.
open_with_config(p) == IF p.stuck THEN SUBSET Lines ELSE {{}}

Init ==
  /\ make \in Makes
  /\ port \in Ports[make] /\ up = TRUE
  /\ lines \in open_with_config(port)
  /\ wanted = {}
  /\ flow = <<>> /\ idle_buf = <<>> /\ response_buf = <<>>
  /\ sent = 0 /\ phase = "idle" /\ owes = FALSE /\ exchanges = 0
  /\ read = {} /\ wrong = 0 /\ answers = {} /\ forgotten = {} /\ cuts = 0
  /\ damages = 0 /\ fakes = {} /\ told = FALSE

Say(frame) ==
  /\ up
  /\ sent' = sent + 1
  /\ flow' = flow \o Tagged(frame, sent + 1)

\* The radio sends a change, or the answer to a query.
Broadcast ==
  /\ sent - exchanges < MaxFrames[make]
  /\ \E frame \in Unsolicited[make] : Say(frame)
  /\ UNCHANGED <<portVars, idle_buf, response_buf, phase, owes, exchanges, pastVars, lossVars, told>>

Respond ==
  /\ owes /\ owes' = FALSE
  /\ \E frame \in Answers[make] : Say(frame)
  /\ UNCHANGED <<portVars, idle_buf, response_buf, phase, exchanges, pastVars, lossVars, told>>

\* A byte does not arrive.
Lose ==
  /\ damages < MaxDamages
  /\ \E i \in DOMAIN flow : flow' = RemoveAt(flow, i)
  /\ damages' = damages + 1
  /\ UNCHANGED <<portVars, sent, idle_buf, response_buf, phase, owes, exchanges, pastVars, fakes, told>>

\* A byte arrives as another: a mark of the protocol is gone, or there is one too many.
Garble ==
  /\ damages < MaxDamages
  /\ \E i \in DOMAIN flow : \E byte \in Noise[make] \ {flow[i].byte} :
       /\ flow' = [flow EXCEPT ![i] = [@ EXCEPT !.byte = byte, !.ok = FALSE]]
       /\ fakes' = IF byte = Terminator(make) THEN fakes \cup {<<flow[i].of, flow[i].at>>} ELSE fakes
  /\ damages' = damages + 1
  /\ UNCHANGED <<portVars, sent, idle_buf, response_buf, phase, owes, exchanges, pastVars, told>>

GoDown ==
  /\ up
  /\ up' = FALSE
  /\ UNCHANGED <<make, port, lines, wanted, bufVars, sent, phase, owes, exchanges, pastVars, lossVars, told>>

-----------------------------------------------------------------------------
\* Transport::receive: some of the bytes, nothing in time, or an error.
Receives(n) == n \in 1..Len(flow) /\ flow' = SubSeq(flow, n + 1, Len(flow))
\* Bytes on their way may be too late.  A dead serial line may also read as no
\* bytes at all, and at once, which is no reason for anybody to stop.
TimesOut       == up
ConnectionLost == ~up /\ flow = <<>> /\ ~port.eof

\* What ends an exchange: the answer, a refusal, a collision.
IsAnswer(d) ==
  IF Civ THEN /\ phase # "idle" /\ d.kind = "Frame"
               /\ d.dst_addr = CONTROLLER_ADDR /\ d.src_addr = "98"
  ELSE /\ phase = "query" /\ d.kind = "Response"
       /\ d.prefix = extract_command_prefix(Command[make], digit_suffix_prefixes)
Refuses(d) == d.kind \in {"Error", "Collision"}

\* The first bytes of a buffer, cut off it, were decoded to d.
Decoded(d, bytes) ==
  \E whole \in {Whole(bytes)} :
    /\ read' = IF whole THEN read \cup {Number(bytes)} ELSE read
    /\ wrong' = IF d.kind \in {"Response", "Frame"} /\ ~whole THEN wrong + 1 ELSE wrong
    /\ answers' = IF IsAnswer(d) THEN answers \cup {whole} ELSE answers

\* Mutant of IdleRead: the task ends and tells nobody.
IdleReadQuiet ==
  /\ phase = "idle" /\ ~Ready(idle_buf)
  /\ \/ \E n \in 1..Len(flow) :
          /\ Receives(n)
          /\ idle_buf' = idle_buf \o SubSeq(flow, 1, n)
          /\ UNCHANGED phase
     \/ ConnectionLost /\ phase' = "ended" /\ UNCHANGED <<flow, idle_buf>>
  /\ UNCHANGED <<portVars, response_buf, sent, owes, exchanges, pastVars, lossVars, told>>

\* io_loop, idle: receive, then process_idle_frames or drain_idle_frames.
IdleRead ==
  /\ phase = "idle" /\ ~Ready(idle_buf)
  /\ \/ \E n \in 1..Len(flow) :
          /\ Receives(n)
          /\ idle_buf' = idle_buf \o SubSeq(flow, 1, n)
          /\ UNCHANGED <<phase, told>>
     \/ ConnectionLost /\ phase' = "ended" /\ told' = TRUE /\ UNCHANGED <<flow, idle_buf>>
  /\ UNCHANGED <<portVars, response_buf, sent, owes, exchanges, pastVars, lossVars>>

IdleFrame ==
  /\ phase = "idle"
  /\ \E d \in Decodes(idle_buf) :
       /\ Decoded(d, SubSeq(idle_buf, 1, d.consumed))
       /\ idle_buf' = SubSeq(idle_buf, d.consumed + 1, Len(idle_buf))
  /\ UNCHANGED <<portVars, flow, response_buf, sent, phase, owes, exchanges,
                 forgotten, cuts, lossVars, told>>

\* A command is written and a buffer made.  On the bus of CI-V the command is
\* read back, with a byte garbled if the radio talks at the same time; then the
\* radio has not got it.
Begin(kind) ==
  /\ phase = "idle" /\ ~Ready(idle_buf) /\ exchanges < MaxExchanges
  /\ up                        \* else send fails and nothing else happens
  /\ phase' = kind /\ response_buf' = <<>>
  /\ exchanges' = exchanges + 1
  /\ cuts' = IF idle_buf # <<>> THEN cuts + 1 ELSE cuts
  /\ IF ~Civ
     THEN owes' = (owes \/ kind = "query") /\ UNCHANGED <<flow, sent, damages>>
     ELSE \/ Say(Command[make]) /\ owes' = TRUE /\ UNCHANGED damages
          \/ /\ damages < MaxDamages /\ damages' = damages + 1
             /\ \E i \in DOMAIN Command[make] : Say([Command[make] EXCEPT ![i] = "FC"])
             /\ UNCHANGED owes
  /\ UNCHANGED <<portVars, idle_buf, read, wrong, answers, forgotten, fakes, told>>

\* The exchange returns and forgets what is left in its buffer.
Return(left) ==
  /\ phase' = "idle" /\ response_buf' = <<>>
  /\ forgotten' = forgotten \cup Inside(left)
  /\ cuts' = IF Partial(left) THEN cuts + 1 ELSE cuts

ExchangeRead ==
  /\ phase \in {"query", "set"} /\ ~Ready(response_buf)
  /\ \E n \in 1..Len(flow) :
       /\ Receives(n)
       /\ response_buf' = response_buf \o SubSeq(flow, 1, n)
  /\ UNCHANGED <<portVars, idle_buf, sent, phase, owes, exchanges, pastVars, lossVars, told>>

ExchangeFrame ==
  /\ phase \in {"query", "set"}
  /\ \E d \in Decodes(response_buf) :
       LET left == SubSeq(response_buf, d.consumed + 1, Len(response_buf))
       IN /\ Decoded(d, SubSeq(response_buf, 1, d.consumed))
          /\ IF IsAnswer(d) \/ Refuses(d) THEN Return(left)
             ELSE response_buf' = left /\ UNCHANGED <<phase, forgotten, cuts>>
  /\ UNCHANGED <<portVars, flow, idle_buf, sent, owes, exchanges, lossVars, told>>

\* The timer of a read elapses, the time to drain after a set is over, or the
\* transport fails; a query of the text protocol takes no bytes for a reason
\* to read on, a set for one to stop.
ExchangeEnds ==
  /\ phase \in {"query", "set"} /\ ~Ready(response_buf)
  /\ \/ TimesOut \/ ConnectionLost
     \/ phase = "set" /\ ~Civ
  /\ Return(response_buf)
  /\ UNCHANGED <<portVars, flow, idle_buf, sent, owes, exchanges, read, wrong, answers,
                 lossVars, told>>

\* Mutant of SetLine: as if the lines were asserted when they are low.
SetLineInverted(l, on) ==
  /\ phase = "idle" /\ up /\ port.link = "serial" /\ ~port.stuck
  /\ exchanges < MaxExchanges /\ exchanges' = exchanges + 1
  /\ wanted' = IF on THEN wanted \cup {l} ELSE wanted \ {l}
  /\ lines' = IF on THEN lines \ {l} ELSE lines \cup {l}
  /\ UNCHANGED <<make, port, up, bufVars, sent, phase, owes, pastVars, lossVars, told>>

\* set_dtr and set_rts, which only a serial port has; handed back, the
\* transport is closed.
SetLine(l, on) ==
  /\ phase = "idle" /\ up /\ port.link = "serial" /\ ~port.stuck
  /\ exchanges < MaxExchanges /\ exchanges' = exchanges + 1
  /\ wanted' = IF on THEN wanted \cup {l} ELSE wanted \ {l}
  /\ lines' = wanted'
  /\ UNCHANGED <<make, port, up, bufVars, sent, phase, owes, pastVars, lossVars, told>>

Close ==
  /\ phase = "idle"
  /\ phase' = "closed" /\ up' = FALSE
  /\ UNCHANGED <<make, port, lines, wanted, bufVars, sent, owes, exchanges, pastVars, lossVars, told>>

Task ==
  \/ IdleRead \/ IdleFrame \/ ExchangeRead \/ ExchangeFrame \/ ExchangeEnds
Next ==
  \/ Broadcast \/ Respond \/ Lose \/ Garble \/ GoDown \/ Close \/ Task
  \/ \E kind \in {"query", "set"} : Begin(kind)
  \/ \E l \in Lines, on \in BOOLEAN : SetLine(l, on)

\* The task is scheduled.  It is enough to ask it of a task whose line is dead,
\* which then cannot wait for anything but its own reads.
Spec == Init /\ [][Next]_vars /\ WF_vars(~up /\ Task)

-----------------------------------------------------------------------------
\* The variables have their types, and no line is asserted that nobody asked
\* for, unless it does not obey: a line that is up when a port is opened keys
\* the transmitter.  (SerialTransport::open_with_config, set_dtr, set_rts.)
TypeOK ==
  /\ phase \in {"idle", "query", "set", "ended", "closed"}
  /\ read \subseteq 1..sent /\ forgotten \subseteq 1..sent /\ answers \subseteq BOOLEAN
  /\ ~port.stuck => lines = wanted

\* Frames that have passed and were neither decoded nor lay behind an answer.
Passed == {n \in 1..sent : \A b \in {flow, idle_buf, response_buf} :
                             \A i \in DOMAIN b : b[i].of # n}
Missing == Passed \ (read \cup forgotten)

\* On a line that is in order each frame is decoded as it was sent.  A tear or
\* a damaged byte spoils two frames at most, its own and the next: both codecs
\* find the start of a frame again.  An answer is never made of a torn frame,
\* because each exchange begins with a buffer of its own; only damage can
\* spoil one.  And the copies of the decoder agree with the shared one.
Resync ==
  /\ wrong <= 2 * (cuts + damages)
  /\ Cardinality(Missing) <= 2 * (cuts + damages)
  /\ damages = 0 => FALSE \notin answers
  /\ \A buf \in {Bytes(idle_buf), Bytes(response_buf)} :
       /\ make = "kenwood"  => kenwood_decode_response(buf) = decode(buf)
       /\ make = "elecraft" => elecraft_decode_response(buf) = decode(buf)
       /\ make = "yaesu"    => yaesu_decode_response(buf) = decode(buf)

\* When the line goes down the task ends, and Disconnected is told, unless it was
\* closed first; a serial port that reports the end as no bytes leaves it running
\* for ever.  (io_loop, its receive.)
LossTold == (~up /\ ~port.eof) ~> (phase = "closed" \/ (phase = "ended" /\ told))
=============================================================================
