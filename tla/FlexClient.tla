----------------------------- MODULE FlexClient -----------------------------
(***************************************************************************)
(* The SmartSDR client of FlexRadio transceivers: riglib-flex, client.rs.  *)
(*                                                                         *)
(* Connecting reads the two lines with which the radio greets, starts the  *)
(* read loop and sends the subscriptions; then the client is there.        *)
(* Any number of callers run send_command concurrently: check a flag, take *)
(* a sequence number, register a oneshot sender in the map of pending      *)
(* commands, write the line, await the response, a timer or the end of the *)
(* connection.  A background task reads the lines of the radio and hands   *)
(* responses to the senders of the map; at the end of the stream it clears *)
(* the map.  disconnect does the same from outside, and aborts that task.  *)
(* The lock of the writer is held as long as a write takes, each other     *)
(* lock for one step, so between two steps of one caller others may run.   *)
(***************************************************************************)
EXTENDS Naturals, Sequences, FiniteSets

CONSTANTS
  Calls,      \* send_command calls, each made once
  Closers,    \* disconnect calls, each made once
  Window,     \* lines the stream takes before a write has to wait
  Greetings,  \* what the radio may say first: sequences of lines, as FlexCodec has them
  Subscriptions \* bound: the commands sent when connecting (four in the code)

ASSUME WindowAssumption == Window \in Nat \ {0} /\ Subscriptions \in Nat

VARIABLES
  pc,          \* [Calls -> CallStates]: where send_command is
  seq,         \* [Calls -> Nat]: its sequence number, 0 before it has one
  mailbox,     \* [Calls -> Mail]: its oneshot channel
  result,      \* [Calls -> Results]
  closer,      \* [Closers -> CloserStates]: where disconnect is
  nextSeq,     \* the sequence counter
  pending,     \* [a subset of Nat -> Calls]: the pending map, by number
  connected,   \* the atomic flag
  cached,      \* RadioState::connected
  writer,      \* the write half is there
  reader,      \* where tcp_read_loop is
  aborted,     \* disconnect has aborted tcp_read_loop
  udp,         \* the VITA-49 task runs
  tcp,         \* the stream: "up", "half" closed by us, "eof" by the radio, "reset"
  toRadio,     \* lines written: [seq, call]
  fromRadio,   \* responses sent: [seq, call, ok]
  executed,    \* calls whose command the radio has executed
  announced,   \* number of Disconnected events
  phase,       \* of connecting: Phases, or the error it has ended with
  hello        \* lines of the greeting still to be read

callerVars == <<pc, seq, mailbox, result>>
flagVars   == <<connected, cached, announced>>
netVars    == <<tcp, toRadio, fromRadio, executed>>
taskVars   == <<reader, aborted, udp>>
openVars   == <<phase, hello>>
vars == <<callerVars, closer, nextSeq, pending, writer, flagVars, netVars, taskVars, openVars>>

Codec == INSTANCE FlexCodec

NoCall == "nobody"   \* whose command a subscription is
ASSUME NoCallAssumption == NoCall \notin Calls

CallStates   == {"idle", "checked", "numbered", "registered", "writing", "waiting",
                 "leaving", "done"}
CloserStates == {"idle", "store", "writer", "abort", "clear", "state", "done"}
Results      == {"none", "ok", "rejected", "timeout", "lost", "broken", "notconnected", "abandoned"}
Mail         == {"empty", "ok", "rejected", "closed"}
Readers      == {"none", "read", "ended", "clearing", "over"}
Phases       == {"connect", "version", "handle", "subscribe", "open"}
Failures     == {"Protocol", "Timeout", "ConnectionLost", "Transport", "NotConnected"}

Init ==
  /\ phase = "connect" /\ hello \in Greetings
  /\ pc = [c \in Calls |-> "idle"]
  /\ seq = [c \in Calls |-> 0]
  /\ mailbox = [c \in Calls |-> "empty"]
  /\ result = [c \in Calls |-> "none"]
  /\ closer = [d \in Closers |-> "idle"]
  /\ nextSeq = 1
  /\ pending = <<>>
  /\ connected = FALSE /\ cached = FALSE
  /\ writer = FALSE
  /\ reader = "none" /\ aborted = FALSE
  /\ udp = FALSE
  /\ tcp = "up" /\ toRadio = <<>> /\ fromRadio = <<>> /\ executed = {}
  /\ announced = 0

-----------------------------------------------------------------------------
(* connect_with_options and from_streams.                                  *)

Fails(error) ==
  /\ phase' = error
  /\ writer' = FALSE    \* the streams that are not in a task's hands are dropped
  /\ UNCHANGED <<callerVars, closer, nextSeq, pending, flagVars, netVars, taskVars, hello>>

\* TcpStream::connect, under the timer of the handshake.
Connect ==
  /\ phase = "connect"
  /\ \/ phase' = "version" /\ writer' = TRUE
        /\ UNCHANGED <<callerVars, closer, nextSeq, pending, flagVars, netVars, taskVars, hello>>
     \/ \E error \in {"Timeout", "Transport"} : Fails(error)

Greeted(line, what) ==
  LET m == Codec!parse_message(line) IN IF m.ok THEN m.v.is = what ELSE FALSE

ReadVersion ==
  /\ phase = "version" /\ hello # <<>> /\ hello' = Tail(hello)
  /\ phase' = IF Greeted(Head(hello), "Version") THEN "handle" ELSE "Protocol"
  /\ UNCHANGED <<callerVars, closer, nextSeq, pending, writer, flagVars, netVars, taskVars>>

\* With the handle the client is put together and its read loop started.
ReadHandle ==
  /\ phase = "handle" /\ hello # <<>> /\ hello' = Tail(hello)
  /\ IF Greeted(Head(hello), "Handle")
     THEN /\ phase' = "subscribe" /\ connected' = TRUE /\ cached' = TRUE /\ reader' = "read"
     ELSE phase' = "Protocol" /\ UNCHANGED <<connected, cached, reader>>
  /\ UNCHANGED <<callerVars, closer, nextSeq, pending, writer, announced, netVars, aborted, udp>>

\* read_handshake_line gives up after a time, or at the end of the stream.
NotGreeted ==
  /\ phase \in {"version", "handle"}
  /\ \/ Fails("Timeout")
     \/ hello = <<>> /\ tcp = "eof" /\ Fails("ConnectionLost")
     \/ tcp = "reset" /\ Fails("Transport")

\* send_command_no_wait, for the name of the program and the subscriptions; an
\* error leaves the read loop behind.
Subscribe ==
  /\ phase = "subscribe" /\ nextSeq <= Subscriptions
  /\ \/ ~connected /\ Fails("NotConnected")
     \/ /\ connected /\ tcp # "reset"
        /\ tcp = "up" => Len(toRadio) < Window
        /\ nextSeq' = nextSeq + 1
        /\ toRadio' = IF tcp = "up" THEN Append(toRadio, [seq |-> nextSeq, call |-> NoCall]) ELSE toRadio
        /\ UNCHANGED <<callerVars, closer, pending, writer, flagVars, tcp, fromRadio, executed,
                       taskVars, openVars>>
     \/ connected /\ tcp \in {"eof", "reset"} /\ Fails("Transport")

\* The client is returned; the application starts the VITA-49 task.
Open ==
  /\ phase = "subscribe" /\ nextSeq > Subscriptions
  /\ phase' = "open" /\ udp' = TRUE
  /\ UNCHANGED <<callerVars, closer, nextSeq, pending, writer, flagVars, netVars, reader,
                 aborted, hello>>

Opener == Connect \/ ReadVersion \/ ReadHandle \/ NotGreeted \/ Subscribe \/ Open

-----------------------------------------------------------------------------
(* The map of pending commands.                                            *)

\* The entry of a number is removed, if there is one.
Without(s) == [k \in DOMAIN pending \ {s} |-> pending[k]]

\* Senders that are dropped close the channels that have received nothing.
Closed(callers) ==
  [c \in Calls |-> IF c \in callers /\ mailbox[c] = "empty" THEN "closed" ELSE mailbox[c]]
Registered == {pending[s] : s \in DOMAIN pending}

-----------------------------------------------------------------------------
(* send_command.                                                           *)

Finish(c, res) ==
  /\ pc' = [pc EXCEPT ![c] = "done"]
  /\ result' = [result EXCEPT ![c] = res]

\* An error, returned when the entry has been removed.
Fail(c, res) ==
  /\ pc' = [pc EXCEPT ![c] = "leaving"]
  /\ result' = [result EXCEPT ![c] = res]

Check(c) ==
  /\ pc[c] = "idle" /\ phase = "open"
  /\ IF connected
     THEN pc' = [pc EXCEPT ![c] = "checked"] /\ UNCHANGED result
     ELSE Finish(c, "notconnected")
  /\ UNCHANGED <<seq, mailbox, closer, nextSeq, pending, writer, flagVars, netVars, taskVars, openVars>>

\* Mutant of Number: the counter is read and not moved on.
NumberKept(c) ==
  /\ pc[c] = "checked"
  /\ seq' = [seq EXCEPT ![c] = nextSeq]
  /\ pc' = [pc EXCEPT ![c] = "numbered"]
  /\ UNCHANGED <<mailbox, result, nextSeq, closer, pending, writer, flagVars, netVars, taskVars, openVars>>

Number(c) ==
  /\ pc[c] = "checked"
  /\ seq' = [seq EXCEPT ![c] = nextSeq]
  /\ nextSeq' = nextSeq + 1
  /\ pc' = [pc EXCEPT ![c] = "numbered"]
  /\ UNCHANGED <<mailbox, result, closer, pending, writer, flagVars, netVars, taskVars, openVars>>

\* insert: a sender that was under the same number is dropped.
Register(c) ==
  /\ pc[c] = "numbered"
  /\ pending' = [s \in DOMAIN pending \cup {seq[c]} |-> IF s = seq[c] THEN c ELSE pending[s]]
  /\ mailbox' = Closed({pending[s] : s \in DOMAIN pending \cap {seq[c]}})
  /\ pc' = [pc EXCEPT ![c] = "registered"]
  /\ UNCHANGED <<seq, result, closer, nextSeq, writer, flagVars, netVars, taskVars, openVars>>

\* The lock of the writer, behind which disconnect may have taken the writer.
Lock(c) ==
  /\ pc[c] = "registered"
  /\ \A d \in Calls : pc[d] # "writing"
  /\ IF writer
     THEN pc' = [pc EXCEPT ![c] = "writing"] /\ UNCHANGED result
     ELSE Fail(c, "notconnected")
  /\ UNCHANGED <<seq, mailbox, closer, nextSeq, pending, writer, flagVars, netVars, taskVars, openVars>>

\* write_all and flush: they wait for a radio that does not read, without a timer,
\* and may succeed or fail when the radio has closed the stream.
Write(c) ==
  /\ pc[c] = "writing"
  /\ \/ /\ tcp = "up" /\ Len(toRadio) < Window
        /\ toRadio' = Append(toRadio, [seq |-> seq[c], call |-> c])
        /\ pc' = [pc EXCEPT ![c] = "waiting"]
        /\ UNCHANGED result
     \/ tcp = "eof" /\ pc' = [pc EXCEPT ![c] = "waiting"] /\ UNCHANGED <<toRadio, result>>
     \/ tcp \in {"eof", "reset"} /\ Fail(c, "broken") /\ UNCHANGED toRadio
  /\ UNCHANGED <<seq, mailbox, closer, nextSeq, pending, writer, flagVars, tcp, fromRadio,
                 executed, taskVars, openVars>>

\* The response is there, or the sender was dropped.
Receive(c) ==
  /\ pc[c] = "waiting"
  /\ \/ mailbox[c] \in {"ok", "rejected"} /\ Finish(c, mailbox[c])
     \/ mailbox[c] = "closed" /\ Fail(c, "lost")
  /\ UNCHANGED <<seq, mailbox, closer, nextSeq, pending, writer, flagVars, netVars, taskVars, openVars>>

\* Mutant of Expire: there is no timer.
ExpireNot(c) ==
  /\ pc[c] = "waiting" /\ tcp = "reset"
  /\ mailbox[c] = "empty"
  /\ Fail(c, "timeout")
  /\ UNCHANGED <<seq, mailbox, closer, nextSeq, pending, writer, flagVars, netVars, taskVars, openVars>>

\* The command timer elapses before anything came.
Expire(c) ==
  /\ pc[c] = "waiting"
  /\ mailbox[c] = "empty"
  /\ Fail(c, "timeout")
  /\ UNCHANGED <<seq, mailbox, closer, nextSeq, pending, writer, flagVars, netVars, taskVars, openVars>>

\* Mutant of Unregister: an error leaves the entry behind.
UnregisterNot(c) ==
  /\ pc[c] = "leaving"
  /\ pc' = [pc EXCEPT ![c] = "done"]
  /\ UNCHANGED <<seq, mailbox, result, pending, closer, nextSeq, writer, flagVars, netVars, taskVars, openVars>>

Unregister(c) ==
  /\ pc[c] = "leaving"
  /\ pending' = Without(seq[c])
  /\ mailbox' = Closed({pending[s] : s \in DOMAIN pending \cap {seq[c]}})
  /\ pc' = [pc EXCEPT ![c] = "done"]
  /\ UNCHANGED <<seq, result, closer, nextSeq, writer, flagVars, netVars, taskVars, openVars>>

\* The caller drops the future of send_command at one of its await points.  Its
\* entry, if there is one, stays in the map.
Abandon(c) ==
  /\ pc[c] \in {"checked", "numbered", "registered", "writing", "waiting", "leaving"}
  /\ Finish(c, "abandoned")
  /\ UNCHANGED <<seq, mailbox, closer, nextSeq, pending, writer, flagVars, netVars, taskVars, openVars>>

Caller(c) ==
  \/ Check(c) \/ Number(c) \/ Register(c) \/ Lock(c) \/ Write(c)
  \/ Receive(c) \/ Expire(c) \/ Unregister(c)

-----------------------------------------------------------------------------
(* tcp_read_loop.                                                          *)

\* Mutant of ReadLine: an answer with an error code is passed over.
ReadLineOkOnly ==
  /\ reader = "read"
  /\ fromRadio # <<>>
  /\ LET f == Head(fromRadio)
     IN IF f.seq \in DOMAIN pending /\ f.ok
        THEN /\ pending' = Without(f.seq)
             /\ mailbox' = [mailbox EXCEPT ![pending[f.seq]] = "ok"]
        ELSE UNCHANGED <<pending, mailbox>>
  /\ fromRadio' = Tail(fromRadio)
  /\ UNCHANGED <<pc, seq, result, closer, nextSeq, writer, flagVars, tcp, toRadio, executed,
                 taskVars, openVars>>

\* A line of the radio: the sender under its number gets the response.
ReadLine ==
  /\ reader = "read"
  /\ fromRadio # <<>>
  /\ LET f == Head(fromRadio)
     IN IF f.seq \in DOMAIN pending
        THEN /\ pending' = Without(f.seq)
             /\ mailbox' = [mailbox EXCEPT ![pending[f.seq]] = IF f.ok THEN "ok" ELSE "rejected"]
        ELSE UNCHANGED <<pending, mailbox>>
  /\ fromRadio' = Tail(fromRadio)
  /\ UNCHANGED <<pc, seq, result, closer, nextSeq, writer, flagVars, tcp, toRadio, executed,
                 taskVars, openVars>>

\* Mutant of ReadEnd: an error of the stream is retried.
ReadEndEofOnly ==
  /\ reader = "read"
  /\ fromRadio = <<>>
  /\ tcp = "eof"
  /\ connected' = FALSE
  /\ reader' = "ended"
  /\ UNCHANGED <<callerVars, closer, nextSeq, pending, writer, cached, announced, netVars,
                 aborted, udp, openVars>>

\* The end of the stream, or an error: the flag goes first.
ReadEnd ==
  /\ reader = "read"
  /\ fromRadio = <<>>
  /\ tcp \in {"eof", "reset"}
  /\ connected' = FALSE
  /\ reader' = "ended"
  /\ UNCHANGED <<callerVars, closer, nextSeq, pending, writer, cached, announced, netVars,
                 aborted, udp, openVars>>

\* Mutant of ReadAnnounce: nobody is told of the end of the stream.
ReadAnnounceNot ==
  /\ reader = "ended"
  /\ cached' = FALSE
  /\ reader' = "clearing"
  /\ UNCHANGED <<callerVars, closer, nextSeq, pending, writer, connected, announced, netVars,
                 aborted, udp, openVars>>

ReadAnnounce ==
  /\ reader = "ended"
  /\ cached' = FALSE
  /\ announced' = announced + 1
  /\ reader' = "clearing"
  /\ UNCHANGED <<callerVars, closer, nextSeq, pending, writer, connected, netVars, aborted, udp, openVars>>

\* "Drop all pending oneshot senders so waiters get errors."
ReadClear ==
  /\ reader = "clearing"
  /\ pending' = <<>>
  /\ mailbox' = Closed(Registered)
  /\ reader' = "over"
  /\ UNCHANGED <<pc, seq, result, closer, nextSeq, writer, flagVars, netVars, aborted, udp, openVars>>

\* The abort of disconnect: the loop is gone at one of its await points.
ReadAborted ==
  /\ aborted /\ reader # "over"
  /\ reader' = "over"
  /\ UNCHANGED <<callerVars, closer, nextSeq, pending, writer, flagVars, netVars, aborted, udp, openVars>>

Reader == ReadLine \/ ReadEnd \/ ReadAnnounce \/ ReadClear \/ ReadAborted

-----------------------------------------------------------------------------
(* disconnect.                                                             *)

Moves(d, to) == closer' = [closer EXCEPT ![d] = to]

DCheck(d) ==
  /\ closer[d] = "idle" /\ phase = "open"
  /\ Moves(d, IF connected THEN "store" ELSE "done")
  /\ UNCHANGED <<callerVars, nextSeq, pending, writer, flagVars, netVars, taskVars, openVars>>

DStore(d) ==
  /\ closer[d] = "store"
  /\ connected' = FALSE
  /\ Moves(d, "writer")
  /\ UNCHANGED <<callerVars, nextSeq, pending, writer, cached, announced, netVars, taskVars, openVars>>

\* The writer is taken, under its lock, and shut down: the radio sees the end of our stream.
DWriter(d) ==
  /\ closer[d] = "writer"
  /\ \A c \in Calls : pc[c] # "writing"
  /\ writer' = FALSE
  /\ tcp' = IF writer /\ tcp = "up" THEN "half" ELSE tcp
  /\ Moves(d, "abort")
  /\ UNCHANGED <<callerVars, nextSeq, pending, flagVars, toRadio, fromRadio, executed, taskVars, openVars>>

DAbort(d) ==
  /\ closer[d] = "abort"
  /\ aborted' = TRUE
  /\ udp' = FALSE
  /\ Moves(d, "clear")
  /\ UNCHANGED <<callerVars, nextSeq, pending, writer, flagVars, netVars, reader, openVars>>

DClear(d) ==
  /\ closer[d] = "clear"
  /\ pending' = <<>>
  /\ mailbox' = Closed(Registered)
  /\ Moves(d, "state")
  /\ UNCHANGED <<pc, seq, result, nextSeq, writer, flagVars, netVars, taskVars, openVars>>

DState(d) ==
  /\ closer[d] = "state"
  /\ cached' = FALSE
  /\ announced' = announced + 1
  /\ Moves(d, "done")
  /\ UNCHANGED <<callerVars, nextSeq, pending, writer, connected, netVars, taskVars, openVars>>

Closer(d) == DCheck(d) \/ DStore(d) \/ DWriter(d) \/ DAbort(d) \/ DClear(d) \/ DState(d)

-----------------------------------------------------------------------------
(* The radio and the network.                                              *)

\* The radio executes a command and answers with or without an error code.
RadioExecutes ==
  /\ tcp \in {"up", "half"}
  /\ toRadio # <<>>
  /\ LET l == Head(toRadio)
     IN /\ executed' = executed \cup ({l.call} \cap Calls)
        /\ \E b \in BOOLEAN :
             fromRadio' = Append(fromRadio, [seq |-> l.seq, call |-> l.call, ok |-> b])
  /\ toRadio' = Tail(toRadio)
  /\ UNCHANGED <<callerVars, closer, nextSeq, pending, writer, flagVars, tcp, taskVars, openVars>>

RadioCloses ==
  /\ phase # "connect" /\ tcp \in {"up", "half"}
  /\ tcp' = "eof"
  /\ toRadio' = <<>>
  /\ UNCHANGED <<callerVars, closer, nextSeq, pending, writer, flagVars, fromRadio, executed,
                 taskVars, openVars>>

Reset ==
  /\ phase # "connect" /\ tcp # "reset"
  /\ tcp' = "reset"
  /\ toRadio' = <<>> /\ fromRadio' = <<>>
  /\ UNCHANGED <<callerVars, closer, nextSeq, pending, writer, flagVars, executed, taskVars, openVars>>

-----------------------------------------------------------------------------
Next ==
  \/ Opener
  \/ \E c \in Calls : Caller(c) \/ Abandon(c)
  \/ \E d \in Closers : Closer(d)
  \/ Reader
  \/ RadioExecutes \/ RadioCloses \/ Reset

Spec == Init /\ [][Next]_vars

\* Tasks that can run are run; timers elapse; the radio and the network owe nothing.
Fairness ==
  /\ \A c \in Calls : WF_vars(pc[c] # "idle" /\ Caller(c))
  /\ \A d \in Closers : WF_vars(closer[d] # "idle" /\ Closer(d))
  /\ WF_vars(Reader) /\ WF_vars(Opener)
FairSpec == Spec /\ Fairness

-----------------------------------------------------------------------------
(* Properties.                                                             *)

TypeOK ==
  /\ pc \in [Calls -> CallStates]
  /\ nextSeq \in Nat \ {0}
  /\ seq \in [Calls -> 0 .. nextSeq - 1]
  /\ mailbox \in [Calls -> Mail]
  /\ result \in [Calls -> Results]
  /\ closer \in [Closers -> CloserStates]
  /\ DOMAIN pending \subseteq Nat /\ \A s \in DOMAIN pending : pending[s] \in Calls
  /\ connected \in BOOLEAN /\ cached \in BOOLEAN /\ writer \in BOOLEAN
  /\ reader \in Readers /\ aborted \in BOOLEAN /\ udp \in BOOLEAN
  /\ tcp \in {"up", "half", "eof", "reset"}
  /\ toRadio \in Seq([seq : Nat, call : Calls \cup {NoCall}])
  /\ fromRadio \in Seq([seq : Nat, call : Calls \cup {NoCall}, ok : BOOLEAN])
  /\ executed \subseteq Calls
  /\ announced \in Nat
  /\ phase \in Phases \cup Failures

\* The map holds what is under way: under the number of a call its sender, while
\* the call is between registration and removal, or after it was abandoned; it has
\* not been used.  A call that returned by itself leaves nothing behind.
PendingHonest ==
  \A s \in DOMAIN pending :
    LET c == pending[s]
    IN /\ seq[c] = s
       /\ \/ pc[c] \in {"registered", "writing", "waiting", "leaving"}
          \/ pc[c] = "done" /\ result[c] = "abandoned"
       /\ mailbox[c] = "empty"

\* No answer is lost between the radio and its caller: while a caller has received
\* nothing, its sender is in the map, and when the radio has executed its command
\* the response is still to be read, unless the stream broke.
NoAnswerLost ==
  \A c \in Calls :
    pc[c] \in {"registered", "writing", "waiting"} /\ mailbox[c] = "empty" =>
      /\ c \in Registered
      /\ c \in executed /\ tcp # "reset" => \E i \in DOMAIN fromRadio : fromRadio[i].call = c

\* The map is what a response needs to reach its caller, and nothing more.
PendingAgrees == PendingHonest /\ NoAnswerLost

\* When the read loop and every disconnect are through, flag and cache agree that
\* there is no connection, and the application has been told.
EndIsKnown ==
  /\ reader = "over"
  /\ \A d \in Closers : closer[d] \in {"idle", "done"}
  => ~connected /\ ~cached /\ announced > 0

\* The comment at the end of tcp_read_loop says "Drop all pending oneshot senders
\* so waiters get errors": then nobody should be left in the map to wait for a
\* response that cannot come any more.
NobodyLeft ==
  reader = "over" => \A c \in Calls : pc[c] = "waiting" => c \notin Registered

\* disconnect says "Disconnect and clean up background tasks": when it has
\* returned, the VITA-49 task does not run any more.
DisconnectCleansUp == \A d \in Closers : closer[d] = "done" => ~udp

\* To its callers the client is a RemoteCall: a verdict of the radio is about a
\* command that the radio has executed, NotConnected about one it never will.
Told == [c \in Calls |-> IF pc[c] = "done" THEN result[c] ELSE "none"]
Remote == INSTANCE RemoteCall WITH
  banned  <- {c \in Calls : Told[c] = "notconnected"},
  verdict <- Told
ImplementsRemote == Remote!Spec

\* Every send_command returns, and so does every disconnect, if the stream takes
\* all that is written.
EveryCallReturns ==
  /\ \A c \in Calls : pc[c] # "idle" ~> pc[c] = "done"
  /\ \A d \in Closers : closer[d] # "idle" ~> closer[d] = "done"

\* send_command returns "an error on timeout": then a caller is not held for ever in
\* a write to a radio that has stopped to read.
WritesTimeOut == \A c \in Calls : pc[c] = "writing" ~> pc[c] # "writing"

\* A connection that ended is noticed: the read loop does not outlive it.
EndIsNoticed ==
  (tcp \in {"eof", "reset"} \/ aborted) /\ phase = "open" ~> reader = "over" /\ ~connected

\* Connecting returns, with a client or with an error, whatever the radio says
\* first or keeps to itself, if the stream takes the subscriptions.
ConnectReturns == <>(phase \in {"open"} \cup Failures)

NobodyHangs == EveryCallReturns /\ EndIsNoticed /\ ConnectReturns
=============================================================================
