------------------------------- MODULE TextIo -------------------------------
(***************************************************************************)
(* The IO task of the text protocol rigs (Kenwood, Elecraft, Yaesu) and    *)
(* the handle through which rig methods reach it: riglib-text-io, io.rs.   *)
(*                                                                         *)
(* Callers hand requests to the task over two bounded channels, real-time  *)
(* and background.  The task owns the transport; it takes one request at a *)
(* time, polling the real-time channel first, and executes it: a GET       *)
(* ("get") is sent and read for, with retries; a SET ("set") is sent once, *)
(* then the line is drained for an error answer; a control line ("line")   *)
(* is switched; a shutdown ("shutdown") ends the task.  When there is no   *)
(* request it reads unsolicited (AI) frames.                               *)
(*                                                                         *)
(* The transport and the radio at its far end are not part of io.rs: they  *)
(* are the two byte queues toRig and fromRig, of whole commands and whole  *)
(* frames, and a radio whose state is a version number that every change   *)
(* increments.                                                             *)
(***************************************************************************)
EXTENDS Integers, Sequences, FiniteSets

CONSTANTS
  Requests,         \* calls made through one RigIo handle, each made once
  NoOne,            \* no request: the task is not executing, or nobody asked
  Ai0,              \* the shutdown command on the wire
  Ops,              \* operations a call may ask for: [kind, chan, prefix]
  Prefixes,         \* command prefixes of this model
  AiPrefixes,       \* IoConfig::ai_prefixes
  Error,            \* the prefix of the error answer "?;"
  Capacity,         \* slots of each mpsc channel (32 in the code)
  Retries,          \* IoConfig::max_retries, 0 when auto_retry is off
  AiEnabled,        \* IoConfig::ai_enabled
  HasShutdownCmd,   \* IoConfig::shutdown_command.is_some()
  LateAnswers,      \* the rig may answer after the read timeout or the drain
  Lossy,            \* the rig may miss a command, its answer may be lost
  MaxVersion        \* bound: the operator turns the dial up to this version

Kinds    == {"get", "set", "line", "shutdown"}
Channels == {"rt", "bg"}

ASSUME RequestsAssumption ==
  /\ IsFiniteSet(Requests)
  /\ NoOne \notin Requests
  /\ Ai0 \notin Requests
ASSUME OpsAssumption ==
  /\ Ops \subseteq [kind : Kinds, chan : Channels, prefix : Prefixes]
  /\ \A o \in Ops : o.kind = "shutdown" => o.chan = "bg"
ASSUME PrefixAssumption == AiPrefixes \subseteq Prefixes /\ Error \notin Prefixes
ASSUME NumberAssumption == Capacity \in Nat \ {0} /\ Retries \in Nat /\ MaxVersion \in Nat
ASSUME FlagAssumption ==
  /\ AiEnabled \in BOOLEAN
  /\ HasShutdownCmd \in BOOLEAN
  /\ LateAnswers \in BOOLEAN
  /\ Lossy \in BOOLEAN

VARIABLES
  op,         \* [Requests -> Ops]: what each call asks for
  handle,     \* the RigIo value: "open", "consumed" by shutdown, "dropped"
  caller,     \* [Requests -> CallerStates]
  result,     \* [Requests -> Results]: what the call returned
  answer,     \* [Requests -> Frames]: the frame that decided the result, if one did
  since,      \* [Requests -> Nat]: the radio's version when the call was made
  stage,      \* [Requests -> Stages]: where the Request value is
  rtq, bgq,   \* contents of the two channels
  grace,      \* [Requests -> Int]: background requests that may still begin before it
  cancel,     \* the cancellation token
  pc,         \* where the task is
  cur,        \* the request it executes, or NoOne
  attempt,    \* the loop variable of execute_cat_command
  tries,      \* [Requests -> Nat]: times the task acted on the transport for it
  line,       \* the transport: "up" or "down" for good
  toRig,      \* commands written and not yet seen by the radio
  fromRig,    \* frames sent by the radio and not yet received
  radio,      \* the radio's version
  aiOn,       \* the radio sends AI frames
  lastEvent,  \* version carried by the last AI event published
  gone        \* Disconnected was published

callerVars == <<op, handle, caller, since, grace>>
taskVars   == <<rtq, bgq, pc, cur, attempt, tries>>
replyVars  == <<result, answer, stage>>
wireVars   == <<line, toRig, fromRig>>
radioVars  == <<radio, aiOn>>
eventVars  == <<lastEvent, gone>>
vars == <<callerVars, taskVars, replyVars, cancel, wireVars, radioVars, eventVars>>

CallerStates == {"idle", "sending", "waiting", "done"}
Stages       == {"none", "held", "queued", "running", "gone"}
TaskStates   == {"select", "background", "idle", "send", "recv", "drain", "line", "ai0", "return", "exited"}
Results      == {"none", "ok", "rejected", "timeout", "broken",
                 "notconnected", "abandoned"}
Frames       == [prefix : Prefixes \cup {Error}, ver : Nat, cause : Requests \cup {NoOne}]
NoFrame      == [prefix |-> Error, ver |-> 0, cause |-> NoOne]

Init ==
  /\ op \in [Requests -> Ops]
  /\ handle = "open"
  /\ caller = [r \in Requests |-> "idle"]
  /\ result = [r \in Requests |-> "none"]
  /\ answer = [r \in Requests |-> NoFrame]
  /\ since = [r \in Requests |-> 0]
  /\ stage = [r \in Requests |-> "none"]
  /\ rtq = <<>> /\ bgq = <<>>
  /\ grace = [r \in Requests |-> 0]
  /\ cancel = FALSE
  /\ pc = "select" /\ cur = NoOne /\ attempt = 0
  /\ tries = [r \in Requests |-> 0]
  /\ line = "up" /\ toRig = <<>> /\ fromRig = <<>>
  /\ radio = 0 /\ aiOn = AiEnabled
  /\ lastEvent = 0 /\ gone = FALSE

-----------------------------------------------------------------------------
(* Callers: the methods of RigIo.                                          *)

Borrowed == \E r \in Requests : caller[r] \in {"sending", "waiting"}

\* Every Sender of the two channels has been dropped: the handle was, or
\* shutdown(self), which consumed it, has returned.
SendersGone == handle = "dropped" \/ (handle = "consumed" /\ ~Borrowed)

\* A method is called: it makes the request and awaits a slot in its channel.
\* shutdown takes the handle by value, so no other call can be under way.
Call(r) ==
  /\ caller[r] = "idle"
  /\ handle = "open"
  /\ op[r].kind = "shutdown" => ~Borrowed
  /\ handle' = IF op[r].kind = "shutdown" THEN "consumed" ELSE handle
  /\ caller' = [caller EXCEPT ![r] = "sending"]
  /\ stage' = [stage EXCEPT ![r] = "held"]
  /\ since' = [since EXCEPT ![r] = radio]
  /\ UNCHANGED <<op, grace, taskVars, result, answer, cancel, wireVars, radioVars, eventVars>>

\* The channel has a slot: the request is in it and the caller awaits the reply.
\* A real-time request that comes in between the polls of the two channels may
\* find one background request taken before it.
Enqueue(r) ==
  /\ caller[r] = "sending"
  /\ pc # "exited"
  /\ \/ /\ op[r].chan = "rt" /\ Len(rtq) < Capacity
        /\ rtq' = Append(rtq, r) /\ bgq' = bgq
     \/ /\ op[r].chan = "bg" /\ Len(bgq) < Capacity
        /\ bgq' = Append(bgq, r) /\ rtq' = rtq
  /\ caller' = [caller EXCEPT ![r] = "waiting"]
  /\ stage' = [stage EXCEPT ![r] = "queued"]
  /\ grace' = IF pc = "background" /\ op[r].chan = "rt" THEN [grace EXCEPT ![r] = 1] ELSE grace
  /\ UNCHANGED <<op, handle, since, pc, cur, attempt, tries, result, answer,
                 cancel, wireVars, radioVars, eventVars>>

\* The receiver is gone: send fails and the call returns NotConnected.
Refused(r) ==
  /\ caller[r] = "sending"
  /\ pc = "exited"
  /\ caller' = [caller EXCEPT ![r] = "done"]
  /\ result' = [result EXCEPT ![r] = "notconnected"]
  /\ stage' = [stage EXCEPT ![r] = "gone"]
  /\ UNCHANGED <<op, handle, since, grace, taskVars, answer, cancel, wireVars, radioVars, eventVars>>

\* The caller's own timer, command_timeout + 500 ms, elapses.  The request
\* stays where it is.  Line and shutdown calls have no timer.
CallerTimeout(r) ==
  /\ caller[r] = "waiting"
  /\ op[r].kind \in {"get", "set"}
  /\ caller' = [caller EXCEPT ![r] = "done"]
  /\ result' = [result EXCEPT ![r] = "timeout"]
  /\ UNCHANGED <<op, handle, since, grace, taskVars, answer, stage, cancel, wireVars, radioVars, eventVars>>

\* The caller's future is dropped: a request it still holds is dropped too.
Abandon(r) ==
  /\ caller[r] \in {"sending", "waiting"}
  /\ caller' = [caller EXCEPT ![r] = "done"]
  /\ result' = [result EXCEPT ![r] = "abandoned"]
  /\ stage' = IF caller[r] = "sending" THEN [stage EXCEPT ![r] = "gone"] ELSE stage
  /\ UNCHANGED <<op, handle, since, grace, taskVars, answer, cancel, wireVars, radioVars, eventVars>>

\* The rig struct, and RigIo in it, is dropped.  No method can be running.
DropHandle ==
  /\ handle = "open"
  /\ ~Borrowed
  /\ handle' = "dropped"
  /\ UNCHANGED <<op, caller, since, grace, taskVars, replyVars, cancel, wireVars, radioVars, eventVars>>

\* Somebody cancels the public cancellation token.
Cancel ==
  /\ ~cancel
  /\ handle = "open"
  /\ cancel' = TRUE
  /\ UNCHANGED <<callerVars, taskVars, replyVars, wireVars, radioVars, eventVars>>

-----------------------------------------------------------------------------
(* The task.                                                               *)

\* The oneshot reply: the caller gets it if it still waits.  The request is
\* used up and the task is back at the top of its loop.
Reply(res, f) ==
  /\ stage' = [stage EXCEPT ![cur] = "gone"]
  /\ IF caller[cur] = "waiting"
     THEN /\ caller' = [caller EXCEPT ![cur] = "done"]
          /\ result' = [result EXCEPT ![cur] = res]
          /\ answer' = [answer EXCEPT ![cur] = f]
     ELSE UNCHANGED <<caller, result, answer>>
  /\ pc' = "select"
  /\ cur' = NoOne
  /\ attempt' = 0

\* Where the task goes with a request it has taken.
FirstStep(r) ==
  CASE op[r].kind \in {"get", "set"} -> "send"
    [] op[r].kind = "line"           -> "line"
    [] op[r].kind = "shutdown"       -> "ai0"

Begin(r) ==
  /\ cur' = r
  /\ pc' = FirstStep(r)
  /\ stage' = [stage EXCEPT ![r] = "running"]
  /\ UNCHANGED <<op, handle, caller, since, attempt, tries, result, answer, cancel,
                 wireVars, radioVars, eventVars>>

\* Mutant of SeeCancel: cancellation is seen in the middle of an exchange.
SeeCancelAnytime ==
  /\ pc \notin {"return", "exited"}
  /\ cancel
  /\ pc' = "return"
  /\ UNCHANGED <<callerVars, rtq, bgq, cur, attempt, tries, replyVars, cancel,
                 wireVars, radioVars, eventVars>>

\* select! is biased: it polls the cancellation, then the real-time channel, then
\* the background channel, then the idle read.  Callers go on between the polls.
SeeCancel ==
  /\ pc = "select"
  /\ cancel
  /\ pc' = "return"
  /\ UNCHANGED <<callerVars, rtq, bgq, cur, attempt, tries, replyVars, cancel,
                 wireVars, radioVars, eventVars>>

TakeRt ==
  /\ pc = "select"
  /\ ~cancel
  /\ rtq # <<>>
  /\ Begin(Head(rtq))
  /\ rtq' = Tail(rtq)
  /\ UNCHANGED <<bgq, grace>>

\* recv() is None once all senders are gone and the channel is empty.  The
\* real-time channel is asked first, so what is left in the other is lost.
SeeClosed ==
  /\ \/ pc = "select" /\ ~cancel /\ rtq = <<>>
     \/ pc = "background" /\ bgq = <<>>
  /\ SendersGone
  /\ pc' = "return"
  /\ UNCHANGED <<callerVars, rtq, bgq, cur, attempt, tries, replyVars, cancel,
                 wireVars, radioVars, eventVars>>

PollOn(to) ==
  /\ pc' = to
  /\ UNCHANGED <<callerVars, rtq, bgq, cur, attempt, tries, replyVars, cancel,
                 wireVars, radioVars, eventVars>>

\* Mutant of RtEmpty: select! without the bias may poll the background first.
RtEmptyUnbiased ==
  /\ pc = "select"
  /\ ~cancel
  /\ PollOn("background")

\* The real-time channel is polled and has nothing.
RtEmpty ==
  /\ pc = "select"
  /\ ~cancel
  /\ rtq = <<>>
  /\ ~SendersGone
  /\ PollOn("background")

TakeBg ==
  /\ pc = "background"
  /\ bgq # <<>>
  /\ Begin(Head(bgq))
  /\ bgq' = Tail(bgq)
  /\ rtq' = rtq
  /\ grace' = [r \in Requests |->
                 IF stage[r] = "queued" /\ op[r].chan = "rt" THEN grace[r] - 1 ELSE grace[r]]

\* So has the background channel: the task reads what comes unasked.
BgEmpty ==
  /\ pc = "background"
  /\ bgq = <<>>
  /\ ~SendersGone
  /\ PollOn("idle")

\* Something a branch above waits for, or the idle read's 100 ms: polled again.
Wake ==
  /\ pc = "idle"
  /\ cancel \/ rtq # <<>> \/ bgq # <<>> \/ SendersGone
  /\ PollOn("select")

\* The event left behind by publishing the AI frames among fs in turn.
Publish(fs) ==
  LET ai == {i \in 1..Len(fs) : AiEnabled /\ fs[i].prefix \in AiPrefixes}
  IN IF ai = {} THEN UNCHANGED lastEvent
     ELSE \E i \in ai : (\A j \in ai : j <= i) /\ lastEvent' = fs[i].ver

\* Mutant of Rest: the buffer is not drained of the frames decoded.
RestKept(n) == fromRig

\* The n frames of one receive.
Chunk(n) == SubSeq(fromRig, 1, n)
Rest(n)  == SubSeq(fromRig, n + 1, Len(fromRig))

\* process_idle_frames, or drain_idle_frames when AI is off.
IdleRead ==
  /\ pc = "idle"
  /\ \E n \in 1..Len(fromRig) :
       /\ Publish(Chunk(n))
       /\ fromRig' = Rest(n)
  /\ pc' = "select"
  /\ UNCHANGED <<callerVars, rtq, bgq, cur, attempt, tries, replyVars, cancel, line, toRig,
                 radioVars, gone>>

\* Mutant of IdleError: the loop goes on after a transport error.
IdleErrorGoesOn ==
  /\ pc = "idle"
  /\ line = "down"
  /\ gone' = TRUE
  /\ pc' = "select"
  /\ UNCHANGED <<callerVars, rtq, bgq, cur, attempt, tries, replyVars, cancel,
                 wireVars, radioVars, lastEvent>>

IdleError ==
  /\ pc = "idle"
  /\ line = "down"
  /\ gone' = TRUE
  /\ pc' = "return"
  /\ UNCHANGED <<callerVars, rtq, bgq, cur, attempt, tries, replyVars, cancel,
                 wireVars, radioVars, lastEvent>>

\* Mutant of Exit: the background receiver is kept alive.
ExitKeepsBg ==
  /\ pc = "return"
  /\ pc' = "exited"
  /\ rtq' = <<>>
  /\ LET lost(r) == stage[r] = "queued" /\ op[r].chan = "rt"
     IN /\ stage' = [r \in Requests |-> IF lost(r) THEN "gone" ELSE stage[r]]
        /\ caller' = [r \in Requests |->
                        IF lost(r) /\ caller[r] = "waiting" THEN "done" ELSE caller[r]]
        /\ result' = [r \in Requests |->
                        IF lost(r) /\ caller[r] = "waiting" THEN "notconnected" ELSE result[r]]
  /\ UNCHANGED <<op, handle, since, grace, bgq, cur, attempt, tries, answer, cancel, wireVars,
                 radioVars, eventVars>>

\* The task returns and its receivers are dropped, with the requests in them.
Exit ==
  /\ pc = "return"
  /\ pc' = "exited"
  /\ rtq' = <<>> /\ bgq' = <<>>
  /\ stage' = [r \in Requests |-> IF stage[r] = "queued" THEN "gone" ELSE stage[r]]
  /\ caller' = [r \in Requests |-> IF caller[r] = "waiting" THEN "done" ELSE caller[r]]
  /\ result' = [r \in Requests |-> IF caller[r] = "waiting" THEN "notconnected" ELSE result[r]]
  /\ UNCHANGED <<op, handle, since, grace, cur, attempt, tries, answer, cancel, wireVars,
                 radioVars, eventVars>>

-----------------------------------------------------------------------------
(* execute_cat_command and execute_set_command.                            *)

Send ==
  /\ pc = "send"
  /\ line = "up"
  /\ toRig' = Append(toRig, cur)
  /\ tries' = [tries EXCEPT ![cur] = @ + 1]
  /\ pc' = IF op[cur].kind = "get" THEN "recv" ELSE "drain"
  /\ UNCHANGED <<callerVars, rtq, bgq, cur, attempt, replyVars, cancel, line,
                 fromRig, radioVars, eventVars>>

\* send or receive fails with anything but Timeout: the error is the answer.
TransportError ==
  /\ pc \in {"send", "recv", "drain"}
  /\ line = "down"
  /\ Reply("broken", NoFrame)
  /\ UNCHANGED <<op, handle, since, grace, rtq, bgq, tries, cancel, wireVars, radioVars, eventVars>>

\* The frames of a chunk that end the wait: the answer expected, or an error.
\* Any frame with the prefix of the command is taken for the answer to it.
Decisive(f) == f.prefix \in {op[cur].prefix, Error}

\* Frames are received, AI frames before the answer are published; the frames
\* received behind it are dropped with the buffer.
RecvAnswer ==
  /\ pc = "recv"
  /\ \E n \in 1..Len(fromRig) : \E i \in 1..n :
       /\ Decisive(fromRig[i])
       /\ \A j \in 1..(i - 1) : ~Decisive(fromRig[j])
       /\ Publish(Chunk(i - 1))
       /\ fromRig' = Rest(n)
       /\ IF fromRig[i].prefix = Error
          THEN Reply("rejected", fromRig[i])
          ELSE Reply("ok", fromRig[i])
  /\ UNCHANGED <<op, handle, since, grace, rtq, bgq, tries, cancel, line, toRig, radioVars, gone>>

RecvOther ==
  /\ pc = "recv"
  /\ \E n \in 1..Len(fromRig) :
       /\ \A j \in 1..n : ~Decisive(fromRig[j])
       /\ Publish(Chunk(n))
       /\ fromRig' = Rest(n)
  /\ UNCHANGED <<callerVars, taskVars, replyVars, cancel, line, toRig, radioVars, gone>>

\* Nothing comes any more, unless the rig may be late.
Quiet == LateAnswers \/ (toRig = <<>> /\ fromRig = <<>>)

\* Mutant of RecvTimeout: one attempt too many.
RecvTimeoutOnceMore ==
  /\ pc = "recv"
  /\ Quiet
  /\ IF attempt <= Retries
     THEN /\ attempt' = attempt + 1
          /\ pc' = "send"
          /\ UNCHANGED <<caller, replyVars, cur>>
     ELSE Reply("timeout", NoFrame)
  /\ UNCHANGED <<op, handle, since, grace, rtq, bgq, tries, cancel, wireVars, radioVars, eventVars>>

\* The read times out: the next attempt, or Timeout when there is none left.
RecvTimeout ==
  /\ pc = "recv"
  /\ Quiet
  /\ IF attempt < Retries
     THEN /\ attempt' = attempt + 1
          /\ pc' = "send"
          /\ UNCHANGED <<caller, replyVars, cur>>
     ELSE Reply("timeout", NoFrame)
  /\ UNCHANGED <<op, handle, since, grace, rtq, bgq, tries, cancel, wireVars, radioVars, eventVars>>

\* The drain after a SET: up to an error answer, or until the time is up.
DrainError ==
  /\ pc = "drain"
  /\ \E n \in 1..Len(fromRig) : \E i \in 1..n :
       /\ fromRig[i].prefix = Error
       /\ \A j \in 1..(i - 1) : fromRig[j].prefix # Error
       /\ Publish(Chunk(i - 1))
       /\ fromRig' = Rest(n)
       /\ Reply("rejected", fromRig[i])
  /\ UNCHANGED <<op, handle, since, grace, rtq, bgq, tries, cancel, line, toRig, radioVars, gone>>

DrainOther ==
  /\ pc = "drain"
  /\ \E n \in 1..Len(fromRig) :
       /\ \A j \in 1..n : fromRig[j].prefix # Error
       /\ Publish(Chunk(n))
       /\ fromRig' = Rest(n)
  /\ UNCHANGED <<callerVars, taskVars, replyVars, cancel, line, toRig, radioVars, gone>>

DrainEnd ==
  /\ pc = "drain"
  /\ Quiet
  /\ Reply("ok", NoFrame)
  /\ UNCHANGED <<op, handle, since, grace, rtq, bgq, tries, cancel, wireVars, radioVars, eventVars>>

\* handle_request, SetLine: transport.set_dtr or set_rts.
SetLine ==
  /\ pc = "line"
  /\ tries' = [tries EXCEPT ![cur] = @ + 1]
  /\ Reply(IF line = "up" THEN "ok" ELSE "broken", NoFrame)
  /\ UNCHANGED <<op, handle, since, grace, rtq, bgq, cancel, wireVars, radioVars, eventVars>>

\* Mutant of Shutdown: the shutdown command is forgotten.
ShutdownSilent ==
  /\ pc = "ai0"
  /\ tries' = [tries EXCEPT ![cur] = @ + 1]
  /\ stage' = [stage EXCEPT ![cur] = "gone"]
  /\ IF caller[cur] = "waiting"
     THEN /\ caller' = [caller EXCEPT ![cur] = "done"]
          /\ result' = [result EXCEPT ![cur] = "ok"]
     ELSE UNCHANGED <<caller, result>>
  /\ pc' = "return"
  /\ cur' = NoOne
  /\ UNCHANGED <<op, handle, since, grace, rtq, bgq, attempt, answer, cancel, wireVars,
                 radioVars, eventVars>>

\* The Shutdown arm: the shutdown command, the reply with the transport, return.
Shutdown ==
  /\ pc = "ai0"
  /\ toRig' = IF HasShutdownCmd /\ line = "up" THEN Append(toRig, Ai0) ELSE toRig
  /\ tries' = [tries EXCEPT ![cur] = @ + 1]
  /\ stage' = [stage EXCEPT ![cur] = "gone"]
  /\ IF caller[cur] = "waiting"
     THEN /\ caller' = [caller EXCEPT ![cur] = "done"]
          /\ result' = [result EXCEPT ![cur] = "ok"]
     ELSE UNCHANGED <<caller, result>>
  /\ pc' = "return"
  /\ cur' = NoOne
  /\ UNCHANGED <<op, handle, since, grace, rtq, bgq, attempt, answer, cancel, line,
                 fromRig, radioVars, eventVars>>

-----------------------------------------------------------------------------
(* The line and the radio.                                                 *)

AiFrame(p, v) == [prefix |-> p, ver |-> v, cause |-> NoOne]

\* What the radio sends when it changed to version v: an AI frame if AI is on.
Report(v) ==
  IF aiOn THEN {Append(fromRig, AiFrame(p, v)) : p \in AiPrefixes} ELSE {fromRig}

\* The radio answers a query, rejects it, or (a lossy line) nothing arrives.
RadioGet ==
  /\ toRig # <<>>
  /\ Head(toRig) \in Requests
  /\ op[Head(toRig)].kind = "get"
  /\ LET r == Head(toRig)
         Say(p) == Append(fromRig, [prefix |-> p, ver |-> radio, cause |-> r])
     IN fromRig' \in {Say(op[r].prefix), Say(Error)} \cup (IF Lossy THEN {fromRig} ELSE {})
  /\ toRig' = Tail(toRig)
  /\ UNCHANGED <<callerVars, taskVars, replyVars, cancel, line, radioVars, eventVars>>

\* The radio obeys a SET without a word, rejects it, or misses it.
RadioSet ==
  /\ toRig # <<>>
  /\ Head(toRig) \in Requests
  /\ op[Head(toRig)].kind = "set"
  /\ LET r == Head(toRig)
     IN \/ /\ radio' = radio + 1
           /\ fromRig' \in Report(radio + 1)
        \/ /\ fromRig' = Append(fromRig, [prefix |-> Error, ver |-> radio, cause |-> r])
           /\ UNCHANGED radio
        \/ /\ Lossy
           /\ UNCHANGED <<radio, fromRig>>
  /\ toRig' = Tail(toRig)
  /\ UNCHANGED <<callerVars, taskVars, replyVars, cancel, line, aiOn, eventVars>>

RadioAi0 ==
  /\ toRig # <<>>
  /\ Head(toRig) = Ai0
  /\ aiOn' = FALSE
  /\ toRig' = Tail(toRig)
  /\ UNCHANGED <<callerVars, taskVars, replyVars, cancel, line, fromRig, radio, eventVars>>

\* The operator turns the dial.
TurnDial ==
  /\ radio < MaxVersion
  /\ line = "up"
  /\ radio' = radio + 1
  /\ fromRig' \in Report(radio + 1)
  /\ UNCHANGED <<callerVars, taskVars, replyVars, cancel, line, toRig, aiOn, eventVars>>

\* It repeats an AI frame, as rigs do that report a meter all the time.  One such
\* frame is under way at a time: the bound of this action.
Repeats ==
  /\ aiOn
  /\ line = "up"
  /\ fromRig = <<>>
  /\ fromRig' \in Report(radio)
  /\ UNCHANGED <<callerVars, taskVars, replyVars, cancel, line, toRig, radioVars, eventVars>>

\* The cable is pulled: what is under way is lost.
LineFails ==
  /\ line = "up"
  /\ line' = "down"
  /\ toRig' = <<>>
  /\ fromRig' = <<>>
  /\ UNCHANGED <<callerVars, taskVars, replyVars, cancel, radioVars, eventVars>>

-----------------------------------------------------------------------------
Select  == SeeCancel \/ TakeRt \/ SeeClosed \/ RtEmpty \/ TakeBg \/ BgEmpty \/ Wake
           \/ IdleRead \/ IdleError \/ Exit
Execute == Send \/ TransportError \/ RecvAnswer \/ RecvOther \/ RecvTimeout
           \/ DrainError \/ DrainOther \/ DrainEnd \/ SetLine \/ Shutdown
Task    == Select \/ Execute
Radio   == RadioGet \/ RadioSet \/ RadioAi0

Next ==
  \/ \E r \in Requests : Call(r) \/ Enqueue(r) \/ Refused(r) \/ CallerTimeout(r) \/ Abandon(r)
  \/ DropHandle \/ Cancel
  \/ Task
  \/ Radio \/ TurnDial \/ Repeats \/ LineFails

Spec == Init /\ [][Next]_vars

\* tokio runs a spawned task that can go on, and a caller that can; timers
\* elapse.  That the radio answers what it has received is only needed where
\* answers are assumed to be prompt.
Fairness ==
  /\ WF_vars(Task)
  /\ \A r \in Requests : WF_vars(Enqueue(r) \/ Refused(r))
  /\ WF_vars(Radio)
FairSpec == Spec /\ Fairness

-----------------------------------------------------------------------------
(* Properties.                                                             *)

TypeOK ==
  /\ op \in [Requests -> Ops]
  /\ handle \in {"open", "consumed", "dropped"}
  /\ caller \in [Requests -> CallerStates]
  /\ result \in [Requests -> Results]
  /\ answer \in [Requests -> Frames]
  /\ since \in [Requests -> Nat]
  /\ stage \in [Requests -> Stages]
  /\ rtq \in Seq(Requests) /\ bgq \in Seq(Requests)
  /\ grace \in [Requests -> Int]
  /\ cancel \in BOOLEAN
  /\ pc \in TaskStates
  /\ cur \in Requests \cup {NoOne}
  /\ attempt \in 0..Retries
  /\ tries \in [Requests -> Nat]
  /\ line \in {"up", "down"}
  /\ toRig \in Seq(Requests \cup {Ai0})
  /\ fromRig \in Seq(Frames)
  /\ radio \in Nat
  /\ aiOn \in BOOLEAN
  /\ lastEvent \in Nat
  /\ gone \in BOOLEAN

\* A request is in one place only: once in the channel of its operation while
\* it is queued, in the task's hands while it runs, and nowhere else; and no
\* queued request gets lost on the way to the task.
QueueHolds(q, ch) ==
  /\ \A i \in 1..Len(q) : stage[q[i]] = "queued" /\ op[q[i]].chan = ch
  /\ \A i, j \in 1..Len(q) : i # j => q[i] # q[j]
Placed ==
  /\ QueueHolds(rtq, "rt")
  /\ QueueHolds(bgq, "bg")
  /\ \A r \in Requests : stage[r] = "running" <=> cur = r
  /\ cur = NoOne <=> pc \in {"select", "background", "idle", "return", "exited"}
In(r, q) == \E i \in 1..Len(q) : q[i] = r
NoneLost == \A r \in Requests : stage[r] = "queued" => In(r, rtq) \/ In(r, bgq)
OnePlace == Placed /\ NoneLost

\* What a caller, its request and the task know of each other agrees: a caller
\* waits exactly while its request is with the task and it was told nothing,
\* and the task has acted for a request as often as its place in the code says.
CallerAgrees(r) ==
  /\ caller[r] = "idle" <=> stage[r] = "none"
  /\ caller[r] = "sending" <=> stage[r] = "held"
  /\ caller[r] = "waiting" => stage[r] \in {"queued", "running"}
  /\ result[r] = "none" <=> caller[r] # "done"
  /\ result[r] = "notconnected" => stage[r] = "gone" /\ tries[r] = 0
TriesAgree(r) ==
  /\ stage[r] \in {"none", "held", "queued"} => tries[r] = 0
  /\ stage[r] = "gone" => tries[r] <= IF op[r].kind = "get" THEN Retries + 1 ELSE 1
TaskAgrees ==
  /\ pc = "send"  => op[cur].kind \in {"get", "set"} /\ tries[cur] = attempt
                     /\ (op[cur].kind = "set" => attempt = 0)
  /\ pc = "recv"  => op[cur].kind = "get" /\ tries[cur] = attempt + 1
  /\ pc = "drain" => op[cur].kind = "set" /\ tries[cur] = 1
  /\ pc = "line"  => op[cur].kind = "line" /\ tries[cur] = 0
  /\ pc = "ai0"   => op[cur].kind = "shutdown" /\ tries[cur] = 0
  /\ pc \notin {"send", "recv"} => attempt = 0
Bookkeeping ==
  /\ \A r \in Requests : CallerAgrees(r) /\ TriesAgree(r)
  /\ TaskAgrees

\* A SET, a control line and a shutdown act on the radio at most once, however
\* the call ends: only a GET is repeated, up to max_retries times.  Steps like
\* RU; and TX; must not be sent twice.
Limit(r) == IF op[r].kind = "get" THEN Retries + 1 ELSE 1
SentAtMost == \A r \in Requests : tries[r] <= Limit(r)

\* A call that returns NotConnected has not touched the radio: the caller may
\* repeat it on another connection.
NotConnectedUnsent ==
  \A r \in Requests : result[r] = "notconnected" => tries[r] = 0

\* Nothing about a request is lost, doubled or forgotten between its caller, the
\* channels and the task.
Accounted == OnePlace /\ Bookkeeping /\ SentAtMost /\ NotConnectedUnsent

\* Every result comes from the request itself: the frame that a GET returns, or
\* that makes a call fail as rejected, was sent by the radio for this very
\* request.  Needs a prompt rig and AI off; matching by prefix gives no more.
Correlated ==
  \A r \in Requests :
    \/ result[r] = "rejected"
    \/ result[r] = "ok" /\ op[r].kind = "get"
    => answer[r].cause = r

\* What a GET returns is not older than the call: every change made before it,
\* by a SET that has returned or by the operator, is seen.
Fresh ==
  \A r \in Requests :
    result[r] = "ok" /\ op[r].kind = "get" => answer[r].ver >= since[r]

\* What a caller is told is the radio's answer to its own request, and no older
\* than the call (execute_cat_command, which compares prefixes only).
AnswersRight == Correlated /\ Fresh

\* After a successful shutdown the radio has been told to stop AI frames, and
\* nothing was written behind that command.
ShutdownQuiets ==
  \A r \in Requests :
    /\ op[r].kind = "shutdown" /\ result[r] = "ok"
    /\ HasShutdownCmd /\ line = "up"
    => ~aiOn \/ (toRig # <<>> /\ toRig[Len(toRig)] = Ai0)

\* builder.rs of the Kenwood, Elecraft and Yaesu crates says of AI mode: "On rig
\* drop the IO task sends AI0; to leave the radio clean."
DropQuiets ==
  pc = "exited" /\ handle = "dropped" /\ line = "up" /\ HasShutdownCmd
    => ~aiOn \/ Ai0 \in {toRig[i] : i \in 1..Len(toRig)}

\* phase-d-text-protocol-migration.md says of the AI frames a rig may send at any
\* time: "The IO task should not treat these as responses to pending commands."
NoAiFrameAnswers ==
  \A r \in Requests :
    result[r] = "ok" /\ op[r].kind = "get" => answer[r].cause # NoOne

\* builder.rs says that in AI mode the rig pushes its changes and that "the IO
\* task parses them and emits RigEvents": when all is quiet, the last event is
\* about the radio as it is.
EventsCatchUp ==
  /\ pc = "idle" /\ rtq = <<>> /\ bgq = <<>>
  /\ line = "up" /\ toRig = <<>> /\ fromRig = <<>>
  /\ aiOn /\ AiEnabled
  => lastEvent = radio

\* PTT and CW overtake the polling queued before them: a real-time request in its
\* channel when the task polls it is taken before any background one, and one
\* that comes in between the two polls lets a single background request pass,
\* whatever else happens until it is taken.
RtFirst == \A r \in Requests : grace[r] >= 0

\* The handle with its task is the serial server of RigLink: calls are served
\* one at a time, each gets one verdict, NotConnected means never served.
Phase(s) ==
  CASE s = "none"    -> "new"
    [] s = "held"    -> "pending"
    [] s = "queued"  -> "pending"
    [] s = "running" -> "running"
    [] s = "gone"    -> "over"
Link == INSTANCE RigLink WITH
  open    <- pc # "exited",
  phase   <- [r \in Requests |-> Phase(stage[r])],
  verdict <- result
ImplementsLink == Link!Spec

\* Every call returns, also those without a timer of their own.
EveryCallReturns ==
  \A r \in Requests : caller[r] \in {"sending", "waiting"} ~> caller[r] = "done"

\* A dropped handle or a dead line ends the task: ports are not left busy.
TaskEnds == (SendersGone \/ line = "down" \/ cancel) ~> pc = "exited"

\* The radio does not repeat itself for ever.
Pauses == <>[][~Repeats]_vars

\* Neither a caller nor the task is left hanging, whatever the radio, the line and
\* the other callers do, as long as AI frames pause some time: execute_cat_command
\* starts command_timeout anew at each chunk it receives (io.rs:449-453), so frames
\* that keep coming keep a GET reading, and the calls queued behind it waiting.
NobodyHangs == Pauses => EveryCallReturns /\ TaskEnds
=============================================================================
