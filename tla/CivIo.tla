------------------------------- MODULE CivIo -------------------------------
(***************************************************************************)
(* The IO task of the Icom rigs and the handle through which rig methods   *)
(* reach it: riglib-icom, io.rs.                                           *)
(*                                                                         *)
(* CI-V is a bus of one wire.  The controller reads its own commands back  *)
(* (an echo); when the rig speaks at the same time the echo is garbled (a  *)
(* collision) and the rig has received nothing.  Every command has an      *)
(* answer: data, an acknowledgement, or a refusal.  An answer does not say *)
(* what it answers: the first frame that the rig addresses to the          *)
(* controller is taken for it.  In transceive mode the rig broadcasts      *)
(* every change.                                                           *)
(***************************************************************************)
EXTENDS Naturals, Sequences, FiniteSets

CONSTANTS
  Requests,        \* calls made through one RigIo handle, each made once
  NoOne,           \* no request
  Loads,           \* what the calls may ask for: a set of [Requests -> Ops]
  Capacity,        \* slots of each mpsc channel (32 in the code)
  Retries,         \* IoConfig::max_retries, 0 when auto_retry is off
  AiEnabled,       \* IoConfig::ai_enabled
  CollisionRecovery, \* IoConfig::collision_recovery
  Habits,          \* the rigs considered: late ones may answer after command_timeout,
                   \* direct ones address transceive frames to the controller
  MaxMishaps       \* bound: collisions, lost commands, lost and late answers, and
                   \* changes the operator makes, together

\* Queries and the handing back of the transport use the background channel.
Ops == [kind : {"query", "ack", "line", "shutdown"}, chan : {"bg"}]
       \cup [kind : {"ack", "line"}, chan : {"rt"}]

ASSUME CivIoAssumption ==
  /\ NoOne \notin Requests
  /\ Loads \subseteq [Requests -> Ops]
  /\ Capacity \in Nat \ {0} /\ Retries \in Nat /\ MaxMishaps \in Nat
  /\ AiEnabled \in BOOLEAN /\ CollisionRecovery \in BOOLEAN 
  /\ Habits \subseteq [late : BOOLEAN, direct : BOOLEAN]

VARIABLES
  op,         \* [Requests -> Ops]
  late,       \* the rig's answers may come after the timeout
  direct,     \* the rig addresses transceive frames to the controller, not to all
  handle,     \* the RigIo value: "open", "consumed" by shutdown, "dropped"
  caller,     \* [Requests -> {"idle", "sending", "waiting", "done"}]
  result,     \* [Requests -> Results]: what the call returned
  answer,     \* [Requests -> Requests \cup {NoOne}]: whose answer decided it
  stage,      \* [Requests -> Stages]: where the Request value is
  rtq, bgq,   \* contents of the two channels
  cancel,     \* the cancellation token
  pc,         \* where the task is
  cur,        \* the request it executes, or NoOne
  attempt,    \* the loop variable of execute_civ_command
  sent,       \* [Requests -> Nat]: commands written
  line,       \* the transport: "up" or "down" for good
  toRig,      \* commands on their way to the rig
  bus,        \* frames on their way to the controller
  obeyed,     \* [Requests -> Nat]: times the rig has obeyed the setting
  radio,      \* the operator's changes
  lastEvent,  \* the change last published
  gone,       \* Disconnected was published
  mishaps     \* what MaxMishaps bounds

callerVars == <<op, late, direct, handle, caller>>
taskVars   == <<rtq, bgq, pc, cur, attempt, sent>>
replyVars  == <<result, answer, stage>>
wireVars   == <<line, toRig, bus, mishaps>>
radioVars  == <<obeyed, radio>>
eventVars  == <<lastEvent, gone>>
vars == <<callerVars, taskVars, replyVars, cancel, wireVars, radioVars, eventVars>>

Stages  == {"none", "held", "queued", "running", "gone"}
Results == {"none", "ok", "rejected", "timeout", "broken", "notconnected", "abandoned"}

\* A frame: what it is, for whom it is sent, and the operator's change in it.
Frame(what, cause, change) == [what |-> what, cause |-> cause, change |-> change]
Frames == [what : {"echo", "data", "ack", "nak", "broadcast", "direct", "collision"},
           cause : Requests \cup {NoOne}, change : 0..MaxMishaps]

Init ==
  /\ op \in Loads /\ \E h \in Habits : late = h.late /\ direct = h.direct
  /\ handle = "open" /\ cancel = FALSE
  /\ caller = [r \in Requests |-> "idle"] /\ result = [r \in Requests |-> "none"]
  /\ answer = [r \in Requests |-> NoOne] /\ stage = [r \in Requests |-> "none"]
  /\ rtq = <<>> /\ bgq = <<>> /\ pc = "select" /\ cur = NoOne /\ attempt = 0
  /\ sent = [r \in Requests |-> 0]
  /\ line = "up" /\ toRig = <<>> /\ bus = <<>> /\ mishaps = 0
  /\ obeyed = [r \in Requests |-> 0] /\ radio = 0
  /\ lastEvent = 0 /\ gone = FALSE

-----------------------------------------------------------------------------
(* Callers: the methods of RigIo.                                          *)

Borrowed    == \E r \in Requests : caller[r] \in {"sending", "waiting"}
SendersGone == handle = "dropped" \/ (handle = "consumed" /\ ~Borrowed)

\* command, ack_command, rt_ack_command, set_line, rt_set_line; shutdown takes
\* the handle by value.
Call(r) ==
  /\ caller[r] = "idle" /\ handle = "open"
  /\ op[r].kind = "shutdown" => ~Borrowed
  /\ handle' = IF op[r].kind = "shutdown" THEN "consumed" ELSE handle
  /\ caller' = [caller EXCEPT ![r] = "sending"] /\ stage' = [stage EXCEPT ![r] = "held"]
  /\ UNCHANGED <<op, late, direct, taskVars, result, answer, cancel, wireVars, radioVars, eventVars>>

Enqueue(r) ==
  /\ caller[r] = "sending" /\ pc # "exited"
  /\ \/ op[r].chan = "rt" /\ Len(rtq) < Capacity /\ rtq' = Append(rtq, r) /\ bgq' = bgq
     \/ op[r].chan = "bg" /\ Len(bgq) < Capacity /\ bgq' = Append(bgq, r) /\ rtq' = rtq
  /\ caller' = [caller EXCEPT ![r] = "waiting"] /\ stage' = [stage EXCEPT ![r] = "queued"]
  /\ UNCHANGED <<op, late, direct, handle, pc, cur, attempt, sent, result, answer, cancel, wireVars,
                 radioVars, eventVars>>

Refused(r) ==
  /\ caller[r] = "sending" /\ pc = "exited"
  /\ caller' = [caller EXCEPT ![r] = "done"] /\ stage' = [stage EXCEPT ![r] = "gone"]
  /\ result' = [result EXCEPT ![r] = "notconnected"]
  /\ UNCHANGED <<op, late, direct, handle, taskVars, answer, cancel, wireVars, radioVars, eventVars>>

\* The safety net of the handle, command_timeout + 500 ms; a line has none.
CallerTimeout(r) ==
  /\ caller[r] = "waiting" /\ op[r].kind \in {"query", "ack"}
  /\ caller' = [caller EXCEPT ![r] = "done"] /\ result' = [result EXCEPT ![r] = "timeout"]
  /\ UNCHANGED <<op, late, direct, handle, taskVars, answer, stage, cancel, wireVars, radioVars, eventVars>>

\* The caller's future is dropped.
Abandon(r) ==
  /\ caller[r] \in {"sending", "waiting"}
  /\ caller' = [caller EXCEPT ![r] = "done"] /\ result' = [result EXCEPT ![r] = "abandoned"]
  /\ stage' = IF caller[r] = "sending" THEN [stage EXCEPT ![r] = "gone"] ELSE stage
  /\ UNCHANGED <<op, late, direct, handle, taskVars, answer, cancel, wireVars, radioVars, eventVars>>

\* The Drop of IcomRig cancels the token; RigIo and its channels go with it.
DropRig ==
  /\ handle = "open" /\ ~Borrowed
  /\ handle' = "dropped" /\ cancel' = TRUE
  /\ UNCHANGED <<op, late, direct, caller, taskVars, replyVars, wireVars, radioVars, eventVars>>

-----------------------------------------------------------------------------
(* io_loop: a biased select of cancellation, the two channels and the bus. *)

Reply(res, of) ==
  /\ stage' = [stage EXCEPT ![cur] = "gone"]
  /\ IF caller[cur] = "waiting"
     THEN /\ caller' = [caller EXCEPT ![cur] = "done"]
          /\ result' = [result EXCEPT ![cur] = res] /\ answer' = [answer EXCEPT ![cur] = of]
     ELSE UNCHANGED <<caller, result, answer>>
  /\ pc' = "select" /\ cur' = NoOne /\ attempt' = 0

Begin(r) ==
  /\ cur' = r /\ stage' = [stage EXCEPT ![r] = "running"]
  /\ pc' = IF op[r].kind \in {"query", "ack"} THEN "send" ELSE op[r].kind
  /\ UNCHANGED <<callerVars, attempt, sent, result, answer, cancel, wireVars, radioVars, eventVars>>

\* Mutant of SeeCancel: cancellation ends the task in the middle of a command.
SeeCancelAnytime ==
  /\ pc \notin {"return", "exited"}
  /\ cancel \/ (pc = "select" /\ rtq = <<>> /\ SendersGone)
  /\ pc' = "return"
  /\ UNCHANGED <<callerVars, rtq, bgq, cur, attempt, sent, replyVars, cancel, wireVars,
                 radioVars, eventVars>>

\* The token, or a closed channel: the real-time one is asked first, so what is
\* left in the other is lost.
SeeCancel ==
  /\ pc = "select"
  /\ cancel \/ (rtq = <<>> /\ SendersGone)
  /\ pc' = "return"
  /\ UNCHANGED <<callerVars, rtq, bgq, cur, attempt, sent, replyVars, cancel, wireVars,
                 radioVars, eventVars>>

TakeRt ==
  /\ pc = "select" /\ ~cancel /\ rtq # <<>>
  /\ Begin(Head(rtq)) /\ rtq' = Tail(rtq) /\ bgq' = bgq

TakeBg ==
  /\ pc = "select" /\ ~cancel /\ rtq = <<>> /\ ~SendersGone /\ bgq # <<>>
  /\ Begin(Head(bgq)) /\ bgq' = Tail(bgq) /\ rtq' = rtq

Idle == pc = "select" /\ ~cancel /\ rtq = <<>> /\ bgq = <<>> /\ ~SendersGone

\* The transceive frames among fs are published in turn, whatever their address.
Publish(fs) ==
  LET told == {i \in DOMAIN fs : fs[i].what \in {"broadcast", "direct"}}
  IN  IF told = {} THEN UNCHANGED lastEvent
      ELSE \E i \in told : (\A j \in told : j <= i) /\ lastEvent' = fs[i].change

\* Mutant of Rest: the frames that were decoded stay in the buffer.
RestKept(n) == bus

\* The n frames of one receive.
Chunk(n) == SubSeq(bus, 1, n)
Rest(n)  == SubSeq(bus, n + 1, Len(bus))

\* process_idle_frames; without AI drain_idle_frames.
IdleRead ==
  /\ Idle
  /\ \E n \in 1..Len(bus) :
       /\ IF AiEnabled THEN Publish(Chunk(n)) ELSE UNCHANGED lastEvent
       /\ bus' = Rest(n)
  /\ UNCHANGED <<callerVars, taskVars, replyVars, cancel, line, toRig, mishaps, radioVars, gone>>

\* Mutant of IdleError: an error of the transport is waited out like a timeout.
IdleErrorIgnored ==
  /\ Idle /\ line = "down"
  /\ gone' = TRUE
  /\ UNCHANGED <<callerVars, taskVars, replyVars, cancel, wireVars, radioVars, lastEvent>>

IdleError ==
  /\ Idle /\ line = "down"
  /\ gone' = TRUE /\ pc' = "return"
  /\ UNCHANGED <<callerVars, rtq, bgq, cur, attempt, sent, replyVars, cancel, wireVars,
                 radioVars, lastEvent>>

\* The Drop of IcomRig also aborts the task: it stops where it waits, in the
\* middle of a command as well.  Nobody is waiting for one then.
Aborted ==
  /\ handle = "dropped" /\ pc \notin {"return", "exited"}
  /\ pc' = "return" /\ cur' = NoOne
  /\ stage' = [r \in Requests |-> IF r = cur THEN "gone" ELSE stage[r]]
  /\ UNCHANGED <<callerVars, rtq, bgq, attempt, sent, result, answer, cancel, wireVars, radioVars,
                 eventVars>>

\* Mutant of Exit: the receivers outlive the task.
ExitKeepsQueues ==
  /\ pc = "return" /\ pc' = "exited"
  /\ UNCHANGED <<callerVars, rtq, bgq, cur, attempt, sent, replyVars, cancel, wireVars, radioVars,
                 eventVars>>

\* The receivers are dropped, with the requests in them.
Exit ==
  /\ pc = "return" /\ pc' = "exited"
  /\ rtq' = <<>> /\ bgq' = <<>>
  /\ stage' = [r \in Requests |-> IF stage[r] = "queued" THEN "gone" ELSE stage[r]]
  /\ caller' = [r \in Requests |-> IF caller[r] = "waiting" THEN "done" ELSE caller[r]]
  /\ result' = [r \in Requests |-> IF caller[r] = "waiting" THEN "notconnected" ELSE result[r]]
  /\ UNCHANGED <<op, late, direct, handle, cur, attempt, sent, answer, cancel, wireVars, radioVars,
                 eventVars>>

-----------------------------------------------------------------------------
(* execute_civ_command and execute_civ_ack_command.                        *)

\* The command is written.  If somebody else is on the bus the rig does not get
\* it, and the echo is garbled.
Send ==
  /\ pc = "send" /\ line = "up"
  /\ sent' = [sent EXCEPT ![cur] = @ + 1] /\ pc' = "receive"
  /\ \/ /\ toRig' = Append(toRig, cur) /\ bus' = Append(bus, Frame("echo", cur, 0))
        /\ UNCHANGED mishaps
     \/ /\ mishaps < MaxMishaps /\ mishaps' = mishaps + 1
        /\ bus' = Append(bus, Frame("collision", cur, 0)) /\ UNCHANGED toRig
  /\ UNCHANGED <<callerVars, rtq, bgq, cur, attempt, replyVars, cancel, line, radioVars, eventVars>>

TransportError ==
  /\ pc \in {"send", "receive"} /\ line = "down"
  /\ Reply("broken", NoOne)
  /\ UNCHANGED <<op, late, direct, handle, rtq, bgq, sent, cancel, wireVars, radioVars, eventVars>>

\* Mutant of NextAttempt: one attempt too many.
NextAttemptOnceMore ==
  IF attempt <= Retries
  THEN attempt' = attempt + 1 /\ pc' = "send" /\ UNCHANGED <<caller, replyVars, cur>>
  ELSE Reply("timeout", NoOne)

\* The next turn of the for loop, or Timeout behind the last.
NextAttempt ==
  IF attempt < Retries
  THEN attempt' = attempt + 1 /\ pc' = "send" /\ UNCHANGED <<caller, replyVars, cur>>
  ELSE Reply("timeout", NoOne)

\* Mutant of Decisive: an echo is taken for an answer.
DecisiveEcho(f) == f.what # "broadcast"

\* The frames that end the reading: any that the rig addresses to the
\* controller, a transceive frame as well as an answer, and a collision.
Decisive(f) == f.what \in {"data", "ack", "nak", "direct", "collision"}

\* Broadcasts are told during a query if AI is on, and never during a setting.
Told(fs) == IF AiEnabled /\ op[cur].kind = "query" THEN Publish(fs) ELSE UNCHANGED lastEvent

\* What a decisive frame makes of the command.
Decide(f) ==
  CASE f.what = "collision" -> IF CollisionRecovery THEN NextAttempt ELSE Reply("rejected", NoOne)
    [] f.what = "nak" -> Reply("rejected", f.cause)
    [] f.what \notin {"collision", "nak"} ->
         Reply(IF op[cur].kind = "query" \/ f.what = "ack" THEN "ok" ELSE "rejected", f.cause)

\* One receive with a decisive frame, the i-th; what came behind it is dropped.
Receive ==
  /\ pc = "receive"
  /\ \E n \in 1..Len(bus) : \E i \in 1..n :
       /\ Decisive(bus[i]) /\ \A j \in 1..(i - 1) : ~Decisive(bus[j])
       /\ Told(Chunk(i - 1)) /\ bus' = Rest(n)
       /\ Decide(bus[i])
  /\ UNCHANGED <<op, late, direct, handle, rtq, bgq, sent, cancel, line, toRig, mishaps, radioVars, gone>>

\* One receive without: the timeout begins anew.
ReceiveOther ==
  /\ pc = "receive"
  /\ \E n \in 1..Len(bus) :
       /\ \A j \in 1..n : ~Decisive(bus[j])
       /\ Told(Chunk(n)) /\ bus' = Rest(n)
  /\ UNCHANGED <<callerVars, taskVars, replyVars, cancel, line, toRig, mishaps, radioVars, gone>>

\* command_timeout without a byte.  (The last decoding of the buffer finds
\* nothing: every whole frame in it has been decoded.)
ReceiveTimeout ==
  /\ pc = "receive"
  /\ \/ toRig = <<>> /\ bus = <<>> /\ UNCHANGED mishaps
     \/ late /\ mishaps < MaxMishaps /\ mishaps' = mishaps + 1
  /\ NextAttempt
  /\ UNCHANGED <<op, late, direct, handle, rtq, bgq, sent, cancel, line, toRig, bus, radioVars, eventVars>>

SetLine ==
  /\ pc = "line"
  /\ sent' = [sent EXCEPT ![cur] = @ + 1]
  /\ Reply(IF line = "up" THEN "ok" ELSE "broken", NoOne)
  /\ UNCHANGED <<op, late, direct, handle, rtq, bgq, cancel, wireVars, radioVars, eventVars>>

\* The transport is handed back, and the task returns.
Shutdown ==
  /\ pc = "shutdown"
  /\ stage' = [stage EXCEPT ![cur] = "gone"]
  /\ IF caller[cur] = "waiting"
     THEN caller' = [caller EXCEPT ![cur] = "done"] /\ result' = [result EXCEPT ![cur] = "ok"]
     ELSE UNCHANGED <<caller, result>>
  /\ pc' = "return" /\ cur' = NoOne
  /\ UNCHANGED <<op, late, direct, handle, rtq, bgq, attempt, sent, answer, cancel, wireVars, radioVars,
                 eventVars>>

-----------------------------------------------------------------------------
(* The rig and the bus: external, and of no interest when nobody listens.  *)

RigAnswers ==
  /\ toRig # <<>> /\ pc # "exited" /\ toRig' = Tail(toRig)
  /\ LET r == Head(toRig)
         Says(what) == bus' = Append(bus, Frame(what, r, 0)) IN
     \/ Says("nak") /\ UNCHANGED <<obeyed, mishaps>>
     \/ op[r].kind = "query" /\ Says("data") /\ UNCHANGED <<obeyed, mishaps>>
     \/ /\ op[r].kind = "ack" /\ obeyed' = [obeyed EXCEPT ![r] = @ + 1]
        /\ \/ Says("ack") /\ UNCHANGED mishaps
           \/ mishaps < MaxMishaps /\ mishaps' = mishaps + 1 /\ UNCHANGED bus
     \/ /\ mishaps < MaxMishaps /\ mishaps' = mishaps + 1 /\ UNCHANGED <<bus, obeyed>>
  /\ UNCHANGED <<callerVars, taskVars, replyVars, cancel, line, radio, eventVars>>

OperatorTurns ==
  /\ mishaps < MaxMishaps /\ mishaps' = mishaps + 1 /\ line = "up" /\ pc # "exited"
  /\ radio' = radio + 1
  /\ bus' = Append(bus, Frame(IF direct THEN "direct" ELSE "broadcast", NoOne, radio + 1))
  /\ UNCHANGED <<callerVars, taskVars, replyVars, cancel, line, toRig, obeyed, eventVars>>

LineFails ==
  /\ line = "up" /\ pc # "exited" /\ line' = "down" /\ toRig' = <<>> /\ bus' = <<>>
  /\ UNCHANGED <<callerVars, taskVars, replyVars, cancel, mishaps, radioVars, eventVars>>

Task == SeeCancel \/ TakeRt \/ TakeBg \/ IdleRead \/ IdleError \/ Aborted \/ Exit \/ Send
        \/ TransportError \/ Receive \/ ReceiveOther \/ ReceiveTimeout \/ SetLine \/ Shutdown

Next ==
  \/ \E r \in Requests : Call(r) \/ Enqueue(r) \/ Refused(r) \/ CallerTimeout(r) \/ Abandon(r)
  \/ DropRig \/ Task \/ RigAnswers \/ OperatorTurns \/ LineFails

\* tokio runs a task, and a caller, that can go on; the rig reads its bus.
Fairness == /\ WF_vars(Task) /\ WF_vars(RigAnswers)
            /\ \A r \in Requests : WF_vars(Enqueue(r) \/ Refused(r))
Spec == Init /\ [][Next]_vars /\ Fairness

-----------------------------------------------------------------------------
(* Properties.                                                             *)

\* Every variable has its type, and every queued request is in its channel.
TypeOK ==
  /\ op \in [Requests -> Ops] /\ {late, direct} \subseteq BOOLEAN
  /\ handle \in {"open", "consumed", "dropped"}
  /\ caller \in [Requests -> {"idle", "sending", "waiting", "done"}]
  /\ result \in [Requests -> Results] /\ answer \in [Requests -> Requests \cup {NoOne}]
  /\ stage \in [Requests -> Stages] /\ rtq \in Seq(Requests) /\ bgq \in Seq(Requests)
  /\ pc \in {"select", "send", "receive", "line", "shutdown", "return", "exited"}
  /\ cur \in Requests \cup {NoOne} /\ attempt \in 0..Retries /\ sent \in [Requests -> Nat]
  /\ line \in {"up", "down"} /\ toRig \in Seq(Requests) /\ bus \in Seq(Frames)
  /\ obeyed \in [Requests -> Nat] /\ radio \in 0..MaxMishaps /\ lastEvent \in 0..MaxMishaps
  /\ {cancel, gone} \subseteq BOOLEAN

\* A rig that answers within command_timeout or not at all, and says to all what it
\* was not asked.
Orderly == ~late /\ ~direct

\* With an orderly rig, a command succeeds or is rejected by its own answer, and by
\* nothing else, whatever is lost, repeated, garbled or broadcast in between
\* (execute_civ_command does not compare them).  The exception is a collision that
\* nobody recovers from.
Correlated ==
  \A r \in Requests : Orderly =>
    /\ answer[r] \in {NoOne, r}
    /\ result[r] = "ok" /\ op[r].kind \in {"query", "ack"} => answer[r] = r
    /\ result[r] = "rejected" => answer[r] = r \/ ~CollisionRecovery

\* A setting that is reported done has been obeyed by the rig
\* (execute_civ_ack_command), and one that was never sent has not.
AckMeansDone ==
  \A r \in Requests :
    /\ Orderly /\ op[r].kind = "ack" /\ result[r] = "ok" => obeyed[r] > 0
    /\ obeyed[r] <= sent[r]

\* No command is written more often than max_retries allows, and a call that is
\* told NotConnected has written nothing.
SentAtMost ==
  \A r \in Requests :
    /\ sent[r] <= IF op[r].kind \in {"query", "ack"} THEN Retries + 1 ELSE 1
    /\ result[r] = "notconnected" => sent[r] = 0

\* What a caller is told about its command is what happened to it.
VerdictsTrue == AckMeansDone /\ SentAtMost

\* What a call returns is about its own command, the answer with an orderly rig
\* and the verdict with any.
AnswersTrue == Correlated /\ VerdictsTrue

\* The handle with its task is the serial server of RigLink.
Phase(s) == CASE s = "none" -> "new" [] s \in {"held", "queued"} -> "pending"
              [] s = "running" -> "running" [] s = "gone" -> "over"
Link == INSTANCE RigLink WITH
  open <- pc # "exited", phase <- [r \in Requests |-> Phase(stage[r])], verdict <- result
ImplementsLink == Link!Spec

\* Every call returns, and a dropped rig or a dead line ends the task.  The rig says
\* unasked what MaxMishaps allows: as each chunk starts command_timeout anew
\* (io.rs:417), one that never pauses would keep a command reading.
EveryCallReturns ==
  \A r \in Requests : caller[r] \in {"sending", "waiting"} ~> caller[r] = "done"
TaskEnds == (SendersGone \/ line = "down" \/ cancel) ~> pc = "exited"
NobodyHangs == EveryCallReturns /\ TaskEnds

\* io.rs:445 says of every frame of the rig's that is addressed to the controller
\* "Actual response from the rig to us.", where transceive.rs:61-62 has transceive
\* frames addressed to it too.  So what a query returns is an answer to some request.
ResponsesActual ==
  \A r \in Requests : op[r].kind = "query" /\ result[r] = "ok" => answer[r] # NoOne

\* io.rs:516 says of execute_civ_ack_command: "SET operations don't generate
\* transceive events, so no event_tx is needed."  So no change that the operator
\* makes meanwhile is lost: when all is quiet, the last one has been told.
SetsLoseNothing ==
  /\ pc = "select" /\ rtq = <<>> /\ bgq = <<>> /\ bus = <<>> /\ toRig = <<>> /\ line = "up"
  /\ AiEnabled /\ \A r \in Requests : op[r].kind = "ack"
  => lastEvent = radio
=============================================================================
