---------------------------- MODULE TextIoProofs ----------------------------
(* Proofs about TextIo, for all values of its constants.                   *)
EXTENDS TextIo, Integers, SequenceTheorems, TLAPS

-----------------------------------------------------------------------------
(* Queues: what appending and taking the first do to a sequence.           *)

\* What queue q holds is at stage "queued", by st, and was sent to channel ch, by
\* the operations o; it holds nothing twice.
Holds(q, ch, st, o) ==
  /\ \A i \in 1..Len(q) : st[q[i]] = "queued" /\ o[q[i]].chan = ch
  /\ \A i, j \in 1..Len(q) : i # j => q[i] # q[j]

\* A queue without its head still holds each of its requests once.
LEMMA TailHolds ==
  ASSUME NEW R, NEW q \in Seq(R), q # <<>>, NEW ch, NEW st, NEW o, Holds(q, ch, st, o)
  PROVE  /\ Holds(Tail(q), ch, st, o)
         /\ \A i \in 1..Len(Tail(q)) : Tail(q)[i] # Head(q)
         /\ Head(q) \in R /\ st[Head(q)] = "queued" /\ o[Head(q)].chan = ch
         /\ Tail(q) \in Seq(R)
<1>1. /\ Tail(q) \in Seq(R) /\ Len(Tail(q)) = Len(q) - 1 /\ Head(q) = q[1]
      /\ \A i \in 1..Len(Tail(q)) : Tail(q)[i] = q[i + 1]
  BY HeadTailProperties
<1>2. 1 \in 1..Len(q)
  OBVIOUS
<1> QED  BY <1>1, <1>2 DEF Holds

\* A queue holds its requests as long as those keep their stages.
LEMMA HoldsStep ==
  ASSUME NEW R, NEW q \in Seq(R), NEW ch, NEW st, NEW o, Holds(q, ch, st, o), NEW st2,
         \A i \in 1..Len(q) : st2[q[i]] = st[q[i]]
  PROVE  Holds(q, ch, st2, o)
BY DEF Holds

\* A request that is not queued is in no queue: wherever it goes, each queue
\* still holds what it held.
LEMMA OtherMoves ==
  ASSUME NEW R, NEW q \in Seq(R), NEW ch, NEW o, NEW r \in R, NEW s,
         NEW S, NEW st \in [R -> S], st[r] # "queued", Holds(q, ch, st, o)
  PROVE  Holds(q, ch, [st EXCEPT ![r] = s], o)
BY DEF Holds

\* Appending a request that was not queued.
LEMMA AppendHolds ==
  ASSUME NEW R, NEW q \in Seq(R), NEW ch, NEW o, NEW r \in R, o[r].chan = ch,
         NEW S, NEW st \in [R -> S], st[r] # "queued", Holds(q, ch, st, o)
  PROVE  Holds(Append(q, r), ch, [st EXCEPT ![r] = "queued"], o)
<1> DEFINE p == Append(q, r)
           st2 == [st EXCEPT ![r] = "queued"]
<1>1. /\ Len(p) = Len(q) + 1 /\ p[Len(q) + 1] = r
      /\ \A i \in 1..Len(q) : p[i] = q[i]
  OBVIOUS
<1>2. \A i \in 1..Len(q) : q[i] \in R /\ q[i] # r /\ st2[q[i]] = "queued"
  BY DEF Holds
<1>3. st2[r] = "queued"
  OBVIOUS
<1> HIDE DEF p, st2
<1>4. Holds(p, ch, st2, o)
  BY <1>1, <1>2, <1>3 DEF Holds
<1> QED  BY <1>4 DEF p, st2

\* Taking the first line leaves the others, one place further ahead.
LEMMA TailLine ==
  ASSUME NEW S, NEW q \in Seq(S), q # <<>>
  PROVE  /\ Head(q) = q[1] /\ 1 \in 1..Len(q) /\ Len(q) \in Nat
         /\ Tail(q) \in Seq(S) /\ Len(Tail(q)) = Len(q) - 1
         /\ \A i \in 1..Len(Tail(q)) : Tail(q)[i] = q[i + 1] /\ i + 1 \in 1..Len(q) /\ i + 1 # 1
         /\ \A i \in 1..Len(q) : i = 1 \/ (i - 1 \in 1..Len(Tail(q)) /\ Tail(q)[i - 1] = q[i])
BY HeadTailProperties

\* The inductive invariant: the types, where each request is, and what callers,
\* requests and task know of each other.
IInv == TypeOK /\ Placed /\ NoneLost /\ Bookkeeping

-----------------------------------------------------------------------------
(* What the operators of the model preserve.                               *)

\* Receiving keeps what is left of the line, and what was received, frames.
LEMMA ReceiveFrames ==
  ASSUME fromRig \in Seq(Frames), NEW n \in 0..Len(fromRig)
  PROVE  Chunk(n) \in Seq(Frames) /\ Rest(n) \in Seq(Frames)
<1>1. \A i \in 1..n : fromRig[i] \in Frames
  OBVIOUS
<1>2. \A i \in (n + 1)..Len(fromRig) : fromRig[i] \in Frames
  OBVIOUS
<1>3. Chunk(n) \in Seq(Frames)
  <2> DEFINE one == 1
  <2>1. one \in Int /\ n \in Int /\ \A i \in one..n : fromRig[i] \in Frames
    BY <1>1
  <2> HIDE DEF one
  <2>2. SubSeq(fromRig, one, n) \in Seq(Frames)
    BY <2>1, SubSeqProperties
  <2> QED  BY <2>2 DEF Chunk, one
<1>4. Rest(n) \in Seq(Frames)
  <2>1. n + 1 \in Int /\ Len(fromRig) \in Int
    OBVIOUS
  <2>2. SubSeq(fromRig, n + 1, Len(fromRig)) \in Seq(Frames)
    BY <2>1, <1>2, SubSeqProperties
  <2> QED  BY <2>2 DEF Rest
<1> QED  BY <1>3, <1>4

\* Publishing frames leaves a version behind.
LEMMA PublishType ==
  ASSUME lastEvent \in Nat, NEW fs \in Seq(Frames), Publish(fs)
  PROVE  lastEvent' \in Nat
<1>1. CASE lastEvent' = lastEvent
  BY <1>1
<1>2. CASE \E i \in 1..Len(fs) : lastEvent' = fs[i].ver
  <2>1. PICK i \in 1..Len(fs) : lastEvent' = fs[i].ver
    BY <1>2
  <2>2. fs[i] \in Frames
    BY <2>1
  <2> QED  BY <2>1, <2>2 DEF Frames
<1> QED  BY <1>1, <1>2 DEF Publish

LEMMA NoFrameType == NoFrame \in Frames
BY DEF NoFrame, Frames

\* A reply keeps the types of all it writes.
LEMMA ReplyType ==
  ASSUME TypeOK, NEW res \in Results, NEW f \in Frames, Reply(res, f)
  PROVE  /\ stage' \in [Requests -> Stages]
         /\ caller' \in [Requests -> CallerStates]
         /\ result' \in [Requests -> Results]
         /\ answer' \in [Requests -> Frames]
         /\ pc' \in TaskStates
         /\ cur' \in Requests \cup {NoOne}
         /\ attempt' \in 0..Retries
<1>1. stage' \in [Requests -> Stages]
  BY DEF TypeOK, Reply, Stages
<1>2. CASE caller[cur] = "waiting"
  <2>1. caller' \in [Requests -> CallerStates]
    BY <1>2 DEF TypeOK, Reply, CallerStates
  <2>2. result' \in [Requests -> Results]
    BY <1>2 DEF TypeOK, Reply
  <2>3. answer' \in [Requests -> Frames]
    BY <1>2 DEF TypeOK, Reply
  <2> QED  BY <1>1, <2>1, <2>2, <2>3, NumberAssumption DEF Reply, TaskStates
<1>3. CASE caller[cur] # "waiting"
  BY <1>1, <1>3, NumberAssumption DEF TypeOK, Reply, TaskStates
<1> QED  BY <1>2, <1>3

\* QueueHolds, as a property of any queue that can be used before and after a step.
LEMMA BothHold ==
  /\ Placed => Holds(rtq, "rt", stage, op) /\ Holds(bgq, "bg", stage, op)
  /\ Holds(rtq', "rt", stage', op') => QueueHolds(rtq, "rt")'
  /\ Holds(bgq', "bg", stage', op') => QueueHolds(bgq, "bg")'
BY DEF Placed, QueueHolds, Holds

-----------------------------------------------------------------------------
(* The types.                                                              *)

\* Whenever the task executes, it executes some request.
LEMMA Executing ==
  ASSUME IInv, pc \notin {"select", "background", "idle", "return", "exited"}
  PROVE  cur \in Requests /\ stage[cur] = "running"
BY DEF IInv, TypeOK, Placed

LEMMA FirstStepType ==
  ASSUME op \in [Requests -> Ops], NEW r \in Requests
  PROVE  /\ op[r].kind \in Kinds
         /\ FirstStep(r) = IF op[r].kind \in {"get", "set"} THEN "send"
                           ELSE IF op[r].kind = "line" THEN "line" ELSE "ai0"
<1>1. op[r].kind \in Kinds
  BY OpsAssumption
<1>2. CASE op[r].kind \in {"get", "set"}
  BY <1>2, <1>1 DEF FirstStep
<1>3. CASE op[r].kind = "line"
  BY <1>3, <1>1 DEF FirstStep
<1>4. CASE op[r].kind = "shutdown"
  BY <1>4, <1>1 DEF FirstStep
<1> QED  BY <1>1, <1>2, <1>3, <1>4 DEF Kinds

\* Taking a request out of a queue keeps the types.
LEMMA BeginType ==
  ASSUME TypeOK, NEW r \in Requests, Begin(r),
         rtq' \in Seq(Requests), bgq' \in Seq(Requests), grace' \in [Requests -> Int]
  PROVE  TypeOK'
<1>1. pc' \in TaskStates
  BY FirstStepType DEF TypeOK, Begin, TaskStates
<1>2. stage' \in [Requests -> Stages]
  BY DEF TypeOK, Begin, Stages
<1> QED
  BY <1>1, <1>2 DEF TypeOK, Begin, wireVars, radioVars, eventVars

LEMMA CallerType ==
  ASSUME IInv, NEW r \in Requests,
         Call(r) \/ Enqueue(r) \/ Refused(r) \/ CallerTimeout(r) \/ Abandon(r)
  PROVE  TypeOK'
<1> USE DEF IInv, callerVars, taskVars, replyVars, wireVars, radioVars, eventVars
<1>1. CASE Call(r)
  BY <1>1 DEF TypeOK, Call, CallerStates, Stages
<1>2. CASE Enqueue(r)
  <2>1. rtq' \in Seq(Requests) /\ bgq' \in Seq(Requests)
    <3>1. CASE rtq' = Append(rtq, r) /\ bgq' = bgq
      BY <3>1 DEF TypeOK
    <3>2. CASE bgq' = Append(bgq, r) /\ rtq' = rtq
      BY <3>2 DEF TypeOK
    <3> QED  BY <1>2, <3>1, <3>2 DEF Enqueue
  <2>2. caller' \in [Requests -> CallerStates]
    BY <1>2 DEF TypeOK, Enqueue, CallerStates
  <2>3. stage' \in [Requests -> Stages]
    BY <1>2 DEF TypeOK, Enqueue, Stages
  <2>4. grace' \in [Requests -> Int]
    BY <1>2 DEF TypeOK, Enqueue
  <2> QED  BY <1>2, <2>1, <2>2, <2>3, <2>4 DEF TypeOK, Enqueue
<1>3. CASE Refused(r)
  BY <1>3 DEF TypeOK, Refused, CallerStates, Stages, Results
<1>4. CASE CallerTimeout(r)
  BY <1>4 DEF TypeOK, CallerTimeout, CallerStates, Results
<1>5. CASE Abandon(r)
  BY <1>5 DEF TypeOK, Abandon, CallerStates, Stages, Results
<1> QED  BY <1>1, <1>2, <1>3, <1>4, <1>5

LEMMA SelectType ==
  ASSUME IInv, Select
  PROVE  TypeOK'
<1> USE DEF IInv, callerVars, taskVars, replyVars, wireVars, radioVars, eventVars
<1>1. CASE SeeCancel
  BY <1>1 DEF TypeOK, SeeCancel, TaskStates
<1>2. CASE TakeRt
  <2>1. Head(rtq) \in Requests /\ Tail(rtq) \in Seq(Requests)
    BY <1>2, BothHold, TailHolds DEF TypeOK, TakeRt
  <2> QED  BY <1>2, <2>1, BeginType DEF TypeOK, TakeRt
<1>3. CASE SeeClosed
  BY <1>3 DEF TypeOK, SeeClosed, TaskStates
<1>4. CASE TakeBg
  <2>1. Head(bgq) \in Requests /\ Tail(bgq) \in Seq(Requests)
    BY <1>4, BothHold, TailHolds DEF TypeOK, TakeBg
  <2>2. grace' \in [Requests -> Int]
    BY <1>4 DEF TypeOK, TakeBg
  <2> QED  BY <1>4, <2>1, <2>2, BeginType DEF TypeOK, TakeBg
<1>5. CASE IdleRead
  <2>0. pc' \in TaskStates
    BY <1>5 DEF IdleRead, TaskStates
  <2>1. PICK n \in 1..Len(fromRig) : Publish(Chunk(n)) /\ fromRig' = Rest(n)
    BY <1>5 DEF IdleRead
  <2>2. lastEvent' \in Nat /\ fromRig' \in Seq(Frames)
    BY <2>1, ReceiveFrames, PublishType DEF TypeOK
  <2> QED  BY <1>5, <2>0, <2>2 DEF TypeOK, IdleRead
<1>6. CASE IdleError
  BY <1>6 DEF TypeOK, IdleError, TaskStates
<1>7. CASE Exit
  BY <1>7 DEF TypeOK, Exit, TaskStates, Stages, CallerStates, Results
<1>8. CASE RtEmpty \/ BgEmpty \/ Wake
  BY <1>8 DEF TypeOK, RtEmpty, BgEmpty, Wake, PollOn, TaskStates
<1> QED  BY <1>1, <1>2, <1>3, <1>4, <1>5, <1>6, <1>7, <1>8 DEF Select

LEMMA ExecuteType ==
  ASSUME IInv, Execute
  PROVE  TypeOK'
<1> USE NoFrameType DEF IInv, callerVars, taskVars, replyVars, wireVars, radioVars, eventVars
<1>1. CASE Send
  <2>1. cur \in Requests
    BY <1>1, Executing DEF Send
  <2>2. toRig' \in Seq(Requests \cup {Ai0}) /\ tries' \in [Requests -> Nat]
    BY <1>1, <2>1 DEF TypeOK, Send
  <2>3. pc' \in TaskStates
    BY <1>1 DEF Send, TaskStates
  <2> QED  BY <1>1, <2>2, <2>3 DEF TypeOK, Send
<1>2. CASE TransportError
  BY <1>2, ReplyType DEF TypeOK, TransportError, Results
<1>3. CASE RecvAnswer
  <2>0. PICK n \in 1..Len(fromRig) : \E i \in 1..n :
           /\ Publish(Chunk(i - 1))
           /\ fromRig' = Rest(n)
           /\ IF fromRig[i].prefix = Error
              THEN Reply("rejected", fromRig[i]) ELSE Reply("ok", fromRig[i])
    BY <1>3 DEF RecvAnswer
  <2>1. PICK i \in 1..n :
           /\ Publish(Chunk(i - 1))
           /\ fromRig' = Rest(n)
           /\ IF fromRig[i].prefix = Error
              THEN Reply("rejected", fromRig[i]) ELSE Reply("ok", fromRig[i])
    BY <2>0
  <2>2. i - 1 \in 0..Len(fromRig) /\ n \in 0..Len(fromRig) /\ fromRig[i] \in Frames
    BY DEF TypeOK
  <2>3. lastEvent' \in Nat /\ fromRig' \in Seq(Frames)
    BY <2>1, <2>2, ReceiveFrames, PublishType DEF TypeOK
  <2>4. \E res \in Results : Reply(res, fromRig[i])
    BY <2>1 DEF Results
  <2> QED  BY <1>3, <2>2, <2>3, <2>4, ReplyType DEF TypeOK, RecvAnswer
<1>4. CASE RecvOther
  <2>1. PICK n \in 1..Len(fromRig) : Publish(Chunk(n)) /\ fromRig' = Rest(n)
    BY <1>4 DEF RecvOther
  <2>2. lastEvent' \in Nat /\ fromRig' \in Seq(Frames)
    BY <2>1, ReceiveFrames, PublishType DEF TypeOK
  <2> QED  BY <1>4, <2>2 DEF TypeOK, RecvOther
<1>5. CASE RecvTimeout
  <2>1. CASE attempt < Retries
    BY <1>5, <2>1, NumberAssumption DEF TypeOK, RecvTimeout, TaskStates
  <2>2. CASE ~(attempt < Retries)
    BY <1>5, <2>2, ReplyType DEF TypeOK, RecvTimeout, Results
  <2> QED  BY <2>1, <2>2
<1>6. CASE DrainError
  <2>0. PICK n \in 1..Len(fromRig) : \E i \in 1..n :
           Publish(Chunk(i - 1)) /\ fromRig' = Rest(n) /\ Reply("rejected", fromRig[i])
    BY <1>6 DEF DrainError
  <2>1. PICK i \in 1..n :
           Publish(Chunk(i - 1)) /\ fromRig' = Rest(n) /\ Reply("rejected", fromRig[i])
    BY <2>0
  <2>2. i - 1 \in 0..Len(fromRig) /\ n \in 0..Len(fromRig) /\ fromRig[i] \in Frames
    BY DEF TypeOK
  <2>3. lastEvent' \in Nat /\ fromRig' \in Seq(Frames)
    BY <2>1, <2>2, ReceiveFrames, PublishType DEF TypeOK
  <2> QED  BY <1>6, <2>1, <2>2, <2>3, ReplyType DEF TypeOK, DrainError, Results
<1>7. CASE DrainOther
  <2>1. PICK n \in 1..Len(fromRig) : Publish(Chunk(n)) /\ fromRig' = Rest(n)
    BY <1>7 DEF DrainOther
  <2>2. lastEvent' \in Nat /\ fromRig' \in Seq(Frames)
    BY <2>1, ReceiveFrames, PublishType DEF TypeOK
  <2> QED  BY <1>7, <2>2 DEF TypeOK, DrainOther
<1>8. CASE DrainEnd
  BY <1>8, ReplyType DEF TypeOK, DrainEnd, Results
<1>9. CASE SetLine
  <2>1. \E res \in Results : Reply(res, NoFrame)
    BY <1>9 DEF SetLine, Results
  <2>2. tries' \in [Requests -> Nat]
    BY <1>9, Executing DEF TypeOK, SetLine
  <2> QED  BY <1>9, <2>1, <2>2, ReplyType DEF TypeOK, SetLine
<1>10. CASE Shutdown
  <2>1. caller' \in [Requests -> CallerStates] /\ result' \in [Requests -> Results]
    BY <1>10 DEF TypeOK, Shutdown, CallerStates, Results
  <2>2. tries' \in [Requests -> Nat] /\ stage' \in [Requests -> Stages]
    BY <1>10, Executing DEF TypeOK, Shutdown, Stages
  <2>3. toRig' \in Seq(Requests \cup {Ai0})
    BY <1>10 DEF TypeOK, Shutdown
  <2> QED  BY <1>10, <2>1, <2>2, <2>3 DEF TypeOK, Shutdown, TaskStates
<1> QED
  BY <1>1, <1>2, <1>3, <1>4, <1>5, <1>6, <1>7, <1>8, <1>9, <1>10 DEF Execute

\* The radio, the line and the handle itself.
Outside == DropHandle \/ Cancel \/ Radio \/ TurnDial \/ Repeats \/ LineFails

LEMMA ReportType ==
  ASSUME fromRig \in Seq(Frames), NEW v \in Nat, NEW fs \in Report(v)
  PROVE  fs \in Seq(Frames)
<1>1. \A p \in AiPrefixes : AiFrame(p, v) \in Frames
  BY PrefixAssumption DEF AiFrame, Frames
<1> QED  BY <1>1 DEF Report

LEMMA OutsideType ==
  ASSUME IInv, Outside
  PROVE  TypeOK'
<1> USE DEF IInv, callerVars, taskVars, replyVars, wireVars, radioVars, eventVars
<1>1. CASE DropHandle
  BY <1>1 DEF TypeOK, DropHandle
<1>2. CASE Cancel
  BY <1>2 DEF TypeOK, Cancel
<1>3. CASE RadioGet
  <2> DEFINE r == Head(toRig)
  <2>1. r \in Requests /\ Tail(toRig) \in Seq(Requests \cup {Ai0})
    BY <1>3 DEF TypeOK, RadioGet
  <2>2. op[r].prefix \in Prefixes
    BY <2>1, OpsAssumption DEF TypeOK
  <2>3. \A p \in {op[r].prefix, Error} : [prefix |-> p, ver |-> radio, cause |-> r] \in Frames
    BY <2>1, <2>2 DEF TypeOK, Frames
  <2>4. fromRig' \in Seq(Frames)
    <3>1. PICK p \in {op[r].prefix, Error} :
             fromRig' \in {fromRig, Append(fromRig, [prefix |-> p, ver |-> radio, cause |-> r])}
      BY <1>3 DEF RadioGet
    <3>2. [prefix |-> p, ver |-> radio, cause |-> r] \in Frames
      BY <2>3
    <3>3. \A f \in Frames : Append(fromRig, f) \in Seq(Frames)
      BY DEF TypeOK
    <3>4. Append(fromRig, [prefix |-> p, ver |-> radio, cause |-> r]) \in Seq(Frames)
      BY <3>2, <3>3
    <3> QED  BY <3>1, <3>4 DEF TypeOK
  <2> QED  BY <1>3, <2>1, <2>4 DEF TypeOK, RadioGet
<1>4. CASE RadioSet
  <2> DEFINE r == Head(toRig)
  <2>1. r \in Requests /\ Tail(toRig) \in Seq(Requests \cup {Ai0})
    BY <1>4 DEF TypeOK, RadioSet
  <2>2. [prefix |-> Error, ver |-> radio, cause |-> r] \in Frames
    BY <2>1 DEF TypeOK, Frames
  <2>3. fromRig' \in Seq(Frames) /\ radio' \in Nat
    <3>1. CASE radio' = radio + 1 /\ fromRig' \in Report(radio + 1)
      BY <3>1, ReportType DEF TypeOK
    <3>2. CASE /\ fromRig' = Append(fromRig, [prefix |-> Error, ver |-> radio, cause |-> r])
               /\ radio' = radio
      BY <3>2, <2>2 DEF TypeOK
    <3>3. CASE radio' = radio /\ fromRig' = fromRig
      BY <3>3 DEF TypeOK
    <3> QED  BY <1>4, <3>1, <3>2, <3>3 DEF RadioSet
  <2> QED  BY <1>4, <2>1, <2>3 DEF TypeOK, RadioSet
<1>5. CASE RadioAi0
  <2>1. Tail(toRig) \in Seq(Requests \cup {Ai0})
    BY <1>5 DEF TypeOK, RadioAi0
  <2> QED  BY <1>5, <2>1 DEF TypeOK, RadioAi0
<1>6. CASE TurnDial
  BY <1>6, ReportType DEF TypeOK, TurnDial
<1>7. CASE LineFails
  BY <1>7 DEF TypeOK, LineFails
<1>8. CASE Repeats
  BY <1>8, ReportType DEF TypeOK, Repeats
<1> QED  BY <1>1, <1>2, <1>3, <1>4, <1>5, <1>6, <1>7, <1>8 DEF Outside, Radio

-----------------------------------------------------------------------------
(* Where requests are.                                                     *)

\* Steps that move no request, and tell nobody anything.
Still == UNCHANGED <<op, caller, result, stage, rtq, bgq, pc, cur, attempt, tries>>

LEMMA StillStep ==
  ASSUME IInv, Still
  PROVE  Placed' /\ Bookkeeping'
BY DEF Still, IInv, Placed, QueueHolds, Bookkeeping, CallerAgrees, TriesAgree, TaskAgrees

LEMMA OutsideStill ==
  ASSUME \/ Outside \/ RecvOther \/ DrainOther \/ UNCHANGED vars
  PROVE  Still
BY DEF Outside, DropHandle, Cancel, Radio, RadioGet, RadioSet, RadioAi0, TurnDial, Repeats, LineFails,
       RecvOther, DrainOther, Still, vars, callerVars, taskVars, replyVars

\* The polls of select! that take no request: the task only moves on.
Polls == SeeCancel \/ SeeClosed \/ RtEmpty \/ BgEmpty \/ Wake \/ IdleRead \/ IdleError
Polling == {"select", "background", "idle"}

LEMMA PollsMove ==
  ASSUME Polls
  PROVE  /\ UNCHANGED <<op, caller, since, grace, result, answer, stage, rtq, bgq, cur, attempt, tries,
                        line, toRig, radio, aiOn>>
         /\ pc \in Polling /\ pc' \in Polling \cup {"return"}
         /\ fromRig' = fromRig \/ IdleRead
BY DEF Polls, Polling, PollOn, SeeCancel, SeeClosed, RtEmpty, BgEmpty, Wake, IdleRead, IdleError,
       callerVars, replyVars, wireVars, radioVars

LEMMA SelectIs == Select <=> Polls \/ TakeRt \/ TakeBg \/ Exit
BY DEF Select, Polls

LEMMA CallerPlace ==
  ASSUME IInv, NEW r \in Requests,
         Call(r) \/ Enqueue(r) \/ Refused(r) \/ CallerTimeout(r) \/ Abandon(r)
  PROVE  Placed'
<1> USE DEF taskVars
<1>0. /\ Holds(rtq, "rt", stage, op) /\ Holds(bgq, "bg", stage, op)
      /\ rtq \in Seq(Requests) /\ bgq \in Seq(Requests) /\ stage \in [Requests -> Stages]
  BY BothHold DEF IInv, TypeOK
<1>1. ASSUME NEW s \in {"held", "gone"}, stage[r] \in {"none", "held"},
             stage' = [stage EXCEPT ![r] = s],
             op' = op, rtq' = rtq, bgq' = bgq, cur' = cur, pc' = pc
      PROVE  Placed'
  <2>1. Holds(rtq', "rt", stage', op') /\ Holds(bgq', "bg", stage', op')
    BY <1>0, <1>1, OtherMoves
  <2>2. \A q \in Requests : stage'[q] = "running" <=> cur' = q
    BY <1>0, <1>1 DEF IInv, Placed
  <2> QED  BY <1>1, <2>1, <2>2, BothHold DEF IInv, Placed
<1>2. CASE Call(r)
  <2>1. stage[r] = "none"
    BY <1>2 DEF Call, IInv, Bookkeeping, CallerAgrees
  <2> QED  BY <1>1, <1>2, <2>1 DEF Call
<1>3. CASE Enqueue(r)
  <2>1. stage[r] = "held" /\ stage' = [stage EXCEPT ![r] = "queued"]
    BY <1>3 DEF Enqueue, IInv, Bookkeeping, CallerAgrees
  <2>2. op' = op /\ cur' = cur /\ pc' = pc
    BY <1>3 DEF Enqueue
  <2>3. Holds(rtq', "rt", stage', op') /\ Holds(bgq', "bg", stage', op')
    <3>1. CASE op[r].chan = "rt" /\ rtq' = Append(rtq, r) /\ bgq' = bgq
      BY <1>0, <2>1, <2>2, <3>1, AppendHolds, OtherMoves
    <3>2. CASE op[r].chan = "bg" /\ bgq' = Append(bgq, r) /\ rtq' = rtq
      BY <1>0, <2>1, <2>2, <3>2, AppendHolds, OtherMoves
    <3> QED  BY <1>3, <3>1, <3>2 DEF Enqueue
  <2>4. \A q \in Requests : stage'[q] = "running" <=> cur' = q
    BY <1>0, <2>1, <2>2 DEF IInv, Placed
  <2> QED  BY <2>2, <2>3, <2>4, BothHold DEF IInv, Placed
<1>4. CASE Refused(r)
  <2>1. stage[r] = "held"
    BY <1>4 DEF Refused, IInv, Bookkeeping, CallerAgrees
  <2> QED  BY <1>1, <1>4, <2>1 DEF Refused
<1>5. CASE CallerTimeout(r)
  BY <1>5 DEF CallerTimeout, IInv, Placed, QueueHolds
<1>6. CASE Abandon(r)
  <2>1. CASE caller[r] = "sending"
    <3>1. stage[r] = "held"
      BY <2>1 DEF IInv, Bookkeeping, CallerAgrees
    <3> QED  BY <1>1, <1>6, <2>1, <3>1 DEF Abandon
  <2>2. CASE caller[r] # "sending"
    BY <1>6, <2>2 DEF Abandon, IInv, Placed, QueueHolds
  <2> QED  BY <2>1, <2>2
<1> QED  BY <1>2, <1>3, <1>4, <1>5, <1>6

\* The task takes the head of a channel.
LEMMA BeginPlace ==
  ASSUME IInv, TakeRt \/ TakeBg
  PROVE  Placed'
<1>0. /\ Holds(rtq, "rt", stage, op) /\ Holds(bgq, "bg", stage, op)
      /\ rtq \in Seq(Requests) /\ bgq \in Seq(Requests) /\ stage \in [Requests -> Stages]
      /\ cur = NoOne
  BY BothHold DEF IInv, TypeOK, Placed, TakeRt, TakeBg
<1>1. ASSUME NEW q \in Seq(Requests), NEW ch, NEW q2 \in Seq(Requests), NEW ch2,
             ch # ch2, q # <<>>, Holds(q, ch, stage, op), Holds(q2, ch2, stage, op),
             Begin(Head(q))
      PROVE  /\ Holds(Tail(q), ch, stage', op') /\ Holds(q2, ch2, stage', op')
             /\ \A p \in Requests : stage'[p] = "running" <=> cur' = p
             /\ cur' # NoOne /\ pc' \notin {"select", "background", "idle", "return", "exited"}
  <2> DEFINE r == Head(q)
  <2>1. /\ r \in Requests /\ stage[r] = "queued" /\ op[r].chan = ch
        /\ Holds(Tail(q), ch, stage, op) /\ Tail(q) \in Seq(Requests)
        /\ \A i \in 1..Len(Tail(q)) : Tail(q)[i] # r
    BY <1>1, TailHolds
  <2>2. /\ op' = op /\ cur' = r /\ stage' = [stage EXCEPT ![r] = "running"]
        /\ pc' = FirstStep(r)
    BY <1>1 DEF Begin, callerVars
  <2> HIDE DEF r
  <2>3. \A i \in 1..Len(q2) : q2[i] # r
    BY <1>1, <2>1 DEF Holds
  <2>4. Holds(Tail(q), ch, stage', op')
    <3> DEFINE t == Tail(q)
    <3>1. t \in Seq(Requests) /\ Holds(t, ch, stage, op) /\ \A i \in 1..Len(t) : t[i] # r
      BY <2>1
    <3> HIDE DEF t
    <3>2. \A i \in 1..Len(t) : t[i] \in Requests /\ t[i] # r
      BY <3>1
    <3>3. \A i \in 1..Len(t) : stage'[t[i]] = stage[t[i]]
      BY <1>0, <2>2, <3>2
    <3>4. Holds(t, ch, stage', op)
      BY <3>1, <3>3, HoldsStep
    <3> QED  BY <2>2, <3>4 DEF t
  <2>5. Holds(q2, ch2, stage', op')
    <3>1. \A i \in 1..Len(q2) : q2[i] \in Requests /\ q2[i] # r
      BY <1>1, <2>3
    <3>2. \A i \in 1..Len(q2) : stage'[q2[i]] = stage[q2[i]]
      BY <1>0, <2>2, <3>1
    <3>3. Holds(q2, ch2, stage', op)
      BY <1>1, <3>2, HoldsStep
    <3> QED  BY <2>2, <3>3
  <2>6. \A p \in Requests : stage'[p] = "running" <=> cur' = p
    BY <1>0, <2>1, <2>2, RequestsAssumption DEF IInv, Placed
  <2>7. cur' # NoOne /\ pc' \notin {"select", "background", "idle", "return", "exited"}
    BY <2>1, <2>2, FirstStepType, RequestsAssumption DEF IInv, TypeOK
  <2> QED  BY <2>4, <2>5, <2>6, <2>7
<1>2. CASE TakeRt
  <2>1. /\ rtq # <<>> /\ Begin(Head(rtq)) /\ rtq' = Tail(rtq) /\ bgq' = bgq
    BY <1>2 DEF TakeRt
  <2>2. /\ Holds(Tail(rtq), "rt", stage', op') /\ Holds(bgq, "bg", stage', op')
        /\ \A p \in Requests : stage'[p] = "running" <=> cur' = p
        /\ cur' # NoOne /\ pc' \notin {"select", "background", "idle", "return", "exited"}
    <3>1. "rt" # "bg"
      OBVIOUS
    <3> QED  BY <1>0, <1>1, <2>1, <3>1
  <2>3. Holds(rtq', "rt", stage', op') /\ Holds(bgq', "bg", stage', op')
    BY <2>1, <2>2
  <2> QED  BY <2>2, <2>3, BothHold DEF Placed
<1>3. CASE TakeBg
  <2>1. /\ bgq # <<>> /\ Begin(Head(bgq)) /\ bgq' = Tail(bgq) /\ rtq' = rtq
    BY <1>3 DEF TakeBg
  <2>2. /\ Holds(Tail(bgq), "bg", stage', op') /\ Holds(rtq, "rt", stage', op')
        /\ \A p \in Requests : stage'[p] = "running" <=> cur' = p
        /\ cur' # NoOne /\ pc' \notin {"select", "background", "idle", "return", "exited"}
    <3>1. "rt" # "bg"
      OBVIOUS
    <3> QED  BY <1>0, <1>1, <2>1, <3>1
  <2>3. Holds(rtq', "rt", stage', op') /\ Holds(bgq', "bg", stage', op')
    BY <2>1, <2>2
  <2> QED  BY <2>2, <2>3, BothHold DEF Placed
<1> QED  BY <1>2, <1>3

Resting == {"select", "background", "idle", "return", "exited"}

\* The task goes on with what it has, or with nothing.
LEMMA SamePlace ==
  ASSUME IInv, UNCHANGED <<op, stage, rtq, bgq, cur>>, pc \in Resting <=> pc' \in Resting
  PROVE  Placed'
BY DEF IInv, Placed, QueueHolds, Resting

\* The task is done with its request.
LEMMA DonePlace ==
  ASSUME IInv, pc \notin Resting, pc' \in Resting,
         UNCHANGED <<op, rtq, bgq>>, cur' = NoOne, stage' = [stage EXCEPT ![cur] = "gone"]
  PROVE  Placed'
<1>0. /\ Holds(rtq, "rt", stage, op) /\ Holds(bgq, "bg", stage, op)
      /\ rtq \in Seq(Requests) /\ bgq \in Seq(Requests) /\ stage \in [Requests -> Stages]
  BY BothHold DEF IInv, TypeOK
<1>1. cur \in Requests /\ stage[cur] = "running"
  BY Executing DEF Resting
<1>2. Holds(rtq', "rt", stage', op') /\ Holds(bgq', "bg", stage', op')
  BY <1>0, <1>1, OtherMoves
<1>3. \A r \in Requests : stage'[r] = "running" <=> cur' = r
  BY <1>0, <1>1, RequestsAssumption DEF IInv, Placed
<1> QED  BY <1>2, <1>3, BothHold DEF Placed, Resting

LEMMA SelectPlace ==
  ASSUME IInv, Select
  PROVE  Placed'
<1> USE DEF callerVars, taskVars, replyVars
<1>1. CASE Polls
  BY <1>1, PollsMove, SamePlace DEF Resting, Polling
<1>2. CASE TakeRt \/ TakeBg
  BY <1>2, BeginPlace
<1>6. CASE Exit
  <2>1. rtq' = <<>> /\ bgq' = <<>> /\ cur' = cur /\ pc' = "exited"
    BY <1>6 DEF Exit
  <2>2. \A r \in Requests : stage'[r] = "running" <=> stage[r] = "running"
    BY <1>6 DEF Exit
  <2>3. cur = NoOne
    BY <1>6 DEF Exit, IInv, Placed
  <2> QED  BY <2>1, <2>2, <2>3 DEF IInv, Placed, QueueHolds
<1> QED  BY <1>1, <1>2, <1>6, SelectIs

LEMMA ExecutePlace ==
  ASSUME IInv, Execute
  PROVE  Placed'
<1> USE DEF callerVars, taskVars, replyVars
<1>1. CASE Send
  BY <1>1, SamePlace DEF Send, Resting
<1>2. CASE RecvOther \/ DrainOther
  BY <1>2, OutsideStill, StillStep
<1>3. CASE RecvTimeout /\ attempt < Retries
  BY <1>3, SamePlace DEF RecvTimeout, Resting
<1>4. CASE Shutdown
  BY <1>4, DonePlace DEF Shutdown, Resting
<1>5. ASSUME NEW res, NEW f, Reply(res, f), pc \notin Resting, UNCHANGED <<op, rtq, bgq>>
      PROVE  Placed'
  BY <1>5, DonePlace DEF Reply, Resting
<1>6. CASE TransportError
  BY <1>6, <1>5 DEF TransportError, Resting
<1>7. CASE RecvAnswer
  <2>1. \E res, f : Reply(res, f)
    BY <1>7 DEF RecvAnswer
  <2> QED  BY <1>7, <1>5, <2>1 DEF RecvAnswer, Resting
<1>8. CASE RecvTimeout /\ ~(attempt < Retries)
  BY <1>8, <1>5 DEF RecvTimeout, Resting
<1>9. CASE DrainError
  <2>1. \E res, f : Reply(res, f)
    BY <1>9 DEF DrainError
  <2> QED  BY <1>9, <1>5, <2>1 DEF DrainError, Resting
<1>10. CASE DrainEnd
  BY <1>10, <1>5 DEF DrainEnd, Resting
<1>11. CASE SetLine
  BY <1>11, <1>5 DEF SetLine, Resting
<1> QED
  BY <1>1, <1>2, <1>3, <1>4, <1>6, <1>7, <1>8, <1>9, <1>10, <1>11 DEF Execute

-----------------------------------------------------------------------------
(* What callers, requests and task know of each other.                     *)

\* The places where an exchange is not under way have used up no attempt.
LEMMA CallerBook ==
  ASSUME IInv, NEW r \in Requests,
         Call(r) \/ Enqueue(r) \/ Refused(r) \/ CallerTimeout(r) \/ Abandon(r)
  PROVE  Bookkeeping'
<1> USE DEF callerVars, taskVars
<1>0. /\ caller \in [Requests -> CallerStates] /\ stage \in [Requests -> Stages]
      /\ result \in [Requests -> Results]
      /\ \A q \in Requests : CallerAgrees(q) /\ TriesAgree(q)
      /\ TaskAgrees /\ Retries \in Nat
  BY NumberAssumption DEF IInv, TypeOK, Bookkeeping
<1>1. UNCHANGED <<op, pc, cur, attempt, tries>>
  BY DEF Call, Enqueue, Refused, CallerTimeout, Abandon
<1>2. TaskAgrees'
  BY <1>0, <1>1 DEF TaskAgrees
<1>3. CASE Call(r)
  <2>1. stage[r] = "none" /\ tries[r] = 0
    BY <1>0, <1>3 DEF Call, CallerAgrees, TriesAgree
  <2>2. CallerAgrees(r)' /\ TriesAgree(r)'
    BY <1>0, <1>1, <1>3, <2>1 DEF Call, CallerAgrees, TriesAgree
  <2>3. ASSUME NEW q \in Requests, q # r  PROVE  CallerAgrees(q)' /\ TriesAgree(q)'
    <3>1. caller'[q] = caller[q] /\ stage'[q] = stage[q] /\ result'[q] = result[q]
      BY <1>0, <1>3, <2>3 DEF Call
    <3>2. CallerAgrees(q) /\ TriesAgree(q)
      BY <1>0
    <3> QED  BY <1>1, <3>1, <3>2 DEF CallerAgrees, TriesAgree
  <2> QED  BY <1>2, <2>2, <2>3 DEF Bookkeeping
<1>4. CASE Enqueue(r)
  <2>1. stage[r] = "held" /\ tries[r] = 0
    BY <1>0, <1>4 DEF Enqueue, CallerAgrees, TriesAgree
  <2>2. \A q \in Requests : CallerAgrees(q)' /\ TriesAgree(q)'
    BY <1>0, <1>1, <1>4, <2>1 DEF Enqueue, CallerAgrees, TriesAgree
  <2> QED  BY <1>2, <2>2 DEF Bookkeeping
<1>5. CASE Refused(r)
  <2>1. stage[r] = "held" /\ tries[r] = 0
    BY <1>0, <1>5 DEF Refused, CallerAgrees, TriesAgree
  <2>2. CallerAgrees(r)' /\ TriesAgree(r)'
    BY <1>0, <1>1, <1>5, <2>1 DEF Refused, CallerAgrees, TriesAgree
  <2>3. ASSUME NEW q \in Requests, q # r  PROVE  CallerAgrees(q)' /\ TriesAgree(q)'
    <3>1. caller'[q] = caller[q] /\ stage'[q] = stage[q] /\ result'[q] = result[q]
      BY <1>0, <1>5, <2>3 DEF Refused
    <3>2. CallerAgrees(q) /\ TriesAgree(q)
      BY <1>0
    <3> QED  BY <1>1, <3>1, <3>2 DEF CallerAgrees, TriesAgree
  <2> QED  BY <1>2, <2>2, <2>3 DEF Bookkeeping
<1>6. CASE CallerTimeout(r)
  <2>1. \A q \in Requests : CallerAgrees(q)' /\ TriesAgree(q)'
    BY <1>0, <1>1, <1>6 DEF CallerTimeout, replyVars, CallerAgrees, TriesAgree
  <2> QED  BY <1>2, <2>1 DEF Bookkeeping
<1>7. CASE Abandon(r)
  <2>1. stage[r] \in {"held", "queued", "running"}
    BY <1>0, <1>7 DEF Abandon, CallerAgrees
  <2>2. stage[r] = "held" => tries[r] = 0
    BY <1>0 DEF TriesAgree
  <2>3. \A q \in Requests : CallerAgrees(q)' /\ TriesAgree(q)'
    BY <1>0, <1>1, <1>7, <2>1, <2>2 DEF Abandon, CallerAgrees, TriesAgree
  <2> QED  BY <1>2, <2>3 DEF Bookkeeping
<1> QED  BY <1>3, <1>4, <1>5, <1>6, <1>7

\* The facts Bookkeeping gives about the state before a step.
LEMMA BookBefore ==
  ASSUME IInv
  PROVE  /\ caller \in [Requests -> CallerStates] /\ stage \in [Requests -> Stages]
         /\ result \in [Requests -> Results] /\ tries \in [Requests -> Nat]
         /\ \A q \in Requests : CallerAgrees(q) /\ TriesAgree(q)
         /\ TaskAgrees /\ Retries \in Nat /\ attempt \in 0..Retries
BY NumberAssumption DEF IInv, TypeOK, Bookkeeping

\* A request that a step leaves alone.
LEMMA LeftAlone ==
  ASSUME NEW q \in Requests, CallerAgrees(q) /\ TriesAgree(q),
         caller'[q] = caller[q], stage'[q] = stage[q], result'[q] = result[q],
         tries'[q] = tries[q], op' = op
  PROVE  CallerAgrees(q)' /\ TriesAgree(q)'
BY DEF CallerAgrees, TriesAgree

\* The task is done with cur: it acted on the radio within the limit, and its
\* caller, if it still waits, is told a verdict.
LEMMA DoneBook ==
  ASSUME IInv, pc \notin Resting, pc' \in Resting, op' = op, attempt' = 0,
         tries' = tries \/ tries' = [tries EXCEPT ![cur] = @ + 1],
         tries'[cur] <= Limit(cur),
         stage' = [stage EXCEPT ![cur] = "gone"],
         NEW res \in Results \ {"none", "notconnected"},
         IF caller[cur] = "waiting"
         THEN /\ caller' = [caller EXCEPT ![cur] = "done"]
              /\ result' = [result EXCEPT ![cur] = res]
         ELSE UNCHANGED <<caller, result>>
  PROVE  Bookkeeping'
<1>0. /\ caller \in [Requests -> CallerStates] /\ stage \in [Requests -> Stages]
      /\ result \in [Requests -> Results] /\ tries \in [Requests -> Nat]
      /\ \A q \in Requests : CallerAgrees(q) /\ TriesAgree(q)
  BY BookBefore
<1>1. PICK r \in Requests : r = cur /\ stage[r] = "running"
  BY Executing DEF Resting
<1>2. ASSUME NEW q \in Requests, q # cur
      PROVE  CallerAgrees(q)' /\ TriesAgree(q)'
  <2>0. CallerAgrees(q) /\ TriesAgree(q) /\ stage'[q] = stage[q]
    BY <1>0, <1>1, <1>2
  <2>1. caller'[q] = caller[q] /\ result'[q] = result[q]
    <3>1. CASE caller[cur] = "waiting"
      BY <1>0, <1>1, <1>2, <3>1
    <3>2. CASE caller[cur] # "waiting"
      BY <3>2
    <3> QED  BY <3>1, <3>2
  <2>2. tries'[q] = tries[q]
    BY <1>1, <1>2, <1>0
  <2> QED  BY <2>0, <2>1, <2>2, LeftAlone
<1>3. CallerAgrees(r)'
  <2>0. CallerAgrees(r)
    BY <1>0, <1>1
  <2>1. stage'[r] = "gone" /\ caller[r] \notin {"idle", "sending"}
    BY <1>0, <1>1, <2>0 DEF CallerAgrees
  <2>2. CASE caller[r] = "waiting"
    <3>1. caller'[r] = "done" /\ result'[r] = res
      BY <1>0, <1>1, <2>2
    <3> QED  BY <2>1, <3>1 DEF CallerAgrees
  <2>3. CASE caller[r] # "waiting"
    <3>1. caller'[r] = caller[r] /\ result'[r] = result[r]
      BY <1>1, <2>3
    <3>2. result[r] # "none" /\ result[r] # "notconnected" /\ caller[r] = "done"
      BY <1>0, <1>1, <2>0, <2>1, <2>3 DEF CallerAgrees, CallerStates
    <3> QED  BY <2>1, <3>1, <3>2 DEF CallerAgrees
  <2> QED  BY <2>2, <2>3
<1>4. TriesAgree(r)'
  <2>1. stage'[r] = "gone"
    BY <1>1, <1>0
  <2>2. tries'[r] <= Limit(r)'
    BY <1>1 DEF Limit
  <2> QED  BY <2>1, <2>2 DEF TriesAgree, Limit
<1>5. TaskAgrees'
  BY DEF TaskAgrees, Resting
<1> QED  BY <1>1, <1>2, <1>3, <1>4, <1>5 DEF Bookkeeping

\* The task moves on with cur, or from rest to rest: only tries may change.
LEMMA GoesOnBook ==
  ASSUME IInv, UNCHANGED <<op, caller, result, stage>>, TaskAgrees',
         \/ tries' = tries
         \/ /\ pc \notin Resting
            /\ tries' = [tries EXCEPT ![cur] = @ + 1]
  PROVE  Bookkeeping'
<1>1. ASSUME NEW q \in Requests  PROVE  CallerAgrees(q)' /\ TriesAgree(q)'
  <2>1. CASE tries'[q] = tries[q]
    BY <2>1, BookBefore, LeftAlone
  <2>2. CASE tries'[q] # tries[q]
    <3>1. pc \notin Resting /\ q = cur
      BY <2>2, BookBefore
    <3>2. stage[q] = "running"
      BY <3>1, Executing DEF Resting
    <3>3. CallerAgrees(q)
      BY BookBefore
    <3> QED  BY <3>2, <3>3 DEF CallerAgrees, TriesAgree
  <2> QED  BY <2>1, <2>2
<1> QED  BY <1>1 DEF Bookkeeping

\* The task takes the head of a channel: it has not acted for that request.
LEMMA BeginBook ==
  ASSUME IInv, NEW r \in Requests, Begin(r), pc \in Polling, stage[r] = "queued"
  PROVE  Bookkeeping'
<1>0. /\ caller \in [Requests -> CallerStates] /\ stage \in [Requests -> Stages]
      /\ \A q \in Requests : CallerAgrees(q) /\ TriesAgree(q)
      /\ TaskAgrees /\ op \in [Requests -> Ops]
  BY BookBefore DEF IInv, TypeOK
<1>1. /\ UNCHANGED <<op, caller, result, tries, attempt>>
      /\ cur' = r /\ pc' = FirstStep(r) /\ stage' = [stage EXCEPT ![r] = "running"]
  BY DEF Begin
<1>2. tries[r] = 0 /\ attempt = 0
  BY <1>0 DEF TaskAgrees, TriesAgree, Polling
<1>3. ASSUME NEW q \in Requests  PROVE  CallerAgrees(q)' /\ TriesAgree(q)'
  <2>1. CallerAgrees(q) /\ TriesAgree(q)
    BY <1>0
  <2>2. CASE q = r
    <3>1. stage'[q] = "running" /\ stage[q] = "queued"
      BY <1>0, <1>1, <2>2
    <3> QED  BY <1>1, <2>1, <3>1 DEF CallerAgrees, TriesAgree
  <2>3. CASE q # r
    <3>1. stage'[q] = stage[q]
      BY <1>0, <1>1, <2>3
    <3> QED  BY <1>1, <2>1, <3>1, LeftAlone
  <2> QED  BY <2>2, <2>3
<1>4. TaskAgrees'
  BY <1>0, <1>1, <1>2, FirstStepType DEF TaskAgrees, Kinds
<1> QED  BY <1>3, <1>4 DEF Bookkeeping

LEMMA SelectBook ==
  ASSUME IInv, Select
  PROVE  Bookkeeping'
<1> USE DEF callerVars, taskVars, replyVars
<1>0. TaskAgrees
  BY BookBefore
<1>1. CASE Polls
  <2>1. /\ UNCHANGED <<op, caller, result, stage, cur, attempt, tries>>
        /\ pc \in Polling /\ pc' \in Polling \cup {"return"}
    BY <1>1, PollsMove
  <2>2. TaskAgrees'
    BY <1>0, <2>1 DEF TaskAgrees, Polling
  <2> QED  BY <2>1, <2>2, GoesOnBook
<1>2. CASE TakeRt
  <2>1. rtq \in Seq(Requests) /\ Holds(rtq, "rt", stage, op) /\ rtq # <<>>
    BY <1>2, BothHold DEF IInv, TypeOK, TakeRt
  <2>2. Head(rtq) \in Requests /\ stage[Head(rtq)] = "queued"
    BY <2>1, TailHolds
  <2> QED  BY <1>2, <2>2, BeginBook DEF TakeRt, Polling
<1>3. CASE TakeBg
  <2>1. bgq \in Seq(Requests) /\ Holds(bgq, "bg", stage, op) /\ bgq # <<>>
    BY <1>3, BothHold DEF IInv, TypeOK, TakeBg
  <2>2. Head(bgq) \in Requests /\ stage[Head(bgq)] = "queued"
    BY <2>1, TailHolds
  <2> QED  BY <1>3, <2>2, BeginBook DEF TakeBg, Polling
<1>5. CASE Exit
  <2>1. /\ op' = op /\ cur' = cur /\ attempt' = attempt /\ tries' = tries
        /\ pc = "return" /\ pc' = "exited"
    BY <1>5 DEF Exit
  <2>2. TaskAgrees'
    BY <1>0, <2>1 DEF TaskAgrees
  <2>3. ASSUME NEW q \in Requests  PROVE  CallerAgrees(q)' /\ TriesAgree(q)'
    <3>1. /\ stage'[q] = IF stage[q] = "queued" THEN "gone" ELSE stage[q]
          /\ caller'[q] = IF caller[q] = "waiting" THEN "done" ELSE caller[q]
          /\ result'[q] = IF caller[q] = "waiting" THEN "notconnected" ELSE result[q]
      BY <1>5 DEF Exit
    <3>2. stage[q] # "running"
      BY <1>5, RequestsAssumption DEF Exit, IInv, Placed
    <3>3. CallerAgrees(q) /\ TriesAgree(q) /\ Retries \in Nat
      BY BookBefore
    <3> QED  BY <2>1, <3>1, <3>2, <3>3 DEF CallerAgrees, TriesAgree
  <2> QED  BY <2>2, <2>3 DEF Bookkeeping
<1> QED  BY <1>1, <1>2, <1>3, <1>5, SelectIs

LEMMA ExecuteBook ==
  ASSUME IInv, Execute
  PROVE  Bookkeeping'
<1> USE DEF callerVars, taskVars, replyVars
<1>0. /\ TaskAgrees /\ Retries \in Nat /\ attempt \in 0..Retries
      /\ tries \in [Requests -> Nat]
      /\ pc \in {"send", "recv", "drain", "line", "ai0"} => pc \notin Resting /\ cur \in Requests
  BY BookBefore, Executing DEF Resting
<1>1. CASE Send
  <2>1. /\ UNCHANGED <<op, caller, result, stage, cur, attempt>> /\ cur \in Requests
        /\ pc = "send" /\ pc' = IF op[cur].kind = "get" THEN "recv" ELSE "drain"
        /\ tries' = [tries EXCEPT ![cur] = @ + 1] /\ pc \notin Resting
    BY <1>0, <1>1 DEF Send
  <2>2. tries'[cur] = attempt + 1 /\ op[cur].kind \in {"get", "set"}
        /\ (op[cur].kind = "set" => attempt = 0)
    BY <1>0, <2>1 DEF TaskAgrees
  <2>3. TaskAgrees'
    BY <1>0, <2>1, <2>2 DEF TaskAgrees
  <2> QED  BY <2>1, <2>3, GoesOnBook
<1>2. CASE RecvOther \/ DrainOther
  BY <1>2, OutsideStill, StillStep
<1>3. CASE RecvTimeout /\ attempt < Retries
  <2>1. /\ UNCHANGED <<op, caller, result, stage, cur, tries>>
        /\ pc = "recv" /\ pc' = "send" /\ attempt' = attempt + 1
    BY <1>3 DEF RecvTimeout
  <2>2. TaskAgrees'
    BY <1>0, <2>1 DEF TaskAgrees
  <2> QED  BY <2>1, <2>2, GoesOnBook
<1>4. ASSUME NEW res \in Results \ {"none", "notconnected"}, NEW f, Reply(res, f),
             pc \notin Resting, op' = op,
             tries' = tries \/ tries' = [tries EXCEPT ![cur] = @ + 1],
             tries'[cur] <= Limit(cur)
      PROVE  Bookkeeping'
  <2>1. /\ pc' = "select" /\ attempt' = 0 /\ stage' = [stage EXCEPT ![cur] = "gone"]
        /\ IF caller[cur] = "waiting"
           THEN /\ caller' = [caller EXCEPT ![cur] = "done"]
                /\ result' = [result EXCEPT ![cur] = res]
           ELSE UNCHANGED <<caller, result>>
    BY <1>4 DEF Reply
  <2>2. pc' \in Resting
    BY <2>1 DEF Resting
  <2> QED  BY <1>4, <2>1, <2>2, DoneBook
<1>5. ASSUME pc \in {"send", "recv", "drain"}
      PROVE  pc \notin Resting /\ tries[cur] <= Limit(cur)
  BY <1>0, <1>5 DEF TaskAgrees, Limit
<1>6. CASE TransportError
  BY <1>4, <1>5, <1>6 DEF TransportError, Results
<1>7. CASE RecvAnswer
  <2>1. \E res \in {"ok", "rejected"} : \E f : Reply(res, f)
    BY <1>7 DEF RecvAnswer
  <2> QED  BY <1>4, <1>5, <1>7, <2>1 DEF RecvAnswer, Results
<1>8. CASE RecvTimeout /\ ~(attempt < Retries)
  BY <1>4, <1>5, <1>8 DEF RecvTimeout, Results
<1>9. CASE DrainError
  <2>1. \E f : Reply("rejected", f)
    BY <1>9 DEF DrainError
  <2> QED  BY <1>4, <1>5, <1>9, <2>1 DEF DrainError, Results
<1>10. CASE DrainEnd
  BY <1>4, <1>5, <1>10 DEF DrainEnd, Results
<1>11. CASE SetLine
  <2>1. \E res \in {"ok", "broken"} : Reply(res, NoFrame)
    BY <1>11 DEF SetLine
  <2>2. op[cur].kind = "line" /\ tries[cur] = 0 /\ cur \in Requests /\ pc \notin Resting
    BY <1>0, <1>11 DEF TaskAgrees, SetLine
  <2>3. tries' = [tries EXCEPT ![cur] = @ + 1] /\ tries'[cur] <= Limit(cur)
    BY <1>0, <1>11, <2>2 DEF SetLine, Limit
  <2>4. op' = op
    BY <1>11 DEF SetLine
  <2> QED  BY <1>4, <2>1, <2>2, <2>3, <2>4 DEF Results
<1>12. CASE Shutdown
  <2>1. op[cur].kind = "shutdown" /\ tries[cur] = 0 /\ cur \in Requests /\ pc \notin Resting
        /\ attempt = 0
    BY <1>0, <1>12 DEF TaskAgrees, Shutdown
  <2>2. tries' = [tries EXCEPT ![cur] = @ + 1] /\ tries'[cur] <= Limit(cur)
    BY <1>0, <1>12, <2>1 DEF Shutdown, Limit
  <2>3. /\ op' = op /\ attempt' = 0 /\ stage' = [stage EXCEPT ![cur] = "gone"]
        /\ IF caller[cur] = "waiting"
           THEN /\ caller' = [caller EXCEPT ![cur] = "done"]
                /\ result' = [result EXCEPT ![cur] = "ok"]
           ELSE UNCHANGED <<caller, result>>
        /\ pc' \in Resting
    BY <1>12, <2>1 DEF Shutdown, Resting
  <2>4. "ok" \in Results \ {"none", "notconnected"}
    BY DEF Results
  <2> QED  BY <2>1, <2>2, <2>3, <2>4, DoneBook
<1> QED
  BY <1>1, <1>2, <1>3, <1>6, <1>7, <1>8, <1>9, <1>10, <1>11, <1>12 DEF Execute

-----------------------------------------------------------------------------
(* No queued request gets lost.                                            *)

\* A queue that grows, and one that loses its head.
LEMMA InAppend ==
  ASSUME NEW q \in Seq(Requests), NEW r \in Requests
  PROVE  In(r, Append(q, r)) /\ \A p \in Requests : In(p, q) => In(p, Append(q, r))
<1>1. /\ Len(Append(q, r)) = Len(q) + 1 /\ Append(q, r)[Len(q) + 1] = r
      /\ \A i \in 1..Len(q) : Append(q, r)[i] = q[i]
  OBVIOUS
<1> QED  BY <1>1 DEF In

LEMMA InTail ==
  ASSUME NEW q \in Seq(Requests), q # <<>>, NEW p \in Requests, p # Head(q), In(p, q)
  PROVE  In(p, Tail(q))
<1>1. /\ Len(Tail(q)) = Len(q) - 1 /\ Head(q) = q[1]
      /\ \A i \in 1..Len(Tail(q)) : Tail(q)[i] = q[i + 1]
  BY HeadTailProperties
<1>2. PICK i \in 1..Len(q) : q[i] = p
  BY DEF In
<1>3. i - 1 \in 1..Len(Tail(q)) /\ Tail(q)[i - 1] = p
  BY <1>1, <1>2
<1> QED  BY <1>3 DEF In

\* Steps that queue nothing and take nothing from a channel.
LEMMA NoneQueued ==
  ASSUME NoneLost, rtq' = rtq, bgq' = bgq,
         \A r \in Requests : stage'[r] = "queued" => stage[r] = "queued"
  PROVE  NoneLost'
BY DEF NoneLost, In

LEMMA BeginNoneLost ==
  ASSUME IInv, TakeRt \/ TakeBg
  PROVE  NoneLost'
<1>0. /\ rtq \in Seq(Requests) /\ bgq \in Seq(Requests) /\ stage \in [Requests -> Stages]
      /\ Holds(rtq, "rt", stage, op) /\ Holds(bgq, "bg", stage, op)
  BY BothHold DEF IInv, TypeOK
<1>1. CASE TakeRt
  <2>1. /\ rtq # <<>> /\ rtq' = Tail(rtq) /\ bgq' = bgq
        /\ stage' = [stage EXCEPT ![Head(rtq)] = "running"]
    BY <1>1 DEF TakeRt, Begin
  <2>2. Head(rtq) \in Requests
    BY <1>0, <2>1, TailHolds
  <2>3. ASSUME NEW p \in Requests, stage'[p] = "queued"
        PROVE  In(p, Tail(rtq)) \/ In(p, bgq)
    <3>1. p # Head(rtq) /\ stage[p] = "queued"
      BY <1>0, <2>1, <2>2, <2>3
    <3>2. In(p, rtq) \/ In(p, bgq)
      BY <3>1 DEF IInv, NoneLost
    <3> QED  BY <1>0, <2>1, <3>1, <3>2, InTail
  <2>4. \A p \in Requests : stage'[p] = "queued" => In(p, rtq') \/ In(p, bgq')
    BY <2>1, <2>3
  <2> QED  BY <2>4 DEF NoneLost, In
<1>2. CASE TakeBg
  <2>1. /\ bgq # <<>> /\ bgq' = Tail(bgq) /\ rtq' = rtq
        /\ stage' = [stage EXCEPT ![Head(bgq)] = "running"]
    BY <1>2 DEF TakeBg, Begin
  <2>2. Head(bgq) \in Requests
    BY <1>0, <2>1, TailHolds
  <2>3. ASSUME NEW p \in Requests, stage'[p] = "queued"
        PROVE  In(p, rtq) \/ In(p, Tail(bgq))
    <3>1. p # Head(bgq) /\ stage[p] = "queued"
      BY <1>0, <2>1, <2>2, <2>3
    <3>2. In(p, rtq) \/ In(p, bgq)
      BY <3>1 DEF IInv, NoneLost
    <3> QED  BY <1>0, <2>1, <3>1, <3>2, InTail
  <2>4. \A p \in Requests : stage'[p] = "queued" => In(p, rtq') \/ In(p, bgq')
    BY <2>1, <2>3
  <2> QED  BY <2>4 DEF NoneLost, In
<1> QED  BY <1>1, <1>2

LEMMA CallerNoneLost ==
  ASSUME IInv, NEW r \in Requests,
         Call(r) \/ Enqueue(r) \/ Refused(r) \/ CallerTimeout(r) \/ Abandon(r)
  PROVE  NoneLost'
<1> USE DEF taskVars, replyVars
<1>0. /\ rtq \in Seq(Requests) /\ bgq \in Seq(Requests) /\ stage \in [Requests -> Stages]
      /\ NoneLost
  BY DEF IInv, TypeOK
<1>1. CASE Enqueue(r)
  <2>1. stage' = [stage EXCEPT ![r] = "queued"]
    BY <1>1 DEF Enqueue
  <2>2. ASSUME NEW p \in Requests, stage'[p] = "queued"
        PROVE  In(p, rtq') \/ In(p, bgq')
    <3>1. p = r \/ In(p, rtq) \/ In(p, bgq)
      BY <1>0, <2>1, <2>2 DEF NoneLost
    <3>2. CASE rtq' = Append(rtq, r) /\ bgq' = bgq
      BY <1>0, <3>1, <3>2, InAppend
    <3>3. CASE bgq' = Append(bgq, r) /\ rtq' = rtq
      BY <1>0, <3>1, <3>3, InAppend
    <3> QED  BY <1>1, <3>2, <3>3 DEF Enqueue
  <2> QED  BY <2>2 DEF NoneLost, In
<1>2. CASE Call(r)
  BY <1>0, <1>2, NoneQueued DEF Call
<1>3. CASE Refused(r)
  BY <1>0, <1>3, NoneQueued DEF Refused
<1>4. CASE CallerTimeout(r)
  BY <1>0, <1>4, NoneQueued DEF CallerTimeout
<1>5. CASE Abandon(r)
  BY <1>0, <1>5, NoneQueued DEF Abandon
<1> QED  BY <1>1, <1>2, <1>3, <1>4, <1>5

LEMMA TaskNoneLost ==
  ASSUME IInv, Task
  PROVE  NoneLost'
<1> USE DEF taskVars, replyVars
<1>0. stage \in [Requests -> Stages] /\ NoneLost
  BY DEF IInv, TypeOK
<1>1. CASE Polls \/ Send
  BY <1>0, <1>1, PollsMove, NoneQueued DEF Send
<1>2. CASE TakeRt \/ TakeBg
  BY <1>2, BeginNoneLost
<1>3. CASE RecvOther \/ DrainOther
  BY <1>0, <1>3, NoneQueued DEF RecvOther, DrainOther
<1>4. CASE Exit
  BY <1>4 DEF Exit, NoneLost
<1>5. CASE RecvTimeout /\ attempt < Retries
  BY <1>0, <1>5, NoneQueued DEF RecvTimeout
<1>6. ASSUME rtq' = rtq, bgq' = bgq, stage' = [stage EXCEPT ![cur] = "gone"]
      PROVE  NoneLost'
  BY <1>0, <1>6, NoneQueued
<1>7. CASE TransportError
  BY <1>6, <1>7 DEF TransportError, Reply
<1>8. CASE RecvAnswer
  BY <1>6, <1>8 DEF RecvAnswer, Reply
<1>9. CASE RecvTimeout /\ ~(attempt < Retries)
  BY <1>6, <1>9 DEF RecvTimeout, Reply
<1>10. CASE DrainError
  BY <1>6, <1>10 DEF DrainError, Reply
<1>11. CASE DrainEnd
  BY <1>6, <1>11 DEF DrainEnd, Reply
<1>12. CASE SetLine
  BY <1>6, <1>12 DEF SetLine, Reply
<1>13. CASE Shutdown
  BY <1>6, <1>13 DEF Shutdown
<1> QED
  BY <1>1, <1>2, <1>3, <1>4, <1>5, <1>7, <1>8, <1>9, <1>10, <1>11, <1>12, <1>13
  DEF Task, Select, Polls, Execute

-----------------------------------------------------------------------------
(* The theorems.                                                           *)

LEMMA InitInv == Init => IInv
<1> SUFFICES ASSUME Init  PROVE  IInv
  OBVIOUS
<1>1. TypeOK
  <2>1. aiOn \in BOOLEAN /\ cancel \in BOOLEAN /\ gone \in BOOLEAN
    BY FlagAssumption DEF Init
  <2>2. answer \in [Requests -> Frames]
    BY NoFrameType DEF Init
  <2>3. /\ rtq \in Seq(Requests) /\ bgq \in Seq(Requests)
        /\ toRig \in Seq(Requests \cup {Ai0}) /\ fromRig \in Seq(Frames)
    BY DEF Init
  <2>4. attempt \in 0..Retries
    BY NumberAssumption DEF Init
  <2> QED
    BY <2>1, <2>2, <2>3, <2>4 DEF Init, TypeOK, CallerStates, Results, Stages, TaskStates
<1>2. Placed /\ NoneLost
  BY RequestsAssumption DEF Init, Placed, NoneLost, QueueHolds
<1>3. Bookkeeping
  BY NumberAssumption DEF Init, Bookkeeping, CallerAgrees, TriesAgree, TaskAgrees
<1> QED  BY <1>1, <1>2, <1>3 DEF IInv

LEMMA StepInv == IInv /\ [Next]_vars => IInv'
<1> SUFFICES ASSUME IInv, [Next]_vars  PROVE  IInv'
  OBVIOUS
<1>1. ASSUME NEW r \in Requests,
             Call(r) \/ Enqueue(r) \/ Refused(r) \/ CallerTimeout(r) \/ Abandon(r)
      PROVE  IInv'
  BY <1>1, CallerType, CallerPlace, CallerNoneLost, CallerBook DEF IInv
<1>2. CASE Select
  BY <1>2, SelectType, SelectPlace, TaskNoneLost, SelectBook DEF IInv, Task
<1>3. CASE Execute
  BY <1>3, ExecuteType, ExecutePlace, TaskNoneLost, ExecuteBook DEF IInv, Task
<1>4. CASE Outside
  <2>1. Placed' /\ Bookkeeping' /\ Still
    BY <1>4, OutsideStill, StillStep
  <2>2. NoneLost'
    BY <2>1, NoneQueued DEF IInv, Still
  <2> QED  BY <1>4, <2>1, <2>2, OutsideType DEF IInv
<1>5. CASE UNCHANGED vars
  <2>1. Placed' /\ Bookkeeping' /\ Still
    BY <1>5, OutsideStill, StillStep
  <2>2. NoneLost'
    BY <2>1, NoneQueued DEF IInv, Still
  <2>3. TypeOK'
    BY <1>5 DEF IInv, TypeOK, vars, callerVars, taskVars, replyVars, wireVars, radioVars, eventVars
  <2> QED  BY <2>1, <2>2, <2>3 DEF IInv
<1> QED  BY <1>1, <1>2, <1>3, <1>4, <1>5 DEF Next, Task, Outside

\* The invariant holds in every state of every behaviour of the task, its
\* callers, the line and the radio.
THEOREM Invariance == Spec => []IInv
BY InitInv, StepInv, PTL DEF Spec

\* Every variable of io_loop and of its callers keeps its type.
THEOREM TypeCorrect == Spec => []TypeOK
<1>1. IInv => TypeOK
  BY DEF IInv
<1> QED  BY Invariance, <1>1, PTL

\* Every request is in exactly one place, and no queued one gets lost.
THEOREM RequestsInOnePlace == Spec => []OnePlace
<1>1. IInv => OnePlace
  BY DEF IInv, OnePlace
<1> QED  BY Invariance, <1>1, PTL

\* A caller waits exactly while its request is with the task; what the task has
\* done for a request is what its place in execute_cat_command says.
THEOREM BookkeepingAgrees == Spec => []Bookkeeping
<1>1. IInv => Bookkeeping
  BY DEF IInv
<1> QED  BY Invariance, <1>1, PTL

\* No call acts on the radio more often than its kind allows: a SET, a line and
\* a shutdown at most once, a GET at most max_retries times more.
THEOREM SendsAreLimited == Spec => []SentAtMost
<1>1. ASSUME IInv  PROVE  SentAtMost
  <2>1. SUFFICES ASSUME NEW r \in Requests  PROVE  tries[r] <= Limit(r)
    BY DEF SentAtMost
  <2>2. /\ stage[r] \in Stages /\ tries[r] \in Nat /\ attempt \in 0..Retries /\ Retries \in Nat
        /\ CallerAgrees(r) /\ TriesAgree(r) /\ TaskAgrees /\ pc \in TaskStates
    BY <1>1, NumberAssumption DEF IInv, TypeOK, Bookkeeping
  <2>3. CASE stage[r] = "running"
    <3>1. cur = r /\ pc \in {"send", "recv", "drain", "line", "ai0"}
      BY <1>1, <2>2, <2>3, RequestsAssumption DEF IInv, Placed, TaskStates
    <3> QED  BY <2>2, <3>1 DEF TaskAgrees, Limit
  <2>4. CASE stage[r] # "running"
    BY <2>2, <2>4 DEF TriesAgree, Limit, Stages
  <2> QED  BY <2>3, <2>4
<1> QED  BY Invariance, <1>1, PTL

\* A call that is told NotConnected has had no effect on the radio.
THEOREM NotConnectedIsUnsent == Spec => []NotConnectedUnsent
<1>1. IInv => NotConnectedUnsent
  BY DEF IInv, Bookkeeping, CallerAgrees, NotConnectedUnsent
<1> QED  BY Invariance, <1>1, PTL

\* Between the two polls every real-time request in its channel came in behind the
\* first of them, and no background request has passed it yet.
Overtaking ==
  pc = "background" =>
    \A r \in Requests : stage[r] = "queued" /\ op[r].chan = "rt" => grace[r] = 1

\* A real-time request is passed by one background request at most, and by none if
\* it is in its channel when the task polls it (the biased select, io.rs:287).
THEOREM RealTimeFirst == Spec => []RtFirst
<1>1. Init => RtFirst /\ Overtaking
  BY DEF Init, RtFirst, Overtaking
<1>2. ASSUME IInv, RtFirst, Overtaking, [Next]_vars
      PROVE  RtFirst' /\ Overtaking'
  <2>0. TypeOK
    BY <1>2 DEF IInv
  <2>1. ASSUME NEW r \in Requests, Enqueue(r)  PROVE RtFirst' /\ Overtaking'
    <3>1. /\ stage' = [stage EXCEPT ![r] = "queued"] /\ op' = op /\ pc' = pc
          /\ grace' = IF pc = "background" /\ op[r].chan = "rt" THEN [grace EXCEPT ![r] = 1] ELSE grace
      BY <2>1 DEF Enqueue
    <3> QED  BY <1>2, <2>0, <3>1 DEF RtFirst, Overtaking, TypeOK
  <2>2. CASE RtEmpty
    <3>1. rtq = <<>> /\ UNCHANGED <<op, stage, grace>>
      BY <2>2 DEF RtEmpty, PollOn, callerVars, replyVars
    <3>2. \A r \in Requests : stage[r] = "queued" => In(r, bgq)
      BY <1>2, <3>1 DEF IInv, NoneLost, In
    <3>3. \A r \in Requests : stage[r] = "queued" => op[r].chan = "bg"
      BY <1>2, <3>2, BothHold DEF IInv, Holds, In
    <3> QED  BY <1>2, <3>1, <3>3 DEF RtFirst, Overtaking
  <2>3. CASE TakeBg
    <3>1. pc = "background" /\ pc' # "background"
      <4>1. Head(bgq) \in Requests
        BY <2>0, <2>3, HeadTailProperties DEF TakeBg, TypeOK
      <4> QED  BY <2>0, <2>3, <4>1, FirstStepType DEF TakeBg, Begin, TypeOK
    <3>2. grace' = [r \in Requests |->
                      IF stage[r] = "queued" /\ op[r].chan = "rt" THEN grace[r] - 1 ELSE grace[r]]
      BY <2>3 DEF TakeBg
    <3> QED  BY <1>2, <2>0, <3>1, <3>2 DEF RtFirst, Overtaking, TypeOK
  <2>4. CASE /\ UNCHANGED <<op, grace>>
             /\ pc' = "background" =>
                  /\ pc = "background"
                  /\ \A r \in Requests : stage'[r] = "queued" => stage[r] = "queued"
    BY <1>2, <2>4 DEF RtFirst, Overtaking
  <2>5. ASSUME NEW r \in Requests, Call(r) \/ Refused(r) \/ CallerTimeout(r) \/ Abandon(r)
        PROVE  RtFirst' /\ Overtaking'
    BY <2>0, <2>4, <2>5 DEF Call, Refused, CallerTimeout, Abandon, TypeOK, taskVars
  <2>6. CASE Polls \/ TakeRt \/ Exit
    <3>1. CASE Polls /\ ~RtEmpty
      <4>1. UNCHANGED <<op, grace, stage>> /\ pc' # "background"
        BY <3>1, PollsMove DEF Polls, PollOn, SeeCancel, SeeClosed, BgEmpty, Wake, IdleRead, IdleError
      <4> QED  BY <2>4, <4>1
    <3>2. CASE TakeRt
      <4>1. Head(rtq) \in Requests
        BY <2>0, <3>2, HeadTailProperties DEF TakeRt, TypeOK
      <4>2. UNCHANGED <<op, grace>> /\ pc' # "background"
        BY <2>0, <3>2, <4>1, FirstStepType DEF TakeRt, Begin, TypeOK
      <4> QED  BY <2>4, <4>2
    <3>3. CASE Exit
      BY <2>4, <3>3 DEF Exit
    <3> QED  BY <2>2, <2>6, <3>1, <3>2, <3>3
  <2>7. CASE Execute
    BY <2>4, <2>7 DEF Execute, Send, TransportError, RecvAnswer, RecvOther, RecvTimeout, DrainError,
      DrainOther, DrainEnd, SetLine, Shutdown, Reply, callerVars, taskVars
  <2>8. CASE Outside \/ UNCHANGED vars
    BY <2>4, <2>8 DEF Outside, DropHandle, Cancel, Radio, RadioGet, RadioSet, RadioAi0, TurnDial,
      Repeats, LineFails, vars, callerVars, taskVars, replyVars
  <2> QED  BY <1>2, <2>1, <2>3, <2>5, <2>6, <2>7, <2>8, SelectIs DEF Next, Task, Outside
<1> QED  BY Invariance, <1>1, <1>2, PTL DEF Spec

-----------------------------------------------------------------------------
(* What a shutdown leaves behind.                                          *)

\* What callers do by themselves makes no call succeed.
LEMMA CallerNotOk ==
  ASSUME TypeOK, NEW r \in Requests,
         Call(r) \/ Enqueue(r) \/ Refused(r) \/ CallerTimeout(r) \/ Abandon(r)
  PROVE  /\ \A q \in Requests : result'[q] = "ok" => result[q] = "ok"
         /\ UNCHANGED <<op, pc, answer, radio, aiOn, line, toRig, fromRig>>
BY DEF TypeOK, Call, Enqueue, Refused, CallerTimeout, Abandon, taskVars, wireVars, radioVars

\* Nothing is told "ok" but what was executed.
LEMMA ReplyOk ==
  ASSUME TypeOK, cur \in Requests, NEW res, NEW f, Reply(res, f)
  PROVE  /\ \A q \in Requests : q # cur => result'[q] = result[q] /\ answer'[q] = answer[q]
         /\ \/ result'[cur] = result[cur] /\ answer'[cur] = answer[cur]
            \/ result'[cur] = res /\ answer'[cur] = f
         /\ pc' = "select"
BY DEF TypeOK, Reply

\* A shutdown that was reported done is the last thing the task did.
ShutdownEnds ==
  \A r \in Requests : op[r].kind = "shutdown" /\ result[r] = "ok" => pc \in {"return", "exited"}

\* The radio has been told to stop AI frames, if there is a command for it.
Quieted ==
  HasShutdownCmd /\ line = "up" => ~aiOn \/ (toRig # <<>> /\ toRig[Len(toRig)] = Ai0)

\* The radio reads the command, or nothing comes behind it.
LEMMA QuietedOutside ==
  ASSUME TypeOK, Quieted, Radio \/ TurnDial \/ Repeats \/ LineFails
  PROVE  Quieted'
<1>1. CASE RadioGet \/ RadioSet
  <2>1. /\ toRig # <<>> /\ toRig \in Seq(Requests \cup {Ai0}) /\ Head(toRig) \in Requests
        /\ toRig' = Tail(toRig) /\ line' = line /\ aiOn' = aiOn
    BY <1>1 DEF RadioGet, RadioSet, TypeOK, radioVars
  <2>2. SUFFICES ASSUME HasShutdownCmd, line = "up", aiOn, toRig[Len(toRig)] = Ai0
                 PROVE  Tail(toRig) # <<>> /\ Tail(toRig)[Len(Tail(toRig))] = Ai0
    BY <2>1 DEF Quieted
  <2>3. /\ Head(toRig) = toRig[1] /\ Len(toRig) \in Nat /\ Len(toRig) > 0
        /\ Tail(toRig) \in Seq(Requests \cup {Ai0}) /\ Len(Tail(toRig)) = Len(toRig) - 1
        /\ \A i \in 1..Len(Tail(toRig)) : Tail(toRig)[i] = toRig[i + 1]
    BY <2>1, TailLine
  <2>4. Len(toRig) # 1
    BY <2>1, <2>2, <2>3, RequestsAssumption
  <2>5. Len(toRig) - 1 \in 1..Len(Tail(toRig)) /\ (Len(toRig) - 1) + 1 = Len(toRig)
    BY <2>3, <2>4
  <2>6. Tail(toRig) # <<>>
    <3>1. Len(Tail(toRig)) # 0 /\ Len(<<>>) = 0
      BY <2>3, <2>4
    <3> QED  BY <3>1
  <2> QED  BY <2>2, <2>3, <2>5, <2>6
<1>2. CASE RadioAi0
  BY <1>2 DEF RadioAi0, Quieted
<1>3. CASE TurnDial \/ Repeats
  BY <1>3 DEF TurnDial, Repeats, radioVars, Quieted
<1>4. CASE LineFails
  BY <1>4 DEF LineFails, Quieted
<1> QED  BY <1>1, <1>2, <1>3, <1>4 DEF Radio

\* Before its end the task writes, so no shutdown was reported done; behind it, it
\* does not.
LEMMA ShutdownStep ==
  ASSUME IInv, ShutdownEnds, ShutdownQuiets, [Next]_vars
  PROVE  ShutdownEnds' /\ ShutdownQuiets'
<1> SUFFICES ASSUME NEW r \in Requests, op'[r].kind = "shutdown", result'[r] = "ok"
             PROVE  pc' \in {"return", "exited"} /\ Quieted'
  BY DEF ShutdownEnds, ShutdownQuiets, Quieted
<1>0. op' = op
  BY DEF Next, Task, Select, Execute, Radio, vars, callerVars, Call, Enqueue, Refused, CallerTimeout,
    Abandon, DropHandle, Cancel, SeeCancel, TakeRt, SeeClosed, RtEmpty, TakeBg, BgEmpty, Wake, PollOn, Begin, IdleRead, IdleError,
    Exit, Send, TransportError, RecvAnswer, RecvOther, RecvTimeout, DrainError, DrainOther, DrainEnd,
    SetLine, Shutdown, RadioGet, RadioSet, RadioAi0, TurnDial, Repeats, LineFails
<1>1. result[r] = "ok" => pc \in {"return", "exited"} /\ Quieted
  BY <1>0 DEF ShutdownEnds, ShutdownQuiets, Quieted
<1>2. CASE UNCHANGED <<pc, result, line, aiOn, toRig>>
  BY <1>1, <1>2 DEF Quieted
<1>3. CASE \E q \in Requests :
             Call(q) \/ Enqueue(q) \/ Refused(q) \/ CallerTimeout(q) \/ Abandon(q)
  <2>1. result[r] = "ok" /\ UNCHANGED <<pc, line, aiOn, toRig>>
    BY <1>3, CallerNotOk DEF IInv
  <2> QED  BY <1>1, <2>1 DEF Quieted
<1>4. CASE Polls \/ TakeRt \/ TakeBg
  <2>1. pc \in Polling /\ result' = result
    BY <1>4, PollsMove DEF TakeRt, TakeBg, Begin, Polling
  <2> QED  BY <1>1, <2>1 DEF Polling
<1>5. CASE Exit
  <2>1. result[r] = "ok" /\ pc' = "exited" /\ UNCHANGED <<line, aiOn, toRig>>
    BY <1>5 DEF Exit, wireVars, radioVars
  <2> QED  BY <1>1, <2>1 DEF Quieted
<1>6. CASE Execute /\ ~Shutdown
  <2>1. pc \notin {"select", "background", "idle", "return", "exited"} /\ TypeOK /\ TaskAgrees
    BY <1>6 DEF IInv, Bookkeeping, Execute, Send, TransportError, RecvAnswer, RecvOther, RecvTimeout,
      DrainError, DrainOther, DrainEnd, SetLine
  <2>2. cur \in Requests /\ result[r] # "ok"
    BY <1>1, <2>1, Executing
  <2>3. CASE Send \/ RecvOther \/ DrainOther \/ (RecvTimeout /\ result' = result)
    BY <2>2, <2>3 DEF Send, RecvOther, DrainOther, replyVars
  <2>4. CASE \E res \in Results, f \in Frames : Reply(res, f) /\ (res = "ok" => op[cur].kind # "shutdown")
    <3>1. PICK res \in Results, f \in Frames : Reply(res, f) /\ (res = "ok" => op[cur].kind # "shutdown")
      BY <2>4
    <3>2. r = cur /\ res = "ok"
      BY <2>1, <2>2, <3>1, ReplyOk
    <3> QED  BY <1>0, <3>1, <3>2
  <2>5. CASE TransportError
    BY <2>4, <2>5, NoFrameType DEF TransportError, Results
  <2>6. CASE RecvAnswer
    <3>1. op[cur].kind = "get" /\ pc = "recv"
      BY <2>1, <2>6 DEF RecvAnswer, TaskAgrees
    <3>2. PICK n \in 1..Len(fromRig) : \E i \in 1..n :
                 Reply("rejected", fromRig[i]) \/ Reply("ok", fromRig[i])
      BY <2>6 DEF RecvAnswer
    <3>3. PICK i \in 1..n : Reply("rejected", fromRig[i]) \/ Reply("ok", fromRig[i])
      BY <3>2
    <3>4. fromRig[i] \in Frames
      BY <2>1, <3>3 DEF TypeOK
    <3> QED  BY <2>4, <3>1, <3>3, <3>4 DEF Results
  <2>7. CASE RecvTimeout
    BY <2>3, <2>4, <2>7, NoFrameType DEF RecvTimeout, Results, replyVars
  <2>8. CASE DrainError
    <3>2. PICK n \in 1..Len(fromRig) : \E i \in 1..n : Reply("rejected", fromRig[i])
      BY <2>8 DEF DrainError
    <3>3. PICK i \in 1..n : Reply("rejected", fromRig[i])
      BY <3>2
    <3>4. fromRig[i] \in Frames
      BY <2>1, <3>3 DEF TypeOK
    <3> QED  BY <2>4, <3>3, <3>4 DEF Results
  <2>9. CASE DrainEnd
    <3>1. op[cur].kind = "set" /\ Reply("ok", NoFrame)
      BY <2>1, <2>9 DEF DrainEnd, TaskAgrees
    <3> QED  BY <2>4, <3>1, NoFrameType DEF Results
  <2>10. CASE SetLine
    <3>1. op[cur].kind = "line" /\ (Reply("ok", NoFrame) \/ Reply("broken", NoFrame))
      BY <2>1, <2>10 DEF SetLine, TaskAgrees
    <3> QED  BY <2>4, <3>1, NoFrameType DEF Results
  <2> QED  BY <1>6, <2>3, <2>5, <2>6, <2>7, <2>8, <2>9, <2>10 DEF Execute
<1>7. CASE Shutdown
  <2>1. pc' = "return" /\ UNCHANGED <<line, aiOn>> /\ toRig \in Seq(Requests \cup {Ai0})
        /\ (HasShutdownCmd /\ line = "up" => toRig' = Append(toRig, Ai0))
    BY <1>7 DEF Shutdown, radioVars, IInv, TypeOK
  <2>2. Append(toRig, Ai0) # <<>> /\ Append(toRig, Ai0)[Len(Append(toRig, Ai0))] = Ai0
    BY <2>1
  <2> QED  BY <2>1, <2>2 DEF Quieted
<1>8. CASE DropHandle \/ Cancel \/ UNCHANGED vars
  BY <1>2, <1>8 DEF DropHandle, Cancel, vars, taskVars, replyVars, wireVars, radioVars
<1>9. CASE Radio \/ TurnDial \/ Repeats \/ LineFails
  <2>1. UNCHANGED <<pc, result>>
    BY <1>9 DEF Radio, RadioGet, RadioSet, RadioAi0, TurnDial, Repeats, LineFails, taskVars, replyVars
  <2> QED  BY <1>1, <1>9, <2>1, QuietedOutside DEF IInv
<1> QED  BY <1>3, <1>4, <1>5, <1>6, <1>7, <1>8, <1>9 DEF Next, Task, Select, Polls, Execute

\* After a shutdown that was reported done the radio has been told to stop AI frames,
\* and nothing was written behind that command (the Shutdown arms of io_loop).
THEOREM ShutdownLeavesQuiet == Spec => []ShutdownQuiets
<1>1. Init => ShutdownEnds /\ ShutdownQuiets
  BY DEF Init, ShutdownEnds, ShutdownQuiets
<1>2. IInv /\ ShutdownEnds /\ ShutdownQuiets /\ [Next]_vars => ShutdownEnds' /\ ShutdownQuiets'
  BY ShutdownStep
<1> QED  BY Invariance, <1>1, <1>2, PTL DEF Spec

-----------------------------------------------------------------------------
(* With a rig that answers in time and sends nothing unasked, at most one  *)
(* command or answer is under way, and it belongs to the request that is   *)
(* being executed.                                                         *)

Silent == toRig = <<>> /\ fromRig = <<>>

\* Nothing, the command, or the answer of a radio that has seen the call begin.
UnderWay ==
  \/ Silent
  \/ toRig = <<cur>> /\ fromRig = <<>>
  \/ toRig = <<>> /\ Len(fromRig) = 1 /\ fromRig[1].cause = cur /\ fromRig[1].ver >= since[cur]

Outstanding ==
  /\ ~aiOn
  /\ \A r \in Requests : since[r] <= radio
  /\ line = "down" => Silent
  /\ pc \in {"select", "background", "idle", "send", "line", "ai0"} => Silent
  /\ pc \in {"return", "exited"} => toRig \in {<<>>, <<Ai0>>} /\ fromRig = <<>>
  /\ pc \in {"recv", "drain"} => UnderWay

\* Steps that leave the line and the radio alone, and the task where it is.
LEMMA OutstandingStill ==
  ASSUME Outstanding, UNCHANGED <<pc, cur, since, line, toRig, fromRig, radio, aiOn>>
  PROVE  Outstanding'
BY DEF Outstanding, UnderWay, Silent

\* A call begins at the version of the radio that there is.
LEMMA OutstandingCall ==
  ASSUME IInv, Outstanding, NEW r \in Requests, Call(r)
  PROVE  Outstanding'
<1>1. UNCHANGED <<pc, cur, line, toRig, fromRig, radio, aiOn>> /\ since' = [since EXCEPT ![r] = radio]
  BY DEF Call, taskVars, wireVars, radioVars
<1>2. since \in [Requests -> Nat] /\ radio \in Nat /\ pc \in TaskStates
  BY DEF IInv, TypeOK
<1>3. \A q \in Requests : since'[q] <= radio'
  BY <1>1, <1>2 DEF Outstanding
<1>4. pc \in {"recv", "drain"} => since'[cur] = since[cur]
  <2>1. ASSUME pc \in {"recv", "drain"}  PROVE cur \in Requests /\ stage[cur] = "running"
    BY <2>1, Executing
  <2>2. stage[r] = "none"
    BY DEF IInv, Bookkeeping, CallerAgrees, Call
  <2> QED  BY <1>1, <1>2, <2>1, <2>2
<1> QED  BY <1>1, <1>3, <1>4 DEF Outstanding, UnderWay, Silent

\* The radio answers the one command there is, or does not.
LEMMA OutstandingRadio ==
  ASSUME IInv, Outstanding, Radio \/ TurnDial \/ Repeats \/ LineFails
  PROVE  Outstanding'
<1>0. /\ since \in [Requests -> Nat] /\ radio \in Nat /\ pc \in TaskStates /\ fromRig \in Seq(Frames)
      /\ (pc \in {"recv", "drain"} => cur \in Requests)
      /\ UNCHANGED <<pc, cur, since>>
  BY Executing DEF IInv, TypeOK, Radio, RadioGet, RadioSet, RadioAi0, TurnDial, Repeats, LineFails, callerVars, taskVars
<1>1. CASE RadioGet \/ RadioSet
  <2>1. toRig # <<>> /\ Head(toRig) \in Requests /\ toRig' = Tail(toRig) /\ UNCHANGED <<line, aiOn>>
    BY <1>1 DEF RadioGet, RadioSet, radioVars
  <2>2. pc \in {"recv", "drain"} /\ toRig = <<cur>> /\ fromRig = <<>> /\ line # "down"
    BY <1>0, <2>1, RequestsAssumption DEF Outstanding, UnderWay, Silent, TaskStates
  <2>3. toRig' = <<>> /\ Head(toRig) = cur
    BY <2>1, <2>2
  <2>4. /\ radio' \in {radio, radio + 1}
        /\ \/ fromRig' = <<>>
           \/ \E p \in Prefixes \cup {Error} :
                fromRig' = Append(fromRig, [prefix |-> p, ver |-> radio, cause |-> cur])
    <3>1. CASE RadioGet
      <4>1. op[cur] \in Ops /\ op[cur].prefix \in Prefixes
        BY <1>0, <2>2, OpsAssumption DEF IInv, TypeOK
      <4> QED  BY <2>2, <2>3, <3>1, <4>1 DEF RadioGet, radioVars
    <3>2. CASE RadioSet
      BY <2>2, <2>3, <3>2 DEF RadioSet, Report, Outstanding
    <3> QED  BY <1>1, <3>1, <3>2
  <2>5. \A r \in Requests : since'[r] <= radio'
    BY <1>0, <2>4 DEF Outstanding
  <2>6. UnderWay'
    <3>1. CASE fromRig' = <<>>
      BY <2>3, <3>1 DEF UnderWay, Silent
    <3>2. CASE \E p \in Prefixes \cup {Error} :
                 fromRig' = Append(fromRig, [prefix |-> p, ver |-> radio, cause |-> cur])
      <4>1. PICK p \in Prefixes \cup {Error} :
                 fromRig' = Append(fromRig, [prefix |-> p, ver |-> radio, cause |-> cur])
        BY <3>2
      <4>2. fromRig' = << [prefix |-> p, ver |-> radio, cause |-> cur] >>
        BY <2>2, <4>1
      <4>3. Len(fromRig') = 1 /\ fromRig'[1].cause = cur /\ fromRig'[1].ver = radio
        BY <4>2
      <4>4. since[cur] <= radio
        BY <1>0, <2>2 DEF Outstanding
      <4> QED  BY <1>0, <2>2, <2>3, <4>3, <4>4 DEF UnderWay
    <3> QED  BY <2>4, <3>1, <3>2
  <2> QED  BY <1>0, <2>1, <2>2, <2>5, <2>6 DEF Outstanding
<1>2. CASE RadioAi0
  <2>1. toRig # <<>> /\ Head(toRig) = Ai0 /\ toRig' = Tail(toRig)
        /\ UNCHANGED <<line, fromRig, radio>> /\ ~aiOn'
    BY <1>2 DEF RadioAi0
  <2>2. pc \in {"return", "exited"} /\ toRig = <<Ai0>> /\ fromRig = <<>>
    BY <1>0, <2>1, RequestsAssumption DEF Outstanding, UnderWay, Silent, TaskStates
  <2>3. toRig' = <<>>
    BY <2>1, <2>2
  <2> QED  BY <1>0, <2>1, <2>2, <2>3 DEF Outstanding, Silent
<1>3. CASE TurnDial
  <2>1. UNCHANGED <<line, toRig, fromRig, aiOn>> /\ radio' = radio + 1
    BY <1>3 DEF TurnDial, Report, Outstanding
  <2>2. \A r \in Requests : since'[r] <= radio'
    BY <1>0, <2>1 DEF Outstanding
  <2> QED  BY <1>0, <2>1, <2>2 DEF Outstanding, UnderWay, Silent
<1>4. CASE LineFails
  BY <1>0, <1>4 DEF LineFails, Outstanding, UnderWay, Silent, radioVars
<1>5. CASE Repeats
  BY <1>5 DEF Repeats, Outstanding
<1> QED  BY <1>1, <1>2, <1>3, <1>4, <1>5 DEF Radio

\* What is received is all there is.
LEMMA AllReceived ==
  ASSUME TypeOK, Outstanding, NEW n \in 1..Len(fromRig), pc \in {"recv", "drain"}
  PROVE  /\ toRig = <<>> /\ Rest(n) = <<>> /\ n = 1 /\ fromRig[1] \in Frames
         /\ fromRig[1].cause = cur /\ fromRig[1].ver >= since[cur]
<1>1. fromRig \in Seq(Frames) /\ Len(fromRig) >= 1 /\ Len(<<>>) = 0
  BY DEF TypeOK
<1>2. toRig = <<>> /\ Len(fromRig) = 1 /\ fromRig[1].cause = cur /\ fromRig[1].ver >= since[cur]
  BY <1>1 DEF Outstanding, UnderWay, Silent
<1>3. n = 1 /\ fromRig[1] \in Frames
  <2>1. n \in 1..1
    BY <1>2
  <2>2. 1 \in 1..Len(fromRig)
    BY <1>1
  <2> QED  BY <1>1, <2>1, <2>2
<1>4. Rest(n) = <<>>
  BY <1>1, <1>2, <1>3 DEF Rest
<1> QED  BY <1>2, <1>3, <1>4

\* The task sends when nothing is under way, and takes all that comes.
LEMMA OutstandingTask ==
  ASSUME ~LateAnswers, IInv, Outstanding, Task
  PROVE  Outstanding'
<1>0. /\ TypeOK /\ UNCHANGED <<since, radio, aiOn, line>>
      /\ pc \in {"send", "recv", "drain", "line", "ai0"} => cur \in Requests
  BY Executing DEF IInv, TypeOK, Task, Select, Execute, SeeCancel, TakeRt, SeeClosed, RtEmpty, TakeBg, BgEmpty, Wake, PollOn, Begin,
    IdleRead, IdleError, Exit, Send, TransportError, RecvAnswer, RecvOther, RecvTimeout, DrainError,
    DrainOther, DrainEnd, SetLine, Shutdown, callerVars, wireVars, radioVars
<1>1. SUFFICES /\ line = "down" => Silent'
               /\ pc' \in {"select", "background", "idle", "send", "line", "ai0"} => Silent'
               /\ pc' \in {"return", "exited"} => toRig' \in {<<>>, <<Ai0>>} /\ fromRig' = <<>>
               /\ pc' \in {"recv", "drain"} => UnderWay'
  BY <1>0 DEF Outstanding
<1>2. CASE Polls
  <2>1. pc \in Polling /\ Silent /\ toRig' = toRig /\ pc' \in Polling \cup {"return"}
    BY <1>2, PollsMove DEF Outstanding, Polling
  <2>2. fromRig' = fromRig
    BY <1>0, <1>2, <2>1, PollsMove DEF IdleRead, Silent, TypeOK
  <2> QED  BY <2>1, <2>2 DEF Silent, Polling
<1>3. CASE TakeRt \/ TakeBg
  <2>1. pc \in Polling /\ UNCHANGED <<toRig, fromRig>> /\ \E r \in Requests : pc' = FirstStep(r)
    BY <1>0, <1>3, HeadTailProperties DEF TakeRt, TakeBg, Begin, TypeOK, wireVars, Polling
  <2>2. pc' \in {"send", "line", "ai0"}
    BY <1>0, <2>1, FirstStepType DEF TypeOK, Kinds
  <2> QED  BY <2>1, <2>2 DEF Outstanding, Silent, Polling
<1>5. CASE Exit
  BY <1>5 DEF Exit, Outstanding, Silent, wireVars
<1>6. CASE Send
  <2>1. /\ pc = "send" /\ line = "up" /\ toRig' = Append(toRig, cur) /\ UNCHANGED <<cur, fromRig>>
        /\ pc' \in {"recv", "drain"}
    BY <1>6 DEF Send
  <2>2. toRig' = <<cur>> /\ fromRig' = <<>>
    BY <2>1 DEF Outstanding, Silent
  <2> QED  BY <2>1, <2>2 DEF UnderWay
<1>7. CASE TransportError
  <2>1. line = "down" /\ pc' = "select" /\ UNCHANGED <<toRig, fromRig>>
    BY <1>7 DEF TransportError, Reply, wireVars
  <2> QED  BY <2>1 DEF Outstanding, Silent
<1>8. CASE RecvAnswer \/ DrainError
  <2>1. /\ pc \in {"recv", "drain"} /\ toRig' = toRig /\ pc' = "select"
        /\ \E n \in 1..Len(fromRig) : fromRig' = Rest(n)
    BY <1>8 DEF RecvAnswer, DrainError, Reply
  <2> QED  BY <1>0, <2>1, AllReceived DEF Silent
<1>9. CASE RecvOther \/ DrainOther
  <2>1. /\ pc \in {"recv", "drain"} /\ toRig' = toRig /\ pc' = pc
        /\ \E n \in 1..Len(fromRig) : fromRig' = Rest(n)
    BY <1>9 DEF RecvOther, DrainOther, taskVars
  <2> QED  BY <1>0, <2>1, AllReceived DEF Silent, UnderWay
<1>10. CASE RecvTimeout \/ DrainEnd
  <2>1. Silent /\ UNCHANGED <<toRig, fromRig>> /\ pc' \in {"send", "select"}
    BY <1>10 DEF RecvTimeout, DrainEnd, Quiet, Silent, Reply, wireVars
  <2> QED  BY <2>1 DEF Silent
<1>11. CASE SetLine
  BY <1>11 DEF SetLine, Reply, Outstanding, Silent, wireVars
<1>12. CASE Shutdown
  <2>1. /\ pc = "ai0" /\ pc' = "return" /\ fromRig' = fromRig
        /\ toRig' = IF HasShutdownCmd /\ line = "up" THEN Append(toRig, Ai0) ELSE toRig
    BY <1>12 DEF Shutdown
  <2>2. Silent
    BY <2>1 DEF Outstanding
  <2>3. CASE HasShutdownCmd /\ line = "up"
    BY <2>1, <2>2, <2>3 DEF Silent
  <2>4. CASE ~(HasShutdownCmd /\ line = "up")
    BY <2>1, <2>2, <2>4 DEF Silent
  <2> QED  BY <2>3, <2>4
<1> QED  BY <1>2, <1>3, <1>5, <1>6, <1>7, <1>8, <1>9, <1>10, <1>11, <1>12
         DEF Task, Polls, Select, Execute

\* Every step keeps it so.
LEMMA OutstandingStep ==
  ASSUME ~LateAnswers, IInv, Outstanding, [Next]_vars
  PROVE  Outstanding'
<1>1. ASSUME NEW r \in Requests, Enqueue(r) \/ Refused(r) \/ CallerTimeout(r) \/ Abandon(r)
      PROVE  Outstanding'
  BY <1>1, OutstandingStill DEF Enqueue, Refused, CallerTimeout, Abandon, taskVars, wireVars, radioVars
<1>2. CASE DropHandle \/ Cancel \/ UNCHANGED vars
  BY <1>2, OutstandingStill DEF DropHandle, Cancel, vars, callerVars, taskVars, wireVars, radioVars
<1> QED  BY <1>1, <1>2, OutstandingCall, OutstandingRadio, OutstandingTask DEF Next

\* What one caller was told is right.
RightFor(r) ==
  /\ result[r] = "rejected" \/ (result[r] = "ok" /\ op[r].kind = "get") => answer[r].cause = r
  /\ result[r] = "ok" /\ op[r].kind = "get" => answer[r].ver >= since[r]

\* AnswersRight, caller by caller.
LEMMA RightIs == AnswersRight <=> \A r \in Requests : RightFor(r)
BY DEF AnswersRight, Correlated, Fresh, RightFor

\* An exchange ends with an answer to the request that is executed, or without one.
LEMMA ExchangeEnds ==
  ASSUME IInv, Outstanding, Execute, ~Shutdown
  PROVE  \/ UNCHANGED <<result, answer>>
         \/ \E res \in Results, f \in Frames :
              /\ Reply(res, f)
              /\ res = "rejected" \/ (res = "ok" /\ op[cur].kind = "get") =>
                   f.cause = cur /\ f.ver >= since[cur]
<1>0. TypeOK /\ TaskAgrees
  BY DEF IInv, Bookkeeping
<1>1. CASE Send \/ RecvOther \/ DrainOther
  BY <1>1 DEF Send, RecvOther, DrainOther, replyVars
<1>2. CASE TransportError
  BY <1>2, NoFrameType DEF TransportError, Results
<1>3. CASE RecvAnswer
  <2>1. pc = "recv" /\ \E n \in 1..Len(fromRig) : \E i \in 1..n :
           \E res \in {"rejected", "ok"} : Reply(res, fromRig[i])
    BY <1>3 DEF RecvAnswer
  <2>2. PICK n \in 1..Len(fromRig) : \E i \in 1..n :
           \E res \in {"rejected", "ok"} : Reply(res, fromRig[i])
    BY <2>1
  <2>3. n = 1 /\ fromRig[1] \in Frames /\ fromRig[1].cause = cur /\ fromRig[1].ver >= since[cur]
    BY <1>0, <2>1, AllReceived
  <2>4. PICK res \in {"rejected", "ok"} : Reply(res, fromRig[1])
    BY <2>2, <2>3
  <2> QED  BY <2>3, <2>4 DEF Results
<1>4. CASE DrainError
  <2>1. pc = "drain" /\ \E n \in 1..Len(fromRig) : \E i \in 1..n : Reply("rejected", fromRig[i])
    BY <1>4 DEF DrainError
  <2>2. PICK n \in 1..Len(fromRig) : \E i \in 1..n : Reply("rejected", fromRig[i])
    BY <2>1
  <2>3. n = 1 /\ fromRig[1] \in Frames /\ fromRig[1].cause = cur /\ fromRig[1].ver >= since[cur]
    BY <1>0, <2>1, AllReceived
  <2> QED  BY <2>2, <2>3 DEF Results
<1>5. CASE RecvTimeout
  BY <1>5, NoFrameType DEF RecvTimeout, Results, replyVars
<1>6. CASE DrainEnd
  <2>1. op[cur].kind = "set" /\ Reply("ok", NoFrame)
    BY <1>0, <1>6 DEF DrainEnd, TaskAgrees
  <2> QED  BY <2>1, NoFrameType DEF Results
<1>7. CASE SetLine
  <2>1. op[cur].kind = "line" /\ (Reply("ok", NoFrame) \/ Reply("broken", NoFrame))
    BY <1>0, <1>7 DEF SetLine, TaskAgrees
  <2> QED  BY <2>1, NoFrameType DEF Results
<1> QED  BY <1>1, <1>2, <1>3, <1>4, <1>5, <1>6, <1>7 DEF Execute

\* No step makes an answer wrong.
LEMMA RightStep ==
  ASSUME IInv, Outstanding, AnswersRight, [Next]_vars
  PROVE  AnswersRight'
<1> SUFFICES ASSUME NEW r \in Requests, RightFor(r)  PROVE RightFor(r)'
  BY RightIs DEF AnswersRight, Correlated, Fresh, RightFor
<1>0. TypeOK /\ op' = op
  BY DEF IInv, Next, Task, Select, Execute, Radio, vars, callerVars, Call, Enqueue, Refused,
    CallerTimeout, Abandon, DropHandle, Cancel, SeeCancel, TakeRt, SeeClosed, RtEmpty, TakeBg, BgEmpty, Wake, PollOn, Begin, IdleRead,
    IdleError, Exit, Send, TransportError, RecvAnswer, RecvOther, RecvTimeout, DrainError, DrainOther,
    DrainEnd, SetLine, Shutdown, RadioGet, RadioSet, RadioAi0, TurnDial, Repeats, LineFails
<1>1. CASE UNCHANGED <<result, answer, since>>
  BY <1>0, <1>1 DEF RightFor
<1>2. ASSUME NEW q \in Requests, Call(q)  PROVE RightFor(r)'
  <2>1. UNCHANGED <<result, answer>> /\ since' = [since EXCEPT ![q] = radio] /\ caller[q] = "idle"
    BY <1>2 DEF Call
  <2>2. result[q] = "none"
    BY <2>1 DEF IInv, Bookkeeping, CallerAgrees
  <2> QED  BY <1>0, <2>1, <2>2 DEF RightFor, TypeOK
<1>3. ASSUME NEW q \in Requests, Enqueue(q) \/ Refused(q) \/ CallerTimeout(q) \/ Abandon(q)
      PROVE  RightFor(r)'
  <2>1. UNCHANGED <<answer, since>> /\ (result'[r] = result[r] \/ result'[r] \notin {"ok", "rejected"})
    BY <1>0, <1>3 DEF Enqueue, Refused, CallerTimeout, Abandon, TypeOK
  <2> QED  BY <1>0, <2>1 DEF RightFor
<1>4. CASE Exit
  <2>1. UNCHANGED <<answer, since>> /\ (result'[r] = result[r] \/ result'[r] = "notconnected")
    BY <1>4 DEF Exit
  <2> QED  BY <1>0, <2>1 DEF RightFor
<1>5. CASE Execute /\ ~Shutdown
  <2>1. since' = since /\ cur \in Requests
    <3>1. pc \notin {"select", "background", "idle", "return", "exited"}
      BY <1>5 DEF Execute, Send, TransportError, RecvAnswer, RecvOther, RecvTimeout, DrainError,
        DrainOther, DrainEnd, SetLine
    <3> QED  BY <1>5, <3>1, Executing DEF Execute, Send, TransportError, RecvAnswer, RecvOther,
          RecvTimeout, DrainError, DrainOther, DrainEnd, SetLine, callerVars
  <2>2. CASE UNCHANGED <<result, answer>>
    BY <1>1, <2>1, <2>2
  <2>3. ASSUME NEW res \in Results, NEW f \in Frames, Reply(res, f),
               res = "rejected" \/ (res = "ok" /\ op[cur].kind = "get") =>
                 f.cause = cur /\ f.ver >= since[cur]
        PROVE  RightFor(r)'
    <3>1. CASE r # cur
      BY <1>0, <2>1, <2>3, <3>1, ReplyOk DEF RightFor
    <3>2. CASE r = cur
      BY <1>0, <2>1, <2>3, <3>2, ReplyOk DEF RightFor
    <3> QED  BY <3>1, <3>2
  <2> QED  BY <1>5, <2>2, <2>3, ExchangeEnds
<1>6. CASE Shutdown
  <2>1. op[cur].kind = "shutdown" /\ cur \in Requests /\ UNCHANGED <<answer, since>>
    BY <1>6, Executing DEF Shutdown, IInv, Bookkeeping, TaskAgrees
  <2>2. result' = result \/ result' = [result EXCEPT ![cur] = "ok"]
    BY <1>6 DEF Shutdown
  <2> QED  BY <1>0, <2>1, <2>2 DEF RightFor, TypeOK
<1>7. CASE (Select /\ ~Exit) \/ DropHandle \/ Cancel \/ Radio \/ TurnDial \/ Repeats \/ LineFails \/ UNCHANGED vars
  BY <1>1, <1>7 DEF Select, SeeCancel, TakeRt, SeeClosed, RtEmpty, TakeBg, BgEmpty, Wake, PollOn, Begin, IdleRead, IdleError,
    DropHandle, Cancel, Radio, RadioGet, RadioSet, RadioAi0, TurnDial, Repeats, LineFails, vars, callerVars,
    replyVars
<1> QED  BY <1>2, <1>3, <1>4, <1>5, <1>6, <1>7 DEF Next, Task

\* With a rig that answers within the read timeout and sends nothing unasked, what a
\* call returns is the radio's answer to it and no older than the call, whatever else
\* is called, abandoned, lost or repeated (execute_cat_command, execute_set_command).
THEOREM PromptAnswersAreRight ==
  ASSUME ~LateAnswers, ~AiEnabled
  PROVE  Spec => []AnswersRight
<1>1. Init => Outstanding /\ AnswersRight
  BY DEF Init, Outstanding, Silent, AnswersRight, Correlated, Fresh
<1>2. IInv /\ Outstanding /\ AnswersRight /\ [Next]_vars => Outstanding' /\ AnswersRight'
  BY OutstandingStep, RightStep
<1> QED  BY Invariance, <1>1, <1>2, PTL DEF Spec

-----------------------------------------------------------------------------
(* The handle and its task implement RigLink.                              *)

LinkPhase == [r \in Requests |-> Phase(stage[r])]

LEMMA PhaseOf ==
  /\ Phase("none") = "new" /\ Phase("held") = "pending" /\ Phase("queued") = "pending"
  /\ Phase("running") = "running" /\ Phase("gone") = "over"
BY DEF Phase

\* A request whose stage changes changes its phase, and no other does.
LEMMA PhaseMoves ==
  ASSUME stage \in [Requests -> Stages], NEW r \in Requests, NEW s \in Stages,
         stage' = [stage EXCEPT ![r] = s]
  PROVE  LinkPhase' = [LinkPhase EXCEPT ![r] = Phase(s)]
BY DEF LinkPhase

LEMMA LinkCaller ==
  ASSUME IInv, NEW r \in Requests,
         Call(r) \/ Enqueue(r) \/ Refused(r) \/ CallerTimeout(r) \/ Abandon(r)
  PROVE  [Link!Next]_(Link!linkVars)
<1> USE DEF taskVars, replyVars
<1>0. /\ stage \in [Requests -> Stages] /\ CallerAgrees(r) /\ caller[r] \in CallerStates
      /\ LinkPhase[r] = Phase(stage[r])
  BY DEF IInv, TypeOK, Bookkeeping, LinkPhase
<1>1. CASE Call(r)
  <2>1. /\ stage[r] = "none" /\ stage' = [stage EXCEPT ![r] = "held"]
        /\ result' = result /\ pc' = pc
    BY <1>0, <1>1 DEF Call, CallerAgrees
  <2>2. LinkPhase' = [LinkPhase EXCEPT ![r] = "pending"] /\ LinkPhase[r] = "new"
    BY <1>0, <2>1, PhaseMoves, PhaseOf DEF Stages
  <2>3. Link!Call(r)
    BY <2>1, <2>2 DEF Link!Call, LinkPhase
  <2> QED  BY <2>3 DEF Link!Next
<1>2. CASE Enqueue(r)
  <2>1. /\ stage[r] = "held" /\ stage' = [stage EXCEPT ![r] = "queued"]
        /\ result' = result /\ pc' = pc
    BY <1>0, <1>2 DEF Enqueue, CallerAgrees
  <2>2. LinkPhase' = LinkPhase
    BY <1>0, <2>1, PhaseOf DEF LinkPhase
  <2> QED  BY <2>1, <2>2 DEF Link!linkVars, LinkPhase
<1>3. CASE Refused(r)
  <2>1. /\ stage[r] = "held" /\ stage' = [stage EXCEPT ![r] = "gone"] /\ result[r] = "none"
        /\ result' = [result EXCEPT ![r] = "notconnected"] /\ pc = "exited" /\ pc' = pc
    BY <1>0, <1>3 DEF Refused, CallerAgrees
  <2>2. LinkPhase' = [LinkPhase EXCEPT ![r] = "over"] /\ LinkPhase[r] = "pending"
    BY <1>0, <2>1, PhaseMoves, PhaseOf DEF Stages
  <2>3. Link!Refuse(r)
    BY <2>1, <2>2 DEF Link!Refuse, LinkPhase
  <2> QED  BY <2>3 DEF Link!Next
<1>4. CASE CallerTimeout(r)
  <2>1. /\ stage[r] \in {"queued", "running"} /\ stage' = stage /\ result[r] = "none"
        /\ result' = [result EXCEPT ![r] = "timeout"] /\ pc' = pc
    BY <1>0, <1>4 DEF CallerTimeout, CallerAgrees
  <2>2. LinkPhase' = LinkPhase /\ LinkPhase[r] \in {"pending", "running"}
    BY <1>0, <2>1, PhaseOf DEF LinkPhase
  <2>3. Link!Leave(r)
    BY <2>1, <2>2 DEF Link!Leave, Link!GaveUp, LinkPhase
  <2> QED  BY <2>3 DEF Link!Next
<1>5. CASE Abandon(r)
  <2>1. /\ result[r] = "none" /\ pc' = pc
        /\ result' = [result EXCEPT ![r] = "abandoned"]
    BY <1>0, <1>5 DEF Abandon, CallerAgrees
  <2>2. CASE caller[r] = "sending"
    <3>1. stage[r] = "held" /\ stage' = [stage EXCEPT ![r] = "gone"]
      BY <1>0, <1>5, <2>2 DEF Abandon, CallerAgrees
    <3>2. LinkPhase' = [LinkPhase EXCEPT ![r] = "over"] /\ LinkPhase[r] = "pending"
      BY <1>0, <3>1, PhaseMoves, PhaseOf DEF Stages
    <3>3. Link!Leave(r)
      BY <2>1, <3>2 DEF Link!Leave, Link!GaveUp, LinkPhase
    <3> QED  BY <3>3 DEF Link!Next
  <2>3. CASE caller[r] = "waiting"
    <3>1. stage[r] \in {"queued", "running"} /\ stage' = stage
      BY <1>0, <1>5, <2>3 DEF Abandon, CallerAgrees
    <3>2. LinkPhase' = LinkPhase /\ LinkPhase[r] \in {"pending", "running"}
      BY <1>0, <3>1, PhaseOf DEF LinkPhase
    <3>3. Link!Leave(r)
      BY <2>1, <3>2 DEF Link!Leave, Link!GaveUp, LinkPhase
    <3> QED  BY <3>3 DEF Link!Next
  <2> QED  BY <1>5, <2>2, <2>3 DEF Abandon
<1> QED  BY <1>1, <1>2, <1>3, <1>4, <1>5

\* Steps that move no request and leave the task running, or at its end.
LEMMA LinkStutter ==
  ASSUME stage' = stage, result' = result, pc = "exited" <=> pc' = "exited"
  PROVE  UNCHANGED (Link!linkVars)
BY DEF Link!linkVars

LEMMA LinkBegin ==
  ASSUME IInv, NEW r \in Requests, Begin(r), pc \in Polling, stage[r] = "queued"
  PROVE  [Link!Next]_(Link!linkVars)
<1>1. /\ stage \in [Requests -> Stages] /\ stage' = [stage EXCEPT ![r] = "running"]
      /\ result' = result /\ pc' # "exited"
  BY FirstStepType DEF IInv, TypeOK, Begin
<1>2. LinkPhase' = [LinkPhase EXCEPT ![r] = "running"] /\ LinkPhase[r] = "pending"
  BY <1>1, PhaseMoves, PhaseOf DEF Stages, LinkPhase
<1>3. ASSUME NEW q \in Requests  PROVE  LinkPhase[q] # "running"
  <2>1. stage[q] \in Stages \ {"running"}
    BY <1>1, RequestsAssumption DEF IInv, Placed, Polling
  <2> QED  BY <2>1, PhaseOf DEF LinkPhase, Stages
<1>4. Link!Start(r)
  BY <1>1, <1>2, <1>3 DEF Link!Start, LinkPhase, Polling
<1> QED  BY <1>4 DEF Link!Next

LEMMA LinkDone ==
  ASSUME IInv, pc \notin Resting, pc' # "exited", stage' = [stage EXCEPT ![cur] = "gone"],
         NEW res \in Link!Served,
         IF caller[cur] = "waiting"
         THEN result' = [result EXCEPT ![cur] = res]
         ELSE UNCHANGED result
  PROVE  [Link!Next]_(Link!linkVars)
<1>1. PICK r \in Requests : r = cur /\ stage[r] = "running"
  BY Executing DEF Resting
<1>2. stage \in [Requests -> Stages] /\ CallerAgrees(r) /\ caller[r] \in CallerStates
  BY DEF IInv, TypeOK, Bookkeeping
<1>3. LinkPhase' = [LinkPhase EXCEPT ![r] = "over"] /\ LinkPhase[r] = "running"
  BY <1>1, <1>2, PhaseMoves, PhaseOf DEF Stages, LinkPhase
<1>4. pc # "exited"
  BY DEF Resting
<1>5. result[r] = "none" <=> caller[r] = "waiting"
  BY <1>1, <1>2 DEF CallerAgrees, CallerStates
<1>6. IF result[r] = "none"
      THEN \E v \in Link!Served : result' = [result EXCEPT ![r] = v]
      ELSE UNCHANGED result
  BY <1>1, <1>5
<1>7. Link!Finish(r)
  BY <1>3, <1>4, <1>6 DEF Link!Finish, LinkPhase
<1> QED  BY <1>7 DEF Link!Next

LEMMA LinkExit ==
  ASSUME IInv, Exit
  PROVE  Link!Close
<1> DEFINE lost == {r \in Requests : stage[r] = "queued"}
<1>1. ASSUME NEW r \in Requests
      PROVE  /\ stage[r] \in Stages \ {"running"} /\ caller[r] \in CallerStates
             /\ CallerAgrees(r) /\ LinkPhase[r] = Phase(stage[r])
  BY RequestsAssumption DEF IInv, TypeOK, Placed, Bookkeeping, Exit, LinkPhase
<1>2. pc = "return" /\ pc' = "exited"
  BY DEF Exit
<1>3. \A q \in Requests : LinkPhase[q] # "running"
  BY <1>1, PhaseOf DEF Stages
<1>4. lost \in SUBSET {r \in Requests : LinkPhase[r] = "pending"}
  BY <1>1, PhaseOf
<1>5. LinkPhase' = [r \in Requests |-> IF r \in lost THEN "over" ELSE LinkPhase[r]]
  <2>1. ASSUME NEW r \in Requests
        PROVE  Phase(stage'[r]) = IF r \in lost THEN "over" ELSE LinkPhase[r]
    <3>1. stage'[r] = IF stage[r] = "queued" THEN "gone" ELSE stage[r]
      BY DEF Exit
    <3> QED  BY <1>1, <3>1, PhaseOf
  <2> QED  BY <2>1 DEF LinkPhase
<1>6. result' = [r \in Requests |-> IF r \in lost /\ result[r] = "none"
                                    THEN "notconnected" ELSE result[r]]
  <2>1. ASSUME NEW r \in Requests
        PROVE  caller[r] = "waiting" <=> r \in lost /\ result[r] = "none"
    BY <1>1 DEF CallerAgrees, CallerStates, Stages
  <2> QED  BY <2>1 DEF Exit
<1> HIDE DEF lost
<1> QED  BY <1>2, <1>3, <1>4, <1>5, <1>6 DEF Link!Close, LinkPhase

LEMMA LinkTask ==
  ASSUME IInv, Task
  PROVE  [Link!Next]_(Link!linkVars)
<1> USE DEF taskVars, replyVars
<1>1. CASE Polls \/ Send \/ RecvOther \/ DrainOther
  BY <1>1, PollsMove, LinkStutter DEF Polling, Send, RecvOther, DrainOther
<1>2. CASE TakeRt
  <2>1. rtq \in Seq(Requests) /\ Holds(rtq, "rt", stage, op) /\ rtq # <<>>
    BY <1>2, BothHold DEF IInv, TypeOK, TakeRt
  <2>2. Head(rtq) \in Requests /\ stage[Head(rtq)] = "queued"
    BY <2>1, TailHolds
  <2> QED  BY <1>2, <2>2, LinkBegin DEF TakeRt, Polling
<1>3. CASE TakeBg
  <2>1. bgq \in Seq(Requests) /\ Holds(bgq, "bg", stage, op) /\ bgq # <<>>
    BY <1>3, BothHold DEF IInv, TypeOK, TakeBg
  <2>2. Head(bgq) \in Requests /\ stage[Head(bgq)] = "queued"
    BY <2>1, TailHolds
  <2> QED  BY <1>3, <2>2, LinkBegin DEF TakeBg, Polling
<1>4. CASE Exit
  BY <1>4, LinkExit DEF Link!Next
<1>5. CASE RecvTimeout /\ attempt < Retries
  BY <1>5, LinkStutter DEF RecvTimeout
<1>6. ASSUME NEW res \in Link!Served, NEW f, Reply(res, f), pc \notin Resting
      PROVE  [Link!Next]_(Link!linkVars)
  <2>1. IF caller[cur] = "waiting"
        THEN result' = [result EXCEPT ![cur] = res]
        ELSE UNCHANGED result
    BY <1>6 DEF Reply
  <2>2. stage' = [stage EXCEPT ![cur] = "gone"] /\ pc' # "exited"
    BY <1>6 DEF Reply
  <2> QED  BY <1>6, <2>1, <2>2, LinkDone
<1>7. CASE \/ TransportError \/ RecvAnswer \/ DrainError \/ DrainEnd \/ SetLine
           \/ (RecvTimeout /\ ~(attempt < Retries))
  <2>1. pc \notin Resting
    BY <1>7 DEF TransportError, RecvAnswer, RecvTimeout, DrainError, DrainEnd, SetLine, Resting
  <2>2. \E res \in Link!Served : \E f : Reply(res, f)
    BY <1>7 DEF TransportError, RecvAnswer, RecvTimeout, DrainError, DrainEnd, SetLine, Link!Served
  <2> QED  BY <1>6, <2>1, <2>2
<1>8. CASE Shutdown
  <2>1. pc \notin Resting /\ pc' # "exited" /\ stage' = [stage EXCEPT ![cur] = "gone"]
    BY <1>8 DEF Shutdown, Resting
  <2>2. IF caller[cur] = "waiting"
        THEN result' = [result EXCEPT ![cur] = "ok"]
        ELSE UNCHANGED result
    BY <1>8 DEF Shutdown
  <2> QED  BY <2>1, <2>2, LinkDone DEF Link!Served
<1>9. CASE Select
  BY <1>1, <1>2, <1>3, <1>4, <1>9, SelectIs
<1>10. CASE Execute
  <2>1. CASE RecvTimeout
    <3>1. CASE attempt < Retries
      BY <1>5, <2>1, <3>1
    <3>2. CASE ~(attempt < Retries)
      BY <1>7, <2>1, <3>2
    <3> QED  BY <3>1, <3>2
  <2>2. CASE Send \/ RecvOther \/ DrainOther
    BY <1>1, <2>2
  <2>3. CASE TransportError \/ RecvAnswer \/ DrainError \/ DrainEnd \/ SetLine
    BY <1>7, <2>3
  <2> QED  BY <1>8, <1>10, <2>1, <2>2, <2>3 DEF Execute
<1> QED  BY <1>9, <1>10 DEF Task

\* All of it together: whatever callers, line and radio do, a request is in one
\* place, is sent as often as it may be, and its caller is told the truth about it.
THEOREM RequestsAccounted == Spec => []Accounted
BY RequestsInOnePlace, BookkeepingAgrees, SendsAreLimited, NotConnectedIsUnsent, PTL
  DEF Accounted

\* The refinement: for any number of calls, channel slots and retries, the handle
\* with its task serves calls one at a time and gives each one verdict.
THEOREM Refinement == Spec => ImplementsLink
<1>1. Init => Link!Init
  BY PhaseOf DEF Init, Link!Init
<1>2. IInv /\ [Next]_vars => [Link!Next]_(Link!linkVars)
  <2> SUFFICES ASSUME IInv, [Next]_vars  PROVE  [Link!Next]_(Link!linkVars)
    OBVIOUS
  <2>1. ASSUME NEW r \in Requests,
               Call(r) \/ Enqueue(r) \/ Refused(r) \/ CallerTimeout(r) \/ Abandon(r)
        PROVE  [Link!Next]_(Link!linkVars)
    BY <2>1, LinkCaller
  <2>2. CASE Task
    BY <2>2, LinkTask
  <2>3. CASE Outside \/ UNCHANGED vars
    BY <2>3, OutsideStill, LinkStutter DEF Still
  <2> QED  BY <2>1, <2>2, <2>3 DEF Next, Outside
<1> QED  BY Invariance, <1>1, <1>2, PTL DEF Spec, ImplementsLink, Link!Spec
=============================================================================
