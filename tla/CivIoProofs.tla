---------------------------- MODULE CivIoProofs ----------------------------
(***************************************************************************)
(* Proofs about CivIo, for all values of its constants.                    *)
(*                                                                         *)
(* The argument: a request is in one place at a time, and its place bounds *)
(* what has been written for it.  The bus holds at most one answer, and    *)
(* only while the task reads the one it waits for: so a rig that answers   *)
(* in time is never misunderstood, although no frame says what it answers. *)
(***************************************************************************)
EXTENDS CivIo, Integers, SequenceTheorems, FiniteSetTheorems, TLAPS

-----------------------------------------------------------------------------
(* Queues: what appending and taking the first do to a sequence.           *)

\* What queue q holds is at stage "queued", by st, and was sent to channel ch, by
\* the operations o; it holds nothing twice.
Holds(q, ch, st, o) ==
  /\ \A i \in 1..Len(q) : st[q[i]] = "queued" /\ o[q[i]].chan = ch
  /\ \A i, j \in 1..Len(q) : i # j => q[i] # q[j]

\* A queue without its head still holds each of its requests once.
LEMMA TailHolds ==
  ASSUME NEW R, NEW q \in Seq(R), q # <<>>, NEW ch, NEW st, NEW o, Holds(q, ch, st, o)
  PROVE  /\ Holds(Tail(q), ch, st, o)
         /\ \A i \in 1..Len(Tail(q)) : Tail(q)[i] # Head(q)
         /\ Head(q) \in R /\ st[Head(q)] = "queued" /\ o[Head(q)].chan = ch
         /\ Tail(q) \in Seq(R)
<1>1. /\ Tail(q) \in Seq(R) /\ Len(Tail(q)) = Len(q) - 1 /\ Head(q) = q[1]
      /\ \A i \in 1..Len(Tail(q)) : Tail(q)[i] = q[i + 1]
  BY HeadTailProperties
<1>2. 1 \in 1..Len(q)
  OBVIOUS
<1> QED  BY <1>1, <1>2 DEF Holds

\* A queue holds its requests as long as those keep their stages.
LEMMA HoldsStep ==
  ASSUME NEW R, NEW q \in Seq(R), NEW ch, NEW st, NEW o, Holds(q, ch, st, o), NEW st2,
         \A i \in 1..Len(q) : st2[q[i]] = st[q[i]]
  PROVE  Holds(q, ch, st2, o)
BY DEF Holds

\* A request that is not queued is in no queue: wherever it goes, each queue
\* still holds what it held.
LEMMA OtherMoves ==
  ASSUME NEW R, NEW q \in Seq(R), NEW ch, NEW o, NEW r \in R, NEW s,
         NEW S, NEW st \in [R -> S], st[r] # "queued", Holds(q, ch, st, o)
  PROVE  Holds(q, ch, [st EXCEPT ![r] = s], o)
BY DEF Holds

\* Appending a request that was not queued.
LEMMA AppendHolds ==
  ASSUME NEW R, NEW q \in Seq(R), NEW ch, NEW o, NEW r \in R, o[r].chan = ch,
         NEW S, NEW st \in [R -> S], st[r] # "queued", Holds(q, ch, st, o)
  PROVE  Holds(Append(q, r), ch, [st EXCEPT ![r] = "queued"], o)
<1> DEFINE p == Append(q, r)
           st2 == [st EXCEPT ![r] = "queued"]
<1>1. /\ Len(p) = Len(q) + 1 /\ p[Len(q) + 1] = r
      /\ \A i \in 1..Len(q) : p[i] = q[i]
  OBVIOUS
<1>2. \A i \in 1..Len(q) : q[i] \in R /\ q[i] # r /\ st2[q[i]] = "queued"
  BY DEF Holds
<1>3. st2[r] = "queued"
  OBVIOUS
<1> HIDE DEF p, st2
<1>4. Holds(p, ch, st2, o)
  BY <1>1, <1>2, <1>3 DEF Holds
<1> QED  BY <1>4 DEF p, st2

\* Appending a line leaves the others.
LEMMA AppendLine ==
  ASSUME NEW S, NEW q \in Seq(S), NEW x \in S
  PROVE  /\ Append(q, x) \in Seq(S) /\ Len(q) \in Nat
         /\ Len(Append(q, x)) = Len(q) + 1
         /\ Append(q, x)[Len(q) + 1] = x
         /\ \A i \in 1..Len(q) : Append(q, x)[i] = q[i]
         /\ \A i \in 1..Len(Append(q, x)) : i \in 1..Len(q) \/ i = Len(q) + 1
OBVIOUS

\* Taking the first line leaves the others, one place further ahead.
LEMMA TailLine ==
  ASSUME NEW S, NEW q \in Seq(S), q # <<>>
  PROVE  /\ Head(q) = q[1] /\ 1 \in 1..Len(q) /\ Len(q) \in Nat
         /\ Tail(q) \in Seq(S) /\ Len(Tail(q)) = Len(q) - 1
         /\ \A i \in 1..Len(Tail(q)) : Tail(q)[i] = q[i + 1] /\ i + 1 \in 1..Len(q) /\ i + 1 # 1
         /\ \A i \in 1..Len(q) : i = 1 \/ (i - 1 \in 1..Len(Tail(q)) /\ Tail(q)[i - 1] = q[i])
BY HeadTailProperties

\* How often x is in the sequence q.
Places(q, x) == {i \in 1..Len(q) : q[i] = x}
Copies(q, x) == Cardinality(Places(q, x))

\* The places of x are finitely many, and there are none in the empty sequence.
LEMMA CopiesNat ==
  ASSUME NEW S, NEW q \in Seq(S), NEW x
  PROVE  IsFiniteSet(Places(q, x)) /\ Copies(q, x) \in Nat /\ Copies(<<>>, x) = 0
<1>1. IsFiniteSet(1..Len(q))
  BY FS_Interval
<1>2. IsFiniteSet(Places(q, x))
  BY <1>1, FS_Subset DEF Places
<1>3. Places(<<>>, x) = {}
  BY DEF Places
<1> QED  BY <1>2, <1>3, FS_CardinalityType, FS_EmptySet DEF Copies

\* Appending x adds one copy of x and none of anything else.
LEMMA CopiesAppend ==
  ASSUME NEW S, NEW q \in Seq(S), NEW x \in S, NEW y
  PROVE  Copies(Append(q, x), y) = Copies(q, y) + IF x = y THEN 1 ELSE 0
<1> DEFINE p == Append(q, x)
           n == Len(q) + 1
<1>1. /\ Len(p) = n /\ p[n] = x /\ \A i \in 1..Len(q) : p[i] = q[i]
      /\ 1..Len(p) = 1..Len(q) \cup {n} /\ n \notin 1..Len(q)
  OBVIOUS
<1> HIDE DEF p, n
<1>2. n \notin Places(q, y) /\ IsFiniteSet(Places(q, y)) /\ Copies(q, y) \in Nat
  BY <1>1, CopiesNat DEF Places
<1>3. CASE x = y
  <2>1. Places(p, y) = Places(q, y) \cup {n}
    BY <1>1, <1>3 DEF Places
  <2> QED  BY <1>2, <1>3, <2>1, FS_AddElement DEF Copies, p
<1>4. CASE x # y
  <2>1. Places(p, y) = Places(q, y)
    BY <1>1, <1>4 DEF Places
  <2> QED  BY <1>2, <1>4, <2>1 DEF Copies, p
<1> QED  BY <1>3, <1>4

\* Taking the first takes one copy of it, and of nothing else.
LEMMA CopiesTail ==
  ASSUME NEW S, NEW q \in Seq(S), q # <<>>, NEW y
  PROVE  Copies(q, y) = Copies(Tail(q), y) + IF Head(q) = y THEN 1 ELSE 0
<1> DEFINE t == Tail(q)
           A == Places(t, y)
           B == Places(q, y) \ {1}
           f == [i \in A |-> i + 1]
<1>1. /\ Head(q) = q[1] /\ 1 \in 1..Len(q) /\ t \in Seq(S) /\ Len(t) = Len(q) - 1 /\ Len(q) \in Nat
      /\ \A i \in 1..Len(t) : t[i] = q[i + 1] /\ i + 1 \in 1..Len(q) /\ i + 1 # 1
      /\ \A i \in 1..Len(q) : i = 1 \/ (i - 1 \in 1..Len(t) /\ t[i - 1] = q[i])
  BY TailLine
<1> HIDE DEF t
<1>2. IsFiniteSet(A) /\ IsFiniteSet(Places(q, y)) /\ Copies(q, y) \in Nat /\ Copies(t, y) \in Nat
  BY <1>1, CopiesNat
<1>3. f \in Bijection(A, B)
  <2>1. \A i \in A : i \in Int /\ i + 1 \in B
    BY <1>1 DEF Places
  <2>2. \A j \in B : j \in Int /\ j - 1 \in A
    BY <1>1 DEF Places
  <2>3. f \in [A -> B]
    BY <2>1
  <2>4. \A a, b \in A : f[a] = f[b] => a = b
    BY <2>1
  <2>5. \A j \in B : \E i \in A : f[i] = j
    <3>1. ASSUME NEW j \in B  PROVE f[j - 1] = j /\ j - 1 \in A
      BY <2>2
    <3> QED  BY <3>1
  <2> HIDE DEF f, A, B
  <2> QED  BY <2>3, <2>4, <2>5 DEF Bijection, Injection, Surjection, IsInjective
<1>4. Cardinality(B) = Copies(t, y)
  <2>1. ExistsBijection(A, B)
    BY <1>3 DEF ExistsBijection
  <2> HIDE DEF A, B
  <2>2. Cardinality(B) = Cardinality(A)
    BY <1>2, <2>1, FS_Bijection
  <2> QED  BY <2>2 DEF A, Copies
<1>5. CASE Head(q) = y
  <2>1. 1 \in Places(q, y)
    BY <1>1, <1>5 DEF Places
  <2>2. Cardinality(B) = Copies(q, y) - 1
    BY <1>2, <2>1, FS_RemoveElement DEF Copies
  <2> QED  BY <1>2, <1>4, <1>5, <2>2 DEF t
<1>6. CASE Head(q) # y
  <2>1. 1 \notin Places(q, y)
    BY <1>1, <1>6 DEF Places
  <2>2. B = Places(q, y)
    BY <2>1
  <2>3. Cardinality(B) = Copies(q, y)
    BY <2>2 DEF Copies
  <2> HIDE DEF B
  <2> QED  BY <1>2, <1>4, <1>6, <2>3 DEF t
<1> QED  BY <1>5, <1>6

Busy == {"send", "receive", "line", "shutdown"}

\* The task executes a request when it is busy, and no other; a queue holds what
\* was sent to its channel; what has ended holds nothing.
Placed ==
  /\ pc \in Busy <=> cur # NoOne
  /\ \A r \in Requests : stage[r] = "running" <=> r = cur
  /\ pc \in {"send", "receive"} => op[cur].kind \in {"query", "ack"}
  /\ pc \in {"line", "shutdown"} => op[cur].kind = pc
  /\ Holds(rtq, "rt", stage, op) /\ Holds(bgq, "bg", stage, op)
  /\ pc = "exited" => \A r \in Requests : stage[r] # "queued"

\* What a caller knows of its request; a handle that is gone has no callers.
CallerAgrees(r) ==
  /\ caller[r] = "idle" <=> stage[r] = "none"
  /\ caller[r] = "sending" <=> stage[r] = "held"
  /\ caller[r] = "waiting" => stage[r] \in {"queued", "running"} /\ handle # "dropped"
  /\ caller[r] = "sending" => handle # "dropped"
  /\ result[r] = "none" <=> caller[r] # "done"
  /\ result[r] = "notconnected" => stage[r] = "gone" /\ sent[r] = 0
Bookkeeping == \A r \in Requests : CallerAgrees(r)

\* How often a command may be written.
Limit(r) == IF op[r].kind \in {"query", "ack"} THEN Retries + 1 ELSE 1

\* The loop variable counts the writing of the request that is executed.
Attempts ==
  /\ pc = "select" => attempt = 0
  /\ \A r \in Requests :
       /\ sent[r] <= Limit(r)
       /\ stage[r] \in {"none", "held", "queued"} => sent[r] = 0
       /\ r = cur /\ pc = "send" => sent[r] <= attempt
       /\ r = cur /\ pc = "receive" => sent[r] <= attempt + 1
       /\ r = cur /\ pc \in {"line", "shutdown"} => sent[r] = 0

\* What the operator does is a mishap, and those are bounded.
Bounded == mishaps \in Nat /\ radio <= mishaps /\ mishaps <= MaxMishaps

\* The rig obeys what was written to it, once, and acknowledges what it has obeyed.
Obeying ==
  /\ \A r \in Requests : obeyed[r] + Copies(toRig, r) <= sent[r]
  /\ \A i \in 1..Len(bus) :
       bus[i].what = "ack" => bus[i].cause \in Requests /\ obeyed[bus[i].cause] > 0

\* A frame on the bus that could be taken for an answer.
AnswerAt(i, b) == i \in 1..Len(b) /\ Decisive(b[i])

\* With the place p of the task, the request c, the commands q on their way to the rig
\* and the bus b: there is one command or one answer, of the request that is executed;
\* between two commands there is none.
Clean(p, c, q, b) ==
  /\ p \in {"select", "send", "line", "shutdown"} =>
       q = <<>> /\ \A i \in 1..Len(b) : ~Decisive(b[i])
  /\ p = "receive" =>
       /\ Len(q) <= 1 /\ \A i \in 1..Len(q) : q[i] = c
       /\ \A i \in 1..Len(b) : Decisive(b[i]) => b[i].cause = c /\ q = <<>>
       /\ \A i, j \in 1..Len(b) : Decisive(b[i]) /\ Decisive(b[j]) => i = j

InTime ==
  /\ line = "down" => toRig = <<>> /\ bus = <<>>
  /\ Orderly => Clean(pc, cur, toRig, bus)

\* A verdict on request r has its cause in the answer to r.
DecidedBy(r, res, of) ==
  /\ res = "ok" /\ op[r].kind \in {"query", "ack"} => of = r
  /\ res = "rejected" => of = r \/ ~CollisionRecovery

\* What the callers were told by an orderly rig.
ToldTruly(r) ==
  Orderly => /\ answer[r] \in {NoOne, r} /\ DecidedBy(r, result[r], answer[r])
             /\ op[r].kind = "ack" /\ result[r] = "ok" => obeyed[r] > 0
Truth == \A r \in Requests : ToldTruly(r)

\* The inductive invariant.
IInv == /\ TypeOK /\ Bounded /\ Placed /\ Bookkeeping /\ Attempts
        /\ Obeying /\ InTime /\ Truth

-----------------------------------------------------------------------------
(* What a step of the task means for the requests.                         *)

acctVars == <<op, late, direct, handle, caller, result, answer, stage, rtq, bgq, pc, cur, attempt, sent>>

\* The task stops to take requests.
Stops ==
  /\ pc = "select" /\ pc' = "return"
  /\ UNCHANGED <<op, late, direct, handle, caller, result, answer, stage, rtq, bgq, cur, attempt, sent>>

\* The command is written once more.
Again ==
  /\ pc = "receive" /\ pc' = "send" /\ attempt < Retries /\ attempt' = attempt + 1
  /\ UNCHANGED <<op, late, direct, handle, caller, result, answer, stage, rtq, bgq, cur, sent>>

\* The request is done; who still waits for it is told res, by the answer to the
\* command of, or without an answer.
Ends(res, of) ==
  /\ pc \in Busy /\ pc' \in {"select", "return"} /\ cur' = NoOne
  /\ attempt' \in {0, attempt} /\ (pc' = "select" => attempt' = 0)
  /\ stage' = [stage EXCEPT ![cur] = "gone"]
  /\ IF caller[cur] = "waiting"
     THEN /\ caller' = [caller EXCEPT ![cur] = "done"]
          /\ result' = [result EXCEPT ![cur] = res]
          /\ \/ answer' = [answer EXCEPT ![cur] = of]
             \/ answer' = answer /\ pc = "shutdown"
     ELSE UNCHANGED <<caller, result, answer>>
  /\ \/ sent' = sent
     \/ pc = "line" /\ sent' = [sent EXCEPT ![cur] = @ + 1]
  /\ UNCHANGED <<op, late, direct, handle, rtq, bgq>>

Sends ==
  /\ pc = "send" /\ pc' = "receive" /\ sent' = [sent EXCEPT ![cur] = @ + 1]
  /\ UNCHANGED <<op, late, direct, handle, caller, result, answer, stage, rtq, bgq, cur, attempt>>

\* A reply ends the request.
LEMMA ReplyEnds ==
  ASSUME pc \in Busy, NEW res, NEW of, Reply(res, of),
         UNCHANGED <<op, late, direct, handle, rtq, bgq>>,
         sent' = sent \/ (pc = "line" /\ sent' = [sent EXCEPT ![cur] = @ + 1])
  PROVE  Ends(res, of)
BY DEF Reply, Ends

\* So does the last attempt; the others lead to one more.
LEMMA NextMoves ==
  ASSUME pc = "receive", NextAttempt, UNCHANGED <<op, late, direct, handle, rtq, bgq, sent>>
  PROVE  Again \/ Ends("timeout", NoOne)
<1>1. CASE attempt < Retries
  BY <1>1 DEF NextAttempt, Again, replyVars
<1>2. CASE ~(attempt < Retries)
  BY <1>2, ReplyEnds DEF NextAttempt, Busy
<1> QED  BY <1>1, <1>2

\* A decisive frame ends the request with its own answer, or leads to one more
\* attempt.
LEMMA DecideMoves ==
  ASSUME pc = "receive", NEW f, Decide(f), UNCHANGED <<op, late, direct, handle, rtq, bgq, sent>>
  PROVE  \/ Again
         \/ \E res \in {"timeout", "rejected"} :
              Ends(res, NoOne) /\ (res = "rejected" => ~CollisionRecovery)
         \/ Ends("rejected", f.cause)
         \/ Ends("ok", f.cause) /\ (op[cur].kind = "query" \/ f.what = "ack")
<1> USE DEF Busy
<1>1. CASE f.what = "collision"
  <2>1. CASE CollisionRecovery
    BY <1>1, <2>1, NextMoves DEF Decide
  <2>2. CASE ~CollisionRecovery
    BY <1>1, <2>2, ReplyEnds DEF Decide
  <2> QED  BY <2>1, <2>2
<1>2. CASE f.what = "nak"
  BY <1>2, ReplyEnds DEF Decide
<1>3. CASE f.what \notin {"collision", "nak"}
  <2>1. Reply(IF op[cur].kind = "query" \/ f.what = "ack" THEN "ok" ELSE "rejected", f.cause)
    BY <1>3 DEF Decide
  <2>2. CASE op[cur].kind = "query" \/ f.what = "ack"
    BY <2>1, <2>2, ReplyEnds
  <2>3. CASE ~(op[cur].kind = "query" \/ f.what = "ack")
    BY <2>1, <2>3, ReplyEnds
  <2> QED  BY <2>2, <2>3
<1> QED  BY <1>1, <1>2, <1>3

Told4 == {"ok", "rejected", "timeout", "broken"}

\* Every step of the task is one of these.
LEMMA TaskMoves ==
  ASSUME TypeOK, Task
  PROVE  \/ TakeRt \/ TakeBg \/ Stops \/ Aborted \/ Exit \/ Sends \/ Again
         \/ \E res \in Told4, of \in Requests \cup {NoOne} : Ends(res, of)
         \/ UNCHANGED acctVars
<1> USE DEF callerVars, taskVars, replyVars, Told4, Busy
<1>1. CASE SeeCancel \/ IdleError
  BY <1>1 DEF SeeCancel, IdleError, Idle, Stops
<1>2. CASE IdleRead \/ ReceiveOther
  BY <1>2 DEF IdleRead, ReceiveOther, acctVars
<1>3. CASE Send
  BY <1>3 DEF Send, Sends
<1>4. CASE TransportError
  BY <1>4, ReplyEnds DEF TransportError
<1>5. CASE Receive
  <2>1. PICK n \in 1..Len(bus) : \E i \in 1..n : Decide(bus[i])
    BY <1>5 DEF Receive
  <2>2. PICK i \in 1..n : Decide(bus[i])
    BY <2>1
  <2>3. bus[i] \in Frames
    BY <2>1, <2>2 DEF TypeOK
  <2>4. bus[i].cause \in Requests \cup {NoOne}
    BY <2>3 DEF Frames
  <2>5. pc = "receive" /\ UNCHANGED <<op, late, direct, handle, rtq, bgq, sent>>
    BY <1>5 DEF Receive
  <2> QED  BY <2>2, <2>4, <2>5, DecideMoves
<1>6. CASE ReceiveTimeout
  <2>1. pc = "receive" /\ UNCHANGED <<op, late, direct, handle, rtq, bgq, sent>> /\ NextAttempt
    BY <1>6 DEF ReceiveTimeout
  <2> QED  BY <2>1, NextMoves
<1>7. CASE SetLine
  <2>1. CASE line = "up"
    BY <1>7, <2>1, ReplyEnds DEF SetLine
  <2>2. CASE line # "up"
    BY <1>7, <2>2, ReplyEnds DEF SetLine
  <2> QED  BY <2>1, <2>2
<1>8. CASE Shutdown
  <2>1. Ends("ok", NoOne)
    BY <1>8 DEF Shutdown, Ends
  <2> QED  BY <2>1
<1> QED  BY <1>1, <1>2, <1>3, <1>4, <1>5, <1>6, <1>7, <1>8 DEF Task

-----------------------------------------------------------------------------
(* The types of what requests and callers need.                            *)

\* The part of TypeOK that is about requests.
AcctTypes ==
  /\ op \in [Requests -> Ops] /\ {late, direct} \subseteq BOOLEAN /\ handle \in {"open", "consumed", "dropped"}
  /\ caller \in [Requests -> {"idle", "sending", "waiting", "done"}]
  /\ result \in [Requests -> Results] /\ answer \in [Requests -> Requests \cup {NoOne}]
  /\ stage \in [Requests -> Stages] /\ rtq \in Seq(Requests) /\ bgq \in Seq(Requests)
  /\ pc \in {"select", "send", "receive", "line", "shutdown", "return", "exited"}
  /\ cur \in Requests \cup {NoOne} /\ attempt \in 0..Retries /\ sent \in [Requests -> Nat]

\* A busy task has a request in its hands.
LEMMA Executing ==
  ASSUME AcctTypes, Placed, pc \in Busy
  PROVE  cur \in Requests /\ stage[cur] = "running"
BY DEF AcctTypes, Placed

\* The steps of a caller keep the types.
LEMMA CallerType ==
  ASSUME AcctTypes, NEW r \in Requests,
         Call(r) \/ Enqueue(r) \/ Refused(r) \/ CallerTimeout(r) \/ Abandon(r)
  PROVE  AcctTypes'
<1> USE DEF AcctTypes, callerVars, taskVars, replyVars, Stages, Results
<1>1. CASE Call(r)
  BY <1>1 DEF Call
<1>2. CASE Enqueue(r)
  <2>1. rtq' \in Seq(Requests) /\ bgq' \in Seq(Requests)
    <3>1. CASE rtq' = Append(rtq, r) /\ bgq' = bgq
      BY <3>1, AppendLine
    <3>2. CASE bgq' = Append(bgq, r) /\ rtq' = rtq
      BY <3>2, AppendLine
    <3> QED  BY <1>2, <3>1, <3>2 DEF Enqueue
  <2> QED  BY <1>2, <2>1 DEF Enqueue
<1>3. CASE Refused(r)
  BY <1>3 DEF Refused
<1>4. CASE CallerTimeout(r)
  BY <1>4 DEF CallerTimeout
<1>5. CASE Abandon(r)
  BY <1>5 DEF Abandon
<1> QED  BY <1>1, <1>2, <1>3, <1>4, <1>5

\* Taking a request keeps the types.
LEMMA BeginType ==
  ASSUME AcctTypes, NEW r \in Requests, Begin(r), rtq' \in Seq(Requests), bgq' \in Seq(Requests)
  PROVE  AcctTypes'
<1>1. op[r].kind \in {"query", "ack", "line", "shutdown"}
  BY DEF AcctTypes, Ops
<1>2. pc' \in {"send", "line", "shutdown"}
  BY <1>1 DEF Begin
<1> QED  BY <1>2 DEF AcctTypes, Begin, callerVars, Stages

\* The steps of the task keep the types.
LEMMA TaskType ==
  ASSUME AcctTypes, TypeOK, Placed, Task
  PROVE  AcctTypes'
<1> USE CivIoAssumption DEF AcctTypes, callerVars
<1>1. CASE TakeRt
  <2>1. Head(rtq) \in Requests /\ Tail(rtq) \in Seq(Requests)
    BY <1>1, TailHolds DEF TakeRt, Placed
  <2> QED  BY <1>1, <2>1, BeginType DEF TakeRt
<1>2. CASE TakeBg
  <2>1. Head(bgq) \in Requests /\ Tail(bgq) \in Seq(Requests)
    BY <1>2, TailHolds DEF TakeBg, Placed
  <2> QED  BY <1>2, <2>1, BeginType DEF TakeBg
<1>3. CASE Stops
  BY <1>3 DEF Stops
<1>4. CASE Aborted
  BY <1>4 DEF Aborted, Stages
<1>5. CASE Exit
  BY <1>5 DEF Exit, Stages, Results
<1>6. CASE Sends
  BY <1>6, Executing DEF Sends, Busy
<1>7. CASE Again
  BY <1>7 DEF Again
<1>8. ASSUME NEW res \in Told4, NEW of \in Requests \cup {NoOne}, Ends(res, of)
      PROVE  AcctTypes'
  <2>1. cur \in Requests
    BY <1>8, Executing DEF Ends
  <2>2. sent' \in [Requests -> Nat] /\ attempt' \in 0..Retries
    BY <1>8, <2>1 DEF Ends
  <2>3. stage' \in [Requests -> Stages]
    BY <1>8, <2>1 DEF Ends, Stages
  <2>4. /\ caller' \in [Requests -> {"idle", "sending", "waiting", "done"}]
        /\ result' \in [Requests -> Results] /\ answer' \in [Requests -> Requests \cup {NoOne}]
    <3>1. res \in Results
      BY DEF Results, Told4
    <3>2. CASE caller[cur] = "waiting"
      <4>1. answer' \in [Requests -> Requests \cup {NoOne}]
        BY <1>8, <2>1, <3>2 DEF Ends
      <4>2. result' \in [Requests -> Results]
        BY <1>8, <2>1, <3>1, <3>2 DEF Ends
      <4>3. caller' \in [Requests -> {"idle", "sending", "waiting", "done"}]
        BY <1>8, <2>1, <3>2, ZenonT(30) DEF Ends
      <4> QED  BY <4>1, <4>2, <4>3
    <3>3. CASE caller[cur] # "waiting"
      BY <1>8, <3>3 DEF Ends
    <3> QED  BY <3>2, <3>3
  <2> QED  BY <1>8, <2>2, <2>3, <2>4 DEF Ends
<1>9. CASE UNCHANGED acctVars
  BY <1>9 DEF acctVars
<1> QED  BY <1>1, <1>2, <1>3, <1>4, <1>5, <1>6, <1>7, <1>8, <1>9, TaskMoves

-----------------------------------------------------------------------------
(* Where each request is.                                                  *)

\* The steps of a caller keep Placed: its request is in no hands but its own.
LEMMA CallerPlaced ==
  ASSUME AcctTypes, Placed, Bookkeeping, NEW r \in Requests,
         Call(r) \/ Enqueue(r) \/ Refused(r) \/ CallerTimeout(r) \/ Abandon(r)
  PROVE  Placed'
<1> USE CivIoAssumption DEF callerVars, taskVars, replyVars
<1>0. stage \in [Requests -> Stages] /\ rtq \in Seq(Requests) /\ bgq \in Seq(Requests)
  BY DEF AcctTypes
<1>1. UNCHANGED <<op, pc, cur>>
  BY DEF Call, Enqueue, Refused, CallerTimeout, Abandon
<1>2. CASE stage' = stage /\ rtq' = rtq /\ bgq' = bgq
  BY <1>1, <1>2 DEF Placed
<1>3. ASSUME rtq' = rtq, bgq' = bgq, stage[r] \in {"none", "held"}, NEW s \in {"held", "gone"},
             stage' = [stage EXCEPT ![r] = s]
      PROVE  Placed'
  <2>1. Holds(rtq', "rt", stage', op') /\ Holds(bgq', "bg", stage', op')
    BY <1>0, <1>1, <1>3, OtherMoves DEF Placed
  <2>2. \A q \in Requests : stage'[q] = "running" <=> q = cur'
    BY <1>0, <1>1, <1>3 DEF Placed
  <2>3. pc' = "exited" => \A q \in Requests : stage'[q] # "queued"
    BY <1>0, <1>1, <1>3 DEF Placed
  <2> QED  BY <1>1, <2>1, <2>2, <2>3 DEF Placed
<1>4. CASE Call(r)
  BY <1>3, <1>4 DEF Call, Bookkeeping, CallerAgrees
<1>5. CASE Enqueue(r)
  <2>1. stage[r] = "held" /\ stage' = [stage EXCEPT ![r] = "queued"] /\ pc # "exited"
    BY <1>5 DEF Enqueue, Bookkeeping, CallerAgrees
  <2>2. Holds(rtq', "rt", stage', op') /\ Holds(bgq', "bg", stage', op')
    <3>1. CASE op[r].chan = "rt" /\ rtq' = Append(rtq, r) /\ bgq' = bgq
      BY <1>0, <1>1, <2>1, <3>1, AppendHolds, OtherMoves DEF Placed
    <3>2. CASE op[r].chan = "bg" /\ bgq' = Append(bgq, r) /\ rtq' = rtq
      BY <1>0, <1>1, <2>1, <3>2, AppendHolds, OtherMoves DEF Placed
    <3> QED  BY <1>5, <3>1, <3>2 DEF Enqueue
  <2>3. \A q \in Requests : stage'[q] = "running" <=> q = cur'
    BY <1>0, <1>1, <2>1 DEF Placed
  <2> QED  BY <1>1, <2>1, <2>2, <2>3 DEF Placed
<1>6. CASE Refused(r)
  BY <1>3, <1>6 DEF Refused, Bookkeeping, CallerAgrees
<1>7. CASE CallerTimeout(r)
  BY <1>2, <1>7 DEF CallerTimeout
<1>8. CASE Abandon(r)
  <2>1. CASE caller[r] = "sending"
    BY <1>3, <1>8, <2>1 DEF Abandon, Bookkeeping, CallerAgrees
  <2>2. CASE caller[r] # "sending"
    BY <1>2, <1>8, <2>2 DEF Abandon
  <2> QED  BY <2>1, <2>2
<1> QED  BY <1>4, <1>5, <1>6, <1>7, <1>8

\* Taking the first request of a queue.
LEMMA BeginPlaced ==
  ASSUME AcctTypes, Placed, pc = "select", NEW r \in Requests, Begin(r), stage[r] = "queued",
         rtq' \in Seq(Requests), bgq' \in Seq(Requests),
         Holds(rtq', "rt", stage, op), Holds(bgq', "bg", stage, op),
         \A i \in 1..Len(rtq') : rtq'[i] # r, \A i \in 1..Len(bgq') : bgq'[i] # r
  PROVE  Placed'
<1>1. /\ cur' = r /\ stage' = [stage EXCEPT ![r] = "running"] /\ op' = op /\ cur = NoOne
      /\ stage \in [Requests -> Stages] /\ r # NoOne
  BY CivIoAssumption DEF Begin, callerVars, AcctTypes, Placed, Busy
<1>2. /\ op[r].kind \in {"query", "ack", "line", "shutdown"}
      /\ pc' = IF op[r].kind \in {"query", "ack"} THEN "send" ELSE op[r].kind
  BY DEF Begin, AcctTypes, Ops
<1>3. /\ pc' \in Busy
      /\ pc' \in {"send", "receive"} => op'[cur'].kind \in {"query", "ack"}
      /\ pc' \in {"line", "shutdown"} => op'[cur'].kind = pc'
  BY <1>1, <1>2 DEF Busy
<1>4. \A q \in Requests : stage'[q] = "running" <=> q = cur'
  BY <1>1, CivIoAssumption DEF Placed
<1>5. Holds(rtq', "rt", stage', op') /\ Holds(bgq', "bg", stage', op')
  <2>1. \A i \in 1..Len(rtq') : stage'[rtq'[i]] = stage[rtq'[i]]
    BY <1>1
  <2>2. \A i \in 1..Len(bgq') : stage'[bgq'[i]] = stage[bgq'[i]]
    BY <1>1
  <2> QED  BY <1>1, <2>1, <2>2, HoldsStep, ZenonT(30)
<1> QED  BY <1>1, <1>3, <1>4, <1>5 DEF Placed, Busy

\* The steps of the task keep Placed.
LEMMA TaskPlaced ==
  ASSUME AcctTypes, TypeOK, Placed, Task
  PROVE  Placed'
<1> USE CivIoAssumption DEF callerVars, taskVars, replyVars
<1>0. stage \in [Requests -> Stages] /\ rtq \in Seq(Requests) /\ bgq \in Seq(Requests)
  BY DEF AcctTypes
<1>1. CASE TakeRt
  <2> DEFINE r == Head(rtq)
  <2>1. /\ pc = "select" /\ rtq # <<>> /\ Begin(r) /\ rtq' = Tail(rtq) /\ bgq' = bgq
    BY <1>1 DEF TakeRt
  <2>2. /\ Holds(Tail(rtq), "rt", stage, op) /\ r \in Requests /\ stage[r] = "queued"
        /\ op[r].chan = "rt" /\ Tail(rtq) \in Seq(Requests)
        /\ \A i \in 1..Len(Tail(rtq)) : Tail(rtq)[i] # r
    BY <1>0, <2>1, TailHolds DEF Placed
  <2>3. Holds(bgq, "bg", stage, op) /\ \A i \in 1..Len(bgq) : bgq[i] # r
    BY <2>2 DEF Placed, Holds
  <2> HIDE DEF r
  <2> QED  BY <1>0, <2>1, <2>2, <2>3, BeginPlaced
<1>2. CASE TakeBg
  <2> DEFINE r == Head(bgq)
  <2>1. /\ pc = "select" /\ bgq # <<>> /\ Begin(r) /\ bgq' = Tail(bgq) /\ rtq' = rtq
    BY <1>2 DEF TakeBg
  <2>2. /\ Holds(Tail(bgq), "bg", stage, op) /\ r \in Requests /\ stage[r] = "queued"
        /\ op[r].chan = "bg" /\ Tail(bgq) \in Seq(Requests)
        /\ \A i \in 1..Len(Tail(bgq)) : Tail(bgq)[i] # r
    BY <1>0, <2>1, TailHolds DEF Placed
  <2>3. Holds(rtq, "rt", stage, op) /\ \A i \in 1..Len(rtq) : rtq[i] # r
    BY <2>2 DEF Placed, Holds
  <2> HIDE DEF r
  <2> QED  BY <1>0, <2>1, <2>2, <2>3, BeginPlaced
<1>3. CASE Stops \/ UNCHANGED acctVars
  BY <1>3 DEF Stops, acctVars, Placed, Busy
<1>4. CASE Aborted
  <2>1. /\ UNCHANGED <<op, rtq, bgq>> /\ pc' = "return" /\ cur' = NoOne
        /\ stage' = [r \in Requests |-> IF r = cur THEN "gone" ELSE stage[r]]
    BY <1>4 DEF Aborted
  <2>2. \A r \in Requests : stage'[r] # "running"
    BY <2>1 DEF Placed
  <2>3. \A r \in Requests : stage[r] = "queued" => stage'[r] = "queued"
    BY <2>1 DEF Placed
  <2>4. Holds(rtq', "rt", stage', op') /\ Holds(bgq', "bg", stage', op')
    BY <1>0, <2>1, <2>3 DEF Placed, Holds
  <2> QED  BY <2>1, <2>2, <2>4 DEF Placed, Busy
<1>5. CASE Exit
  <2>1. /\ rtq' = <<>> /\ bgq' = <<>> /\ pc' = "exited" /\ cur' = cur /\ op' = op /\ pc = "return"
        /\ stage' = [r \in Requests |-> IF stage[r] = "queued" THEN "gone" ELSE stage[r]]
    BY <1>5 DEF Exit
  <2>2. cur = NoOne /\ \A r \in Requests : stage'[r] # "queued" /\ stage'[r] # "running"
    BY <2>1 DEF Placed, Busy
  <2>3. Holds(rtq', "rt", stage', op') /\ Holds(bgq', "bg", stage', op')
    BY <2>1 DEF Holds
  <2> QED  BY <2>1, <2>2, <2>3 DEF Placed, Busy
<1>6. CASE Sends \/ Again
  BY <1>6 DEF Sends, Again, Placed, Busy
<1>7. ASSUME NEW res, NEW of, Ends(res, of)
      PROVE  Placed'
  <2>1. /\ cur \in Requests /\ stage[cur] = "running" /\ stage' = [stage EXCEPT ![cur] = "gone"]
        /\ pc' \notin Busy /\ pc' # "exited" /\ cur' = NoOne /\ UNCHANGED <<op, rtq, bgq>>
    BY <1>7, Executing DEF Ends, Busy
  <2>2. \A r \in Requests : stage'[r] # "running"
    BY <1>0, <2>1 DEF Placed
  <2>3. Holds(rtq', "rt", stage', op') /\ Holds(bgq', "bg", stage', op')
    BY <1>0, <2>1, OtherMoves DEF Placed
  <2> QED  BY <2>1, <2>2, <2>3 DEF Placed, Busy
<1> QED  BY <1>1, <1>2, <1>3, <1>4, <1>5, <1>6, <1>7, TaskMoves

-----------------------------------------------------------------------------
(* What callers know, and how often a command is written.                  *)

\* The steps of a caller keep Bookkeeping and Attempts.
LEMMA CallerBooks ==
  ASSUME AcctTypes, Placed, Bookkeeping, Attempts, NEW r \in Requests,
         Call(r) \/ Enqueue(r) \/ Refused(r) \/ CallerTimeout(r) \/ Abandon(r)
  PROVE  Bookkeeping' /\ Attempts'
<1> USE DEF AcctTypes, callerVars, taskVars, replyVars
<1>1. UNCHANGED <<op, pc, cur, attempt, sent>>
  BY DEF Call, Enqueue, Refused, CallerTimeout, Abandon
<1>2. /\ \A q \in Requests : q # r =>
           caller'[q] = caller[q] /\ stage'[q] = stage[q] /\ result'[q] = result[q]
      /\ handle' = handle \/ Call(r)
  BY DEF Call, Enqueue, Refused, CallerTimeout, Abandon
<1>3. handle' = "dropped" => handle = "dropped"
  BY <1>2 DEF Call
<1>4. ASSUME NEW q \in Requests, q # r  PROVE CallerAgrees(q)'
  BY <1>1, <1>2, <1>3, <1>4 DEF Bookkeeping, CallerAgrees
<1>5. /\ caller[r] # "done"
      /\ stage'[r] \in {"none", "held", "queued"} => stage[r] \in {"none", "held", "queued"}
  BY DEF Call, Enqueue, Refused, CallerTimeout, Abandon, Bookkeeping, CallerAgrees
<1>6. CallerAgrees(r)'
  <2> USE DEF Bookkeeping, CallerAgrees
  <2>1. CASE Call(r)
    BY <2>1 DEF Call
  <2>2. CASE Enqueue(r)
    BY <2>2 DEF Enqueue
  <2>3. CASE Refused(r)
    BY <2>3 DEF Refused, Attempts
  <2>4. CASE CallerTimeout(r)
    BY <2>4 DEF CallerTimeout
  <2>5. CASE Abandon(r)
    BY <2>5 DEF Abandon
  <2> QED  BY <2>1, <2>2, <2>3, <2>4, <2>5
<1>7. Bookkeeping'
  BY <1>4, <1>6 DEF Bookkeeping
<1>8. Attempts'
  BY <1>1, <1>2, <1>5 DEF Attempts, Limit
<1> QED  BY <1>7, <1>8

\* So do the steps of the task.
LEMMA TaskBooks ==
  ASSUME AcctTypes, TypeOK, Placed, Bookkeeping, Attempts, Task
  PROVE  Bookkeeping' /\ Attempts'
<1> USE CivIoAssumption DEF AcctTypes, callerVars, taskVars, replyVars
<1>1. ASSUME NEW r \in Requests, pc = "select", stage[r] = "queued", Begin(r)
      PROVE  Bookkeeping' /\ Attempts'
  <2>1. /\ cur' = r /\ stage' = [stage EXCEPT ![r] = "running"]
        /\ UNCHANGED <<op, handle, caller, result, attempt, sent>>
        /\ pc' # "select" /\ pc' # "receive"
    <3>1. op[r].kind \in {"query", "ack", "line", "shutdown"}
      BY DEF Ops
    <3> QED  BY <1>1, <3>1 DEF Begin
  <2>2. Bookkeeping'
    BY <1>1, <2>1 DEF Bookkeeping, CallerAgrees
  <2>3. sent[r] = 0
    BY <1>1 DEF Attempts
  <2>4. Attempts'
    BY <2>1, <2>3 DEF Attempts, Limit
  <2> QED  BY <2>2, <2>4
<1>2. CASE TakeRt
  <2>1. Head(rtq) \in Requests /\ stage[Head(rtq)] = "queued"
    BY <1>2, TailHolds DEF TakeRt, Placed
  <2> QED  BY <1>1, <1>2, <2>1 DEF TakeRt
<1>3. CASE TakeBg
  <2>1. Head(bgq) \in Requests /\ stage[Head(bgq)] = "queued"
    BY <1>3, TailHolds DEF TakeBg, Placed
  <2> QED  BY <1>1, <1>3, <2>1 DEF TakeBg
<1>4. CASE Stops \/ UNCHANGED acctVars
  BY <1>4 DEF Stops, acctVars, Bookkeeping, CallerAgrees, Attempts, Limit
<1>5. CASE Aborted
  <2>1. /\ UNCHANGED <<op, handle, caller, result, sent>> /\ handle = "dropped"
        /\ pc' = "return" /\ cur' = NoOne
        /\ \A r \in Requests : stage'[r] = IF r = cur THEN "gone" ELSE stage[r]
    BY <1>5 DEF Aborted
  <2>2. \A r \in Requests : r = cur => stage[r] = "running"
    BY DEF Placed
  <2>3. Bookkeeping'
    BY <2>1, <2>2 DEF Bookkeeping, CallerAgrees
  <2>4. Attempts'
    BY <2>1, <2>2 DEF Attempts, Limit
  <2> QED  BY <2>3, <2>4
<1>6. CASE Exit
  <2>1. /\ UNCHANGED <<op, handle, cur, attempt, sent>> /\ pc = "return" /\ pc' = "exited"
        /\ \A r \in Requests :
             /\ stage'[r] = IF stage[r] = "queued" THEN "gone" ELSE stage[r]
             /\ caller'[r] = IF caller[r] = "waiting" THEN "done" ELSE caller[r]
             /\ result'[r] = IF caller[r] = "waiting" THEN "notconnected" ELSE result[r]
    BY <1>6 DEF Exit
  <2>2. \A r \in Requests : stage[r] # "running"
    BY <2>1 DEF Placed, Busy
  <2>3. \A r \in Requests : stage[r] = "queued" => sent[r] = 0
    BY DEF Attempts
  <2>4. Bookkeeping'
    BY <2>1, <2>2, <2>3 DEF Bookkeeping, CallerAgrees
  <2>5. Attempts'
    BY <2>1 DEF Attempts, Limit
  <2> QED  BY <2>4, <2>5
<1>7. CASE Sends
  <2>1. cur \in Requests /\ stage[cur] = "running"
    BY <1>7, Executing DEF Sends, Busy
  <2>2. op[cur].kind \in {"query", "ack"}
    BY <1>7 DEF Sends, Placed
  <2>3. /\ UNCHANGED <<op, handle, caller, result, stage, cur, attempt>> /\ pc = "send" /\ pc' = "receive"
        /\ \A r \in Requests : sent'[r] = IF r = cur THEN sent[r] + 1 ELSE sent[r]
    BY <1>7 DEF Sends
  <2>4. Bookkeeping'
    BY <2>1, <2>3 DEF Bookkeeping, CallerAgrees
  <2>5. ASSUME NEW r \in Requests  PROVE sent'[r] <= Limit(r)
    <3>1. CASE r = cur
      <4>1. sent[r] <= attempt /\ Limit(r) = Retries + 1
        BY <2>2, <2>3, <3>1 DEF Attempts, Limit
      <4>2. sent[r] \in Nat /\ attempt \in 0..Retries
        OBVIOUS
      <4> QED  BY <2>3, <3>1, <4>1, <4>2
    <3>2. CASE r # cur
      BY <2>3, <3>2 DEF Attempts
    <3> QED  BY <3>1, <3>2
  <2>6. ASSUME NEW r \in Requests, r = cur  PROVE sent'[r] <= attempt + 1
    BY <2>3, <2>6 DEF Attempts
  <2> QED  BY <2>1, <2>3, <2>4, <2>5, <2>6 DEF Attempts, Limit
<1>8. CASE Again
  <2>1. Bookkeeping'
    BY <1>8 DEF Again, Bookkeeping, CallerAgrees
  <2>2. Attempts'
    BY <1>8 DEF Again, Attempts, Limit
  <2> QED  BY <2>1, <2>2
<1>9. ASSUME NEW res \in Told4, NEW of, Ends(res, of)
      PROVE  Bookkeeping' /\ Attempts'
  <2>1. cur \in Requests /\ stage[cur] = "running" /\ caller[cur] \in {"waiting", "done"}
    BY <1>9, Executing DEF Ends, Bookkeeping, CallerAgrees
  <2>2. /\ UNCHANGED <<op, handle>> /\ pc' \in {"select", "return"} /\ cur' = NoOne
        /\ pc' = "select" => attempt' = 0
        /\ stage' = [stage EXCEPT ![cur] = "gone"]
        /\ \A r \in Requests : r # cur => caller'[r] = caller[r] /\ result'[r] = result[r]
        /\ \A r \in Requests : r # cur => sent'[r] = sent[r]
    BY <1>9 DEF Ends
  <2>3. Bookkeeping'
    <3>1. CASE caller[cur] = "waiting"
      <4>1. caller'[cur] = "done" /\ result'[cur] \notin {"none", "notconnected"}
        BY <1>9, <2>1, <3>1 DEF Ends, Told4
      <4> QED  BY <2>1, <2>2, <4>1 DEF Bookkeeping, CallerAgrees
    <3>2. CASE caller[cur] = "done"
      <4>1. caller'[cur] = "done" /\ result'[cur] = result[cur]
        BY <1>9, <3>2 DEF Ends
      <4> QED  BY <2>1, <2>2, <3>2, <4>1 DEF Bookkeeping, CallerAgrees
    <3> QED  BY <2>1, <3>1, <3>2
  <2>5. sent'[cur] <= Limit(cur)
    <3>1. CASE sent' = sent
      BY <2>1, <3>1 DEF Attempts
    <3>2. CASE pc = "line" /\ sent' = [sent EXCEPT ![cur] = @ + 1]
      <4>1. sent'[cur] = 1 /\ Limit(cur) = 1
        BY <2>1, <3>2 DEF Attempts, Limit, Placed
      <4> QED  BY <4>1
    <3> QED  BY <1>9, <3>1, <3>2 DEF Ends
  <2>6. Attempts'
    BY <2>1, <2>2, <2>5 DEF Attempts, Limit
  <2> QED  BY <2>3, <2>6
<1> QED  BY <1>2, <1>3, <1>4, <1>5, <1>6, <1>7, <1>8, <1>9, TaskMoves

-----------------------------------------------------------------------------
(* The bus.                                                                *)

CallerStep(r) == Call(r) \/ Enqueue(r) \/ Refused(r) \/ CallerTimeout(r) \/ Abandon(r)

\* The part of TypeOK that is about rig, bus and application.
WireTypes ==
  /\ line \in {"up", "down"} /\ toRig \in Seq(Requests) /\ bus \in Seq(Frames)
  /\ obeyed \in [Requests -> Nat] /\ radio \in 0..MaxMishaps /\ lastEvent \in 0..MaxMishaps
  /\ cancel \in BOOLEAN /\ gone \in BOOLEAN

\* TypeOK in two halves.
LEMMA TypesAre == TypeOK <=> AcctTypes /\ WireTypes
BY DEF TypeOK, AcctTypes, WireTypes

\* Steps that leave the bus alone.
Quiet ==
  \/ \E r \in Requests : CallerStep(r)
  \/ DropRig \/ SeeCancel \/ TakeRt \/ TakeBg \/ IdleError \/ Aborted \/ Exit
  \/ TransportError \/ SetLine \/ Shutdown

\* They leave all of it, but who may still call.
LEMMA QuietFrame ==
  ASSUME WireTypes, Quiet
  PROVE  /\ UNCHANGED <<line, toRig, bus, mishaps, obeyed, radio, lastEvent>>
         /\ cancel' \in BOOLEAN /\ gone' \in BOOLEAN
<1> USE DEF WireTypes, wireVars, radioVars, eventVars
<1>1. CASE \E r \in Requests : CallerStep(r)
  BY <1>1 DEF CallerStep, Call, Enqueue, Refused, CallerTimeout, Abandon
<1>2. CASE DropRig \/ SeeCancel \/ IdleError \/ Aborted \/ Exit
  BY <1>2 DEF DropRig, SeeCancel, IdleError, Aborted, Exit
<1>3. CASE TakeRt \/ TakeBg
  BY <1>3 DEF TakeRt, TakeBg, Begin
<1>4. CASE TransportError \/ SetLine \/ Shutdown
  BY <1>4 DEF TransportError, SetLine, Shutdown
<1> QED  BY <1>1, <1>2, <1>3, <1>4 DEF Quiet

\* What is left of the bus when n frames are read.
LEMMA RestIs ==
  ASSUME bus \in Seq(Frames), NEW n \in 0..Len(bus)
  PROVE  /\ Chunk(n) \in Seq(Frames) /\ Rest(n) \in Seq(Frames)
         /\ \A i \in 1..Len(Rest(n)) : \E j \in 1..Len(bus) : j > n /\ Rest(n)[i] = bus[j]
         /\ \A i, j \in 1..Len(Rest(n)) : Rest(n)[i] = bus[n + i] /\ n + i \in 1..Len(bus)
<1>1. LET c == SubSeq(bus, 1, n)
          d == SubSeq(bus, n + 1, Len(bus))
      IN  /\ c \in Seq(Frames) /\ d \in Seq(Frames)
          /\ \A i \in 1..Len(d) : d[i] = bus[n + i] /\ n + i \in 1..Len(bus) /\ n + i > n
  <2> DEFINE one == 1
             m   == Len(bus)
  <2>1. /\ one \in Int /\ n \in Int /\ n + 1 \in Int /\ m \in Int
        /\ \A i \in one..n : bus[i] \in Frames
        /\ \A i \in (n + 1)..m : bus[i] \in Frames
    OBVIOUS
  <2> HIDE DEF one, m
  <2>2. SubSeq(bus, one, n) \in Seq(Frames)
    BY <2>1, SubSeqProperties
  <2>3. /\ SubSeq(bus, n + 1, m) \in Seq(Frames)
        /\ Len(SubSeq(bus, n + 1, m)) = IF n + 1 <= m THEN m - (n + 1) + 1 ELSE 0
        /\ \A i \in 1..(m - (n + 1) + 1) : SubSeq(bus, n + 1, m)[i] = bus[n + 1 + i - 1]
    BY <2>1, SubSeqProperties
  <2>4. Len(SubSeq(bus, n + 1, m)) = m - n /\ \A i \in 1..(m - n) : n + 1 + i - 1 = n + i
    BY <2>3 DEF m
  <2>5. m - (n + 1) + 1 = m - n
    BY DEF m
  <2> QED  BY <2>2, <2>3, <2>4, <2>5 DEF one, m
<1> QED  BY <1>1 DEF Chunk, Rest

\* What is published is a change of the operator's.
LEMMA PublishType ==
  ASSUME lastEvent \in 0..MaxMishaps, NEW fs \in Seq(Frames), Publish(fs) \/ UNCHANGED lastEvent
  PROVE  lastEvent' \in 0..MaxMishaps
<1>1. CASE \E i \in DOMAIN fs : lastEvent' = fs[i].change
  <2>1. PICK i \in DOMAIN fs : lastEvent' = fs[i].change
    BY <1>1
  <2>2. fs[i] \in Frames
    BY <2>1
  <2> QED  BY <2>1, <2>2 DEF Frames
<1>2. Publish(fs) => UNCHANGED lastEvent \/ \E i \in DOMAIN fs : lastEvent' = fs[i].change
  BY DEF Publish
<1> QED  BY <1>1, <1>2

\* Reading: frames are taken off the bus, by a chunk of n.
Reads(n) ==
  /\ n \in 1..Len(bus) /\ bus' = Rest(n) /\ lastEvent' \in 0..MaxMishaps
  /\ UNCHANGED <<line, toRig, mishaps, obeyed, radio, cancel, gone>>

\* Every step that receives takes the first frames of the bus.
LEMMA ReadingIs ==
  ASSUME WireTypes, IdleRead \/ ReceiveOther \/ Receive
  PROVE  \E n \in 1..Len(bus) : Reads(n)
<1> USE DEF WireTypes, wireVars, radioVars, eventVars
<1>1. UNCHANGED <<line, toRig, mishaps, obeyed, radio, cancel, gone>>
  BY DEF IdleRead, ReceiveOther, Receive
<1>2. CASE IdleRead
  <2>1. PICK n \in 1..Len(bus) : bus' = Rest(n) /\ (Publish(Chunk(n)) \/ UNCHANGED lastEvent)
    BY <1>2 DEF IdleRead
  <2> QED  BY <1>1, <2>1, RestIs, PublishType DEF Reads
<1>3. CASE ReceiveOther
  <2>1. PICK n \in 1..Len(bus) : bus' = Rest(n) /\ (Publish(Chunk(n)) \/ UNCHANGED lastEvent)
    BY <1>3 DEF ReceiveOther, Told
  <2> QED  BY <1>1, <2>1, RestIs, PublishType DEF Reads
<1>4. CASE Receive
  <2>1. PICK n \in 1..Len(bus) : \E i \in 1..n :
          bus' = Rest(n) /\ (Publish(Chunk(i - 1)) \/ UNCHANGED lastEvent)
    BY <1>4 DEF Receive, Told
  <2>2. PICK i \in 1..n : bus' = Rest(n) /\ (Publish(Chunk(i - 1)) \/ UNCHANGED lastEvent)
    BY <2>1
  <2>3. i - 1 \in 0..Len(bus)
    BY <2>1, <2>2
  <2> QED  BY <1>1, <2>2, <2>3, RestIs, PublishType DEF Reads
<1> QED  BY <1>2, <1>3, <1>4

\* What the rig says to a command: a refusal, or data, or it obeys; or nothing.
LEMMA RigSays ==
  ASSUME WireTypes, AcctTypes, RigAnswers
  PROVE  LET r == Head(toRig) IN
         /\ toRig # <<>> /\ r \in Requests /\ toRig' = Tail(toRig)
         /\ UNCHANGED <<line, radio, lastEvent, cancel, gone, op, late, direct, handle, caller, result,
                        answer, stage, rtq, bgq, pc, cur, attempt, sent>>
         /\ mishaps' = mishaps \/ (mishaps < MaxMishaps /\ mishaps' = mishaps + 1)
         /\ obeyed' = obeyed \/ obeyed' = [obeyed EXCEPT ![r] = @ + 1]
         /\ \/ bus' = bus
            \/ \E what \in {"nak", "data", "ack"} :
                 /\ bus' = Append(bus, Frame(what, r, 0))
                 /\ what = "ack" => obeyed' = [obeyed EXCEPT ![r] = @ + 1]
<1>1. toRig # <<>> /\ Head(toRig) \in Requests
  BY HeadTailProperties DEF RigAnswers, WireTypes
<1> QED  BY <1>1 DEF RigAnswers, callerVars, taskVars, replyVars, eventVars

\* Every step is quiet, or one of these on the bus.
LEMMA StepKinds ==
  ASSUME Next
  PROVE  \/ Quiet \/ IdleRead \/ ReceiveOther \/ Receive \/ Send \/ ReceiveTimeout
         \/ RigAnswers \/ OperatorTurns \/ LineFails
BY DEF Next, Task, Quiet, CallerStep

\* What is put on the bus is a frame.
LEMMA FrameType ==
  ASSUME NEW what \in {"echo", "data", "ack", "nak", "broadcast", "direct", "collision"},
         NEW cause \in Requests \cup {NoOne}, NEW change \in 0..MaxMishaps
  PROVE  /\ Frame(what, cause, change) \in Frames
         /\ Frame(what, cause, change).what = what /\ Frame(what, cause, change).cause = cause
BY DEF Frame, Frames

\* All steps keep these types, and the bound on mishaps.
LEMMA WireStep ==
  ASSUME AcctTypes, WireTypes, Bounded, Placed, Next
  PROVE  WireTypes' /\ Bounded'
<1> USE CivIoAssumption DEF WireTypes, Bounded
<1>1. CASE Quiet
  BY <1>1, QuietFrame
<1>2. CASE IdleRead \/ ReceiveOther \/ Receive
  <2>1. PICK n \in 1..Len(bus) : Reads(n)
    BY <1>2, ReadingIs
  <2> QED  BY <2>1, RestIs DEF Reads
<1>3. CASE Send
  <2>1. cur \in Requests
    BY <1>3, Executing DEF Send, Busy
  <2>2. /\ UNCHANGED <<line, obeyed, radio, lastEvent, cancel, gone>>
        /\ toRig' = toRig \/ toRig' = Append(toRig, cur)
        /\ bus' = Append(bus, Frame("echo", cur, 0)) \/ bus' = Append(bus, Frame("collision", cur, 0))
        /\ mishaps' = mishaps \/ (mishaps < MaxMishaps /\ mishaps' = mishaps + 1)
    BY <1>3 DEF Send, radioVars, eventVars
  <2>3. 0 \in 0..MaxMishaps
    OBVIOUS
  <2>4. Frame("echo", cur, 0) \in Frames /\ Frame("collision", cur, 0) \in Frames
    BY <2>1, <2>3, FrameType
  <2>5. toRig' \in Seq(Requests)
    <3>1. toRig \in Seq(Requests) /\ Append(toRig, cur) \in Seq(Requests)
      BY <2>1, AppendLine
    <3> QED  BY <2>2, <3>1
  <2>6. bus' \in Seq(Frames)
    <3>1. /\ Append(bus, Frame("echo", cur, 0)) \in Seq(Frames)
          /\ Append(bus, Frame("collision", cur, 0)) \in Seq(Frames)
      BY <2>4, AppendLine
    <3> QED  BY <2>2, <3>1
  <2> QED  BY <2>2, <2>5, <2>6
<1>4. CASE ReceiveTimeout
  BY <1>4 DEF ReceiveTimeout, radioVars, eventVars
<1>5. CASE RigAnswers
  <2> DEFINE r == Head(toRig)
  <2>1. /\ toRig # <<>> /\ r \in Requests /\ toRig' = Tail(toRig)
        /\ UNCHANGED <<line, radio, lastEvent, cancel, gone>>
        /\ mishaps' = mishaps \/ (mishaps < MaxMishaps /\ mishaps' = mishaps + 1)
        /\ obeyed' = obeyed \/ obeyed' = [obeyed EXCEPT ![r] = @ + 1]
        /\ bus' = bus \/ \E what \in {"nak", "data", "ack"} : bus' = Append(bus, Frame(what, r, 0))
    BY <1>5, RigSays
  <2> HIDE DEF r
  <2>2. 0 \in 0..MaxMishaps
    OBVIOUS
  <2>3. bus' \in Seq(Frames)
    <3>1. ASSUME NEW what \in {"nak", "data", "ack"}
          PROVE  Append(bus, Frame(what, r, 0)) \in Seq(Frames)
      BY <2>1, <2>2, FrameType, AppendLine
    <3> QED  BY <2>1, <3>1
  <2>4. toRig' \in Seq(Requests)
    BY <2>1, TailLine
  <2>5. [obeyed EXCEPT ![r] = @ + 1] \in [Requests -> Nat]
    BY <2>1
  <2>6. obeyed' \in [Requests -> Nat]
    BY <2>1, <2>5
  <2> QED  BY <2>1, <2>3, <2>4, <2>6, SMTT(30)
<1>6. CASE OperatorTurns
  <2>1. /\ radio + 1 \in 0..MaxMishaps /\ mishaps < MaxMishaps /\ mishaps' = mishaps + 1
        /\ radio' = radio + 1 /\ bus' = Append(bus, Frame(IF direct THEN "direct" ELSE "broadcast", NoOne, radio + 1))
        /\ UNCHANGED <<line, toRig, obeyed, lastEvent, cancel, gone>>
    BY <1>6 DEF OperatorTurns, eventVars
  <2>2. bus' \in Seq(Frames)
    BY <2>1, FrameType, AppendLine
  <2> QED  BY <2>1, <2>2
<1>7. CASE LineFails
  BY <1>7 DEF LineFails, radioVars, eventVars
<1> QED  BY <1>1, <1>2, <1>3, <1>4, <1>5, <1>6, <1>7, StepKinds

\* How often a command is written only grows.
LEMMA SentGrows ==
  ASSUME AcctTypes, TypeOK, Placed, Next, NEW r \in Requests
  PROVE  /\ sent'[r] \in Nat /\ sent'[r] >= sent[r]
         /\ ~(Send \/ SetLine) => sent' = sent
<1> USE DEF AcctTypes, callerVars, taskVars, replyVars
<1>1. CASE Send \/ SetLine
  <2>1. sent' = [sent EXCEPT ![cur] = @ + 1]
    BY <1>1 DEF Send, SetLine
  <2>2. sent'[r] \in {sent[r], sent[r] + 1} /\ sent[r] \in Nat
    BY <2>1
  <2> QED  BY <1>1, <2>2
<1>2. CASE ~(Send \/ SetLine)
  <2>1. CASE Task
    BY <1>2, <2>1 DEF Task, SeeCancel, TakeRt, TakeBg, Begin, IdleRead, IdleError, Aborted, Exit,
          TransportError, Receive, ReceiveOther, ReceiveTimeout, Shutdown
  <2>2. CASE ~Task
    BY <2>2 DEF Next, Call, Enqueue, Refused, CallerTimeout, Abandon, DropRig, RigAnswers,
          OperatorTurns, LineFails
  <2> QED  BY <2>1, <2>2
<1> QED  BY <1>1, <1>2

-----------------------------------------------------------------------------
(* What the rig obeys, and what is on the bus.                             *)

\* Every step keeps Obeying: one writing is obeyed at most once.
LEMMA ObeyStep ==
  ASSUME AcctTypes, WireTypes, Bounded, Placed, Obeying, Next
  PROVE  Obeying'
<1> DEFINE Acks(b, o) == \A i \in 1..Len(b) :
                           b[i].what = "ack" => b[i].cause \in Requests /\ o[b[i].cause] > 0
           Count(o, q, s) == \A r \in Requests : o[r] + Copies(q, r) <= s[r]
<1>0. /\ TypeOK /\ Acks(bus, obeyed) /\ Count(obeyed, toRig, sent)
      /\ obeyed \in [Requests -> Nat] /\ sent \in [Requests -> Nat]
      /\ toRig \in Seq(Requests) /\ bus \in Seq(Frames)
      /\ \A r \in Requests : Copies(toRig, r) \in Nat
  BY TypesAre, CopiesNat DEF Obeying, AcctTypes, WireTypes
<1>1. ASSUME UNCHANGED <<toRig, obeyed>>
      PROVE  Count(obeyed', toRig', sent')
  BY <1>0, <1>1, SentGrows
<1>2. CASE Quiet \/ ReceiveTimeout
  <2>1. UNCHANGED <<toRig, obeyed, bus>>
    BY <1>2, QuietFrame DEF ReceiveTimeout, radioVars
  <2> QED  BY <1>0, <1>1, <2>1 DEF Obeying
<1>3. CASE IdleRead \/ ReceiveOther \/ Receive
  <2>1. PICK n \in 1..Len(bus) : bus' = Rest(n) /\ UNCHANGED <<toRig, obeyed>>
    BY <1>3, ReadingIs DEF Reads
  <2>2. \A i \in 1..Len(bus') : \E j \in 1..Len(bus) : bus'[i] = bus[j]
    <3>1. n \in 0..Len(bus)
      BY <1>0
    <3> QED  BY <1>0, <2>1, <3>1, RestIs
  <2>3. Acks(bus', obeyed')
    BY <1>0, <2>1, <2>2
  <2> QED  BY <1>1, <2>1, <2>3 DEF Obeying
<1>4. CASE Send
  <2>1. /\ cur \in Requests /\ obeyed' = obeyed /\ sent' = [sent EXCEPT ![cur] = @ + 1]
        /\ toRig' = toRig \/ toRig' = Append(toRig, cur)
        /\ bus' = Append(bus, Frame("echo", cur, 0)) \/ bus' = Append(bus, Frame("collision", cur, 0))
    BY <1>4, Executing DEF Send, Busy, radioVars
  <2>2. \A r \in Requests : Copies(toRig', r) <= Copies(toRig, r) + (IF r = cur THEN 1 ELSE 0)
    <3>1. \A r \in Requests :
            Copies(Append(toRig, cur), r) = Copies(toRig, r) + IF cur = r THEN 1 ELSE 0
      BY <1>0, <2>1, CopiesAppend
    <3>2. CASE toRig' = toRig
      BY <1>0, <3>2
    <3>3. CASE toRig' = Append(toRig, cur)
      BY <1>0, <3>1, <3>3
    <3> QED  BY <2>1, <3>2, <3>3
  <2>3. \A r \in Requests : Copies(toRig', r) \in Nat
    <3>1. toRig' \in Seq(Requests)
      <4>1. Append(toRig, cur) \in Seq(Requests)
        BY <1>0, <2>1, AppendLine
      <4> QED  BY <1>0, <2>1, <4>1
    <3> QED  BY <3>1, CopiesNat
  <2>4. ASSUME NEW r \in Requests  PROVE obeyed'[r] + Copies(toRig', r) <= sent'[r]
    <3>1. sent'[r] = sent[r] + (IF r = cur THEN 1 ELSE 0)
      BY <1>0, <2>1
    <3>2. /\ obeyed[r] \in Nat /\ sent[r] \in Nat /\ Copies(toRig, r) \in Nat /\ obeyed' = obeyed
          /\ Copies(toRig', r) \in Nat /\ obeyed[r] + Copies(toRig, r) <= sent[r]
          /\ Copies(toRig', r) <= Copies(toRig, r) + (IF r = cur THEN 1 ELSE 0)
      BY <1>0, <2>1, <2>2, <2>3
    <3> QED  BY <3>1, <3>2
  <2>5. ASSUME NEW f \in {Frame("echo", cur, 0), Frame("collision", cur, 0)}
        PROVE  Acks(Append(bus, f), obeyed)
    <3>1. f \in Frames /\ f.what # "ack"
      <4>1. 0 \in 0..MaxMishaps
        BY CivIoAssumption
      <4> QED  BY <2>1, <2>5, <4>1, FrameType
    <3> QED  BY <1>0, <3>1, AppendLine
  <2> QED  BY <2>1, <2>4, <2>5 DEF Obeying
<1>5. CASE RigAnswers
  <2> DEFINE r == Head(toRig)
  <2>1. /\ toRig # <<>> /\ r \in Requests /\ toRig' = Tail(toRig) /\ sent' = sent
        /\ obeyed' = obeyed \/ obeyed' = [obeyed EXCEPT ![r] = @ + 1]
        /\ \/ bus' = bus
           \/ \E what \in {"nak", "data", "ack"} :
                /\ bus' = Append(bus, Frame(what, r, 0))
                /\ what = "ack" => obeyed' = [obeyed EXCEPT ![r] = @ + 1]
    BY <1>5, RigSays
  <2>2. \A q \in Requests : Copies(toRig, q) = Copies(Tail(toRig), q) + IF r = q THEN 1 ELSE 0
    BY <1>0, <2>1, CopiesTail
  <2>3. \A q \in Requests : Copies(Tail(toRig), q) \in Nat
    BY <1>0, <2>1, TailLine, CopiesNat
  <2> HIDE DEF r
  <2>4. ASSUME NEW q \in Requests
        PROVE  /\ obeyed'[q] \in Nat /\ obeyed'[q] >= obeyed[q] /\ obeyed[q] \in Nat
               /\ obeyed'[q] <= obeyed[q] + IF r = q THEN 1 ELSE 0
    <3>1. CASE obeyed' = obeyed
      BY <1>0, <3>1
    <3>2. CASE obeyed' = [obeyed EXCEPT ![r] = @ + 1]
      <4>1. obeyed'[q] = IF q = r THEN obeyed[q] + 1 ELSE obeyed[q]
        BY <1>0, <2>1, <3>2
      <4>2. obeyed[q] \in Nat
        BY <1>0
      <4> QED  BY <4>1, <4>2
    <3> QED  BY <2>1, <3>1, <3>2
  <2>5. ASSUME NEW q \in Requests  PROVE obeyed'[q] + Copies(toRig', q) <= sent'[q]
    <3>1. /\ sent[q] \in Nat /\ sent' = sent /\ Copies(toRig', q) \in Nat
          /\ obeyed[q] + Copies(toRig, q) <= sent[q]
          /\ Copies(toRig, q) = Copies(toRig', q) + IF r = q THEN 1 ELSE 0
      BY <1>0, <2>1, <2>2, <2>3
    <3> QED  BY <2>4, <3>1
  <2>6. Acks(bus, obeyed')
    BY <1>0, <2>4
  <2>7. ASSUME NEW what \in {"nak", "data", "ack"},
               what = "ack" => obeyed' = [obeyed EXCEPT ![r] = @ + 1]
        PROVE  Acks(Append(bus, Frame(what, r, 0)), obeyed')
    <3> DEFINE f == Frame(what, r, 0)
    <3>1. f \in Frames /\ f.what = what /\ f.cause = r
      <4>1. 0 \in 0..MaxMishaps
        BY CivIoAssumption
      <4> QED  BY <2>1, <4>1, FrameType
    <3>2. f.what = "ack" => f.cause \in Requests /\ obeyed'[f.cause] > 0
      BY <1>0, <2>1, <2>7, <3>1, SMTT(30)
    <3> HIDE DEF f
    <3>3. Acks(Append(bus, f), obeyed')
      BY <1>0, <2>6, <3>1, <3>2, AppendLine
    <3> QED  BY <3>3 DEF f
  <2>8. Acks(bus', obeyed')
    BY <2>1, <2>6, <2>7
  <2> QED  BY <2>5, <2>8 DEF Obeying
<1>6. CASE OperatorTurns
  <2> DEFINE f == Frame(IF direct THEN "direct" ELSE "broadcast", NoOne, radio + 1)
  <2>1. /\ UNCHANGED <<toRig, obeyed>> /\ bus' = Append(bus, f) /\ f.what # "ack"
    BY <1>6 DEF OperatorTurns, Frame
  <2>2. bus' \in Seq(Frames) /\ Len(bus') = Len(bus) + 1 /\ bus'[Len(bus) + 1] = f
        /\ \A i \in 1..Len(bus) : bus'[i] = bus[i]
    <3>1. radio + 1 \in 0..MaxMishaps
      BY <1>6, CivIoAssumption DEF Bounded, OperatorTurns, WireTypes
    <3>2. f \in Frames
      BY <3>1, FrameType
    <3> QED  BY <1>0, <2>1, <3>2, AppendLine
  <2> HIDE DEF f
  <2>3. Acks(bus', obeyed')
    BY <1>0, <2>1, <2>2
  <2> QED  BY <1>1, <2>1, <2>3 DEF Obeying
<1>7. CASE LineFails
  <2>1. toRig' = <<>> /\ bus' = <<>> /\ obeyed' = obeyed /\ sent' = sent
    BY <1>7 DEF LineFails, radioVars, taskVars
  <2>2. \A r \in Requests : Copies(<<>>, r) = 0
    BY <1>0, CopiesNat
  <2>3. Count(obeyed', toRig', sent')
    BY <1>0, <2>1, <2>2
  <2> QED  BY <2>1, <2>3 DEF Obeying
<1> QED  BY <1>2, <1>3, <1>4, <1>5, <1>6, <1>7, StepKinds

-----------------------------------------------------------------------------
(* A rig that answers in time.                                             *)

\* Reading from a bus that is clean leaves a clean one.
LEMMA RestClean ==
  ASSUME bus \in Seq(Frames), NEW n \in 0..Len(bus), NEW p, NEW c, NEW q, Clean(p, c, q, bus)
  PROVE  Clean(p, c, q, Rest(n))
<1>1. /\ \A i \in 1..Len(Rest(n)) : Rest(n)[i] = bus[n + i] /\ n + i \in 1..Len(bus)
      /\ n \in Int
  BY RestIs
<1>2. p \in {"select", "send", "line", "shutdown"} => \A i \in 1..Len(Rest(n)) : ~Decisive(Rest(n)[i])
  BY <1>1 DEF Clean
<1>3. p = "receive" => \A i \in 1..Len(Rest(n)) :
                         Decisive(Rest(n)[i]) => Rest(n)[i].cause = c /\ q = <<>>
  BY <1>1 DEF Clean
<1>4. p = "receive" => \A i, j \in 1..Len(Rest(n)) :
                         Decisive(Rest(n)[i]) /\ Decisive(Rest(n)[j]) => i = j
  <2> SUFFICES ASSUME p = "receive", NEW i \in 1..Len(Rest(n)), NEW j \in 1..Len(Rest(n)),
                      Decisive(Rest(n)[i]), Decisive(Rest(n)[j])
               PROVE  i = j
    OBVIOUS
  <2>1. n + i = n + j
    BY <1>1 DEF Clean
  <2> QED  BY <1>1, <2>1
<1> QED  BY <1>2, <1>3, <1>4 DEF Clean

\* So does appending a frame that is no answer.
LEMMA AppendClean ==
  ASSUME bus \in Seq(Frames), NEW f \in Frames, ~Decisive(f), NEW p, NEW c, NEW q,
         Clean(p, c, q, bus)
  PROVE  Clean(p, c, q, Append(bus, f))
<1> DEFINE b == Append(bus, f)
<1>1. /\ Len(b) = Len(bus) + 1 /\ b[Len(bus) + 1] = f
      /\ \A i \in 1..Len(bus) : b[i] = bus[i]
      /\ \A i \in 1..Len(b) : i \in 1..Len(bus) \/ i = Len(bus) + 1
  BY AppendLine
<1> HIDE DEF b
<1>2. \A i \in 1..Len(b) : Decisive(b[i]) => i \in 1..Len(bus) /\ b[i] = bus[i]
  BY <1>1
<1>3. Clean(p, c, q, b)
  BY <1>2 DEF Clean
<1> QED  BY <1>3 DEF b

\* An answer is appended to a bus without one.
LEMMA AnswerClean ==
  ASSUME bus \in Seq(Frames), NEW f \in Frames, NEW c, f.cause = c,
         \A i \in 1..Len(bus) : ~Decisive(bus[i])
  PROVE  Clean("receive", c, <<>>, Append(bus, f))
<1> DEFINE b == Append(bus, f)
<1>1. /\ Len(b) = Len(bus) + 1 /\ b[Len(bus) + 1] = f
      /\ \A i \in 1..Len(bus) : b[i] = bus[i]
      /\ \A i \in 1..Len(b) : i \in 1..Len(bus) \/ i = Len(bus) + 1
  BY AppendLine
<1> HIDE DEF b
<1>2. \A i \in 1..Len(b) : Decisive(b[i]) => i = Len(bus) + 1 /\ b[i] = f
  BY <1>1
<1>3. Clean("receive", c, <<>>, b)
  BY <1>2 DEF Clean
<1> QED  BY <1>3 DEF b

\* The frame that decides, with a rig in time: it is the one answer to the command
\* that the task executes, and nothing that could be taken for one is left.
LEMMA DecidedInTime ==
  ASSUME AcctTypes, WireTypes, InTime, Orderly, pc = "receive",
         NEW n \in 1..Len(bus), NEW i \in 1..n, Decisive(bus[i])
  PROVE  /\ bus[i].cause = cur /\ toRig = <<>>
         /\ \A j \in 1..Len(Rest(n)) : ~Decisive(Rest(n)[j])
<1>1. bus \in Seq(Frames) /\ i \in 1..Len(bus) /\ n \in 0..Len(bus) /\ n \in Int /\ i \in Int
  BY DEF WireTypes
<1>2. /\ bus[i].cause = cur /\ toRig = <<>>
      /\ \A j \in 1..Len(bus) : Decisive(bus[j]) => j = i
  BY <1>1 DEF InTime, Clean
<1>3. \A j \in 1..Len(Rest(n)) : Rest(n)[j] = bus[n + j] /\ n + j \in 1..Len(bus) /\ n + j # i
  BY <1>1, RestIs
<1> QED  BY <1>2, <1>3

\* Every step keeps InTime.
LEMMA InTimeStep ==
  ASSUME AcctTypes, WireTypes, Bounded, Placed, InTime, Next
  PROVE  InTime'
<1> USE DEF callerVars, taskVars, replyVars, radioVars, eventVars, wireVars
<1>0. bus \in Seq(Frames) /\ toRig \in Seq(Requests) /\ TypeOK /\ line \in {"up", "down"}
  BY TypesAre DEF WireTypes
<1>1. CASE Quiet
  <2>1. UNCHANGED <<line, toRig, bus>>
    BY <1>1, QuietFrame
  <2>2. CASE (\E r \in Requests : CallerStep(r)) \/ DropRig
    BY <2>1, <2>2 DEF CallerStep, Call, Enqueue, Refused, CallerTimeout, Abandon, DropRig, InTime, Orderly
  <2>3. CASE SeeCancel \/ IdleError \/ Aborted \/ Exit \/ Shutdown
    <3>1. UNCHANGED <<late, direct>> /\ pc' \in {"return", "exited"}
      BY <2>3 DEF SeeCancel, IdleError, Aborted, Exit, Shutdown
    <3> QED  BY <2>1, <3>1 DEF InTime, Clean
  <2>4. CASE TakeRt \/ TakeBg
    <3>1. UNCHANGED <<late, direct>> /\ pc = "select" /\ pc' \in {"send", "line", "shutdown"}
      <4>1. PICK r \in Requests : Begin(r) /\ pc = "select"
        BY <2>4, <1>0, HeadTailProperties DEF TakeRt, TakeBg, AcctTypes
      <4>2. op[r].kind \in {"query", "ack", "line", "shutdown"}
        BY DEF AcctTypes, Ops
      <4> QED  BY <4>1, <4>2 DEF Begin
    <3> QED  BY <2>1, <3>1 DEF InTime, Orderly, Clean
  <2>5. CASE TransportError
    <3>1. line = "down" /\ UNCHANGED <<late, direct>> /\ pc' = "select"
      BY <2>5 DEF TransportError, Reply
    <3> QED  BY <2>1, <3>1 DEF InTime, Clean
  <2>6. CASE SetLine
    <3>1. UNCHANGED <<late, direct>> /\ pc' = "select" /\ pc = "line"
      BY <2>6 DEF SetLine, Reply
    <3> QED  BY <2>1, <3>1 DEF InTime, Orderly, Clean
  <2> QED  BY <1>1, <2>2, <2>3, <2>4, <2>5, <2>6 DEF Quiet
<1>2. CASE IdleRead \/ ReceiveOther
  <2>1. PICK n \in 1..Len(bus) : bus' = Rest(n) /\ UNCHANGED <<line, toRig>>
    BY <1>2, ReadingIs DEF Reads
  <2>2. UNCHANGED <<late, direct, pc, cur>> /\ n \in 0..Len(bus) /\ bus # <<>>
    BY <1>0, <1>2, <2>1 DEF IdleRead, ReceiveOther
  <2>3. Orderly => Clean(pc, cur, toRig, Rest(n))
    BY <1>0, <2>2, RestClean DEF InTime
  <2> QED  BY <2>1, <2>2, <2>3 DEF InTime, Orderly
<1>3. CASE Receive
  <2>1. PICK n \in 1..Len(bus) : \E i \in 1..n :
          Decisive(bus[i]) /\ bus' = Rest(n) /\ Decide(bus[i])
    BY <1>3 DEF Receive
  <2>2. PICK i \in 1..n : Decisive(bus[i]) /\ bus' = Rest(n) /\ Decide(bus[i])
    BY <2>1
  <2>3. /\ pc = "receive" /\ UNCHANGED <<line, toRig, late, direct>> /\ bus # <<>>
        /\ UNCHANGED <<op, handle, rtq, bgq, sent>>
    BY <1>0, <1>3, <2>1 DEF Receive
  <2>4. pc' \in {"select", "send", "return"}
    BY <2>2, <2>3, DecideMoves DEF Again, Ends
  <2>5. Orderly => toRig = <<>> /\ \A j \in 1..Len(Rest(n)) : ~Decisive(Rest(n)[j])
    BY <2>2, <2>3, DecidedInTime
  <2> QED  BY <2>2, <2>3, <2>4, <2>5 DEF InTime, Orderly, Clean
<1>4. CASE Send
  <2>1. /\ cur \in Requests /\ pc = "send" /\ pc' = "receive" /\ line = "up"
        /\ UNCHANGED <<line, late, direct, cur>>
    BY <1>4, Executing DEF Send, Busy
  <2>2. 0 \in 0..MaxMishaps
    BY CivIoAssumption
  <2>3. Orderly => toRig = <<>> /\ \A i \in 1..Len(bus) : ~Decisive(bus[i])
    BY <2>1 DEF InTime, Clean
  <2>4. CASE toRig' = Append(toRig, cur) /\ bus' = Append(bus, Frame("echo", cur, 0))
    <3>1. Frame("echo", cur, 0) \in Frames /\ ~Decisive(Frame("echo", cur, 0))
      BY <2>1, <2>2, FrameType DEF Decisive
    <3>2. Orderly => Clean("receive", cur, <<cur>>, bus)
      BY <2>3 DEF Clean
    <3>3. Orderly => Clean("receive", cur, <<cur>>, bus')
      BY <1>0, <2>4, <3>1, <3>2, AppendClean
    <3>4. toRig = <<>> => toRig' = <<cur>>
      BY <2>4
    <3> QED  BY <2>1, <2>3, <3>3, <3>4 DEF InTime, Orderly
  <2>5. CASE toRig' = toRig /\ bus' = Append(bus, Frame("collision", cur, 0))
    <3>1. Frame("collision", cur, 0) \in Frames /\ Frame("collision", cur, 0).cause = cur
      BY <2>1, <2>2, FrameType
    <3>2. Orderly => Clean("receive", cur, <<>>, bus')
      BY <1>0, <2>3, <2>5, <3>1, AnswerClean
    <3> QED  BY <2>1, <2>3, <2>5, <3>2 DEF InTime, Orderly
  <2> QED  BY <1>4, <2>4, <2>5 DEF Send
<1>5. CASE ReceiveTimeout
  <2>1. /\ Orderly => toRig = <<>> /\ bus = <<>>
        /\ UNCHANGED <<late, direct, line, toRig, bus>> /\ pc = "receive"
        /\ UNCHANGED <<op, handle, rtq, bgq, sent>> /\ NextAttempt
    BY <1>5 DEF ReceiveTimeout, Orderly
  <2>2. pc' \in {"select", "send", "return"}
    BY <2>1, NextMoves DEF Again, Ends
  <2> QED  BY <2>1, <2>2 DEF InTime, Orderly, Clean
<1>6. CASE RigAnswers
  <2> DEFINE r == Head(toRig)
  <2>1. /\ toRig # <<>> /\ r \in Requests /\ toRig' = Tail(toRig) /\ UNCHANGED <<line, late, direct, pc, cur>>
        /\ \/ bus' = bus
           \/ \E what \in {"nak", "data", "ack"} : bus' = Append(bus, Frame(what, r, 0))
    BY <1>6, RigSays
  <2>2. r = toRig[1] /\ 1 \in 1..Len(toRig) /\ Len(Tail(toRig)) = Len(toRig) - 1
        /\ Tail(toRig) \in Seq(Requests)
    BY <1>0, <2>1, TailLine
  <2> HIDE DEF r
  <2>3. ASSUME Orderly, pc = "receive"
        PROVE  Tail(toRig) = <<>> /\ r = cur /\ \A i \in 1..Len(bus) : ~Decisive(bus[i])
    BY <2>1, <2>2, <2>3 DEF InTime, Clean
  <2>4. ASSUME Orderly  PROVE pc \notin {"select", "send", "line", "shutdown"}
    BY <2>1, <2>4 DEF InTime, Clean
  <2>5. ASSUME Orderly, pc = "receive"  PROVE Clean("receive", cur, <<>>, bus')
    <3>1. CASE bus' = bus
      BY <2>3, <2>5, <3>1 DEF Clean
    <3>2. ASSUME NEW what \in {"nak", "data", "ack"}, bus' = Append(bus, Frame(what, r, 0))
          PROVE  Clean("receive", cur, <<>>, bus')
      <4>1. 0 \in 0..MaxMishaps
        BY CivIoAssumption
      <4>2. Frame(what, r, 0) \in Frames /\ Frame(what, r, 0).cause = cur
        BY <2>1, <2>3, <2>5, <4>1, FrameType
      <4> QED  BY <1>0, <2>3, <2>5, <3>2, <4>2, AnswerClean
    <3> QED  BY <2>1, <3>1, <3>2
  <2>6. Orderly' => Clean(pc', cur', toRig', bus')
    <3>1. CASE pc = "receive"
      BY <2>1, <2>3, <2>5, <3>1 DEF Orderly
    <3>2. CASE pc # "receive"
      BY <2>1, <2>4, <3>2 DEF Orderly, Clean
    <3> QED  BY <3>1, <3>2
  <2> QED  BY <2>1, <2>6 DEF InTime
<1>7. CASE OperatorTurns
  <2> DEFINE f == Frame(IF direct THEN "direct" ELSE "broadcast", NoOne, radio + 1)
  <2>1. /\ radio + 1 \in 0..MaxMishaps /\ bus' = Append(bus, f) /\ line = "up"
        /\ UNCHANGED <<late, direct, line, toRig, pc, cur>>
    BY <1>7, CivIoAssumption DEF OperatorTurns, Bounded, WireTypes
  <2>2. f \in Frames /\ (Orderly => ~Decisive(f))
    <3>1. CASE direct
      BY <2>1, <3>1, FrameType DEF Orderly
    <3>2. CASE ~direct
      BY <2>1, <3>2, FrameType DEF Decisive
    <3> QED  BY <3>1, <3>2
  <2> HIDE DEF f
  <2>3. Orderly => Clean(pc, cur, toRig, bus')
    BY <1>0, <2>1, <2>2, AppendClean DEF InTime
  <2> QED  BY <2>1, <2>3 DEF InTime, Orderly
<1>8. CASE LineFails
  BY <1>8 DEF LineFails, InTime, Clean
<1> QED  BY <1>1, <1>2, <1>3, <1>4, <1>5, <1>6, <1>7, <1>8, StepKinds

-----------------------------------------------------------------------------
(* What the callers are told.                                              *)

\* Nothing that was told truly becomes untrue: what the rig has obeyed it has obeyed.
LEMMA ToldStays ==
  ASSUME AcctTypes, WireTypes, Truth, Next, UNCHANGED <<op, late, direct>>,
         \A r \in Requests : obeyed'[r] \in Nat /\ obeyed'[r] >= obeyed[r],
         NEW r \in Requests,
         Orderly => \/ answer'[r] = answer[r] /\ result'[r] = result[r]
                    \/ answer'[r] = answer[r] /\ result'[r] \notin {"ok", "rejected"}
                    \/ /\ answer'[r] \in {NoOne, r} /\ DecidedBy(r, result'[r], answer'[r])
                       /\ result'[r] # "ok" \/ op[r].kind # "ack" \/ obeyed[r] > 0
  PROVE  ToldTruly(r)'
<1>1. obeyed[r] \in Nat /\ obeyed'[r] \in Nat /\ obeyed'[r] >= obeyed[r]
  BY DEF WireTypes
<1>2. Orderly => answer'[r] \in {NoOne, r} /\ DecidedBy(r, result'[r], answer'[r])
  BY DEF Truth, ToldTruly, DecidedBy
<1>3. Orderly /\ op[r].kind = "ack" /\ result'[r] = "ok" => obeyed[r] > 0
  BY DEF Truth, ToldTruly
<1>4. Orderly' <=> Orderly
  BY DEF Orderly
<1> QED  BY <1>1, <1>2, <1>3, <1>4 DEF ToldTruly, DecidedBy

\* The rig's count of what it has obeyed grows; no request changes what it asks for.
LEMMA ObeyedGrows ==
  ASSUME AcctTypes, WireTypes, Next
  PROVE  /\ UNCHANGED <<op, late, direct>>
         /\ \A r \in Requests : obeyed'[r] \in Nat /\ obeyed'[r] >= obeyed[r]
<1> USE DEF callerVars, radioVars
<1>1. UNCHANGED <<op, late, direct>>
  <2>1. CASE Task
    BY <2>1 DEF Task, SeeCancel, TakeRt, TakeBg, Begin, IdleRead, IdleError, Aborted, Exit, Send,
          TransportError, Receive, ReceiveOther, ReceiveTimeout, SetLine, Shutdown
  <2>2. CASE ~Task
    BY <2>2 DEF Next, Call, Enqueue, Refused, CallerTimeout, Abandon, DropRig, RigAnswers,
          OperatorTurns, LineFails
  <2> QED  BY <2>1, <2>2
<1>2. CASE ~RigAnswers
  <2>1. obeyed' = obeyed
    BY <1>2, QuietFrame, ReadingIs, StepKinds DEF Reads, Send, ReceiveTimeout, OperatorTurns, LineFails
  <2> QED  BY <1>1, <2>1 DEF WireTypes
<1>3. CASE RigAnswers
  <2>1. PICK q \in Requests : obeyed' = obeyed \/ obeyed' = [obeyed EXCEPT ![q] = @ + 1]
    BY <1>3, RigSays
  <2>2. ASSUME NEW r \in Requests
        PROVE  obeyed'[r] \in {obeyed[r], obeyed[r] + 1} /\ obeyed[r] \in Nat
    BY <2>1 DEF WireTypes
  <2> QED  BY <1>1, <2>2
<1> QED  BY <1>2, <1>3

\* The steps of a caller, and the end of the task, tell nobody that it is done.
LEMMA CallerTruth ==
  ASSUME AcctTypes, NEW q \in Requests, CallerStep(q), NEW r \in Requests
  PROVE  answer'[r] = answer[r] /\ (result'[r] = result[r] \/ result'[r] \notin {"ok", "rejected"})
BY DEF CallerStep, Call, Enqueue, Refused, CallerTimeout, Abandon, AcctTypes, replyVars

\* The end of a request tells its caller, and no other.
LEMMA EndsTruth ==
  ASSUME AcctTypes, NEW res, NEW of, Ends(res, of), NEW r \in Requests
  PROVE  \/ answer'[r] = answer[r] /\ result'[r] = result[r]
         \/ /\ r = cur /\ result'[r] = res
            /\ answer'[r] = of \/ (answer'[r] = answer[r] /\ pc = "shutdown")
<1>1. CASE caller[cur] = "waiting"
  BY <1>1 DEF Ends, AcctTypes
<1>2. CASE caller[cur] # "waiting"
  BY <1>2 DEF Ends
<1> QED  BY <1>1, <1>2

\* Every step keeps Truth.
LEMMA TruthStep ==
  ASSUME AcctTypes, WireTypes, Placed, Obeying, InTime, Truth, Next
  PROVE  Truth'
<1> SUFFICES ASSUME NEW r \in Requests  PROVE ToldTruly(r)'
  BY DEF Truth
<1>1. /\ UNCHANGED <<op, late, direct>>
      /\ \A q \in Requests : obeyed'[q] \in Nat /\ obeyed'[q] >= obeyed[q]
  BY ObeyedGrows
<1>2. ASSUME answer' = answer, result'[r] = result[r] \/ result'[r] \notin {"ok", "rejected"}
      PROVE  ToldTruly(r)'
  BY <1>1, <1>2, ToldStays
<1>3. ASSUME NEW res, NEW of, Ends(res, of),
             Orderly => of \in {NoOne, cur} /\ DecidedBy(cur, res, of),
             pc = "shutdown" => op[cur].kind = "shutdown" /\ res = "ok",
             Orderly => res # "ok" \/ op[cur].kind # "ack" \/ (cur \in Requests => obeyed[cur] > 0)
      PROVE  ToldTruly(r)'
  <2>1. CASE answer'[r] = answer[r] /\ result'[r] = result[r]
    BY <1>1, <2>1, ToldStays
  <2>2. CASE r = cur /\ result'[r] = res /\ answer'[r] = of
    BY <1>1, <1>3, <2>2, ToldStays
  <2>3. CASE r = cur /\ result'[r] = res /\ answer'[r] = answer[r] /\ pc = "shutdown"
    <3>1. op[r].kind = "shutdown" /\ res = "ok"
      BY <1>3, <2>3
    <3>2. Orderly => answer[r] \in {NoOne, r}
      BY DEF Truth, ToldTruly
    <3>3. DecidedBy(r, result'[r], answer'[r])
      BY <2>3, <3>1 DEF DecidedBy
    <3> QED  BY <1>1, <2>3, <3>1, <3>2, <3>3, ToldStays
  <2> QED  BY <1>3, <2>1, <2>2, <2>3, EndsTruth
<1>4. ASSUME NEW q \in Requests, CallerStep(q)  PROVE ToldTruly(r)'
  <2>1. answer'[r] = answer[r] /\ (result'[r] = result[r] \/ result'[r] \notin {"ok", "rejected"})
    BY <1>4, CallerTruth
  <2> QED  BY <1>1, <2>1, ToldStays
<1>5. CASE Exit
  <2>1. answer' = answer /\ (result'[r] = result[r] \/ result'[r] \notin {"ok", "rejected"})
    BY <1>5 DEF Exit
  <2> QED  BY <1>2, <2>1
<1>6. CASE \/ DropRig \/ SeeCancel \/ TakeRt \/ TakeBg \/ IdleError \/ Aborted \/ IdleRead
           \/ ReceiveOther \/ Send \/ RigAnswers \/ OperatorTurns \/ LineFails
  <2>1. UNCHANGED <<answer, result>>
    BY <1>6 DEF DropRig, SeeCancel, TakeRt, TakeBg, Begin, IdleError, Aborted, IdleRead, ReceiveOther,
                Send, RigAnswers, OperatorTurns, LineFails, replyVars
  <2> QED  BY <1>2, <2>1
<1>7. CASE TransportError
  <2>1. Ends("broken", NoOne)
    BY <1>7, ReplyEnds DEF TransportError, Busy
  <2>2. pc # "shutdown"
    BY <1>7 DEF TransportError
  <2> QED  BY <1>3, <2>1, <2>2 DEF DecidedBy
<1>8. CASE SetLine
  <2>1. op[cur].kind = "line" /\ pc # "shutdown"
    BY <1>8 DEF SetLine, Placed
  <2>2. \E res \in {"ok", "broken"} : Ends(res, NoOne)
    BY <1>8, ReplyEnds DEF SetLine, Busy
  <2> QED  BY <1>3, <2>1, <2>2 DEF DecidedBy
<1>9. CASE Shutdown
  <2>1. op[cur].kind = "shutdown" /\ Ends("ok", NoOne)
    BY <1>9 DEF Shutdown, Placed, Ends, Busy
  <2> QED  BY <1>3, <2>1 DEF DecidedBy
<1>10. CASE ReceiveTimeout
  <2>1. Again \/ Ends("timeout", NoOne)
    BY <1>10, NextMoves DEF ReceiveTimeout
  <2>2. pc # "shutdown"
    BY <1>10 DEF ReceiveTimeout
  <2> QED  BY <1>2, <1>3, <2>1, <2>2 DEF Again, DecidedBy
<1>11. CASE Receive
  <2>1. PICK n \in 1..Len(bus) : \E i \in 1..n : Decisive(bus[i]) /\ Decide(bus[i])
    BY <1>11 DEF Receive
  <2>2. PICK i \in 1..n : Decisive(bus[i]) /\ Decide(bus[i])
    BY <2>1
  <2>3. pc = "receive" /\ UNCHANGED <<op, late, direct, handle, rtq, bgq, sent>>
    BY <1>11 DEF Receive
  <2>4. op[cur].kind \in {"query", "ack"} /\ i \in 1..Len(bus)
    BY <2>3 DEF Placed, WireTypes
  <2>5. bus[i].what = "ack" => obeyed[bus[i].cause] > 0
    BY <2>4 DEF Obeying
  <2>6. Orderly => bus[i].cause = cur
    BY <2>2, <2>3, DecidedInTime
  <2>7. \/ Again
        \/ \E res \in {"timeout", "rejected"} :
             Ends(res, NoOne) /\ (res = "rejected" => ~CollisionRecovery)
        \/ Ends("rejected", bus[i].cause)
        \/ Ends("ok", bus[i].cause) /\ (op[cur].kind = "query" \/ bus[i].what = "ack")
    BY <2>2, <2>3, DecideMoves
  <2>8. CASE Again
    BY <1>2, <2>8 DEF Again
  <2>9. ASSUME NEW res \in {"timeout", "rejected"}, Ends(res, NoOne),
               res = "rejected" => ~CollisionRecovery
        PROVE  ToldTruly(r)'
    BY <1>3, <2>3, <2>9 DEF DecidedBy
  <2>10. CASE Ends("rejected", bus[i].cause)
    BY <1>3, <2>3, <2>6, <2>10 DEF DecidedBy
  <2>11. CASE Ends("ok", bus[i].cause) /\ (op[cur].kind = "query" \/ bus[i].what = "ack")
    BY <1>3, <2>3, <2>5, <2>6, <2>11 DEF DecidedBy
  <2> QED  BY <2>7, <2>8, <2>9, <2>10, <2>11
<1> QED  BY <1>4, <1>5, <1>6, <1>7, <1>8, <1>9, <1>10, <1>11, StepKinds DEF Quiet

-----------------------------------------------------------------------------
(* The inductive invariant.                                                *)

\* The handle, the rig and the bus do not touch requests.
LEMMA OthersAcct ==
  ASSUME AcctTypes, Placed, Bookkeeping, Attempts,
         DropRig \/ RigAnswers \/ OperatorTurns \/ LineFails \/ UNCHANGED vars
  PROVE  AcctTypes' /\ Placed' /\ Bookkeeping' /\ Attempts'
<1> USE DEF callerVars, taskVars, replyVars
<1>1. CASE RigAnswers \/ OperatorTurns \/ LineFails \/ UNCHANGED vars
  <2>1. UNCHANGED acctVars
    BY <1>1 DEF RigAnswers, OperatorTurns, LineFails, vars, acctVars
  <2> QED  BY <2>1 DEF acctVars, AcctTypes, Placed, Bookkeeping, CallerAgrees, Attempts, Limit
<1>2. CASE DropRig
  <2>1. /\ UNCHANGED <<op, late, direct, caller, result, answer, stage, rtq, bgq, pc, cur, attempt, sent>>
        /\ handle' = "dropped" /\ \A r \in Requests : caller[r] \notin {"sending", "waiting"}
    BY <1>2 DEF DropRig, Borrowed
  <2>2. AcctTypes' /\ Placed' /\ Attempts'
    BY <2>1 DEF AcctTypes, Placed, Attempts, Limit
  <2>3. Bookkeeping'
    BY <2>1 DEF Bookkeeping, CallerAgrees
  <2> QED  BY <2>2, <2>3
<1> QED  BY <1>1, <1>2

\* At first nobody has asked for anything.
LEMMA InitInv == Init => IInv
<1> SUFFICES ASSUME Init  PROVE IInv
  OBVIOUS
<1> USE CivIoAssumption DEF Init
<1>1. AcctTypes
  BY DEF AcctTypes, Results, Stages
<1>2. WireTypes /\ Bounded
  <2>1. toRig \in Seq(Requests) /\ bus \in Seq(Frames) /\ 0 \in 0..MaxMishaps
    OBVIOUS
  <2>2. obeyed \in [Requests -> Nat]
    OBVIOUS
  <2>3. WireTypes
    BY <2>1, <2>2 DEF WireTypes
  <2>4. Bounded
    BY DEF Bounded
  <2> QED  BY <2>3, <2>4
<1>3. Placed
  BY DEF Placed, Busy, Holds
<1>4. Bookkeeping /\ Attempts
  BY DEF Bookkeeping, CallerAgrees, Attempts, Limit
<1>5. Obeying
  <2>1. toRig \in Seq(Requests) /\ toRig = <<>>
    OBVIOUS
  <2>2. \A r \in Requests : Copies(toRig, r) = 0
    BY <2>1, CopiesNat
  <2> QED  BY <2>2 DEF Obeying
<1>6. InTime /\ Truth
  BY DEF InTime, Clean, Truth, ToldTruly, DecidedBy
<1> QED  BY <1>1, <1>2, <1>3, <1>4, <1>5, <1>6, TypesAre DEF IInv

\* Every step keeps the invariant.
LEMMA StepInv == IInv /\ [Next]_vars => IInv'
<1> SUFFICES ASSUME IInv, [Next]_vars  PROVE IInv'
  OBVIOUS
<1>1. AcctTypes /\ WireTypes
  BY TypesAre DEF IInv
<1>2. CASE Next
  <2>1. AcctTypes' /\ Placed' /\ Bookkeeping' /\ Attempts'
    <3>1. CASE \E r \in Requests : CallerStep(r)
      BY <1>1, <3>1, CallerType, CallerPlaced, CallerBooks DEF IInv, CallerStep
    <3>2. CASE Task
      BY <1>1, <3>2, TaskType, TaskPlaced, TaskBooks DEF IInv
    <3>3. CASE DropRig \/ RigAnswers \/ OperatorTurns \/ LineFails
      BY <1>1, <3>3, OthersAcct DEF IInv
    <3> QED  BY <1>2, <3>1, <3>2, <3>3 DEF Next, CallerStep
  <2>2. WireTypes' /\ Bounded'
    BY <1>1, <1>2, WireStep DEF IInv
  <2>3. Obeying'
    BY <1>1, <1>2, ObeyStep DEF IInv
  <2>4. InTime'
    BY <1>1, <1>2, InTimeStep DEF IInv
  <2>5. Truth'
    BY <1>1, <1>2, TruthStep DEF IInv
  <2>6. TypeOK'
    BY <2>1, <2>2 DEF TypeOK, AcctTypes, WireTypes
  <2> QED  BY <2>1, <2>2, <2>3, <2>4, <2>5, <2>6 DEF IInv
<1>3. CASE UNCHANGED vars
  <2>1. Placed' /\ Bookkeeping' /\ Attempts'
    BY <1>1, <1>3, OthersAcct DEF IInv
  <2>2. TypeOK' /\ Bounded'
    BY <1>3 DEF IInv, vars, callerVars, taskVars, replyVars, wireVars, radioVars, eventVars, TypeOK, Bounded
  <2>3. Obeying' /\ InTime' /\ Truth'
    <3>1. UNCHANGED <<op, late, direct, pc, cur, answer, result, sent, line, toRig, bus, obeyed>>
      BY <1>3 DEF vars, callerVars, taskVars, replyVars, wireVars, radioVars
    <3>2. Obeying'
      BY <3>1 DEF IInv, Obeying
    <3>3. InTime'
      BY <3>1 DEF IInv, InTime, Orderly, Clean, Decisive
    <3>4. Truth'
      BY <3>1 DEF IInv, Truth, ToldTruly, DecidedBy, Orderly
    <3> QED  BY <3>2, <3>3, <3>4
  <2> QED  BY <2>1, <2>2, <2>3 DEF IInv
<1> QED  BY <1>2, <1>3

\* The invariant holds in every reachable state.
THEOREM Invariance == Spec => []IInv
BY InitInv, StepInv, PTL DEF Spec

\* The variables have their types: no attempt lies beyond max_retries, and the task
\* has a request in its hands or none (io_loop).
THEOREM TypeCorrect == Spec => []TypeOK
<1>1. IInv => TypeOK
  BY DEF IInv
<1> QED  BY <1>1, Invariance, PTL

\* What a call returns is about its own command, although no frame of the bus says
\* what it answers: for any number of calls, slots, retries, collisions and lost
\* commands and answers, with a rig that answers in time (execute_civ_command,
\* execute_civ_ack_command).
THEOREM AnswersAreTrue == Spec => []AnswersTrue
<1>1. IInv => AnswersTrue
  <2> SUFFICES ASSUME IInv  PROVE AnswersTrue
    OBVIOUS
  <2>1. Correlated
    BY DEF IInv, Truth, ToldTruly, DecidedBy, Correlated
  <2>2. AckMeansDone
    <3>1. ASSUME NEW r \in Requests  PROVE obeyed[r] <= sent[r]
      <4>1. Copies(toRig, r) \in Nat /\ obeyed[r] \in Nat /\ sent[r] \in Nat
        BY CopiesNat DEF IInv, TypeOK
      <4> QED  BY <4>1 DEF IInv, Obeying
    <3> QED  BY <3>1 DEF IInv, Truth, ToldTruly, AckMeansDone
  <2>3. SentAtMost
    BY DEF IInv, Attempts, Limit, Bookkeeping, CallerAgrees, SentAtMost
  <2> QED  BY <2>1, <2>2, <2>3 DEF AnswersTrue, VerdictsTrue
<1> QED  BY <1>1, Invariance, PTL

-----------------------------------------------------------------------------
(* The handle and its task implement RigLink.                              *)

\* The phases of all requests, as the refinement mapping has them.
LinkPhase == [r \in Requests |-> Phase(stage[r])]

\* The phases of the stages.
LEMMA PhaseOf ==
  /\ Phase("none") = "new" /\ Phase("held") = "pending" /\ Phase("queued") = "pending"
  /\ Phase("running") = "running" /\ Phase("gone") = "over"
BY DEF Phase

\* A request whose stage changes changes its phase, and no other does.
LEMMA PhaseMoves ==
  ASSUME stage \in [Requests -> Stages], NEW r \in Requests, NEW s \in Stages,
         stage' = [stage EXCEPT ![r] = s]
  PROVE  LinkPhase' = [LinkPhase EXCEPT ![r] = Phase(s)]
BY DEF LinkPhase

\* Steps that move no request and leave the task running, or at its end.
LEMMA LinkStutter ==
  ASSUME stage' = stage, result' = result, pc = "exited" <=> pc' = "exited"
  PROVE  UNCHANGED Link!linkVars
BY DEF Link!linkVars

\* The steps of a caller are those of a caller of the link.
LEMMA LinkCaller ==
  ASSUME IInv, NEW r \in Requests, CallerStep(r)
  PROVE  [Link!Next]_(Link!linkVars)
<1> USE DEF taskVars, replyVars
<1>0. /\ stage \in [Requests -> Stages] /\ CallerAgrees(r) /\ LinkPhase[r] = Phase(stage[r])
      /\ result \in [Requests -> Results]
      /\ caller[r] \in {"idle", "sending", "waiting", "done"} /\ pc' = pc
  BY DEF IInv, TypeOK, Bookkeeping, LinkPhase, CallerStep, Call, Enqueue, Refused, CallerTimeout, Abandon
<1>1. CASE Call(r)
  <2>1. stage[r] = "none" /\ stage' = [stage EXCEPT ![r] = "held"] /\ result' = result
    BY <1>0, <1>1 DEF Call, CallerAgrees
  <2>2. LinkPhase' = [LinkPhase EXCEPT ![r] = "pending"] /\ LinkPhase[r] = "new"
    BY <1>0, <2>1, PhaseMoves, PhaseOf DEF Stages
  <2>3. Link!Call(r)
    BY <1>0, <2>1, <2>2 DEF Link!Call, LinkPhase
  <2> QED  BY <2>3 DEF Link!Next
<1>2. CASE Enqueue(r)
  <2>1. stage[r] = "held" /\ stage' = [stage EXCEPT ![r] = "queued"] /\ result' = result
    BY <1>0, <1>2 DEF Enqueue, CallerAgrees
  <2>2. LinkPhase' = LinkPhase
    BY <1>0, <2>1, PhaseOf DEF LinkPhase
  <2> QED  BY <1>0, <2>1, <2>2 DEF Link!linkVars, LinkPhase
<1>3. CASE Refused(r)
  <2>1. /\ stage[r] = "held" /\ stage' = [stage EXCEPT ![r] = "gone"] /\ result[r] = "none"
        /\ result' = [result EXCEPT ![r] = "notconnected"] /\ pc = "exited"
    BY <1>0, <1>3 DEF Refused, CallerAgrees
  <2>2. LinkPhase' = [LinkPhase EXCEPT ![r] = "over"] /\ LinkPhase[r] = "pending"
    BY <1>0, <2>1, PhaseMoves, PhaseOf, ZenonT(30) DEF Stages
  <2>3. Link!Refuse(r)
    BY <1>0, <2>1, <2>2 DEF Link!Refuse, LinkPhase
  <2> QED  BY <2>3 DEF Link!Next
<1>4. ASSUME stage' = stage, stage[r] \in {"queued", "running"}, result[r] = "none",
             NEW v \in {"timeout", "abandoned"}, result' = [result EXCEPT ![r] = v]
      PROVE  Link!Next
  <2>1. LinkPhase' = LinkPhase /\ LinkPhase[r] \in {"pending", "running"}
    BY <1>0, <1>4, PhaseOf DEF LinkPhase
  <2>2. Link!Leave(r)
    BY <1>0, <1>4, <2>1 DEF Link!Leave, Link!GaveUp, LinkPhase
  <2> QED  BY <2>2 DEF Link!Next
<1>5. CASE CallerTimeout(r)
  BY <1>0, <1>4, <1>5 DEF CallerTimeout, CallerAgrees
<1>6. CASE Abandon(r)
  <2>1. result[r] = "none" /\ result' = [result EXCEPT ![r] = "abandoned"]
    BY <1>0, <1>6 DEF Abandon, CallerAgrees
  <2>2. CASE caller[r] = "sending"
    <3>1. stage[r] = "held" /\ stage' = [stage EXCEPT ![r] = "gone"]
      BY <1>0, <1>6, <2>2 DEF Abandon, CallerAgrees
    <3>2. LinkPhase' = [LinkPhase EXCEPT ![r] = "over"] /\ LinkPhase[r] = "pending"
      BY <1>0, <3>1, PhaseMoves, PhaseOf DEF Stages
    <3>3. Link!Leave(r)
      BY <1>0, <2>1, <3>2 DEF Link!Leave, Link!GaveUp, LinkPhase
    <3> QED  BY <3>3 DEF Link!Next
  <2>3. CASE caller[r] = "waiting"
    <3>1. stage[r] \in {"queued", "running"} /\ stage' = stage
      BY <1>0, <1>6, <2>3 DEF Abandon, CallerAgrees
    <3> QED  BY <1>4, <2>1, <3>1
  <2> QED  BY <1>6, <2>2, <2>3 DEF Abandon
<1> QED  BY <1>1, <1>2, <1>3, <1>5, <1>6 DEF CallerStep

\* Taking a request begins to serve it, while no other is served.
LEMMA LinkBegin ==
  ASSUME IInv, NEW r \in Requests, Begin(r), pc = "select", stage[r] = "queued"
  PROVE  Link!Next
<1>1. /\ stage \in [Requests -> Stages] /\ stage' = [stage EXCEPT ![r] = "running"]
      /\ result' = result /\ pc' # "exited"
  <2>1. op[r].kind \in {"query", "ack", "line", "shutdown"}
    BY DEF IInv, TypeOK, Ops
  <2> QED  BY <2>1 DEF IInv, TypeOK, Begin
<1>2. LinkPhase' = [LinkPhase EXCEPT ![r] = "running"] /\ LinkPhase[r] = "pending"
  BY <1>1, PhaseMoves, PhaseOf DEF Stages, LinkPhase
<1>3. ASSUME NEW q \in Requests  PROVE  LinkPhase[q] # "running"
  <2>1. stage[q] \in Stages \ {"running"}
    BY <1>1, CivIoAssumption DEF IInv, Placed, Busy
  <2> QED  BY <2>1, PhaseOf DEF LinkPhase, Stages
<1>4. Link!Start(r)
  BY <1>1, <1>2, <1>3 DEF Link!Start, LinkPhase
<1> QED  BY <1>4 DEF Link!Next

\* The end of a request, also of one nobody waits for any more.
LEMMA LinkDone ==
  ASSUME IInv, pc \in Busy, pc' # "exited", stage' = [stage EXCEPT ![cur] = "gone"],
         NEW res \in Link!Served,
         IF caller[cur] = "waiting"
         THEN result' = [result EXCEPT ![cur] = res]
         ELSE UNCHANGED result
  PROVE  Link!Next
<1>1. PICK r \in Requests : r = cur /\ stage[r] = "running"
  BY Executing, TypesAre DEF IInv
<1>2. /\ stage \in [Requests -> Stages] /\ CallerAgrees(r)
      /\ caller[r] \in {"idle", "sending", "waiting", "done"}
  BY DEF IInv, TypeOK, Bookkeeping
<1>3. LinkPhase' = [LinkPhase EXCEPT ![r] = "over"] /\ LinkPhase[r] = "running"
  BY <1>1, <1>2, PhaseMoves, PhaseOf DEF Stages, LinkPhase
<1>4. pc # "exited"
  BY DEF Busy
<1>5. result[r] = "none" <=> caller[r] = "waiting"
  BY <1>1, <1>2 DEF CallerAgrees
<1>6. IF result[r] = "none"
      THEN \E v \in Link!Served : result' = [result EXCEPT ![r] = v]
      ELSE UNCHANGED result
  BY <1>1, <1>5
<1>7. Link!Finish(r)
  BY <1>3, <1>4, <1>6 DEF Link!Finish, LinkPhase
<1> QED  BY <1>7 DEF Link!Next

\* The end of the task closes the link.
LEMMA LinkExit ==
  ASSUME IInv, Exit
  PROVE  Link!Close
<1> DEFINE lost == {r \in Requests : stage[r] = "queued"}
<1>1. pc = "return" /\ pc' = "exited"
  BY DEF Exit
<1>2. ASSUME NEW r \in Requests
      PROVE  /\ stage[r] \in Stages \ {"running"} /\ CallerAgrees(r)
             /\ caller[r] \in {"idle", "sending", "waiting", "done"}
             /\ LinkPhase[r] = Phase(stage[r])
  BY <1>1, CivIoAssumption DEF IInv, TypeOK, Placed, Bookkeeping, LinkPhase, Busy
<1>3. \A q \in Requests : LinkPhase[q] # "running"
  BY <1>2, PhaseOf DEF Stages
<1>4. lost \in SUBSET {r \in Requests : LinkPhase[r] = "pending"}
  BY <1>2, PhaseOf
<1>5. LinkPhase' = [r \in Requests |-> IF r \in lost THEN "over" ELSE LinkPhase[r]]
  <2>1. ASSUME NEW r \in Requests
        PROVE  Phase(stage'[r]) = IF r \in lost THEN "over" ELSE LinkPhase[r]
    <3>1. stage'[r] = IF stage[r] = "queued" THEN "gone" ELSE stage[r]
      BY DEF Exit
    <3> QED  BY <1>2, <3>1, PhaseOf
  <2> QED  BY <2>1 DEF LinkPhase
<1>6. result' = [r \in Requests |-> IF r \in lost /\ result[r] = "none"
                                    THEN "notconnected" ELSE result[r]]
  <2>1. ASSUME NEW r \in Requests
        PROVE  caller[r] = "waiting" <=> r \in lost /\ result[r] = "none"
    BY <1>2 DEF CallerAgrees, Stages
  <2> QED  BY <2>1 DEF Exit
<1> HIDE DEF lost
<1> QED  BY <1>1, <1>3, <1>4, <1>5, <1>6 DEF Link!Close, LinkPhase

\* The steps of the task.
LEMMA LinkTask ==
  ASSUME IInv, Task
  PROVE  [Link!Next]_(Link!linkVars)
<1>0. AcctTypes /\ TypeOK /\ Placed /\ Bookkeeping
  BY TypesAre DEF IInv
<1>1. CASE TakeRt
  <2>1. Head(rtq) \in Requests /\ stage[Head(rtq)] = "queued"
    BY <1>0, <1>1, TailHolds DEF TakeRt, Placed, AcctTypes
  <2> QED  BY <1>1, <2>1, LinkBegin DEF TakeRt
<1>2. CASE TakeBg
  <2>1. Head(bgq) \in Requests /\ stage[Head(bgq)] = "queued"
    BY <1>0, <1>2, TailHolds DEF TakeBg, Placed, AcctTypes
  <2> QED  BY <1>2, <2>1, LinkBegin DEF TakeBg
<1>3. CASE Stops \/ Sends \/ Again \/ UNCHANGED acctVars
  BY <1>3, LinkStutter DEF Stops, Sends, Again, acctVars
<1>4. CASE Exit
  BY <1>4, LinkExit DEF Link!Next
<1>5. ASSUME NEW res \in Told4, NEW of, Ends(res, of)
      PROVE  Link!Next
  BY <1>5, LinkDone DEF Ends, Told4, Link!Served
<1>6. CASE Aborted
  <2>1. /\ stage' = [r \in Requests |-> IF r = cur THEN "gone" ELSE stage[r]]
        /\ result' = result /\ pc' = "return" /\ pc \notin {"return", "exited"}
        /\ handle = "dropped"
    BY <1>6 DEF Aborted, callerVars
  <2>2. CASE pc \in Busy
    <3>1. cur \in Requests /\ stage \in [Requests -> Stages]
      BY <1>0, <2>2, Executing DEF AcctTypes
    <3>2. stage' = [stage EXCEPT ![cur] = "gone"]
      BY <2>1, <3>1
    <3>3. caller[cur] # "waiting"
      BY <1>0, <2>1, <3>1 DEF Bookkeeping, CallerAgrees
    <3>4. "ok" \in Link!Served
      BY DEF Link!Served
    <3> QED  BY <2>1, <2>2, <3>2, <3>3, <3>4, LinkDone
  <2>3. CASE pc \notin Busy
    <3>1. \A r \in Requests : r # cur
      BY <1>0, <2>3, CivIoAssumption DEF Placed
    <3>2. stage' = stage
      BY <1>0, <2>1, <3>1 DEF AcctTypes
    <3> QED  BY <2>1, <3>2, LinkStutter
  <2> QED  BY <2>2, <2>3
<1> QED  BY <1>0, <1>1, <1>2, <1>3, <1>4, <1>5, <1>6, TaskMoves

\* The refinement: for any number of calls, channel slots and retries, the handle
\* with its task serves calls one at a time and gives each one verdict, also when the
\* rig is dropped and its task aborted in the middle of a command.
THEOREM Refinement == Spec => ImplementsLink
<1>1. Init => Link!Init
  BY PhaseOf DEF Init, Link!Init
<1>2. IInv /\ [Next]_vars => [Link!Next]_(Link!linkVars)
  <2> SUFFICES ASSUME IInv, [Next]_vars  PROVE  [Link!Next]_(Link!linkVars)
    OBVIOUS
  <2>1. ASSUME NEW r \in Requests, CallerStep(r)
        PROVE  [Link!Next]_(Link!linkVars)
    BY <2>1, LinkCaller
  <2>2. CASE Task
    BY <2>2, LinkTask
  <2>3. CASE DropRig \/ RigAnswers \/ OperatorTurns \/ LineFails \/ UNCHANGED vars
    <3>1. UNCHANGED <<stage, result, pc>>
      BY <2>3 DEF DropRig, RigAnswers, OperatorTurns, LineFails, vars, taskVars, replyVars
    <3> QED  BY <3>1, LinkStutter
  <2> QED  BY <2>1, <2>2, <2>3 DEF Next, CallerStep
<1> QED  BY Invariance, <1>1, <1>2, PTL DEF Spec, ImplementsLink, Link!Spec
=============================================================================
