------------------------- MODULE FlexClientProofs --------------------------
(***************************************************************************)
(* Proofs about FlexClient, for all values of its constants.               *)
(*                                                                         *)
(* The argument: a sequence number names one call for ever.  So the map    *)
(* has a caller under its own number only, a response finds the sender of  *)
(* the call whose command the radio has executed, and a command that was   *)
(* never written is never executed.                                        *)
(***************************************************************************)
EXTENDS FlexClient, Integers, SequenceTheorems, TLAPS

-----------------------------------------------------------------------------
(* Queues: what appending and taking the first do to a sequence.           *)

\* Appending a line leaves the others.
LEMMA AppendLine ==
  ASSUME NEW S, NEW q \in Seq(S), NEW x \in S
  PROVE  /\ Append(q, x) \in Seq(S) /\ Len(q) \in Nat
         /\ Len(Append(q, x)) = Len(q) + 1
         /\ Append(q, x)[Len(q) + 1] = x
         /\ \A i \in 1..Len(q) : Append(q, x)[i] = q[i]
         /\ \A i \in 1..Len(Append(q, x)) : i \in 1..Len(q) \/ i = Len(q) + 1
OBVIOUS

\* Taking the first line leaves the others, one place further ahead.
LEMMA TailLine ==
  ASSUME NEW S, NEW q \in Seq(S), q # <<>>
  PROVE  /\ Head(q) = q[1] /\ 1 \in 1..Len(q) /\ Len(q) \in Nat
         /\ Tail(q) \in Seq(S) /\ Len(Tail(q)) = Len(q) - 1
         /\ \A i \in 1..Len(Tail(q)) : Tail(q)[i] = q[i + 1] /\ i + 1 \in 1..Len(q) /\ i + 1 # 1
         /\ \A i \in 1..Len(q) : i = 1 \/ (i - 1 \in 1..Len(Tail(q)) /\ Tail(q)[i - 1] = q[i])
BY HeadTailProperties

\* Calls and disconnects begin with an open client, behind the subscriptions.
Opening ==
  /\ phase = "open" => nextSeq > Subscriptions
  /\ phase \in {"connect", "version", "handle"} =>
       ~connected /\ ~cached /\ reader = "none" /\ ~aborted
  /\ \A c \in Calls : pc[c] # "idle" => phase = "open"
  /\ \A d \in Closers : closer[d] # "idle" => phase = "open"

\* A number belongs to one call, and to none of the subscriptions.
Numbers ==
  /\ \A c \in Calls : pc[c] \in {"idle", "checked"} => seq[c] = 0
  /\ \A c \in Calls : pc[c] \in {"numbered", "registered", "writing", "waiting", "leaving"} =>
       seq[c] # 0
  /\ \A c \in Calls : seq[c] # 0 => seq[c] > Subscriptions
  /\ \A c, d \in Calls : seq[c] # 0 /\ seq[c] = seq[d] => c = d
  /\ 0 \notin DOMAIN pending

\* A verdict comes from the radio, after the call is registered.
MailHonest ==
  \A c \in Calls :
    /\ pc[c] \in {"idle", "checked", "numbered"} => mailbox[c] = "empty"
    /\ mailbox[c] \in {"ok", "rejected"} => c \in executed
    /\ pc[c] = "leaving" => result[c] \in {"notconnected", "timeout", "lost", "broken"}
    /\ pc[c] \notin {"leaving", "done"} => result[c] = "none"

\* With the places p, results r, numbers s and executed commands ex of the calls:
\* the command of a call has been handed to the stream.
Written(c, p, r) == p[c] \in {"waiting", "leaving", "done"} /\ r[c] # "notconnected"

\* A line carries the number of its call; the radio has yet to execute it.
CommandHonest(l, s, p, r, ex) ==
  IF l.call \in Calls
  THEN l.seq = s[l.call] /\ Written(l.call, p, r) /\ l.call \notin ex
  ELSE l.seq <= Subscriptions
ResponseHonest(f, s, ex) ==
  IF f.call \in Calls THEN f.seq = s[f.call] /\ f.call \in ex ELSE f.seq <= Subscriptions

LinesHonest ==
  /\ \A i \in 1..Len(toRadio) : CommandHonest(toRadio[i], seq, pc, result, executed)
  /\ \A i, j \in 1..Len(toRadio) :
       toRadio[i].call = toRadio[j].call /\ toRadio[i].call \in Calls => i = j
  /\ \A i \in 1..Len(fromRadio) : ResponseHonest(fromRadio[i], seq, executed)
  /\ \A c \in executed : Written(c, pc, result)

\* Who knows of the end of the connection, or is about to tell.
EndTold ==
  /\ reader \in {"ended", "clearing", "over"} => ~connected
  /\ reader = "clearing" => ~cached /\ announced > 0
  /\ reader = "over" => aborted \/ (~cached /\ announced > 0)
  /\ \A d \in Closers : closer[d] \in {"writer", "abort", "clear", "state"} => ~connected
  /\ aborted => /\ ~connected
                /\ \/ ~cached /\ announced > 0
                   \/ \E d \in Closers : closer[d] \in {"clear", "state"}

\* The inductive invariant.
IInv == /\ TypeOK /\ Opening /\ Numbers /\ MailHonest /\ LinesHonest /\ EndTold
        /\ PendingHonest /\ NoAnswerLost

-----------------------------------------------------------------------------
(* What the steps of each actor leave alone.                               *)

Network == RadioExecutes \/ RadioCloses \/ Reset

\* Connecting touches neither calls nor the lines of the radio.
LEMMA OpenerFrame ==
  ASSUME Opener
  PROVE  UNCHANGED <<pc, seq, mailbox, result, closer, pending, announced, tcp, fromRadio,
                     executed, aborted>>
BY DEF Opener, Connect, ReadVersion, ReadHandle, NotGreeted, Subscribe, Open, Fails,
       callerVars, flagVars, netVars, taskVars, openVars

\* A call reads flags and stream; it writes its own state, the map and a line.
LEMMA CallerFrame ==
  ASSUME NEW c \in Calls, Caller(c) \/ Abandon(c)
  PROVE  UNCHANGED <<closer, writer, connected, cached, announced, tcp, fromRadio, executed,
                     reader, aborted, udp, phase, hello>>
BY DEF Caller, Check, Number, Register, Lock, Write, Receive, Expire, Unregister, Abandon,
       flagVars, netVars, taskVars, openVars

\* The read loop hands over mail and ends the connection; calls move by themselves.
LEMMA ReaderFrame ==
  ASSUME Reader
  PROVE  UNCHANGED <<pc, seq, result, closer, nextSeq, writer, tcp, toRadio, executed, aborted,
                     udp, phase, hello>>
BY DEF Reader, ReadLine, ReadEnd, ReadAnnounce, ReadClear, ReadAborted,
       callerVars, flagVars, netVars, taskVars, openVars

\* disconnect sends and receives nothing.
LEMMA CloserFrame ==
  ASSUME NEW d \in Closers, Closer(d)
  PROVE  UNCHANGED <<pc, seq, result, nextSeq, toRadio, fromRadio, executed, reader, phase, hello>>
BY DEF Closer, DCheck, DStore, DWriter, DAbort, DClear, DState,
       callerVars, flagVars, netVars, taskVars, openVars

\* Radio and network see the stream only.
LEMMA NetworkFrame ==
  ASSUME Network
  PROVE  UNCHANGED <<pc, seq, mailbox, result, closer, nextSeq, pending, writer, connected, cached,
                     announced, reader, aborted, udp, phase, hello>>
BY DEF Network, RadioExecutes, RadioCloses, Reset, callerVars, flagVars, taskVars, openVars

-----------------------------------------------------------------------------
(* The types.                                                              *)

\* Connecting keeps the types.
LEMMA OpenerType ==
  ASSUME TypeOK, Opener
  PROVE  TypeOK'
<1> USE OpenerFrame, WindowAssumption DEF TypeOK, callerVars, flagVars, netVars, taskVars, openVars
<1>1. CASE Connect
  BY <1>1 DEF Connect, Fails, Phases, Failures
<1>2. CASE ReadVersion
  BY <1>2 DEF ReadVersion, Phases, Failures
<1>3. CASE ReadHandle
  BY <1>3 DEF ReadHandle, Phases, Failures, Readers
<1>4. CASE NotGreeted
  BY <1>4 DEF NotGreeted, Fails, Phases, Failures
<1>5. CASE Subscribe
  <2>1. CASE \E error : Fails(error) /\ error \in Failures
    BY <2>1 DEF Fails
  <2>2. CASE /\ nextSeq' = nextSeq + 1
             /\ toRadio' = IF tcp = "up"
                           THEN Append(toRadio, [seq |-> nextSeq, call |-> NoCall]) ELSE toRadio
             /\ UNCHANGED <<callerVars, closer, pending, writer, flagVars, tcp, fromRadio, executed,
                            taskVars, openVars>>
    <3>1. [seq |-> nextSeq, call |-> NoCall] \in [seq : Nat, call : Calls \cup {NoCall}]
      OBVIOUS
    <3>2. toRadio' \in Seq([seq : Nat, call : Calls \cup {NoCall}])
      <4>1. CASE tcp = "up"
        BY <2>2, <3>1, <4>1
      <4>2. CASE tcp # "up"
        BY <2>2, <4>2
      <4> QED  BY <4>1, <4>2
    <3>3. seq \in [Calls -> 0 .. nextSeq' - 1] /\ nextSeq' \in Nat \ {0}
      BY <2>2
    <3> QED  BY <2>2, <3>2, <3>3
  <2> QED  BY <1>5, <2>1, <2>2 DEF Subscribe, Failures
<1>6. CASE Open
  BY <1>6 DEF Open, Phases
<1> QED  BY <1>1, <1>2, <1>3, <1>4, <1>5, <1>6 DEF Opener

\* Closing the channels of some callers leaves mail of the known kinds.
LEMMA ClosedType ==
  ASSUME mailbox \in [Calls -> Mail], NEW S
  PROVE  Closed(S) \in [Calls -> Mail]
BY DEF Closed, Mail

\* The steps of a call keep the types: a number is below the counter.
LEMMA CallerType ==
  ASSUME TypeOK, NEW c \in Calls, Caller(c) \/ Abandon(c)
  PROVE  TypeOK'
<1> USE CallerFrame DEF TypeOK, callerVars, CallStates, Results, Finish, Fail
<1>1. CASE Check(c)
  BY <1>1 DEF Check, netVars
<1>2. CASE Number(c)
  <2>1. seq' \in [Calls -> 0 .. nextSeq' - 1] /\ nextSeq' \in Nat \ {0}
    BY <1>2 DEF Number
  <2> QED  BY <1>2, <2>1 DEF Number, netVars
<1>3. CASE Register(c)
  <2>1. mailbox' \in [Calls -> Mail]
    BY <1>3, ClosedType DEF Register
  <2>2. DOMAIN pending' \subseteq Nat /\ \A s \in DOMAIN pending' : pending'[s] \in Calls
    BY <1>3 DEF Register
  <2> QED  BY <1>3, <2>1, <2>2 DEF Register, netVars
<1>4. CASE Lock(c)
  BY <1>4 DEF Lock, netVars
<1>5. CASE Write(c)
  <2>1. [seq |-> seq[c], call |-> c] \in [seq : Nat, call : Calls \cup {NoCall}]
    OBVIOUS
  <2>2. toRadio' \in Seq([seq : Nat, call : Calls \cup {NoCall}])
    <3>1. CASE toRadio' = toRadio
      BY <3>1
    <3>2. CASE toRadio' = Append(toRadio, [seq |-> seq[c], call |-> c])
      BY <3>2, <2>1
    <3> QED  BY <1>5, <3>1, <3>2 DEF Write
  <2>3. pc' \in [Calls -> CallStates] /\ result' \in [Calls -> Results]
    BY <1>5 DEF Write
  <2> QED  BY <1>5, <2>2, <2>3 DEF Write
<1>6. CASE Receive(c)
  BY <1>6 DEF Receive, netVars
<1>7. CASE Expire(c)
  BY <1>7 DEF Expire, netVars
<1>8. CASE Unregister(c)
  <2>1. mailbox' \in [Calls -> Mail]
    BY <1>8, ClosedType DEF Unregister
  <2>2. DOMAIN pending' \subseteq Nat /\ \A s \in DOMAIN pending' : pending'[s] \in Calls
    BY <1>8 DEF Unregister, Without
  <2> QED  BY <1>8, <2>1, <2>2 DEF Unregister, netVars
<1>9. CASE Abandon(c)
  BY <1>9 DEF Abandon, netVars
<1> QED  BY <1>1, <1>2, <1>3, <1>4, <1>5, <1>6, <1>7, <1>8, <1>9 DEF Caller

\* The read loop keeps the types.
LEMMA ReaderType ==
  ASSUME TypeOK, Reader
  PROVE  TypeOK'
<1> USE ReaderFrame DEF TypeOK, callerVars, flagVars, netVars, Readers
<1>1. CASE ReadLine
  <2>1. fromRadio' \in Seq([seq : Nat, call : Calls \cup {NoCall}, ok : BOOLEAN])
    BY <1>1 DEF ReadLine
  <2>2. /\ mailbox' \in [Calls -> Mail]
        /\ DOMAIN pending' \subseteq Nat /\ \A s \in DOMAIN pending' : pending'[s] \in Calls
    <3> DEFINE f == Head(fromRadio)
    <3>1. CASE UNCHANGED <<pending, mailbox>>
      BY <3>1
    <3>2. CASE /\ f.seq \in DOMAIN pending
               /\ pending' = Without(f.seq)
               /\ mailbox' = [mailbox EXCEPT ![pending[f.seq]] = IF f.ok THEN "ok" ELSE "rejected"]
      <4>1. (IF f.ok THEN "ok" ELSE "rejected") \in Mail
        BY DEF Mail
      <4>2. mailbox' \in [Calls -> Mail]
        BY <3>2, <4>1
      <4> QED  BY <3>2, <4>2 DEF Without
    <3> QED  BY <1>1, <3>1, <3>2 DEF ReadLine
  <2> QED  BY <1>1, <2>1, <2>2 DEF ReadLine, taskVars
<1>2. CASE ReadEnd
  BY <1>2 DEF ReadEnd
<1>3. CASE ReadAnnounce
  <2>1. announced' \in Nat /\ reader' \in Readers
    BY <1>3 DEF ReadAnnounce
  <2> QED  BY <1>3, <2>1 DEF ReadAnnounce
<1>4. CASE ReadClear
  <2>1. mailbox' \in [Calls -> Mail] /\ pending' = <<>>
    BY <1>4, ClosedType DEF ReadClear
  <2> QED  BY <1>4, <2>1 DEF ReadClear
<1>5. CASE ReadAborted
  BY <1>5 DEF ReadAborted
<1> QED  BY <1>1, <1>2, <1>3, <1>4, <1>5 DEF Reader

\* disconnect keeps the types.
LEMMA CloserType ==
  ASSUME TypeOK, NEW d \in Closers, Closer(d)
  PROVE  TypeOK'
<1> USE CloserFrame DEF TypeOK, callerVars, flagVars, netVars, taskVars, Moves, CloserStates
<1>1. CASE DCheck(d)
  BY <1>1 DEF DCheck
<1>2. CASE DStore(d)
  BY <1>2 DEF DStore
<1>3. CASE DWriter(d)
  BY <1>3 DEF DWriter
<1>4. CASE DAbort(d)
  BY <1>4 DEF DAbort
<1>5. CASE DClear(d)
  <2>1. mailbox' \in [Calls -> Mail] /\ pending' = <<>>
    BY <1>5, ClosedType DEF DClear
  <2> QED  BY <1>5, <2>1 DEF DClear
<1>6. CASE DState(d)
  <2>1. announced' \in Nat /\ closer' \in [Closers -> CloserStates]
    BY <1>6 DEF DState
  <2> QED  BY <1>6, <2>1 DEF DState
<1> QED  BY <1>1, <1>2, <1>3, <1>4, <1>5, <1>6 DEF Closer

\* Radio and network keep the types: an answer is made from a command.
LEMMA NetworkType ==
  ASSUME TypeOK, Network
  PROVE  TypeOK'
<1> USE NetworkFrame DEF TypeOK
<1>1. CASE RadioExecutes
  <2> DEFINE l == Head(toRadio)
  <2>1. l \in [seq : Nat, call : Calls \cup {NoCall}]
        /\ toRadio' \in Seq([seq : Nat, call : Calls \cup {NoCall}])
    BY <1>1, HeadTailProperties DEF RadioExecutes
  <2>2. executed' \subseteq Calls
    BY <1>1 DEF RadioExecutes
  <2>3. PICK b \in BOOLEAN :
          fromRadio' = Append(fromRadio, [seq |-> l.seq, call |-> l.call, ok |-> b])
    BY <1>1 DEF RadioExecutes
  <2>4. [seq |-> l.seq, call |-> l.call, ok |-> b]
          \in [seq : Nat, call : Calls \cup {NoCall}, ok : BOOLEAN]
    BY <2>1
  <2>5. fromRadio' \in Seq([seq : Nat, call : Calls \cup {NoCall}, ok : BOOLEAN])
    BY <2>3, <2>4
  <2> QED  BY <1>1, <2>1, <2>2, <2>5 DEF RadioExecutes
<1>2. CASE RadioCloses
  BY <1>2 DEF RadioCloses
<1>3. CASE Reset
  BY <1>3 DEF Reset
<1> QED  BY <1>1, <1>2, <1>3 DEF Network

-----------------------------------------------------------------------------
(* Opening, and the end of the connection.                                 *)

\* Every step keeps Opening: the counter never falls, an open client stays open.
LEMMA OpeningStep ==
  ASSUME TypeOK, Opening, Next
  PROVE  Opening'
<1> USE DEF Opening
<1>1. CASE Opener
  <2> USE <1>1, OpenerFrame
  <2>1. CASE Connect
    BY <2>1 DEF Connect, Fails, flagVars, taskVars
  <2>2. CASE ReadVersion
    BY <2>2 DEF ReadVersion, flagVars, taskVars
  <2>3. CASE ReadHandle
    BY <2>3 DEF ReadHandle
  <2>4. CASE NotGreeted
    BY <2>4 DEF NotGreeted, Fails, flagVars, taskVars
  <2>5. CASE Subscribe
    BY <2>5 DEF Subscribe, Fails, flagVars, taskVars, openVars
  <2>6. CASE Open
    BY <2>6 DEF Open, flagVars
  <2> QED  BY <2>1, <2>2, <2>3, <2>4, <2>5, <2>6 DEF Opener
<1>2. ASSUME NEW c \in Calls, Caller(c) \/ Abandon(c)
      PROVE  Opening'
  <2>1. pc[c] = "idle" => phase = "open"
    BY <1>2 DEF Caller, Check, Number, Register, Lock, Write, Receive, Expire, Unregister, Abandon
  <2>2. phase = "open"
    BY <2>1
  <2>3. nextSeq' \in {nextSeq, nextSeq + 1}
    BY <1>2 DEF TypeOK, Caller, Check, Number, Register, Lock, Write, Receive, Expire, Unregister,
                Abandon
  <2> QED  BY <1>2, <2>2, <2>3, CallerFrame, WindowAssumption DEF TypeOK
<1>3. CASE Reader
  <2>1. phase # "connect" /\ phase # "version" /\ phase # "handle"
    BY <1>3 DEF Reader, ReadLine, ReadEnd, ReadAnnounce, ReadClear, ReadAborted
  <2> QED  BY <1>3, <2>1, ReaderFrame
<1>4. ASSUME NEW d \in Closers, Closer(d)
      PROVE  Opening'
  <2>1. phase = "open"
    BY <1>4 DEF Closer, DCheck, DStore, DWriter, DAbort, DClear, DState
  <2> QED  BY <1>4, <2>1, CloserFrame
<1>5. CASE Network
  BY <1>5, NetworkFrame
<1> QED  BY <1>1, <1>2, <1>3, <1>4, <1>5 DEF Next, Network

\* Every step keeps EndTold.
LEMMA EndStep ==
  ASSUME TypeOK, Opening, EndTold, Next
  PROVE  EndTold'
<1> USE DEF EndTold
<1>1. CASE Opener
  <2> USE <1>1, OpenerFrame
  <2>1. CASE ReadHandle
    <3>1. reader = "none" /\ ~aborted /\ \A d \in Closers : closer[d] = "idle"
      BY <2>1 DEF ReadHandle, Opening
    <3> QED  BY <2>1, <3>1 DEF ReadHandle
  <2>2. CASE Connect \/ ReadVersion \/ NotGreeted \/ Subscribe \/ Open
    <3>1. UNCHANGED <<reader, connected, cached>>
      BY <2>2 DEF Connect, ReadVersion, NotGreeted, Subscribe, Open, Fails, flagVars, taskVars
    <3> QED  BY <3>1
  <2> QED  BY <2>1, <2>2 DEF Opener
<1>2. ASSUME NEW c \in Calls, Caller(c) \/ Abandon(c)
      PROVE  EndTold'
  BY <1>2, CallerFrame
<1>3. CASE Reader
  <2> USE <1>3, ReaderFrame
  <2>1. CASE ReadLine
    BY <2>1 DEF ReadLine, flagVars, taskVars
  <2>2. CASE ReadEnd
    BY <2>2 DEF ReadEnd
  <2>3. CASE ReadAnnounce
    <3>1. announced' > 0
      BY <2>3 DEF ReadAnnounce, TypeOK
    <3> QED  BY <2>3, <3>1 DEF ReadAnnounce
  <2>4. CASE ReadClear
    BY <2>4 DEF ReadClear, flagVars
  <2>5. CASE ReadAborted
    BY <2>5 DEF ReadAborted, flagVars
  <2> QED  BY <2>1, <2>2, <2>3, <2>4, <2>5 DEF Reader
<1>4. ASSUME NEW d \in Closers, Closer(d)
      PROVE  EndTold'
  <2> USE <1>4, CloserFrame DEF TypeOK, Moves
  <2>1. CASE DCheck(d)
    BY <2>1 DEF DCheck, flagVars, taskVars
  <2>2. CASE DStore(d)
    BY <2>2 DEF DStore, taskVars
  <2>3. CASE DWriter(d)
    BY <2>3 DEF DWriter, flagVars, taskVars
  <2>4. CASE DAbort(d)
    BY <2>4 DEF DAbort, flagVars
  <2>5. CASE DClear(d)
    BY <2>5 DEF DClear, flagVars, taskVars
  <2>6. CASE DState(d)
    <3>1. announced' > 0
      BY <2>6 DEF DState
    <3>2. ~cached' /\ UNCHANGED <<connected, aborted>>
      BY <2>6 DEF DState, taskVars
    <3>3. \A e \in Closers : closer'[e] \in {"writer", "abort", "clear", "state"} =>
            closer[e] \in {"writer", "abort", "clear", "state"}
      BY <2>6 DEF DState
    <3> QED  BY <3>1, <3>2, <3>3
  <2> QED  BY <2>1, <2>2, <2>3, <2>4, <2>5, <2>6 DEF Closer
<1>5. CASE Network
  BY <1>5, NetworkFrame
<1> QED  BY <1>1, <1>2, <1>3, <1>4, <1>5 DEF Next, Network

-----------------------------------------------------------------------------
(* Numbers, and the map.                                                   *)

\* Every step keeps Numbers: the counter is taken and moved on in one step.
LEMMA NumbersStep ==
  ASSUME TypeOK, Opening, Numbers, Next
  PROVE  Numbers'
<1> USE DEF Numbers
<1>1. CASE Opener
  BY <1>1, OpenerFrame
<1>2. ASSUME NEW c \in Calls, Caller(c) \/ Abandon(c)
      PROVE  Numbers'
  <2> USE DEF TypeOK, Finish, Fail
  <2>1. CASE Number(c)
    <3>1. /\ seq[c] = 0 /\ seq' = [seq EXCEPT ![c] = nextSeq]
          /\ pc' = [pc EXCEPT ![c] = "numbered"] /\ UNCHANGED pending
      BY <2>1 DEF Number
    <3>2. nextSeq > Subscriptions
      BY <2>1 DEF Number, Opening
    <3>3. \A b \in Calls : seq[b] < nextSeq
      OBVIOUS
    <3>4. \A b \in Calls : b # c => seq'[b] = seq[b] /\ pc'[b] = pc[b] /\ seq'[b] # nextSeq
      BY <3>1, <3>3
    <3>5. seq'[c] = nextSeq /\ pc'[c] = "numbered" /\ nextSeq # 0
      BY <3>1
    <3> QED  BY <3>1, <3>2, <3>4, <3>5
  <2>2. CASE Register(c)
    <3>1. seq[c] # 0 /\ UNCHANGED seq /\ pc' = [pc EXCEPT ![c] = "registered"]
          /\ DOMAIN pending' = DOMAIN pending \cup {seq[c]}
      BY <2>2 DEF Register
    <3> QED  BY <3>1
  <2>3. CASE Unregister(c)
    <3>1. UNCHANGED seq /\ pc' = [pc EXCEPT ![c] = "done"] /\ DOMAIN pending' \subseteq DOMAIN pending
      BY <2>3 DEF Unregister, Without
    <3> QED  BY <3>1
  <2>4. CASE Check(c) \/ Lock(c) \/ Write(c) \/ Receive(c) \/ Expire(c) \/ Abandon(c)
    <3>1. UNCHANGED <<seq, pending>>
      BY <2>4 DEF Check, Lock, Write, Receive, Expire, Abandon
    <3>2. /\ \A b \in Calls : b # c => pc'[b] = pc[b]
          /\ pc'[c] = "checked" => pc[c] = "idle"
          /\ pc[c] # "done" /\ pc'[c] # "idle"
          /\ (pc[c] \in {"idle", "checked", "numbered"} => pc'[c] \in {"checked", "done"})
      BY <2>4 DEF Check, Lock, Write, Receive, Expire, Abandon
    <3>3. /\ pc'[c] \in {"idle", "checked"} => seq[c] = 0
          /\ pc'[c] \in {"numbered", "registered", "writing", "waiting", "leaving"} => seq[c] # 0
      <4>1. pc[c] \in CallStates
        OBVIOUS
      <4> QED  BY <3>2, <4>1 DEF CallStates
    <3> QED  BY <3>1, <3>2, <3>3
  <2> QED  BY <1>2, <2>1, <2>2, <2>3, <2>4 DEF Caller
<1>3. CASE Reader
  <2>1. DOMAIN pending' \subseteq DOMAIN pending
    BY <1>3 DEF Reader, ReadLine, ReadEnd, ReadAnnounce, ReadClear, ReadAborted, Without
  <2> QED  BY <1>3, <2>1, ReaderFrame
<1>4. ASSUME NEW d \in Closers, Closer(d)
      PROVE  Numbers'
  <2>1. DOMAIN pending' \subseteq DOMAIN pending
    BY <1>4 DEF Closer, DCheck, DStore, DWriter, DAbort, DClear, DState
  <2> QED  BY <1>4, <2>1, CloserFrame
<1>5. CASE Network
  BY <1>5, NetworkFrame
<1> QED  BY <1>1, <1>2, <1>3, <1>4, <1>5 DEF Next, Network

\* Without the entry of a number, and with it, the map is what it was elsewhere.
LEMMA WithoutMap ==
  ASSUME NEW s
  PROVE  /\ DOMAIN Without(s) = DOMAIN pending \ {s}
         /\ \A k \in DOMAIN Without(s) : Without(s)[k] = pending[k]
BY DEF Without

\* Dropping senders writes into empty channels only.
LEMMA ClosedMail ==
  ASSUME NEW S, NEW c \in Calls
  PROVE  /\ Closed(S)[c] = IF c \in S /\ mailbox[c] = "empty" THEN "closed" ELSE mailbox[c]
         /\ c \in S => Closed(S)[c] # "empty"
         /\ Closed(S)[c] \in {"ok", "rejected"} <=> mailbox[c] \in {"ok", "rejected"}
BY DEF Closed

\* A call is in the map under its number, or not at all.
LEMMA OnlyOwn ==
  ASSUME TypeOK, Numbers, PendingHonest, NEW c \in Calls, seq[c] # 0
  PROVE  /\ c \in Registered <=> seq[c] \in DOMAIN pending
         /\ \A s \in DOMAIN pending : pending[s] = c <=> s = seq[c]
         /\ seq[c] \in DOMAIN pending => pending[seq[c]] = c
<1>1. \A s \in DOMAIN pending : pending[s] \in Calls /\ seq[pending[s]] = s
  BY DEF TypeOK, PendingHonest
<1>2. \A s \in DOMAIN pending : s = seq[c] => pending[s] = c
  BY <1>1 DEF Numbers
<1> QED  BY <1>1, <1>2 DEF Registered

\* A call that has not registered yet is not in the map.
LEMMA NotYet ==
  ASSUME TypeOK, Numbers, PendingHonest, NEW c \in Calls,
         pc[c] \in {"idle", "checked", "numbered"}
  PROVE  \A s \in DOMAIN pending : pending[s] # c /\ s # seq[c]
<1>1. \A s \in DOMAIN pending : pending[s] \in Calls /\ pending[s] # c
  BY DEF TypeOK, PendingHonest
<1>2. \A s \in DOMAIN pending : seq[pending[s]] = s /\ s # 0
  BY DEF PendingHonest, Numbers
<1>3. \A s \in DOMAIN pending : s # seq[c]
  BY <1>1, <1>2 DEF Numbers
<1> QED  BY <1>1, <1>3

\* What a response is about, when its number is in the map.
LEMMA ResponseFinds ==
  ASSUME TypeOK, Numbers, PendingHonest, LinesHonest, fromRadio # <<>>,
         Head(fromRadio).seq \in DOMAIN pending
  PROVE  /\ Head(fromRadio).call \in Calls
         /\ pending[Head(fromRadio).seq] = Head(fromRadio).call
         /\ Head(fromRadio).seq = seq[Head(fromRadio).call]
         /\ Head(fromRadio).call \in executed
<1> DEFINE f == Head(fromRadio)
<1>1. f = fromRadio[1] /\ 1 \in 1..Len(fromRadio)
      /\ f \in [seq : Nat, call : Calls \cup {NoCall}, ok : BOOLEAN]
  <2>1. fromRadio \in Seq([seq : Nat, call : Calls \cup {NoCall}, ok : BOOLEAN])
    BY DEF TypeOK
  <2>2. f = fromRadio[1] /\ 1 \in 1..Len(fromRadio)
    BY <2>1, TailLine
  <2>3. fromRadio[1] \in [seq : Nat, call : Calls \cup {NoCall}, ok : BOOLEAN]
    BY <2>1, <2>2, ElementOfSeq
  <2> QED  BY <2>2, <2>3
<1>2. ResponseHonest(f, seq, executed)
  BY <1>1 DEF LinesHonest
<1>3. f.seq \in Nat
  BY <1>1
<1> HIDE DEF f
<1> DEFINE c == pending[f.seq]
<1>4. c \in Calls /\ seq[c] = f.seq /\ f.seq # 0
  BY DEF TypeOK, PendingHonest, Numbers, f
<1>5. seq[c] > Subscriptions /\ seq[c] \in Nat
  BY <1>3, <1>4 DEF Numbers
<1>6. f.call \in Calls
  BY <1>2, <1>3, <1>4, <1>5, WindowAssumption DEF ResponseHonest
<1>7. f.seq = seq[f.call] /\ f.call \in executed
  BY <1>2, <1>6 DEF ResponseHonest
<1>8. c = f.call
  BY <1>4, <1>6, <1>7 DEF Numbers
<1> QED  BY <1>6, <1>7, <1>8 DEF f

-----------------------------------------------------------------------------
(* Lines.                                                                  *)

\* A step of a caller that keeps the lines of the others, and is its own as far as
\* it has written, keeps the lines honest.
LEMMA CallerLines ==
  ASSUME TypeOK, Numbers, MailHonest, LinesHonest, NEW c \in Calls, Caller(c) \/ Abandon(c)
  PROVE  LinesHonest'
<1> USE DEF TypeOK, Finish, Fail
<1>1. UNCHANGED <<fromRadio, executed>>
  BY CallerFrame
<1>2. CASE Number(c)
  <2>1. ~Written(c, pc, result) /\ UNCHANGED <<toRadio, result>>
        /\ seq' = [seq EXCEPT ![c] = nextSeq] /\ pc' = [pc EXCEPT ![c] = "numbered"]
    BY <1>2 DEF Number, Written, netVars
  <2>2. \A b \in Calls : Written(b, pc, result) => Written(b, pc', result') /\ seq'[b] = seq[b]
    BY <2>1 DEF Written
  <2>3. \A i \in 1..Len(toRadio) : CommandHonest(toRadio[i], seq', pc', result', executed')
    BY <1>1, <2>1, <2>2 DEF LinesHonest, CommandHonest
  <2>4. \A i \in 1..Len(fromRadio) : ResponseHonest(fromRadio[i], seq', executed')
    BY <1>1, <2>2 DEF LinesHonest, ResponseHonest
  <2> QED  BY <1>1, <2>1, <2>2, <2>3, <2>4 DEF LinesHonest
<1>3. CASE /\ pc[c] = "writing" /\ pc' = [pc EXCEPT ![c] = "waiting"]
           /\ toRadio' = Append(toRadio, [seq |-> seq[c], call |-> c]) /\ UNCHANGED <<seq, result>>
  <2> DEFINE l == [seq |-> seq[c], call |-> c]
  <2>1. /\ pc[c] = "writing" /\ UNCHANGED <<seq, result>> /\ pc' = [pc EXCEPT ![c] = "waiting"]
        /\ result[c] = "none"
    BY <1>3 DEF MailHonest
  <2>2. \A b \in Calls : Written(b, pc, result) => Written(b, pc', result') /\ b # c
    BY <2>1 DEF Written
  <2>3. Written(c, pc', result') /\ c \notin executed
    BY <2>1, <2>2 DEF Written, LinesHonest
  <2>4. l \in [seq : Nat, call : Calls \cup {NoCall}] /\ l.seq = seq[c] /\ l.call = c
    OBVIOUS
  <2>5. toRadio' = Append(toRadio, l)
    BY <1>3
  <2>6. \A i \in 1..Len(toRadio) : CommandHonest(toRadio[i], seq', pc', result', executed') /\ toRadio[i].call # c
    BY <1>1, <2>1, <2>2 DEF LinesHonest, CommandHonest
  <2>7. CommandHonest(l, seq', pc', result', executed')
    BY <1>1, <2>1, <2>3, <2>4 DEF CommandHonest
  <2> HIDE DEF l
  <2>8. /\ \A i \in 1..Len(toRadio') : CommandHonest(toRadio'[i], seq', pc', result', executed')
        /\ \A i, j \in 1..Len(toRadio') :
             toRadio'[i].call = toRadio'[j].call /\ toRadio'[i].call \in Calls => i = j
    BY <2>4, <2>5, <2>6, <2>7, AppendLine, SMTT(30) DEF LinesHonest
  <2>9. \A i \in 1..Len(fromRadio) : ResponseHonest(fromRadio[i], seq', executed')
    BY <1>1, <2>1 DEF LinesHonest, ResponseHonest
  <2> QED  BY <1>1, <2>2, <2>8, <2>9 DEF LinesHonest
<1>4. CASE UNCHANGED <<seq, toRadio>> /\ \A b \in Calls : Written(b, pc, result) => Written(b, pc', result')
  <2>1. \A i \in 1..Len(toRadio) : CommandHonest(toRadio[i], seq', pc', result', executed')
    BY <1>1, <1>4 DEF LinesHonest, CommandHonest
  <2>2. \A i \in 1..Len(fromRadio) : ResponseHonest(fromRadio[i], seq', executed')
    BY <1>1, <1>4 DEF LinesHonest, ResponseHonest
  <2> QED  BY <1>1, <1>4, <2>1, <2>2 DEF LinesHonest
<1>5. ASSUME ~Number(c), toRadio' = toRadio
      PROVE  UNCHANGED <<seq, toRadio>> /\ \A b \in Calls : Written(b, pc, result) => Written(b, pc', result')
  <2>1. UNCHANGED seq
    BY <1>5 DEF Caller, Check, Register, Lock, Write, Receive, Expire, Unregister, Abandon
  <2>2. \A b \in Calls : b # c => pc'[b] = pc[b] /\ result'[b] = result[b]
    BY <1>5 DEF Caller, Check, Register, Lock, Write, Receive, Expire, Unregister, Abandon
  <2>3. Written(c, pc, result) => pc[c] \in {"waiting", "leaving"}
    BY DEF Caller, Check, Number, Register, Lock, Write, Receive, Expire, Unregister, Abandon, Written
  <2>4. Written(c, pc, result) => Written(c, pc', result')
    BY <1>5, <2>3 DEF Caller, Check, Register, Lock, Write, Receive, Expire, Unregister, Abandon, Written
  <2> QED  BY <1>5, <2>1, <2>2, <2>4 DEF Written
<1>6. Number(c) \/ Write(c) \/ toRadio' = toRadio
  BY DEF Caller, Check, Register, Lock, Receive, Expire, Unregister, Abandon, netVars
<1>7. Write(c) =>
        \/ toRadio' = toRadio
        \/ /\ pc[c] = "writing" /\ pc' = [pc EXCEPT ![c] = "waiting"]
           /\ toRadio' = Append(toRadio, [seq |-> seq[c], call |-> c]) /\ UNCHANGED <<seq, result>>
  BY DEF Write
<1> QED  BY <1>2, <1>3, <1>4, <1>5, <1>6, <1>7

\* Every step keeps LinesHonest.
LEMMA LinesStep ==
  ASSUME TypeOK, Opening, Numbers, MailHonest, LinesHonest, Next
  PROVE  LinesHonest'
<1> USE DEF TypeOK
<1>1. CASE Opener
  <2>1. UNCHANGED <<pc, seq, result, fromRadio, executed>>
    BY <1>1, OpenerFrame
  <2>2. /\ \A i \in 1..Len(toRadio) : CommandHonest(toRadio[i], seq', pc', result', executed')
        /\ \A i \in 1..Len(fromRadio) : ResponseHonest(fromRadio[i], seq', executed')
        /\ \A c \in executed : Written(c, pc', result')
    BY <2>1 DEF LinesHonest, CommandHonest, ResponseHonest, Written
  <2>3. CASE toRadio' = toRadio
    BY <2>1, <2>2, <2>3 DEF LinesHonest
  <2>4. CASE Subscribe /\ toRadio' = Append(toRadio, [seq |-> nextSeq, call |-> NoCall])
    <3> DEFINE l == [seq |-> nextSeq, call |-> NoCall]
    <3>1. l \in [seq : Nat, call : Calls \cup {NoCall}] /\ l.seq <= Subscriptions /\ l.call \notin Calls
      BY <2>4, NoCallAssumption DEF Subscribe
    <3>2. CommandHonest(l, seq', pc', result', executed')
      BY <3>1 DEF CommandHonest
    <3>3. toRadio' = Append(toRadio, l)
      BY <2>4
    <3> HIDE DEF l
    <3>4. /\ toRadio'[Len(toRadio) + 1] = l
          /\ \A i \in 1..Len(toRadio) : toRadio'[i] = toRadio[i]
          /\ \A i \in 1..Len(toRadio') : i \in 1..Len(toRadio) \/ i = Len(toRadio) + 1
      BY <2>2, <3>1, <3>3, AppendLine
    <3>5. /\ \A i \in 1..Len(toRadio') : CommandHonest(toRadio'[i], seq', pc', result', executed')
          /\ \A i, j \in 1..Len(toRadio') :
               toRadio'[i].call = toRadio'[j].call /\ toRadio'[i].call \in Calls => i = j
      BY <2>2, <3>1, <3>2, <3>4 DEF LinesHonest
    <3> QED  BY <2>1, <2>2, <3>5 DEF LinesHonest
  <2>5. toRadio' = toRadio \/ Subscribe
    BY <1>1 DEF Opener, Connect, ReadVersion, ReadHandle, NotGreeted, Open, Fails, netVars
  <2>6. Subscribe => \/ toRadio' = toRadio
                     \/ toRadio' = Append(toRadio, [seq |-> nextSeq, call |-> NoCall])
    BY DEF Subscribe, Fails, netVars
  <2> QED  BY <2>3, <2>4, <2>5, <2>6
<1>2. ASSUME NEW c \in Calls, Caller(c) \/ Abandon(c)
      PROVE  LinesHonest'
  BY <1>2, CallerLines
<1>3. CASE Reader
  <2>1. UNCHANGED <<pc, seq, result, toRadio, executed>>
    BY <1>3, ReaderFrame
  <2>2. /\ \A i \in 1..Len(toRadio) : CommandHonest(toRadio[i], seq', pc', result', executed')
        /\ \A i \in 1..Len(fromRadio) : ResponseHonest(fromRadio[i], seq', executed')
        /\ \A c \in executed : Written(c, pc', result')
    BY <2>1 DEF LinesHonest, CommandHonest, ResponseHonest, Written
  <2>3. fromRadio' = fromRadio \/ (fromRadio # <<>> /\ fromRadio' = Tail(fromRadio))
    BY <1>3 DEF Reader, ReadLine, ReadEnd, ReadAnnounce, ReadClear, ReadAborted, netVars
  <2>4. \A i \in 1..Len(fromRadio') : ResponseHonest(fromRadio'[i], seq', executed')
    <3>1. CASE fromRadio' = fromRadio
      BY <2>2, <3>1
    <3>2. CASE fromRadio # <<>> /\ fromRadio' = Tail(fromRadio)
      <4>1. \A i \in 1..Len(fromRadio') : fromRadio'[i] = fromRadio[i + 1] /\ i + 1 \in 1..Len(fromRadio)
        BY <3>2, TailLine
      <4> QED  BY <2>2, <4>1
    <3> QED  BY <2>3, <3>1, <3>2
  <2> QED  BY <2>1, <2>2, <2>4 DEF LinesHonest
<1>4. ASSUME NEW d \in Closers, Closer(d)
      PROVE  LinesHonest'
  BY <1>4, CloserFrame DEF LinesHonest, CommandHonest, ResponseHonest, Written
<1>5. CASE Network
  <2>1. UNCHANGED <<pc, seq, result>>
    BY <1>5, NetworkFrame
  <2>2. CASE RadioExecutes
    <3> DEFINE l == Head(toRadio)
    <3>1. PICK b \in BOOLEAN :
            fromRadio' = Append(fromRadio, [seq |-> l.seq, call |-> l.call, ok |-> b])
      BY <2>2 DEF RadioExecutes
    <3> DEFINE f == [seq |-> l.seq, call |-> l.call, ok |-> b]
    <3>2. /\ toRadio # <<>> /\ toRadio' = Tail(toRadio)
          /\ executed' = executed \cup ({l.call} \cap Calls)
      BY <2>2 DEF RadioExecutes
    <3>3. /\ CommandHonest(l, seq, pc, result, executed)
          /\ l \in [seq : Nat, call : Calls \cup {NoCall}]
          /\ l.call \in Calls => \A i \in 1..Len(Tail(toRadio)) : Tail(toRadio)[i].call # l.call
      <4>1. l = toRadio[1] /\ 1 \in 1..Len(toRadio)
            /\ \A i \in 1..Len(Tail(toRadio)) :
                 Tail(toRadio)[i] = toRadio[i + 1] /\ i + 1 \in 1..Len(toRadio) /\ i + 1 # 1
        BY <3>2, TailLine
      <4>2. toRadio[1] \in [seq : Nat, call : Calls \cup {NoCall}]
        BY <4>1, ElementOfSeq
      <4>3. l.call \in Calls => \A i \in 1..Len(Tail(toRadio)) : Tail(toRadio)[i].call # l.call
        BY <4>1 DEF LinesHonest
      <4>4. CommandHonest(toRadio[1], seq, pc, result, executed)
        BY <4>1 DEF LinesHonest
      <4> QED  BY <4>1, <4>2, <4>3, <4>4
    <3>4. \A i \in 1..Len(toRadio') : CommandHonest(toRadio'[i], seq', pc', result', executed')
      BY <2>1, <3>2, <3>3, TailLine DEF LinesHonest, CommandHonest, Written
    <3>5. \A i, j \in 1..Len(toRadio') :
             toRadio'[i].call = toRadio'[j].call /\ toRadio'[i].call \in Calls => i = j
      BY <3>2, TailLine DEF LinesHonest
    <3>6. \A i \in 1..Len(fromRadio) : ResponseHonest(fromRadio[i], seq', executed')
      BY <2>1, <3>2 DEF LinesHonest, ResponseHonest
    <3>7. f \in [seq : Nat, call : Calls \cup {NoCall}, ok : BOOLEAN] /\ ResponseHonest(f, seq', executed')
      <4>1. f.seq = l.seq /\ f.call = l.call
        OBVIOUS
      <4>2. f \in [seq : Nat, call : Calls \cup {NoCall}, ok : BOOLEAN]
        BY <3>3
      <4> QED  BY <2>1, <3>2, <3>3, <4>1, <4>2 DEF CommandHonest, ResponseHonest
    <3>8. \A c \in executed' : Written(c, pc', result')
      BY <2>1, <3>2, <3>3 DEF LinesHonest, CommandHonest, Written
    <3>9. fromRadio' = Append(fromRadio, f)
      BY <3>1
    <3> HIDE DEF f, l
    <3>10. /\ fromRadio'[Len(fromRadio) + 1] = f
           /\ \A i \in 1..Len(fromRadio) : fromRadio'[i] = fromRadio[i]
           /\ \A i \in 1..Len(fromRadio') : i \in 1..Len(fromRadio) \/ i = Len(fromRadio) + 1
      BY <3>7, <3>9, AppendLine DEF TypeOK
    <3>11. \A i \in 1..Len(fromRadio') : ResponseHonest(fromRadio'[i], seq', executed')
      BY <3>6, <3>7, <3>10
    <3> QED  BY <3>4, <3>5, <3>8, <3>11 DEF LinesHonest
  <2>3. CASE RadioCloses \/ Reset
    <3>1. toRadio' = <<>> /\ fromRadio' \in {fromRadio, <<>>} /\ executed' = executed
      BY <2>3 DEF RadioCloses, Reset
    <3> QED  BY <2>1, <3>1 DEF LinesHonest, ResponseHonest, Written
  <2> QED  BY <1>5, <2>2, <2>3 DEF Network
<1> QED  BY <1>1, <1>2, <1>3, <1>4, <1>5 DEF Next, Network

-----------------------------------------------------------------------------
(* Mail, and the map of pending commands.                                  *)

\* Calls, their channels and the map, together.
MapHonest == MailHonest /\ PendingHonest /\ NoAnswerLost

\* The steps of a call keep the map in agreement with calls and mail.
LEMMA CallerMap ==
  ASSUME TypeOK, Numbers, LinesHonest, MapHonest, NEW c \in Calls, Caller(c) \/ Abandon(c)
  PROVE  MapHonest'
<1> USE DEF TypeOK, Finish, Fail, MapHonest
<1>1. UNCHANGED <<fromRadio, executed, tcp>>
  BY CallerFrame
<1>2. ASSUME Check(c) \/ Lock(c) \/ Write(c) \/ Receive(c) \/ Expire(c) \/ Abandon(c)
      PROVE  MapHonest'
  <2>1. /\ UNCHANGED <<seq, mailbox, pending>>
        /\ \A b \in Calls : b # c => pc'[b] = pc[b] /\ result'[b] = result[b]
    BY <1>2 DEF Check, Lock, Write, Receive, Expire, Abandon
  <2>2. \/ pc'[c] \in {"checked", "writing", "waiting"} /\ result'[c] = result[c]
        \/ pc'[c] = "leaving" /\ result'[c] \in {"notconnected", "timeout", "lost", "broken"}
        \/ pc'[c] = "done"
    BY <1>2 DEF Check, Lock, Write, Receive, Expire, Abandon
  <2>3. /\ pc[c] # "done"
        /\ pc[c] = "leaving" => pc'[c] = "done" /\ result'[c] = "abandoned"
        /\ pc'[c] = "checked" => pc[c] = "idle"
        /\ pc'[c] \in {"writing", "waiting"} => pc[c] \in {"registered", "writing"}
        /\ \/ pc[c] \notin {"registered", "writing", "waiting", "leaving"}
           \/ mailbox[c] \in {"ok", "rejected"}
           \/ pc'[c] \in {"registered", "writing", "waiting", "leaving"}
           \/ pc'[c] = "done" /\ result'[c] = "abandoned"
    <3>1. CASE Check(c)
      BY <3>1 DEF Check
    <3>2. CASE Lock(c) \/ Expire(c)
      BY <3>2 DEF Lock, Expire
    <3>3. CASE Write(c)
      BY <3>3 DEF Write
    <3>4. CASE Receive(c)
      BY <3>4 DEF Receive
    <3>5. CASE Abandon(c)
      BY <3>5 DEF Abandon
    <3> QED  BY <1>2, <3>1, <3>2, <3>3, <3>4, <3>5
  <2>4. MailHonest'
    BY <1>1, <2>1, <2>2, <2>3 DEF MailHonest
  <2>5. PendingHonest'
    <3>1. ASSUME NEW s \in DOMAIN pending, pending[s] = c
          PROVE  \/ pc'[c] \in {"registered", "writing", "waiting", "leaving"}
                 \/ pc'[c] = "done" /\ result'[c] = "abandoned"
      BY <2>3, <3>1 DEF PendingHonest
    <3>2. ASSUME NEW s \in DOMAIN pending
          PROVE  LET d == pending[s]
                 IN  /\ seq'[d] = s /\ mailbox'[d] = "empty"
                     /\ \/ pc'[d] \in {"registered", "writing", "waiting", "leaving"}
                        \/ pc'[d] = "done" /\ result'[d] = "abandoned"
      <4>1. CASE pending[s] = c
        BY <2>1, <3>1, <4>1 DEF PendingHonest
      <4>2. CASE pending[s] # c
        BY <2>1, <4>2 DEF PendingHonest
      <4> QED  BY <4>1, <4>2
    <3> QED  BY <2>1, <3>2 DEF PendingHonest
  <2>6. NoAnswerLost'
    BY <1>1, <2>1, <2>2, <2>3 DEF NoAnswerLost, Registered
  <2> QED  BY <2>4, <2>5, <2>6
<1>3. CASE Number(c)
  <2>1. /\ pc[c] = "checked" /\ pc' = [pc EXCEPT ![c] = "numbered"]
        /\ UNCHANGED <<mailbox, result, pending>> /\ \A b \in Calls : b # c => seq'[b] = seq[b]
    BY <1>3 DEF Number
  <2>2. \A s \in DOMAIN pending : pending[s] # c
    BY <2>1, NotYet
  <2>3. MailHonest'
    BY <1>1, <2>1 DEF MailHonest
  <2>4. PendingHonest'
    BY <2>1, <2>2 DEF PendingHonest
  <2>5. NoAnswerLost'
    BY <1>1, <2>1 DEF NoAnswerLost, Registered
  <2> QED  BY <2>3, <2>4, <2>5
<1>4. CASE Register(c)
  <2>1. /\ pc[c] = "numbered" /\ pc' = [pc EXCEPT ![c] = "registered"] /\ UNCHANGED <<seq, result>>
        /\ DOMAIN pending' = DOMAIN pending \cup {seq[c]}
        /\ \A s \in DOMAIN pending' : pending'[s] = IF s = seq[c] THEN c ELSE pending[s]
    BY <1>4 DEF Register
  <2>2. \A s \in DOMAIN pending : pending[s] # c /\ s # seq[c]
    BY <2>1, NotYet
  <2>3. {pending[s] : s \in DOMAIN pending \cap {seq[c]}} = {}
    BY <2>2
  <2>4. mailbox' = mailbox
    BY <1>4, <2>3 DEF Register, Closed
  <2>5. c \notin executed
    BY <2>1 DEF LinesHonest, Written
  <2>6. MailHonest'
    BY <1>1, <2>1, <2>4 DEF MailHonest
  <2>7. PendingHonest'
    BY <2>1, <2>2, <2>4 DEF PendingHonest, MailHonest
  <2>8. \A b \in Calls : b \in Registered \/ b = c => b \in Registered'
    <3>1. pending'[seq[c]] = c /\ seq[c] \in DOMAIN pending'
      BY <2>1
    <3>2. \A s \in DOMAIN pending : s \in DOMAIN pending' /\ pending'[s] = pending[s]
      BY <2>1, <2>2
    <3> QED  BY <3>1, <3>2 DEF Registered
  <2>9. NoAnswerLost'
    BY <1>1, <2>1, <2>4, <2>5, <2>8 DEF NoAnswerLost
  <2> QED  BY <2>6, <2>7, <2>9
<1>5. CASE Unregister(c)
  <2>1. /\ pc[c] = "leaving" /\ pc' = [pc EXCEPT ![c] = "done"] /\ UNCHANGED <<seq, result>>
        /\ pending' = Without(seq[c])
        /\ mailbox' = Closed({pending[s] : s \in DOMAIN pending \cap {seq[c]}})
    BY <1>5 DEF Unregister
  <2>2. seq[c] # 0 /\ \A s \in DOMAIN pending : pending[s] = c <=> s = seq[c]
    BY <2>1, OnlyOwn DEF Numbers
  <2>3. \A b \in Calls : b # c => mailbox'[b] = mailbox[b]
    BY <2>1, <2>2, ClosedMail
  <2>4. mailbox'[c] \in {"ok", "rejected"} => mailbox[c] \in {"ok", "rejected"}
    BY <2>1, ClosedMail
  <2>5. /\ DOMAIN pending' = DOMAIN pending \ {seq[c]}
        /\ \A s \in DOMAIN pending' : pending'[s] = pending[s] /\ pending[s] # c
    <3>1. /\ DOMAIN pending' = DOMAIN pending \ {seq[c]}
          /\ \A s \in DOMAIN pending' : pending'[s] = pending[s]
      BY <2>1, WithoutMap
    <3> QED  BY <2>2, <3>1
  <2>6. MailHonest'
    BY <1>1, <2>1, <2>3, <2>4 DEF MailHonest
  <2>7. PendingHonest'
    BY <2>1, <2>3, <2>5 DEF PendingHonest
  <2>8. \A b \in Calls : b # c /\ b \in Registered => b \in Registered'
    BY <2>2, <2>5 DEF Registered
  <2>9. NoAnswerLost'
    BY <1>1, <2>1, <2>3, <2>8 DEF NoAnswerLost
  <2> QED  BY <2>6, <2>7, <2>9
<1> QED  BY <1>2, <1>3, <1>4, <1>5 DEF Caller

\* When everybody in the map is told that it is closed, nobody waits for the map.
LEMMA ClearMap ==
  ASSUME TypeOK, MapHonest, pending' = <<>>, mailbox' = Closed(Registered),
         UNCHANGED <<pc, result, executed>>
  PROVE  MapHonest'
<1>1. DOMAIN pending' = {}
  OBVIOUS
<1>2. MailHonest'
  <2>1. \A b \in Calls : pc[b] \in {"idle", "checked", "numbered"} => b \notin Registered
    BY DEF MapHonest, PendingHonest, Registered
  <2> QED  BY <2>1, ClosedMail DEF MapHonest, MailHonest
<1>3. PendingHonest'
  BY <1>1 DEF PendingHonest
<1>4. NoAnswerLost'
  <2>1. \A b \in Calls : mailbox'[b] = "empty" => mailbox[b] = "empty" /\ b \notin Registered
    BY ClosedMail
  <2> QED  BY <2>1 DEF MapHonest, NoAnswerLost
<1> QED  BY <1>2, <1>3, <1>4 DEF MapHonest

\* So does the read loop: a response goes to the call it is about.
LEMMA ReaderMap ==
  ASSUME TypeOK, Numbers, LinesHonest, MapHonest, Reader
  PROVE  MapHonest'
<1> DEFINE f == Head(fromRadio)
<1>1. UNCHANGED <<pc, seq, result, tcp, executed>>
  BY ReaderFrame
<1>2. CASE ReadLine
  <2>1. fromRadio # <<>> /\ fromRadio' = Tail(fromRadio)
    BY <1>2 DEF ReadLine
  <2>2. /\ f = fromRadio[1]
        /\ \A i \in 1..Len(fromRadio) :
             i = 1 \/ (i - 1 \in 1..Len(fromRadio') /\ fromRadio'[i - 1] = fromRadio[i])
        /\ DOMAIN fromRadio = 1..Len(fromRadio) /\ DOMAIN fromRadio' = 1..Len(fromRadio')
        /\ 1 \in 1..Len(fromRadio)
    <3>1. fromRadio \in Seq([seq : Nat, call : Calls \cup {NoCall}, ok : BOOLEAN])
      BY DEF TypeOK
    <3>2. Tail(fromRadio) \in Seq([seq : Nat, call : Calls \cup {NoCall}, ok : BOOLEAN])
      BY <2>1, <3>1, HeadTailProperties
    <3> QED  BY <2>1, <3>1, <3>2, TailLine
  <2>3. \A b \in Calls : (\E i \in DOMAIN fromRadio : fromRadio[i].call = b) =>
          f.call = b \/ \E i \in DOMAIN fromRadio' : fromRadio'[i].call = b
    BY <2>2
  <2>4. ResponseHonest(f, seq, executed)
    BY <2>2 DEF LinesHonest
  <2>5. CASE f.seq \in DOMAIN pending
    <3> DEFINE c == f.call
    <3>1. c \in Calls /\ pending[f.seq] = c /\ f.seq = seq[c] /\ c \in executed
      BY <2>1, <2>5, ResponseFinds DEF MapHonest
    <3>2. pending' = Without(seq[c]) /\ mailbox' = [mailbox EXCEPT ![c] = IF f.ok THEN "ok" ELSE "rejected"]
      BY <1>2, <2>5, <3>1 DEF ReadLine
    <3> HIDE DEF f
    <3>3. seq[c] # 0 /\ \A s \in DOMAIN pending : pending[s] = c <=> s = seq[c]
      BY <2>5, <3>1, OnlyOwn DEF MapHonest, Numbers
    <3>4. /\ DOMAIN pending' = DOMAIN pending \ {seq[c]}
          /\ \A s \in DOMAIN pending' : pending'[s] = pending[s] /\ pending[s] # c
      BY <3>2, <3>3, WithoutMap
    <3>5. \A b \in Calls : b # c => mailbox'[b] = mailbox[b]
      BY <3>1, <3>2 DEF TypeOK
    <3>6. mailbox'[c] # "empty"
      BY <3>1, <3>2 DEF TypeOK
    <3>7. pc[c] \notin {"idle", "checked", "numbered"}
      BY <2>5, <3>1 DEF MapHonest, PendingHonest
    <3>8. MailHonest'
      BY <1>1, <3>1, <3>5, <3>7 DEF MapHonest, MailHonest
    <3>9. PendingHonest'
      BY <1>1, <3>4, <3>5 DEF MapHonest, PendingHonest, TypeOK
    <3>10. \A b \in Calls : b # c /\ b \in Registered => b \in Registered'
      BY <3>3, <3>4 DEF Registered
    <3>11. NoAnswerLost'
      BY <1>1, <2>3, <3>5, <3>6, <3>10 DEF MapHonest, NoAnswerLost
    <3> QED  BY <3>8, <3>9, <3>11 DEF MapHonest
  <2>6. CASE f.seq \notin DOMAIN pending
    <3>1. UNCHANGED <<pending, mailbox>>
      BY <1>2, <2>6 DEF ReadLine
    <3> HIDE DEF f
    <3>2. MailHonest' /\ PendingHonest'
      BY <1>1, <3>1 DEF MapHonest, MailHonest, PendingHonest
    <3>3. ASSUME NEW b \in Calls, pc[b] \in {"registered", "writing", "waiting"}, mailbox[b] = "empty",
                 f.call = b
          PROVE  FALSE
      <4>1. b \in Registered /\ seq[b] # 0
        BY <3>3 DEF MapHonest, NoAnswerLost, Numbers
      <4>2. seq[b] \in DOMAIN pending
        BY <4>1, OnlyOwn DEF MapHonest
      <4>3. f.seq = seq[b]
        BY <2>4, <3>3 DEF ResponseHonest
      <4> QED  BY <2>6, <4>2, <4>3
    <3>4. NoAnswerLost'
      BY <1>1, <2>3, <3>1, <3>3 DEF MapHonest, NoAnswerLost, Registered
    <3> QED  BY <3>2, <3>4 DEF MapHonest
  <2> QED  BY <2>5, <2>6
<1>3. CASE ReadClear
  BY <1>1, <1>3, ClearMap DEF ReadClear
<1>4. CASE ReadEnd \/ ReadAnnounce \/ ReadAborted
  <2>1. UNCHANGED <<mailbox, pending, fromRadio>>
    BY <1>4 DEF ReadEnd, ReadAnnounce, ReadAborted, callerVars, netVars
  <2> QED  BY <1>1, <2>1 DEF MapHonest, MailHonest, PendingHonest, NoAnswerLost, Registered
<1> QED  BY <1>2, <1>3, <1>4 DEF Reader

\* So does every step.
LEMMA MapStep ==
  ASSUME TypeOK, Numbers, LinesHonest, MapHonest, Next
  PROVE  MapHonest'
<1>1. CASE Opener
  BY <1>1, OpenerFrame DEF MapHonest, MailHonest, PendingHonest, NoAnswerLost, Registered
<1>2. ASSUME NEW c \in Calls, Caller(c) \/ Abandon(c)
      PROVE  MapHonest'
  BY <1>2, CallerMap
<1>3. CASE Reader
  BY <1>3, ReaderMap
<1>4. ASSUME NEW d \in Closers, Closer(d)
      PROVE  MapHonest'
  <2>1. UNCHANGED <<pc, seq, result, fromRadio, executed>>
    BY <1>4, CloserFrame
  <2>2. CASE DClear(d)
    BY <2>1, <2>2, ClearMap DEF DClear
  <2>3. CASE DCheck(d) \/ DStore(d) \/ DWriter(d) \/ DAbort(d) \/ DState(d)
    <3>1. UNCHANGED <<mailbox, pending>> /\ (tcp' = "reset" <=> tcp = "reset")
      BY <2>3 DEF DCheck, DStore, DWriter, DAbort, DState, callerVars, netVars
    <3> QED  BY <2>1, <3>1 DEF MapHonest, MailHonest, PendingHonest, NoAnswerLost, Registered
  <2> QED  BY <1>4, <2>2, <2>3 DEF Closer
<1>5. CASE Network
  <2>1. UNCHANGED <<pc, seq, mailbox, result, pending>>
    BY <1>5, NetworkFrame
  <2>2. executed \subseteq executed' /\ (tcp' # "reset" => tcp # "reset")
    BY <1>5 DEF Network, RadioExecutes, RadioCloses, Reset
  <2>3. MailHonest' /\ PendingHonest'
    BY <2>1, <2>2 DEF MapHonest, MailHonest, PendingHonest
  <2>4. CASE RadioExecutes
    <3> DEFINE l == Head(toRadio)
    <3>1. PICK b \in BOOLEAN :
            fromRadio' = Append(fromRadio, [seq |-> l.seq, call |-> l.call, ok |-> b])
      BY <2>4 DEF RadioExecutes
    <3> DEFINE f == [seq |-> l.seq, call |-> l.call, ok |-> b]
    <3>2. executed' = executed \cup ({l.call} \cap Calls) /\ toRadio # <<>>
      BY <2>4 DEF RadioExecutes
    <3>3. l \in [seq : Nat, call : Calls \cup {NoCall}]
      BY <3>2, HeadTailProperties DEF TypeOK
    <3>4. f \in [seq : Nat, call : Calls \cup {NoCall}, ok : BOOLEAN] /\ f.call = l.call
      BY <3>3
    <3>5. fromRadio' = Append(fromRadio, f)
      BY <3>1
    <3> HIDE DEF f, l
    <3>6. /\ DOMAIN fromRadio' = 1..(Len(fromRadio) + 1) /\ DOMAIN fromRadio = 1..Len(fromRadio)
          /\ Len(fromRadio) \in Nat
          /\ fromRadio'[Len(fromRadio) + 1] = f
          /\ \A i \in 1..Len(fromRadio) : fromRadio'[i] = fromRadio[i]
      BY <3>4, <3>5 DEF TypeOK
    <3>7. \A c \in executed' : c \in executed \/ \E i \in DOMAIN fromRadio' : fromRadio'[i].call = c
      BY <3>2, <3>4, <3>6
    <3>8. \A c : (\E i \in DOMAIN fromRadio : fromRadio[i].call = c) =>
                   \E i \in DOMAIN fromRadio' : fromRadio'[i].call = c
      BY <3>6
    <3>9. NoAnswerLost'
      BY <2>1, <2>2, <3>7, <3>8 DEF MapHonest, NoAnswerLost, Registered
    <3> QED  BY <2>3, <3>9 DEF MapHonest
  <2>5. CASE RadioCloses \/ Reset
    <3>1. tcp' = "reset" \/ UNCHANGED <<fromRadio, executed>>
      BY <2>5 DEF RadioCloses, Reset
    <3>2. NoAnswerLost'
      BY <2>1, <2>2, <3>1 DEF MapHonest, NoAnswerLost, Registered
    <3> QED  BY <2>3, <3>2 DEF MapHonest
  <2> QED  BY <1>5, <2>4, <2>5 DEF Network
<1> QED  BY <1>1, <1>2, <1>3, <1>4, <1>5 DEF Next, Network

-----------------------------------------------------------------------------
(* The inductive invariant.                                                *)

\* At first there are no calls, no lines and no connection.
LEMMA InitInv == Init => IInv
<1> SUFFICES ASSUME Init  PROVE IInv
  OBVIOUS
<1> USE WindowAssumption DEF Init
<1>1. TypeOK
  <2>1. /\ nextSeq \in Nat \ {0} /\ 0 \in 0 .. nextSeq - 1
        /\ DOMAIN pending = {}
    OBVIOUS
  <2>2. toRadio \in Seq([seq : Nat, call : Calls \cup {NoCall}])
    OBVIOUS
  <2>3. fromRadio \in Seq([seq : Nat, call : Calls \cup {NoCall}, ok : BOOLEAN])
    OBVIOUS
  <2>4. seq \in [Calls -> 0 .. nextSeq - 1]
    BY <2>1
  <2> QED  BY <2>1, <2>2, <2>3, <2>4
           DEF TypeOK, CallStates, Mail, Results, CloserStates, Readers, Phases
<1>2. Opening /\ Numbers /\ EndTold
  BY DEF Opening, Numbers, EndTold
<1>3. MailHonest /\ LinesHonest
  BY DEF MailHonest, LinesHonest
<1>4. PendingHonest /\ NoAnswerLost
  BY DEF PendingHonest, NoAnswerLost
<1> QED  BY <1>1, <1>2, <1>3, <1>4 DEF IInv

\* Every step keeps the invariant.
LEMMA StepInv == IInv /\ [Next]_vars => IInv'
<1> SUFFICES ASSUME IInv, [Next]_vars  PROVE IInv'
  OBVIOUS
<1>1. CASE Next
  <2>1. TypeOK'
    BY <1>1, OpenerType, CallerType, ReaderType, CloserType, NetworkType DEF Next, Network, IInv
  <2>2. Opening' /\ Numbers' /\ EndTold'
    BY <1>1, OpeningStep, NumbersStep, EndStep DEF IInv
  <2>3. LinesHonest'
    BY <1>1, LinesStep DEF IInv
  <2>4. MapHonest'
    BY <1>1, MapStep DEF IInv, MapHonest
  <2> QED  BY <2>1, <2>2, <2>3, <2>4 DEF IInv, MapHonest
<1>2. CASE UNCHANGED vars
  <2> USE <1>2 DEF IInv, vars, callerVars, flagVars, netVars, taskVars, openVars
  <2>1. TypeOK' /\ Opening' /\ Numbers' /\ EndTold'
    BY DEF TypeOK, Opening, Numbers, EndTold
  <2>2. MailHonest' /\ LinesHonest'
    BY DEF MailHonest, LinesHonest, CommandHonest, ResponseHonest, Written
  <2>3. PendingHonest' /\ NoAnswerLost'
    BY DEF PendingHonest, NoAnswerLost, Registered
  <2> QED  BY <2>1, <2>2, <2>3
<1> QED  BY <1>1, <1>2

\* The invariant holds in every reachable state.
THEOREM Invariance == Spec => []IInv
BY InitInv, StepInv, PTL DEF Spec

\* The variables have their types: a sequence number that was given out is below
\* the counter, and the map of pending commands holds senders of calls under
\* numbers (SmartSdrClient, send_command).
THEOREM TypeCorrect == Spec => []TypeOK
<1>1. IInv => TypeOK
  BY DEF IInv
<1> QED  BY <1>1, Invariance, PTL

\* The map of pending commands holds exactly what the responses need, for any
\* number of concurrent, failing, abandoned and timed out commands, while the read
\* loop ends and disconnects clear the map under them.
THEOREM PendingIsRight == Spec => []PendingAgrees
<1>1. IInv => PendingAgrees
  BY DEF IInv, PendingAgrees
<1> QED  BY <1>1, Invariance, PTL

\* When the read loop and all disconnects are through, flag, cache and events agree
\* that the connection is over (tcp_read_loop, disconnect).
THEOREM EndIsToldOf == Spec => []EndIsKnown
<1>1. IInv => EndIsKnown
  BY DEF IInv, EndTold, EndIsKnown
<1> QED  BY <1>1, Invariance, PTL

-----------------------------------------------------------------------------
(* The refinement.                                                         *)

\* What the calls were told.
LEMMA ToldIs ==
  ASSUME NEW c \in Calls
  PROVE  /\ Told[c] = IF pc[c] = "done" THEN result[c] ELSE "none"
         /\ Told'[c] = IF pc'[c] = "done" THEN result'[c] ELSE "none"
BY DEF Told

\* A step that returns from no call and executes no command is a stutter.
LEMMA RemoteStutter ==
  ASSUME UNCHANGED <<pc, result, executed>>
  PROVE  UNCHANGED Remote!callVars
BY DEF Remote!callVars, Told

\* So is a step of a call that does not return.
LEMMA RemoteGoesOn ==
  ASSUME NEW c \in Calls, pc[c] # "done", pc'[c] # "done", UNCHANGED executed,
         \A b \in Calls : b # c => pc'[b] = pc[b] /\ result'[b] = result[b]
  PROVE  UNCHANGED Remote!callVars
<1>1. \A b \in Calls : (pc[b] = "done") = (pc'[b] = "done")
                       /\ (pc[b] = "done" => result'[b] = result[b])
  OBVIOUS
<1>2. Told' = Told
  BY <1>1 DEF Told
<1> QED  BY <1>2 DEF Remote!callVars

\* A call that returns is told what is true of its command.
LEMMA RemoteReturn ==
  ASSUME IInv, NEW c \in Calls, pc[c] # "done", UNCHANGED executed,
         pc' = [pc EXCEPT ![c] = "done"],
         \A b \in Calls : b # c => result'[b] = result[b],
         NEW v \in Remote!Verdicts \ {"none"}, result'[c] = v,
         v \in {"ok", "rejected"} => mailbox[c] = v,
         v = "notconnected" => pc[c] = "idle" \/ result[c] = "notconnected"
  PROVE  Remote!Next
<1> USE DEF IInv, TypeOK
<1>1. Told[c] = "none"
  BY DEF Told
<1>2. v \in Remote!ByRadio => c \in executed
  BY DEF Remote!ByRadio, MailHonest
<1>3. v = "notconnected" => c \notin executed
  BY DEF LinesHonest, Written
<1>4. Told' = [Told EXCEPT ![c] = v]
  BY DEF Told
<1> DEFINE banned == {b \in Calls : Told[b] = "notconnected"}
<1>5. banned' = IF v = "notconnected" THEN banned \cup {c} ELSE banned
  <2>1. \A b \in Calls : Told'[b] = IF b = c THEN v ELSE Told[b]
    BY <1>4 DEF Told
  <2>2. banned' = {b \in Calls : Told'[b] = "notconnected"}
    OBVIOUS
  <2> QED  BY <1>1, <2>1, <2>2
<1>6. Remote!Return(c, v)
  BY <1>1, <1>2, <1>3, <1>4, <1>5 DEF Remote!Return
<1> QED  BY <1>6 DEF Remote!Next

\* The steps of a call.
LEMMA RemoteCaller ==
  ASSUME IInv, NEW c \in Calls, Caller(c) \/ Abandon(c)
  PROVE  [Remote!Next]_(Remote!callVars)
<1>1. UNCHANGED executed
  BY CallerFrame
<1>2. pc \in [Calls -> CallStates] /\ result \in [Calls -> Results] /\ MailHonest
  BY DEF IInv, TypeOK
<1>3. CASE Check(c) /\ ~connected
  <2>1. "notconnected" \in Remote!Verdicts \ {"none"}
    BY DEF Remote!Verdicts
  <2> QED  BY <1>1, <1>2, <1>3, <2>1, RemoteReturn DEF Check, Finish
<1>4. CASE Receive(c) /\ mailbox[c] \in {"ok", "rejected"}
  <2>1. mailbox[c] \in Remote!Verdicts \ {"none"}
    BY <1>4 DEF Remote!Verdicts, Remote!ByRadio
  <2>2. /\ pc' = [pc EXCEPT ![c] = "done"] /\ result' = [result EXCEPT ![c] = mailbox[c]]
        /\ pc[c] = "waiting"
    BY <1>4 DEF Receive, Finish
  <2> QED  BY <1>1, <1>2, <1>4, <2>1, <2>2, RemoteReturn
<1>5. CASE Unregister(c)
  <2>1. result[c] \in {"notconnected", "timeout", "lost", "broken"}
    BY <1>2, <1>5 DEF Unregister, MailHonest
  <2>2. result[c] \in Remote!Verdicts \ {"none"}
    BY <2>1 DEF Remote!Verdicts, Remote!Unsure
  <2> QED  BY <1>1, <1>2, <1>5, <2>1, <2>2, RemoteReturn DEF Unregister
<1>6. CASE Abandon(c)
  <2>1. "abandoned" \in Remote!Verdicts \ {"none"}
    BY DEF Remote!Verdicts, Remote!Unsure
  <2> QED  BY <1>1, <1>2, <1>6, <2>1, RemoteReturn DEF Abandon, Finish
<1>7. CASE \/ Check(c) /\ connected
           \/ Number(c) \/ Register(c) \/ Lock(c) \/ Write(c) \/ Expire(c)
           \/ Receive(c) /\ mailbox[c] \notin {"ok", "rejected"}
  <2>1. /\ pc[c] # "done" /\ pc'[c] # "done"
        /\ \A b \in Calls : b # c => pc'[b] = pc[b] /\ result'[b] = result[b]
    BY <1>2, <1>7 DEF Check, Number, Register, Lock, Write, Receive, Expire, Fail
  <2> QED  BY <1>1, <2>1, RemoteGoesOn
<1> QED  BY <1>3, <1>4, <1>5, <1>6, <1>7 DEF Caller

\* The radio executes a command that is on the line, or serves a subscription.
LEMMA RemoteRadio ==
  ASSUME IInv, RadioExecutes
  PROVE  [Remote!Next]_(Remote!callVars)
<1> DEFINE c == Head(toRadio).call
<1>1. /\ toRadio # <<>> /\ executed' = executed \cup ({c} \cap Calls)
      /\ UNCHANGED <<pc, result>>
  BY DEF RadioExecutes, callerVars
<1>2. CASE c \in Calls
  <2>1. CommandHonest(Head(toRadio), seq, pc, result, executed)
    BY <1>1, TailLine DEF IInv, TypeOK, LinesHonest
  <2>2. c \notin executed /\ result[c] # "notconnected"
    BY <1>2, <2>1 DEF CommandHonest, Written
  <2>3. Told[c] # "notconnected" /\ Told' = Told
    BY <1>1, <1>2, <2>2 DEF Told
  <2> HIDE DEF c
  <2>4. Remote!Execute(c)
    BY <1>1, <1>2, <2>2, <2>3 DEF Remote!Execute
  <2> QED  BY <1>2, <2>4 DEF Remote!Next
<1>3. CASE c \notin Calls
  <2>1. executed' = executed
    BY <1>1, <1>3
  <2> QED  BY <1>1, <2>1, RemoteStutter
<1> QED  BY <1>2, <1>3

\* The client with its tasks is a remote call: a verdict of the radio is about a
\* command that the radio has executed, no command is executed twice, and one
\* whose caller was told NotConnected is never executed.
THEOREM Refinement == Spec => ImplementsRemote
<1>1. Init => Remote!Init
  BY DEF Init, Remote!Init, Told
<1>2. IInv /\ [Next]_vars => [Remote!Next]_(Remote!callVars)
  <2> SUFFICES ASSUME IInv, [Next]_vars  PROVE  [Remote!Next]_(Remote!callVars)
    OBVIOUS
  <2>1. ASSUME NEW c \in Calls, Caller(c) \/ Abandon(c)
        PROVE  [Remote!Next]_(Remote!callVars)
    BY <2>1, RemoteCaller
  <2>2. ASSUME NEW d \in Closers, Closer(d)
        PROVE  UNCHANGED <<pc, result, executed>>
    BY <2>2, CloserFrame
  <2>3. CASE Opener \/ Reader
    BY <2>3, OpenerFrame, ReaderFrame, RemoteStutter
  <2>4. CASE RadioExecutes
    BY <2>4, RemoteRadio
  <2>5. CASE RadioCloses \/ Reset \/ UNCHANGED vars
    <3>1. UNCHANGED <<pc, result, executed>>
      BY <2>5 DEF RadioCloses, Reset, vars, callerVars, netVars
    <3> QED  BY <3>1, RemoteStutter
  <2> QED  BY <2>1, <2>2, <2>3, <2>4, <2>5, RemoteStutter DEF Next
<1> QED  BY Invariance, <1>1, <1>2, PTL DEF Spec, ImplementsRemote, Remote!Spec
=============================================================================
