-------------------------- MODULE FlexAudioProofs --------------------------
(***************************************************************************)
(* Proofs about FlexAudio, for all values of its constants.                *)
(*                                                                         *)
(* The argument: a stream id has one owner at a time - the list of the     *)
(* rig, the work of one stop, or one start that has it from the radio -    *)
(* and the radio does not give it out again while it has one.              *)
(***************************************************************************)
EXTENDS FlexAudio, SequenceTheorems, TLAPS

\* A sequence has no element twice; something is an element of a sequence.
Once(s) == \A i, j \in 1..Len(s) : s[i] = s[j] => i = j
In(x, s) == \E i \in 1..Len(s) : s[i] = x

\* A start that has a stream and has not passed it on.
Owning(c) == start[c] \in {"dax", "register", "track"}

\* Within the list, within the work of a stop, and among starts: one place.
OwnedOnce ==
  /\ Once(active)
  /\ \A d \in Stops : Once(todo[d])
  /\ \A c, b \in Starts : Owning(c) /\ Owning(b) /\ sid[c] = sid[b] => c = b

\* No two kinds of owners, nor two stops, have an id in common.
OwnersApart ==
  \A i \in Ids :
    /\ In(i, active) => \A d \in Stops : ~In(i, todo[d])
    /\ \A d, e \in Stops : In(i, todo[d]) /\ In(i, todo[e]) => d = e
    /\ \A c \in Starts : Owning(c) /\ sid[c] = i =>
         ~In(i, active) /\ \A d \in Stops : ~In(i, todo[d])

\* What has an owner is a stream of the radio, until the connection ends.
OwnedExists ==
  connected =>
    /\ \A i \in Ids : In(i, active) => i \in streams
    /\ \A d \in Stops : \A i \in Ids : In(i, todo[d]) => i \in streams
    /\ \A c \in Starts : Owning(c) => sid[c] \in streams

\* Where a stop is tells what it still has to do; the stream that it is about to
\* remove is not routed any more.
StopsKnow ==
  \A d \in Stops :
    /\ stop[d] \in {"idle", "drain", "done"} => todo[d] = <<>>
    /\ stop[d] = "remove" => todo[d] # <<>> /\ Head(todo[d]) \notin DOMAIN routes

\* A start has its id from the radio, and a route leads to the start that made it.
RoutesKnow ==
  /\ \A c \in Starts : Owning(c) => sid[c] \in Ids
  /\ \A c \in Starts : start[c] = "track" => sid[c] \in DOMAIN routes
  /\ \A i \in DOMAIN routes :
       sid[routes[i]] = i /\ start[routes[i]] \in {"track", "ok", "abandoned"}

\* Routing, with In for ToSet.
Listed == \A i \in Ids : In(i, active) => i \in DOMAIN routes
Known ==
  \A i \in DOMAIN routes :
    \/ In(i, active)
    \/ \E d \in Stops : In(i, todo[d])
    \/ start[routes[i]] \in {"track", "abandoned"}

\* A stop has before it what had been started when it was called: of that, nothing
\* is left in the list once it has drained it.
Drained ==
  \A d \in Stops :
    /\ stop[d] = "idle" => before[d] = {}
    /\ \A c \in before[d] : start[c] = "ok"
    /\ stop[d] \notin {"idle", "drain"} =>
         \A i \in DOMAIN routes : routes[i] \in before[d] => \E e \in Stops : In(i, todo[e])

\* Who has which id, and what list, routes and receivers make of it.
Inv   == OwnedOnce /\ OwnersApart /\ OwnedExists /\ StopsKnow /\ RoutesKnow
Agree == Listed /\ Known /\ Drained

\* The inductive invariant.
IInv == TypeOK /\ Inv /\ Agree

-----------------------------------------------------------------------------
(* Sequences without repetition.                                           *)

\* Nothing is in the empty sequence.
LEMMA EmptyOnce == Once(<<>>) /\ \A x : ~In(x, <<>>)
BY DEF Once, In

\* An element that is appended is in the sequence, once if it was not there before.
LEMMA AppendOnce ==
  ASSUME NEW S, NEW s \in Seq(S), NEW x \in S
  PROVE  /\ \A y : In(y, Append(s, x)) <=> In(y, s) \/ y = x
         /\ Once(s) /\ ~In(x, s) => Once(Append(s, x))
<1> DEFINE t == Append(s, x)
<1>1. /\ Len(s) \in Nat /\ Len(t) = Len(s) + 1 /\ t[Len(s) + 1] = x
      /\ \A i \in 1..Len(s) : t[i] = s[i]
  OBVIOUS
<1> HIDE DEF t
<1>2. \A y : In(y, t) <=> In(y, s) \/ y = x
  BY <1>1 DEF In
<1>3. Once(s) /\ ~In(x, s) => Once(t)
  BY <1>1 DEF In, Once
<1> QED  BY <1>2, <1>3 DEF t

\* The head of a sequence without repetition is not in its tail.
LEMMA TailOnce ==
  ASSUME NEW S, NEW s \in Seq(S), s # <<>>
  PROVE  /\ Head(s) \in S /\ Tail(s) \in Seq(S)
         /\ \A y : In(y, s) <=> In(y, Tail(s)) \/ y = Head(s)
         /\ Once(s) => Once(Tail(s)) /\ ~In(Head(s), Tail(s))
<1> DEFINE t == Tail(s)
<1>1. /\ t \in Seq(S) /\ Len(t) = Len(s) - 1 /\ Head(s) = s[1] /\ s[1] \in S
      /\ \A i \in 1..Len(t) : t[i] = s[i + 1]
  BY HeadTailProperties
<1>2. Len(s) \in Nat /\ Len(s) > 0
  OBVIOUS
<1> HIDE DEF t
<1>3. \A y : In(y, s) <=> In(y, t) \/ y = Head(s)
  <2> TAKE y
  <2>1. ASSUME NEW i \in 1..Len(s), s[i] = y, y # Head(s)
        PROVE  In(y, t)
    <3>1. i - 1 \in 1..Len(t) /\ t[i - 1] = y
      BY <2>1, <1>1, <1>2
    <3> QED  BY <3>1 DEF In
  <2>2. ASSUME In(y, t) \/ y = Head(s)
        PROVE  In(y, s)
    <3>1. CASE y = Head(s)
      BY <3>1, <1>1, <1>2 DEF In
    <3>2. CASE In(y, t)
      <4>1. PICK i \in 1..Len(t) : t[i] = y
        BY <3>2 DEF In
      <4>2. i + 1 \in 1..Len(s) /\ s[i + 1] = y
        BY <4>1, <1>1, <1>2
      <4> QED  BY <4>2 DEF In
    <3> QED  BY <2>2, <3>1, <3>2
  <2> QED  BY <2>1, <2>2 DEF In
<1>4. ASSUME Once(s)
      PROVE  Once(t) /\ ~In(Head(s), t)
  <2>1. \A i, j \in 1..Len(t) : t[i] = t[j] => i = j
    BY <1>1, <1>2, <1>4 DEF Once
  <2>2. \A i \in 1..Len(t) : t[i] # s[1]
    BY <1>1, <1>2, <1>4 DEF Once
  <2> QED  BY <2>1, <2>2, <1>1 DEF Once, In
<1> QED  BY <1>1, <1>3, <1>4 DEF t

\* The values of a sequence, as its module has them.
LEMMA ToSetIn ==
  ASSUME NEW S, NEW s \in Seq(S), NEW x
  PROVE  x \in ToSet(s) <=> In(x, s)
BY DEF ToSet, In

-----------------------------------------------------------------------------
(* The types.                                                              *)

\* A datagram brings one buffer for a stream, or none.
LEMMA OneBuffer ==
  ASSUME NEW data, NEW i
  PROVE  Len(Buffers(data, i)) \in {0, 1}
<1>1. \A x : Len(<<x>>) = 1 /\ Len(<<>>) = 0
  OBVIOUS
<1> QED  BY <1>1 DEF Buffers

\* The steps of start_rx_audio keep the types.
LEMMA StartType ==
  ASSUME TypeOK, RoutesKnow, NEW c \in Starts, Start(c) \/ AbandonStart(c)
  PROVE  TypeOK'
<1> USE DEF TypeOK, StartGoes, StartStates, Routed
<1>1. CASE Create(c)
  BY <1>1, ZenonT(30) DEF Create
<1>2. CASE SetDax(c)
  BY <1>2, ZenonT(30) DEF SetDax
<1>3. CASE Register(c)
  <2>1. sid[c] \in Ids
    BY <1>3 DEF Register, RoutesKnow, Owning
  <2>2. DOMAIN routes' \subseteq Ids /\ \A i \in DOMAIN routes' : routes'[i] \in Starts
    BY <1>3, <2>1 DEF Register
  <2> QED  BY <1>3, <2>2 DEF Register
<1>4. CASE Track(c)
  <2>1. sid[c] \in Ids
    BY <1>4 DEF Track, RoutesKnow, Owning
  <2> QED  BY <1>4, <2>1 DEF Track
<1>5. CASE AbandonStart(c)
  BY <1>5, FlexAudioAssumption DEF AbandonStart
<1> QED  BY <1>1, <1>2, <1>3, <1>4, <1>5 DEF Start

\* The steps of stop_audio keep the types.
LEMMA StopType ==
  ASSUME TypeOK, StopsKnow, NEW d \in Stops, Stop(d) \/ AbandonStop(d)
  PROVE  TypeOK'
<1> USE DEF TypeOK, StopGoes, StopStates, Routed
<1>1. CASE CallStop(d)
  BY <1>1 DEF CallStop
<1>2. CASE Drain(d)
  BY <1>2 DEF Drain
<1>3. CASE Unregister(d)
  BY <1>3 DEF Unregister
<1>4. CASE RemoveStream(d)
  <2>1. todo[d] \in Seq(Ids) /\ todo[d] # <<>>
    BY <1>4 DEF RemoveStream, StopsKnow
  <2>2. Tail(todo[d]) \in Seq(Ids)
    BY <2>1, TailOnce
  <2> QED  BY <1>4, <2>2 DEF RemoveStream
<1>5. CASE StopReturns(d)
  BY <1>5 DEF StopReturns
<1>6. CASE AbandonStop(d)
  BY <1>6 DEF AbandonStop
<1> QED  BY <1>1, <1>2, <1>3, <1>4, <1>5, <1>6 DEF Stop

\* Packets, receivers and the end of the connection.
Others ==
  \/ \E c \in Starts : Recv(c) \/ DropReceiver(c)
  \/ \E i \in Ids : Packet(i)
  \/ Disconnect

\* Packets, receivers and the end of the connection keep the types.
LEMMA OthersType ==
  ASSUME TypeOK, Others
  PROVE  TypeOK'
<1> USE FlexAudioAssumption DEF TypeOK, opVars, Routed
<1>1. ASSUME NEW i \in Ids, Packet(i)
      PROVE  TypeOK'
  <2>1. PICK data \in DatagramsOf(i) :
          queued' = IF i \in DOMAIN routes /\ listener[routes[i]] # "dropped"
                       /\ queued[routes[i]] < Capacity
                    THEN [queued EXCEPT ![routes[i]] = @ + Len(Buffers(data, i))]
                    ELSE queued
    BY <1>1 DEF Packet
  <2> DEFINE n == Len(Buffers(data, i))
  <2>2. n \in {0, 1}
    BY OneBuffer
  <2>3. n = Len(Buffers(data, i))
    OBVIOUS
  <2> HIDE DEF n
  <2>4. \A k \in 0 .. Capacity : k < Capacity => k + n \in 0 .. Capacity
    BY <2>2
  <2>5. i \in DOMAIN routes => routes[i] \in Starts
    OBVIOUS
  <2>6. queued' \in [Starts -> 0 .. Capacity]
    BY <2>1, <2>3, <2>4, <2>5
  <2> QED  BY <1>1, <2>6 DEF Packet
<1>2. ASSUME NEW c \in Starts, Recv(c)
      PROVE  TypeOK'
  <2>1. CASE queued[c] > 0 /\ queued' = [queued EXCEPT ![c] = @ - 1] /\ UNCHANGED listener
    <3>1. queued[c] - 1 \in 0 .. Capacity
      BY <2>1
    <3> QED  BY <1>2, <2>1, <3>1 DEF Recv
  <2>2. CASE listener' = [listener EXCEPT ![c] = "ended"] /\ UNCHANGED queued
    <3>1. listener' \in [Starts -> {"none", "open", "ended", "dropped"}]
      BY <2>2
    <3> QED  BY <1>2, <2>2, <3>1 DEF Recv
  <2> QED  BY <1>2, <2>1, <2>2 DEF Recv
<1>3. ASSUME NEW c \in Starts, DropReceiver(c)
      PROVE  TypeOK'
  BY <1>3 DEF DropReceiver
<1>4. CASE Disconnect
  BY <1>4 DEF Disconnect
<1> QED  BY <1>1, <1>2, <1>3, <1>4 DEF Others

-----------------------------------------------------------------------------
(* Owners.                                                                 *)

\* start_rx_audio: an id that the radio gives out has no owner yet, and it is passed
\* on to the list.
LEMMA StartOwns ==
  ASSUME TypeOK, Inv, NEW c \in Starts, Start(c) \/ AbandonStart(c)
  PROVE  Inv'
<1> USE DEF TypeOK, StartGoes, Inv
<1>1. CASE Create(c)
  <2>1. CASE start' = [start EXCEPT ![c] = "failed"] /\ UNCHANGED sid
    <3>1. streams \subseteq streams'
      BY <1>1 DEF Create
    <3>2. \A b \in Starts : Owning(b)' <=> Owning(b)
      BY <1>1, <2>1 DEF Create, Owning
    <3>3. OwnedOnce' /\ OwnersApart' /\ OwnedExists'
      BY <1>1, <2>1, <3>1, <3>2 DEF Create, OwnedOnce, OwnersApart, OwnedExists
    <3>4. StopsKnow' /\ RoutesKnow'
      BY <1>1, <2>1, <3>2 DEF Create, StopsKnow, RoutesKnow
    <3> QED  BY <3>3, <3>4
  <2>2. ASSUME NEW i \in Ids \ streams, connected, streams' = streams \cup {i},
               start' = [start EXCEPT ![c] = "dax"], sid' = [sid EXCEPT ![c] = i]
        PROVE  Inv'
    <3>1. OwnedOnce'
      BY <1>1, <2>2 DEF Create, OwnedOnce, OwnedExists, Owning
    <3>2. OwnersApart'
      BY <1>1, <2>2 DEF Create, OwnersApart, OwnedExists, Owning
    <3>3. OwnedExists'
      BY <1>1, <2>2 DEF Create, OwnedExists, Owning
    <3>4. StopsKnow'
      BY <1>1, <2>2 DEF Create, StopsKnow
    <3>5. RoutesKnow'
      BY <1>1, <2>2 DEF Create, RoutesKnow, Owning
    <3> QED  BY <3>1, <3>2, <3>3, <3>4, <3>5
  <2> QED  BY <1>1, <2>1, <2>2 DEF Create
<1>2. CASE SetDax(c)
  <2>1. \A b \in Starts : Owning(b)' => Owning(b)
    BY <1>2 DEF SetDax, Owning
  <2>2. OwnedOnce' /\ OwnersApart' /\ OwnedExists'
    BY <1>2, <2>1 DEF SetDax, OwnedOnce, OwnersApart, OwnedExists
  <2>3. /\ start[c] = "dax" /\ start'[c] \in {"register", "failed"}
        /\ \A b \in Starts : b # c => start'[b] = start[b]
    BY <1>2 DEF SetDax
  <2>4. StopsKnow' /\ RoutesKnow'
    <3>1. UNCHANGED <<sid, stop, todo, routes>>
      BY <1>2 DEF SetDax
    <3>2. \A i \in DOMAIN routes : routes[i] \in Starts
      BY DEF Routed
    <3>3. \A i \in DOMAIN routes : routes[i] # c
      BY <2>3 DEF RoutesKnow
    <3>4. RoutesKnow'
      BY <2>1, <2>3, <3>1, <3>2, <3>3 DEF RoutesKnow
    <3> QED  BY <3>1, <3>4 DEF StopsKnow
  <2> QED  BY <2>2, <2>4
<1>3. CASE Register(c)
  <2>1. OwnedOnce' /\ OwnersApart' /\ OwnedExists'
    BY <1>3 DEF Register, OwnedOnce, OwnersApart, OwnedExists, Owning
  <2>2. sid[c] \in Ids /\ \A d \in Stops : ~In(sid[c], todo[d])
    BY <1>3 DEF Register, OwnersApart, RoutesKnow, Owning
  <2>3. StopsKnow'
    BY <1>3, <2>2, TailOnce DEF Register, StopsKnow
  <2>4. RoutesKnow'
    BY <1>3, <2>2 DEF Register, RoutesKnow, Owning
  <2> QED  BY <2>1, <2>3, <2>4
<1>4. CASE Track(c)
  <2>1. sid[c] \in Ids /\ ~In(sid[c], active) /\ \A d \in Stops : ~In(sid[c], todo[d])
    BY <1>4 DEF Track, OwnersApart, RoutesKnow, Owning
  <2>2. /\ \A i : In(i, active') <=> In(i, active) \/ i = sid[c]
        /\ Once(active')
    BY <1>4, <2>1, AppendOnce DEF Track, OwnedOnce
  <2>3. OwnedOnce'
    BY <1>4, <2>2 DEF Track, OwnedOnce, Owning
  <2>4. OwnersApart' /\ OwnedExists'
    BY <1>4, <2>1, <2>2 DEF Track, OwnedOnce, OwnersApart, OwnedExists, Owning
  <2>5. StopsKnow' /\ RoutesKnow'
    BY <1>4 DEF Track, StopsKnow, RoutesKnow, Owning
  <2> QED  BY <2>3, <2>4, <2>5
<1>5. CASE AbandonStart(c)
  BY <1>5 DEF AbandonStart, OwnedOnce, OwnersApart, OwnedExists, StopsKnow, RoutesKnow, Owning
<1> QED  BY <1>1, <1>2, <1>3, <1>4, <1>5 DEF Start

\* stop_audio: what is drained changes its owner, and an id is only free for the
\* radio when the stop has done with it.
LEMMA StopOwns ==
  ASSUME TypeOK, Inv, NEW d \in Stops, Stop(d) \/ AbandonStop(d)
  PROVE  Inv'
<1> USE DEF TypeOK, StopGoes, Inv
<1>1. CASE CallStop(d) \/ StopReturns(d) \/ AbandonStop(d)
  BY <1>1 DEF CallStop, StopReturns, AbandonStop, OwnedOnce, OwnersApart, OwnedExists,
              StopsKnow, RoutesKnow, Owning
<1>2. CASE Drain(d)
  <2>1. /\ todo[d] = <<>> /\ active' = <<>>
        /\ todo'[d] = active /\ \A e \in Stops : e # d => todo'[e] = todo[e]
    BY <1>2 DEF Drain, StopsKnow
  <2>2. OwnedOnce'
    BY <1>2, <2>1, EmptyOnce DEF Drain, OwnedOnce, Owning
  <2>3. OwnersApart' /\ OwnedExists'
    BY <1>2, <2>1, EmptyOnce DEF Drain, OwnersApart, OwnedExists, Owning
  <2>4. StopsKnow' /\ RoutesKnow'
    BY <1>2 DEF Drain, StopsKnow, RoutesKnow, Owning
  <2> QED  BY <2>2, <2>3, <2>4
<1>3. CASE Unregister(d)
  <2>1. OwnedOnce' /\ OwnersApart' /\ OwnedExists'
    BY <1>3 DEF Unregister, OwnedOnce, OwnersApart, OwnedExists, Owning
  <2>2. StopsKnow'
    BY <1>3 DEF Unregister, StopsKnow
  <2>3. In(Head(todo[d]), todo[d])
    BY <1>3, TailOnce DEF Unregister
  <2>4. RoutesKnow'
    BY <1>3, <2>3, TailOnce DEF Unregister, OwnersApart, RoutesKnow, Owning
  <2> QED  BY <2>1, <2>2, <2>4
<1>4. CASE RemoveStream(d)
  <2>1. todo[d] \in Seq(Ids) /\ todo[d] # <<>> /\ Head(todo[d]) \in Ids
    BY <1>4, TailOnce DEF RemoveStream, StopsKnow
  <2>2. /\ todo'[d] = Tail(todo[d]) /\ \A e \in Stops : e # d => todo'[e] = todo[e]
        /\ In(Head(todo[d]), todo[d]) /\ ~In(Head(todo[d]), todo'[d]) /\ Once(todo'[d])
        /\ \A i : In(i, todo'[d]) => In(i, todo[d])
    BY <1>4, <2>1, TailOnce DEF RemoveStream, OwnedOnce
  <2>3. OwnedOnce'
    BY <1>4, <2>2 DEF RemoveStream, OwnedOnce, Owning
  <2>4. OwnersApart'
    BY <1>4, <2>2 DEF RemoveStream, OwnersApart, Owning
  <2>5. OwnedExists'
    <3>1. \A i \in Ids : i \in streams /\ i # Head(todo[d]) => i \in streams'
      BY <1>4 DEF RemoveStream
    <3> QED  BY <1>4, <2>1, <2>2, <3>1 DEF RemoveStream, OwnersApart, OwnedExists, RoutesKnow, Owning
  <2>6. StopsKnow' /\ RoutesKnow'
    BY <1>4 DEF RemoveStream, StopsKnow, RoutesKnow, Owning
  <2> QED  BY <2>3, <2>4, <2>5, <2>6
<1> QED  BY <1>1, <1>2, <1>3, <1>4 DEF Stop

\* Nothing else gives or takes an id.
LEMMA OthersOwn ==
  ASSUME TypeOK, Inv, Others
  PROVE  Inv'
BY DEF Others, Packet, Recv, DropReceiver, Disconnect, opVars, Inv, OwnedOnce, OwnersApart,
       OwnedExists, StopsKnow, RoutesKnow, Owning

-----------------------------------------------------------------------------
(* The list, the routes and the receivers.                                 *)

\* A start makes its route before it lists the stream.
LEMMA StartAgrees ==
  ASSUME TypeOK, Inv, Agree, NEW c \in Starts, Start(c) \/ AbandonStart(c)
  PROVE  Agree'
<1> USE DEF TypeOK, StartGoes, Agree
<1>1. CASE Create(c) \/ SetDax(c) \/ AbandonStart(c)
  <2>1. Listed'
    BY <1>1 DEF Create, SetDax, AbandonStart, Listed
  <2>2. UNCHANGED <<routes, active, todo, stop, before>>
    BY <1>1 DEF Create, SetDax, AbandonStart
  <2>3. /\ start[c] \in {"idle", "dax", "register", "track"}
        /\ \A b \in Starts : b # c => start'[b] = start[b]
        /\ start[c] = "track" => start'[c] = "abandoned"
    BY <1>1 DEF Create, SetDax, AbandonStart
  <2>4. Known'
    BY <2>2, <2>3 DEF Known, Routed
  <2>5. Drained'
    BY <2>2, <2>3 DEF Drained
  <2> QED  BY <2>1, <2>4, <2>5
<1>2. CASE Register(c)
  <2>1. Listed'
    BY <1>2 DEF Register, Listed
  <2>2. Known'
    BY <1>2 DEF Register, Known, Routed
  <2>3. Drained'
    BY <1>2 DEF Register, Drained
  <2> QED  BY <2>1, <2>2, <2>3
<1>3. CASE Track(c)
  <2>1. sid[c] \in Ids /\ sid[c] \in DOMAIN routes
    BY <1>3 DEF Track, Inv, RoutesKnow, Owning
  <2>2. \A i : In(i, active') <=> In(i, active) \/ i = sid[c]
    BY <1>3, <2>1, AppendOnce DEF Track
  <2>3. Listed'
    BY <1>3, <2>1, <2>2 DEF Track, Listed
  <2>4. Known'
    BY <1>3, <2>2 DEF Track, Inv, RoutesKnow, Known, Routed
  <2>5. Drained'
    BY <1>3 DEF Track, Drained
  <2> QED  BY <2>3, <2>4, <2>5
<1> QED  BY <1>1, <1>2, <1>3 DEF Start

\* A stop unregisters only what it has taken out of the list.
LEMMA StopAgrees ==
  ASSUME TypeOK, Inv, Agree, NEW d \in Stops, Stop(d) \/ AbandonStop(d)
  PROVE  Agree'
<1> USE DEF TypeOK, StopGoes, Agree
<1>1. CASE CallStop(d)
  <2>1. Listed' /\ Known'
    BY <1>1 DEF CallStop, Listed, Known
  <2>2. Drained'
    BY <1>1 DEF CallStop, Drained
  <2> QED  BY <2>1, <2>2
<1>2. CASE Drain(d)
  <2>1. /\ todo[d] = <<>> /\ active' = <<>>
        /\ todo'[d] = active /\ \A e \in Stops : e # d => todo'[e] = todo[e]
    BY <1>2 DEF Drain, Inv, StopsKnow
  <2>2. Listed'
    BY <1>2, <2>1, EmptyOnce DEF Drain, Listed
  <2>3. \A i : (\E e \in Stops : In(i, todo'[e])) <=> In(i, active) \/ \E e \in Stops : In(i, todo[e])
    BY <2>1, EmptyOnce
  <2>4. Known'
    BY <1>2, <2>1, <2>3 DEF Drain, Known
  <2>5. \A i \in DOMAIN routes : routes[i] \in before[d] => \E e \in Stops : In(i, todo'[e])
    BY <2>3 DEF Known, Drained
  <2>6. Drained'
    <3>1. /\ stop[d] = "drain" /\ UNCHANGED <<start, routes, before>>
          /\ \A e \in Stops : e # d => stop'[e] = stop[e]
          /\ stop'[d] = "loop"
      BY <1>2 DEF Drain
    <3>2. \A i : (\E e \in Stops : In(i, todo[e])) => \E e \in Stops : In(i, todo'[e])
      BY <2>3
    <3> QED  BY <2>5, <3>1, <3>2 DEF Drained
  <2> QED  BY <2>2, <2>4, <2>6
<1>3. CASE Unregister(d)
  <2>1. /\ todo[d] \in Seq(Ids) /\ In(Head(todo[d]), todo[d]) /\ Head(todo[d]) \in Ids
        /\ DOMAIN routes' = DOMAIN routes \ {Head(todo[d])}
        /\ \A i \in DOMAIN routes' : routes'[i] = routes[i]
    BY <1>3, TailOnce DEF Unregister
  <2>2. Listed'
    BY <1>3, <2>1 DEF Unregister, Inv, OwnersApart, Listed
  <2>3. Known'
    BY <1>3, <2>1 DEF Unregister, Known
  <2>4. Drained'
    BY <1>3, <2>1 DEF Unregister, Drained
  <2> QED  BY <2>2, <2>3, <2>4
<1>4. CASE RemoveStream(d)
  <2>1. todo[d] \in Seq(Ids) /\ todo[d] # <<>> /\ Head(todo[d]) \notin DOMAIN routes
    BY <1>4 DEF RemoveStream, Inv, StopsKnow
  <2>2. /\ todo'[d] = Tail(todo[d]) /\ \A e \in Stops : e # d => todo'[e] = todo[e]
        /\ \A i \in DOMAIN routes : In(i, todo'[d]) <=> In(i, todo[d])
    BY <1>4, <2>1, TailOnce DEF RemoveStream
  <2>3. \A i \in DOMAIN routes : \A e \in Stops : In(i, todo'[e]) <=> In(i, todo[e])
    BY <2>2
  <2>4. Listed' /\ Known'
    BY <1>4, <2>3 DEF RemoveStream, Listed, Known
  <2>5. Drained'
    BY <1>4, <2>3 DEF RemoveStream, Drained
  <2> QED  BY <2>4, <2>5
<1>5. CASE StopReturns(d) \/ AbandonStop(d)
  <2>1. Listed' /\ Known'
    BY <1>5 DEF StopReturns, AbandonStop, Listed, Known
  <2>2. Drained'
    <3>1. /\ stop[d] \in {"loop", "remove"} /\ stop'[d] \in {"done", "abandoned"}
          /\ \A e \in Stops : e # d => stop'[e] = stop[e]
          /\ UNCHANGED <<start, routes, before, todo>>
      BY <1>5 DEF StopReturns, AbandonStop
    <3> QED  BY <3>1 DEF Drained
  <2> QED  BY <2>1, <2>2
<1> QED  BY <1>1, <1>2, <1>3, <1>4, <1>5 DEF Stop

\* Nothing else changes list, routes or the work of the stops.
LEMMA OthersAgree ==
  ASSUME TypeOK, Agree, Others
  PROVE  Agree'
BY DEF Others, Packet, Recv, DropReceiver, Disconnect, opVars, Agree, Listed, Known, Drained

-----------------------------------------------------------------------------
(* The theorems.                                                           *)

\* At first nobody has anything.
LEMMA InitInv == Init => IInv
<1> SUFFICES ASSUME Init  PROVE IInv
  OBVIOUS
<1> USE EmptyOnce, FlexAudioAssumption DEF Init
<1>1. TypeOK
  BY DEF TypeOK, StartStates, StopStates, Routed
<1>2. Inv
  BY DEF Inv, OwnedOnce, OwnersApart, OwnedExists, StopsKnow, RoutesKnow, Owning
<1>3. Listed /\ Known /\ Drained
  BY DEF Listed, Known, Drained
<1> QED  BY <1>1, <1>2, <1>3 DEF IInv, Agree

\* Every step keeps the invariant.
LEMMA StepInv == IInv /\ [Next]_vars => IInv'
<1> SUFFICES ASSUME IInv, [Next]_vars  PROVE IInv'
  OBVIOUS
<1> USE DEF IInv, Agree
<1>1. ASSUME NEW c \in Starts, Start(c) \/ AbandonStart(c)
      PROVE  IInv'
  BY <1>1, StartType, StartOwns, StartAgrees DEF Inv
<1>2. ASSUME NEW d \in Stops, Stop(d) \/ AbandonStop(d)
      PROVE  IInv'
  BY <1>2, StopType, StopOwns, StopAgrees DEF Inv
<1>3. CASE Others
  BY <1>3, OthersType, OthersOwn, OthersAgree
<1>4. CASE UNCHANGED vars
  BY <1>4 DEF vars, opVars, TypeOK, Routed, Inv, OwnedOnce, OwnersApart, OwnedExists, StopsKnow,
              RoutesKnow, Owning, Listed, Known, Drained
<1> QED  BY <1>1, <1>2, <1>3, <1>4 DEF Next, Others

\* The invariant holds in every reachable state.
THEOREM Invariance == Spec => []IInv
BY InitInv, StepInv, PTL DEF Spec

\* The variables have their types, and a receiver's channel never holds more than
\* its capacity, however slow the application (the bounded channel of start_rx_audio).
THEOREM TypeCorrect == Spec => []TypeOK
<1>1. IInv => TypeOK
  BY DEF IInv
<1> QED  BY <1>1, Invariance, PTL

\* The list of the rig and the routing table of the client stay in step, for any
\* number of concurrent, failing and abandoned starts and stops, and ids that the
\* radio gives out again (start_rx_audio, stop_audio, register_dax_stream).
THEOREM RoutingHolds == Spec => []Routing
<1>1. IInv => Routing
  <2> SUFFICES ASSUME IInv  PROVE Routing
    OBVIOUS
  <2>1. /\ active \in Seq(Ids) /\ \A d \in Stops : todo[d] \in Seq(Ids)
        /\ DOMAIN routes \subseteq Ids
    BY DEF IInv, TypeOK
  <2>2. ActiveRouted
    <3>1. \A i \in ToSet(active) : i \in Ids /\ In(i, active)
      BY <2>1, ToSetIn DEF ToSet
    <3> QED  BY <3>1 DEF IInv, Agree, Listed, ActiveRouted
  <2>3. Accounted
    BY <2>1, ToSetIn DEF IInv, Agree, Known, Accounted
  <2> QED  BY <2>2, <2>3 DEF Routing
<1> QED  BY <1>1, Invariance, PTL

\* When no stop is under way or was dropped, the receivers of all streams that were
\* there when stop_audio was called have been closed.
THEOREM StopIsComplete == Spec => []StopCovers
<1>1. IInv => StopCovers
  <2> SUFFICES ASSUME IInv, \A d \in Stops : stop[d] \in {"idle", "done"},
                      NEW d \in Stops, stop[d] = "done"
               PROVE  before[d] \cap Routed = {}
    BY DEF StopCovers
  <2>1. \A e \in Stops : \A i : ~In(i, todo[e])
    BY EmptyOnce DEF IInv, Inv, StopsKnow
  <2> QED  BY <2>1 DEF IInv, Agree, Drained, Routed
<1> QED  BY <1>1, Invariance, PTL
=============================================================================
