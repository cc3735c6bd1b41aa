----------------------------- MODULE FlexAudio -----------------------------
(***************************************************************************)
(* DAX audio streams of a FlexRadio: start_rx_audio and stop_audio of      *)
(* riglib-flex, rig.rs, with the stream table and the packet routing of    *)
(* client.rs.                                                              *)
(*                                                                         *)
(* A stream is known in three places: the radio sends its packets, the     *)
(* client routes them by stream id to the channel of a receiver, and the   *)
(* rig lists it so that stop_audio finds it.  The operations that keep the *)
(* three in step consist of several awaits and may run at the same time.   *)
(* A command to the radio may be executed and its answer be lost.          *)
(***************************************************************************)
EXTENDS FlexCodec

CONSTANTS
  Starts,       \* start_rx_audio calls, each made once
  Stops,        \* stop_audio calls, each made once
  Ids,          \* stream ids the radio gives out, again when they are free
  NoId,         \* no stream
  Capacity,     \* buffers in the channel of a receiver (64 in the code)
  MayAbandon,   \* callers may drop the futures of the two operations
  MaxPackets    \* bound: packets of the radio

ASSUME FlexAudioAssumption ==
  /\ NoId \notin Ids
  /\ Capacity \in Nat \ {0} /\ MaxPackets \in Nat
  /\ MayAbandon \in BOOLEAN

VARIABLES
  start,      \* [Starts -> StartStates]
  sid,        \* [Starts -> Ids or NoId]: the handle the radio answered with
  stop,       \* [Stops -> StopStates]
  todo,       \* [Stops -> Seq(Ids)]: streams drained from active, to be stopped
  before,     \* [Stops -> SUBSET Starts]: starts that had returned when it was called
  active,     \* active_dax_streams of the rig
  routes,     \* dax_streams of the client: [a subset of Ids -> Starts]
  queued,     \* [Starts -> Nat]: buffers in the channel
  listener,   \* [Starts -> "none", "open", "ended", "dropped"]: the AudioReceiver
  streams,    \* streams the radio has
  connected,  \* the client is connected and its UDP task runs
  sent        \* packets so far

opVars == <<start, sid, stop, todo, before>>
vars   == <<opVars, active, routes, queued, listener, streams, connected, sent>>

StartStates == {"idle", "dax", "register", "track", "ok", "failed", "abandoned"}
StopStates  == {"idle", "drain", "loop", "remove", "done", "abandoned"}

Init ==
  /\ start = [c \in Starts |-> "idle"] /\ sid = [c \in Starts |-> NoId]
  /\ stop = [d \in Stops |-> "idle"] /\ todo = [d \in Stops |-> <<>>]
  /\ before = [d \in Stops |-> {}]
  /\ active = <<>> /\ routes = <<>>
  /\ queued = [c \in Starts |-> 0]
  /\ listener = [c \in Starts |-> "none"]
  /\ streams = {} /\ connected = TRUE /\ sent = 0

Routed == {routes[i] : i \in DOMAIN routes}

-----------------------------------------------------------------------------
(* start_rx_audio.                                                         *)

StartGoes(c, to) == start' = [start EXCEPT ![c] = to]

\* "stream create": its answer carries the stream id, if it comes.
Create(c) ==
  /\ start[c] = "idle"
  /\ \/ /\ connected
        /\ \E i \in Ids \ streams :
             /\ streams' = streams \cup {i}
             /\ \/ StartGoes(c, "dax") /\ sid' = [sid EXCEPT ![c] = i]
                \/ StartGoes(c, "failed") /\ UNCHANGED sid
     \/ StartGoes(c, "failed") /\ UNCHANGED <<streams, sid>>
  /\ UNCHANGED <<stop, todo, before, active, routes, queued, listener, connected, sent>>

\* "slice set dax": when it fails the call returns and the stream stays.
SetDax(c) ==
  /\ start[c] = "dax"
  /\ \/ connected /\ StartGoes(c, "register")
     \/ StartGoes(c, "failed")
  /\ UNCHANGED <<sid, stop, todo, before, active, routes, queued, listener, streams, connected, sent>>

\* register_dax_stream: an older sender under the same id is dropped.
Register(c) ==
  /\ start[c] = "register"
  /\ StartGoes(c, "track")
  /\ routes' = [i \in DOMAIN routes \cup {sid[c]} |-> IF i = sid[c] THEN c ELSE routes[i]]
  /\ UNCHANGED <<sid, stop, todo, before, active, queued, listener, streams, connected, sent>>

Track(c) ==
  /\ start[c] = "track"
  /\ StartGoes(c, "ok")
  /\ active' = Append(active, sid[c])
  /\ listener' = [listener EXCEPT ![c] = "open"]
  /\ UNCHANGED <<sid, stop, todo, before, routes, queued, streams, connected, sent>>

\* The receiver's end of the channel goes with the future.
AbandonStart(c) ==
  /\ MayAbandon
  /\ start[c] \in {"dax", "register", "track"}
  /\ StartGoes(c, "abandoned")
  /\ listener' = [listener EXCEPT ![c] = "dropped"]
  /\ queued' = [queued EXCEPT ![c] = 0]
  /\ UNCHANGED <<sid, stop, todo, before, active, routes, streams, connected, sent>>

-----------------------------------------------------------------------------
(* stop_audio.                                                             *)

StopGoes(d, to) == stop' = [stop EXCEPT ![d] = to]

CallStop(d) ==
  /\ stop[d] = "idle"
  /\ StopGoes(d, "drain")
  /\ before' = [before EXCEPT ![d] = {c \in Starts : start[c] = "ok"}]
  /\ UNCHANGED <<start, sid, todo, active, routes, queued, listener, streams, connected, sent>>

\* Mutant of Drain: the list is copied and not emptied.
DrainCopies(d) ==
  /\ stop[d] = "drain"
  /\ StopGoes(d, "loop")
  /\ todo' = [todo EXCEPT ![d] = active]
  /\ UNCHANGED <<active, start, sid, before, routes, queued, listener, streams, connected, sent>>

\* Mutant of Drain: only the stream started first is stopped.
DrainFirst(d) ==
  /\ stop[d] = "drain"
  /\ StopGoes(d, "loop")
  /\ todo' = [todo EXCEPT ![d] = IF active = <<>> THEN <<>> ELSE <<Head(active)>>]
  /\ active' = IF active = <<>> THEN <<>> ELSE Tail(active)
  /\ UNCHANGED <<start, sid, before, routes, queued, listener, streams, connected, sent>>

Drain(d) ==
  /\ stop[d] = "drain"
  /\ StopGoes(d, "loop")
  /\ todo' = [todo EXCEPT ![d] = active]
  /\ active' = <<>>
  /\ UNCHANGED <<start, sid, before, routes, queued, listener, streams, connected, sent>>

\* Mutant of Unregister: the client is not told.
UnregisterNot(d) ==
  /\ stop[d] = "loop"
  /\ todo[d] # <<>>
  /\ StopGoes(d, "remove")
  /\ UNCHANGED <<routes, start, sid, todo, before, active, queued, listener, streams, connected, sent>>

\* unregister_dax_stream: the sender is dropped, which closes the channel.
Unregister(d) ==
  /\ stop[d] = "loop"
  /\ todo[d] # <<>>
  /\ StopGoes(d, "remove")
  /\ routes' = [i \in DOMAIN routes \ {Head(todo[d])} |-> routes[i]]
  /\ UNCHANGED <<start, sid, todo, before, active, queued, listener, streams, connected, sent>>

\* "stream remove": the result is ignored.
RemoveStream(d) ==
  /\ stop[d] = "remove"
  /\ StopGoes(d, "loop")
  /\ todo' = [todo EXCEPT ![d] = Tail(@)]
  /\ streams' = streams \ {Head(todo[d])} \/ UNCHANGED streams
  /\ UNCHANGED <<start, sid, before, active, routes, queued, listener, connected, sent>>

StopReturns(d) ==
  /\ stop[d] = "loop"
  /\ todo[d] = <<>>
  /\ StopGoes(d, "done")
  /\ UNCHANGED <<start, sid, todo, before, active, routes, queued, listener, streams, connected, sent>>

AbandonStop(d) ==
  /\ MayAbandon
  /\ stop[d] \in {"loop", "remove"}
  /\ StopGoes(d, "abandoned")
  /\ UNCHANGED <<start, sid, todo, before, active, routes, queued, listener, streams, connected, sent>>

-----------------------------------------------------------------------------
(* Packets, receivers and the end of the connection.                       *)

\* The buffers that a datagram has for the stream with an id: one, or none.
Buffers(data, i) ==
  LET p == parse_packet(data)
  IN IF ~p.ok \/ p.v.stream_type # "DaxAudio" \/ p.v.stream_id # i THEN <<>>
     ELSE LET samples == parse_dax_audio_payload(p.v.payload)
          IN IF samples.ok THEN <<samples.v>> ELSE <<>>

\* What the radio sends for a stream may be cut on the way, and there are meters
\* and IQ streams with ids of their own.
DatagramsOf(i) ==
  {Datagram("03E3", i, <<1, 2>>, 0), Datagram("03E3", i, <<1, 2>>, 3), Datagram("02E4", i, <<1, 2>>, 0)}

\* Mutant of Packet: a channel without a bound.
PacketUnbounded(i) ==
  /\ connected /\ i \in streams /\ sent < MaxPackets
  /\ sent' = sent + 1
  /\ queued' = IF i \in DOMAIN routes /\ listener[routes[i]] # "dropped"
               THEN [queued EXCEPT ![routes[i]] = @ + 1]
               ELSE queued
  /\ UNCHANGED <<opVars, active, routes, listener, streams, connected>>

\* process_vita49_packet: a packet nobody wants, or there is no room for, is dropped.
Packet(i) ==
  /\ connected /\ i \in streams /\ sent < MaxPackets
  /\ sent' = sent + 1
  /\ \E data \in DatagramsOf(i) :
       queued' = IF i \in DOMAIN routes /\ listener[routes[i]] # "dropped"
                    /\ queued[routes[i]] < Capacity
                 THEN [queued EXCEPT ![routes[i]] = @ + Len(Buffers(data, i))]
                 ELSE queued
  /\ UNCHANGED <<opVars, active, routes, listener, streams, connected>>

\* recv returns a buffer, or None when the channel is closed and empty.
Recv(c) ==
  /\ listener[c] = "open"
  /\ \/ queued[c] > 0 /\ queued' = [queued EXCEPT ![c] = @ - 1] /\ UNCHANGED listener
     \/ /\ queued[c] = 0 /\ c \notin Routed
        /\ listener' = [listener EXCEPT ![c] = "ended"] /\ UNCHANGED queued
  /\ UNCHANGED <<opVars, active, routes, streams, connected, sent>>

DropReceiver(c) ==
  /\ listener[c] = "open"
  /\ listener' = [listener EXCEPT ![c] = "dropped"]
  /\ queued' = [queued EXCEPT ![c] = 0]
  /\ UNCHANGED <<opVars, active, routes, streams, connected, sent>>

\* disconnect of the client; the radio forgets the streams of the connection.
Disconnect ==
  /\ connected
  /\ connected' = FALSE
  /\ streams' = {}
  /\ UNCHANGED <<opVars, active, routes, queued, listener, sent>>

-----------------------------------------------------------------------------
Start(c) == Create(c) \/ SetDax(c) \/ Register(c) \/ Track(c)
Stop(d)  == CallStop(d) \/ Drain(d) \/ Unregister(d) \/ RemoveStream(d) \/ StopReturns(d)

Next ==
  \/ \E c \in Starts : Start(c) \/ AbandonStart(c) \/ Recv(c) \/ DropReceiver(c)
  \/ \E d \in Stops : Stop(d) \/ AbandonStop(d)
  \/ \E i \in Ids : Packet(i)
  \/ Disconnect

Spec == Init /\ [][Next]_vars

\* Operations under way go on, since every command returns, and applications
\* read their receivers.
Fairness ==
  /\ \A c \in Starts : WF_vars(start[c] # "idle" /\ Start(c)) /\ WF_vars(Recv(c))
  /\ \A d \in Stops : WF_vars(stop[d] # "idle" /\ Stop(d))
FairSpec == Spec /\ Fairness

-----------------------------------------------------------------------------
(* Properties.                                                             *)

\* Types, and channels that do not outgrow their capacity however slow the
\* consumer is.
TypeOK ==
  /\ start \in [Starts -> StartStates] /\ sid \in [Starts -> Ids \cup {NoId}]
  /\ stop \in [Stops -> StopStates] /\ todo \in [Stops -> Seq(Ids)]
  /\ before \in [Stops -> SUBSET Starts]
  /\ active \in Seq(Ids)
  /\ DOMAIN routes \subseteq Ids /\ Routed \subseteq Starts
  /\ queued \in [Starts -> 0 .. Capacity]
  /\ listener \in [Starts -> {"none", "open", "ended", "dropped"}]
  /\ streams \subseteq Ids /\ connected \in BOOLEAN
  /\ sent \in 0 .. MaxPackets

\* A stream that the rig lists is routed: a stop that runs at the same time as a
\* start, on an id the radio gives out again, never unregisters the new stream.
ActiveRouted == \A i \in ToSet(active) : i \in DOMAIN routes

\* Every route is known to someone who will remove it: the list, a stop, or the
\* start that has just made it, unless a caller dropped one of the two operations.
Accounted ==
  \A i \in DOMAIN routes :
    \/ i \in ToSet(active)
    \/ \E d \in Stops : i \in ToSet(todo[d])
    \/ start[routes[i]] \in {"track", "abandoned"}

\* The list of the rig and the routing table of the client belong together, at
\* every step of concurrent starts and stops (start_rx_audio, stop_audio).
Routing == ActiveRouted /\ Accounted

\* When no stop is under way or was dropped, the receivers that were there when a
\* stop was called are closed.
StopCovers ==
  (\A d \in Stops : stop[d] \in {"idle", "done"}) =>
    \A d \in Stops : stop[d] = "done" => before[d] \cap Routed = {}

\* stop_audio says: "After this call, any outstanding AudioReceivers will return
\* None on the next recv()".
StopStops == \A d \in Stops : stop[d] = "done" => before[d] \cap Routed = {}

\* AudioReceiver says: "The stream ends when the sender side is dropped (e.g., when
\* stop_audio() is called or the rig disconnects)".
DisconnectEnds == \A c \in Starts : ~connected /\ listener[c] = "open" ~> listener[c] # "open"

\* start_rx_audio says: "The stream continues until stop_audio() is called or the
\* receiver is dropped": then a dropped receiver does not stay in the routing table.
DropEnds == \A c \in Starts : listener[c] = "dropped" ~> c \notin Routed
=============================================================================
