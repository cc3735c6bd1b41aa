------------------------------ MODULE UsbAudio ------------------------------
(***************************************************************************)
(* Audio of the transceivers that have a USB codec: AudioCapable of the    *)
(* four serial makes, CpalAudioBackend of riglib-transport/src/audio.rs,   *)
(* and the two handles of riglib-core/src/audio.rs.                        *)
(*                                                                         *)
(* The operating system calls back on a thread of its own.  A bounded      *)
(* channel leads to or from the application: the callback never waits, so  *)
(* it drops a buffer it cannot store and plays silence when it finds none, *)
(* while the application does wait.  The rig's methods hold the mutex of   *)
(* the backend and await nothing else, so each is one step.                *)
(***************************************************************************)
EXTENDS Integers, Sequences, FiniteSets, SequencesExt

CONSTANTS
  Starts,       \* start_rx_audio and start_tx_audio calls, each made once
  NoStart,      \* no stream
  Hosts,        \* what may be plugged in: sequences of devices, as enumerated
  NoName,       \* no audio device was given to the builder
  Heard,        \* what a capture may deliver: sequences of i16 samples
  Spoken,       \* what the application may send: sequences of f32 samples
  Wanted,       \* how many samples the device may ask for
  Capacity,     \* buffers in a channel (CHANNEL_BUFFER_SIZE, 32 in the code)
  MaxBuffers    \* bound: buffers captured for, or sent to, one stream

ASSUME UsbAudioAssumption ==
  /\ NoStart \notin Starts
  /\ Capacity \in Nat \ {0} /\ MaxBuffers \in Nat /\ Wanted \subseteq Nat
  /\ Heard \subseteq Seq(Int) /\ Spoken \subseteq Seq(Int)

VARIABLES
  host,      \* the devices that are plugged in
  name,      \* audio_device_name of the rig
  alive,     \* the application still has the rig
  backend,   \* audio_backend: none, or the streams it keeps alive
  way,       \* [Starts -> "input", "output"]
  user,      \* [Starts -> UserStates]: the caller, then the owner of the handle
  config,    \* [Starts -> AudioStreamConfig]: of the handle, once there is one
  queue,     \* [Starts -> Seq(buffers)]: the channel
  made,      \* [Starts -> Nat]: buffers captured, or sent with Ok
  taken,     \* [Starts -> Seq(Nat)]: the buffers that came out at the other end
  sizes,     \* [Starts -> Seq(Nat)]: how many samples each buffer was made with
  came,      \* [Starts -> Seq(Nat)]: how many came out, of each that was taken
  overrun,   \* starts whose channel was full at a capture, or whose device asked for
             \* less than a buffer held
  covered,   \* starts that a stop, or the drop of the rig, must have ended
  speaker    \* what the device was last given, and how much it wanted

chanVars == <<queue, made, taken, sizes, came, overrun>>
vars     == <<host, name, alive, backend, way, user, config, chanVars, covered, speaker>>

I16_MIN == -32768
I16_MAX == 32767

\* f32 samples are counted in units of 1 / (2 * I16_MAX).
i16_to_f32(sample) == 2 * sample
\* Mutant: scaled without clamping.
f32_to_i16_wraps(sample) == IF sample < 0 THEN -((-sample) \div 2) ELSE sample \div 2

f32_to_i16(sample) ==
  LET clamped == IF sample > 2 * I16_MAX THEN 2 * I16_MAX
                 ELSE IF sample < -2 * I16_MAX THEN -2 * I16_MAX ELSE sample
  IN IF clamped < 0 THEN -((-clamped) \div 2) ELSE clamped \div 2

AudioBuffer(nr, samples, like) ==
  [nr |-> nr, samples |-> samples, channels |-> like.channels, sample_rate |-> like.sample_rate]
AudioStreamConfig(device, format) ==
  [sample_rate |-> device.rate, channels |-> device.channels, sample_format |-> format]
\* What native_audio_config tells, whatever the device is.
usb_audio_config == [sample_rate |-> 48000, channels |-> 2, sample_format |-> "I16"]

NoStream == [input |-> NoStart, output |-> NoStart]
UserStates == {"idle", "unsupported", "failed", "ready", "waits", "ended", "dropped"}

-----------------------------------------------------------------------------
\* The host enumerates devices in an order of its own; a name need not be unique.
Of(h, direction) == SelectSeq(h, LAMBDA d : d[direction] # "none")

\* find_device: the first of that name.
Found(h, n, direction) == SelectSeq(Of(h, direction), LAMBDA d : d.name = n)
find_device(h, n, direction) == Head(Found(h, n, direction))

Names(direction) == {d.name : d \in ToSet(Of(host, direction))}
list_audio_devices ==
  {[name |-> n, is_input |-> n \in Names("input"), is_output |-> n \in Names("output")] :
     n \in Names("input") \cup Names("output")}

to_audio_sample_format(format) == IF format = "F32" THEN "F32" ELSE "I16"
native_config(n) ==
  LET direction == IF Found(host, n, "input") # <<>> THEN "input" ELSE "output"
      d == find_device(host, n, direction)
  IN AudioStreamConfig(d, to_audio_sample_format(d[direction]))

audio_supported == name # NoName

-----------------------------------------------------------------------------
Init ==
  /\ host \in Hosts
  /\ name \in {NoName} \cup {i.name : i \in {j \in list_audio_devices : j.is_input \/ j.is_output}}
  /\ alive = TRUE /\ backend = NoStream
  /\ way \in [Starts -> {"input", "output"}]
  /\ user = [c \in Starts |-> "idle"] /\ config = [c \in Starts |-> usb_audio_config]
  /\ queue = [c \in Starts |-> <<>>] /\ made = [c \in Starts |-> 0]
  /\ taken = [c \in Starts |-> <<>>] /\ sizes = [c \in Starts |-> <<>>]
  /\ came = [c \in Starts |-> <<>>] /\ overrun = {} /\ covered = {}
  /\ speaker = [want |-> 0, out |-> <<>>]

\* The stream is kept: its closure, and with it one end of the channel, lives.
Streams(c) == backend[way[c]] = c

\* The backend keeps other streams from now on; the closure of an output takes
\* what it had not played with it.
Keep(streams) ==
  /\ backend' = streams
  /\ queue' = [c \in Starts |-> IF way[c] = "output" /\ streams.output # c THEN <<>>
                                ELSE queue[c]]

Refuse(c, how) ==
  /\ user' = [user EXCEPT ![c] = how]
  /\ UNCHANGED <<host, name, alive, backend, way, config, chanVars, covered, speaker>>

\* start_rx_audio and start_tx_audio.  The wanted configuration is ignored; a
\* stream of the same direction is dropped when the new one plays.
StartRefused(c) ==
  /\ user[c] = "idle" /\ alive
  /\ \/ ~audio_supported /\ Refuse(c, "unsupported")
     \/ audio_supported /\ Refuse(c, "failed")     \* not found, or the host fails

Start(c) ==
  /\ user[c] = "idle" /\ alive /\ audio_supported
  /\ Found(host, name, way[c]) # <<>>
  /\ LET d == find_device(host, name, way[c])
     IN /\ d[way[c]] \in {"I16", "F32"}
        /\ config' = [config EXCEPT ![c] = AudioStreamConfig(d, "F32")]
  /\ Keep([backend EXCEPT ![way[c]] = c])
  /\ user' = [user EXCEPT ![c] = "ready"]
  /\ UNCHANGED <<host, name, alive, way, made, taken, sizes, came, overrun, covered, speaker>>

\* Everything the application holds a handle of.
Open == {c \in Starts : user[c] \in {"ready", "waits"}}

\* Mutant: only the input stream is dropped.
stop_audio_input ==
  /\ alive /\ Open # {}
  /\ Keep([backend EXCEPT !.input = NoStart])
  /\ covered' = covered \cup Open
  /\ UNCHANGED <<host, name, alive, way, user, config, made, taken, sizes, came, overrun, speaker>>

stop_audio ==
  /\ alive /\ Open # {}
  /\ Keep(NoStream)
  /\ covered' = covered \cup Open
  /\ UNCHANGED <<host, name, alive, way, user, config, made, taken, sizes, came, overrun, speaker>>

DropRig ==
  /\ alive
  /\ alive' = FALSE /\ Keep(NoStream)
  /\ covered' = covered \cup Open
  /\ UNCHANGED <<host, name, way, user, config, made, taken, sizes, came, overrun, speaker>>

\* The codec disappears; the error callback only logs, and the stream stays.
Unplug ==
  /\ host # <<>>
  /\ host' = <<>>
  /\ UNCHANGED <<name, alive, backend, way, user, config, chanVars, covered, speaker>>

-----------------------------------------------------------------------------
\* The input callback: try_send, whose error is ignored.
Capture(c, data) ==
  /\ way[c] = "input" /\ Streams(c) /\ host # <<>>
  /\ made[c] < MaxBuffers
  /\ made' = [made EXCEPT ![c] = @ + 1]
  /\ LET buffer == AudioBuffer(made'[c],
                     [i \in DOMAIN data |->
                        IF find_device(host, name, "input").input = "I16" THEN i16_to_f32(data[i])
                        ELSE 2 * data[i]], config[c])
         room == Len(queue[c]) < Capacity /\ user[c] # "dropped"
     IN /\ queue' = IF room THEN [queue EXCEPT ![c] = Append(@, buffer)] ELSE queue
        /\ sizes' = [sizes EXCEPT ![c] = Append(@, Len(buffer.samples))]
  /\ overrun' = IF Len(queue[c]) = Capacity THEN overrun \cup {c} ELSE overrun
  /\ UNCHANGED <<host, name, alive, backend, way, user, config, taken, came, covered, speaker>>

\* The output callback: try_recv; what is longer than the request is cut off,
\* what is shorter is filled with silence.
Filled(buffer, want, format) ==
  [i \in 1..want |->
     IF i > Len(buffer.samples) THEN 0
     ELSE IF format = "I16" THEN i16_to_f32(f32_to_i16(buffer.samples[i])) ELSE buffer.samples[i]]

\* The first buffer comes out, with so many of its samples.
Take(c, size) ==
  /\ queue[c] # <<>>
  /\ queue' = [queue EXCEPT ![c] = Tail(@)]
  /\ taken' = [taken EXCEPT ![c] = Append(@, Head(queue[c]).nr)]
  /\ came' = [came EXCEPT ![c] = Append(@, size)]

Play(c, want) ==
  /\ way[c] = "output" /\ Streams(c) /\ host # <<>>
  /\ LET format == find_device(host, name, "output").output
         held == Len(Head(queue[c]).samples)
     IN \/ /\ queue[c] = <<>>
           /\ speaker' = [want |-> want, out |-> [i \in 1..want |-> 0]]
           /\ UNCHANGED <<queue, taken, came, overrun>>
        \/ /\ Take(c, IF held <= want THEN held ELSE want)
           /\ speaker' = [want |-> want, out |-> Filled(Head(queue[c]), want, format)]
           /\ overrun' = IF held <= want THEN overrun ELSE overrun \cup {c}
  /\ UNCHANGED <<host, name, alive, backend, way, user, config, made, sizes, covered>>

\* AudioReceiver::recv: what is buffered first, then None when the sender is gone.
Recv(c) ==
  /\ way[c] = "input" /\ user[c] = "waits"
  /\ \/ /\ Take(c, Len(Head(queue[c]).samples))
        /\ user' = [user EXCEPT ![c] = "ready"]
     \/ /\ queue[c] = <<>> /\ ~Streams(c)
        /\ user' = [user EXCEPT ![c] = "ended"]
        /\ UNCHANGED <<queue, taken, came>>
  /\ UNCHANGED <<host, name, alive, backend, way, config, made, sizes, overrun, covered, speaker>>

\* Mutant: try_send, whose error is ignored as in the input callback.
SendNow(c, samples) ==
  /\ way[c] = "output" /\ user[c] = "waits"
  /\ made' = [made EXCEPT ![c] = @ + 1]
  /\ queue' = IF Streams(c) /\ Len(queue[c]) < Capacity
              THEN [queue EXCEPT ![c] = Append(@, AudioBuffer(made'[c], samples, config[c]))]
              ELSE queue
  /\ sizes' = [sizes EXCEPT ![c] = Append(@, Len(samples))]
  /\ user' = [user EXCEPT ![c] = IF Streams(c) THEN "ready" ELSE "ended"]
  /\ UNCHANGED <<host, name, alive, backend, way, config, taken, came, overrun, covered, speaker>>

\* AudioSender::send: waits for room, StreamClosed when the stream is gone.
Send(c, samples) ==
  /\ way[c] = "output" /\ user[c] = "waits"
  /\ \/ /\ Streams(c) /\ Len(queue[c]) < Capacity
        /\ made' = [made EXCEPT ![c] = @ + 1]
        /\ queue' = [queue EXCEPT ![c] =
                       Append(@, AudioBuffer(made'[c], samples, config[c]))]
        /\ sizes' = [sizes EXCEPT ![c] = Append(@, Len(samples))]
        /\ user' = [user EXCEPT ![c] = "ready"]
     \/ /\ ~Streams(c)
        /\ user' = [user EXCEPT ![c] = "ended"]
        /\ UNCHANGED <<made, sizes, queue>>
  /\ UNCHANGED <<host, name, alive, backend, way, config, taken, came, overrun, covered, speaker>>

\* The application calls recv or send.
Use(c) ==
  /\ user[c] = "ready"
  /\ way[c] = "output" => made[c] < MaxBuffers \/ ~Streams(c)
  /\ user' = [user EXCEPT ![c] = "waits"]
  /\ UNCHANGED <<host, name, alive, backend, way, config, chanVars, covered, speaker>>

DropHandle(c) ==
  /\ user[c] \in {"ready", "waits"}
  /\ user' = [user EXCEPT ![c] = "dropped"]
  /\ queue' = IF way[c] = "input" THEN [queue EXCEPT ![c] = <<>>] ELSE queue
  /\ UNCHANGED <<host, name, alive, backend, way, config, made, taken, sizes, came, overrun, covered, speaker>>

Next ==
  \/ stop_audio \/ DropRig \/ Unplug
  \/ \E c \in Starts :
       \/ StartRefused(c) \/ Start(c) \/ Use(c) \/ Recv(c) \/ DropHandle(c)
       \/ \E data \in Heard : Capture(c, data)
       \/ \E samples \in Spoken : Send(c, samples)
       \/ \E want \in Wanted : Play(c, want)

\* The device keeps calling back while it is there, and an application that
\* holds a handle uses it; nobody has to stop anything.
Fairness ==
  \A c \in Starts :
    /\ WF_vars(Use(c)) /\ WF_vars(Recv(c))
    /\ WF_vars(\E samples \in Spoken : Send(c, samples))
    /\ WF_vars(\E want \in Wanted : Play(c, want))

Spec == Init /\ [][Next]_vars /\ Fairness

-----------------------------------------------------------------------------
\* The variables have their types; no channel holds more than its capacity,
\* the device gets as many samples as it asked for, and what an i16 device
\* gets is in its range whatever the application sent.
TypeOK ==
  /\ name = NoName => \A c \in Starts : user[c] \in {"idle", "unsupported"}
  /\ backend.input \in Starts => way[backend.input] = "input"
  /\ backend.output \in Starts => way[backend.output] = "output"
  /\ user \in [Starts -> UserStates]
  /\ \A c \in Starts : /\ Len(queue[c]) <= Capacity
                       /\ made[c] \in 0..MaxBuffers
  /\ Len(speaker.out) = speaker.want
  /\ (host # <<>> /\ name # NoName /\ Found(host, name, "output") # <<>>
        /\ find_device(host, name, "output").output = "I16") =>
       \A i \in DOMAIN speaker.out : speaker.out[i] \in -2 * I16_MAX .. 2 * I16_MAX

Numbers(c) == taken[c] \o [i \in DOMAIN queue[c] |-> queue[c][i].nr]
Rising(s)  == \A i \in 1..Len(s) - 1 : s[i] < s[i + 1]

\* What goes through a handle keeps its order and comes out at most once.  A
\* capture is lost only after the application let the channel fill up.  While its
\* stream is kept, a buffer whose send returned Ok is played or waits to be, and
\* all samples of it, unless the device asked for less than some buffer held: the
\* callback then drops the tail, which no later request gets.  Each buffer has the
\* format that the handle announced, which is that of the device, in f32.  (The
\* callbacks and the handles.)
InOrder ==
  \A c \in Starts :
    /\ Rising(Numbers(c))
    /\ way[c] = "input" /\ c \notin overrun /\ user[c] # "dropped" => Len(Numbers(c)) = made[c]
    /\ way[c] = "output" /\ Streams(c) => Len(Numbers(c)) = made[c]
    /\ c \notin overrun => came[c] = [i \in DOMAIN taken[c] |-> sizes[c][taken[c][i]]]
    /\ way[c] = "input" /\ Streams(c) /\ host # <<>> =>
         config[c] = [native_config(name) EXCEPT !.sample_format = "F32"]
    /\ \A i \in DOMAIN queue[c] :
         /\ queue[c][i].channels = config[c].channels
         /\ queue[c][i].sample_rate = config[c].sample_rate

\* A handle that a stop, the drop of the rig or a newer stream of the same
\* direction has cut off tells its owner so, and a send or recv that waits
\* then returns; a send returns also without that, unless the codec is gone.
StopEnds ==
  \A c \in Starts :
    /\ (c \in covered \/ (user[c] = "ready" /\ ~Streams(c))) ~> user[c] \in {"ended", "dropped"}
    /\ (way[c] = "output" /\ user[c] = "waits") ~> (user[c] # "waits" \/ host = <<>>)
=============================================================================
