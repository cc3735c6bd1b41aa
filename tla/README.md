# riglib in TLA+

riglib is a Rust library that controls amateur radio transceivers: Icom over
CI-V, Kenwood, Elecraft and Yaesu over text protocols on a serial line or TCP,
and FlexRadio over the SmartSDR network protocol.  This directory models it, from
the bytes on the line to the operations an application calls, checks the models
with TLC on small instances and proves the most important facts with TLAPS.
Paths are relative to `src/`.

## The system

| Component | State it keeps | Operations | Module |
|---|---|---|---|
| Transports (`crates/riglib-transport/src/{serial,tcp}.rs`) | an optional stream, control lines | open, `send`, `receive`, `close`, `set_dtr`, `set_rts` | `Wire` |
| Text framing (`riglib-text-io/src/protocol.rs` and a copy in each make's `protocol.rs`), CI-V framing (`riglib-icom/src/civ.rs`) | none | `decode_response`, `extract_command_prefix`, `decode_frame`, `find_preamble`, encoders | `Framing`, `Wire` |
| Text IO task (`riglib-text-io/src/io.rs`) | the transport, two bounded request channels, a cancellation token, read buffers | `RigIo::command`, `set_command`, `rt_command`, `rt_set_command`, `set_line`, `rt_set_line`, `shutdown`; the loop `io_loop` | `TextIo` |
| CI-V IO task (`riglib-icom/src/io.rs`) | the same | `command`, `ack_command`, `rt_*`, `set_line`, `shutdown`; echo, collision, broadcasts | `CivIo` |
| Kenwood, Elecraft, Yaesu, Icom rigs (`rig.rs`, `commands.rs`, `models.rs`, `builder.rs` of each, Icom's `transceive.rs`, `filter.rs`) | configuration; the state is the radio's | the `Rig` trait: frequency, mode, passband, split, VFOs, RIT/XIT, CW, PTT, power, meters, AGC, preamp, attenuator, antenna | `*Commands`, `*Models`, `*Rig`, `Rigs` |
| SmartSDR client (`riglib-flex/src/client.rs`) | `connected`, sequence counter, pending commands, DAX routes, background tasks, caches | connect and handshake, `send_command`, `disconnect`, `tcp_read_loop`, `process_status`, `process_vita49_packet` | `FlexClient`, `FlexState`, `FlexAudio` |
| SmartSDR codec (`codec.rs`, `mode.rs`, `vita49.rs`, `discovery.rs`) | none | command builders, line and datagram parsers, discovery | `FlexCodec` |
| Flex rig and DAX audio (`rig.rs`, `dax.rs`, `builder.rs`, `models.rs`) | the list of audio streams | the same trait on slices; `start_rx_audio`, `stop_audio` | `FlexRig`, `FlexSlices`, `FlexAudio` |
| USB audio (`riglib-transport/src/audio.rs`, `riglib-core/src/audio.rs`) | two cpal streams, channels of 32 buffers | `start_input`, `start_output`, `stop`, the callbacks, the handles | `UsbAudio` |
| Core (`riglib-core`) | none | the `Rig` trait and its defaults, types, events | `Cat`, `Rigs` |
| Facade, examples, test harness, test application | - | - | not modelled |

How they interact.  A rig struct holds the handle of a task that owns the
connection.  Rig methods run concurrently in the application's tasks (they take
`&self`), send requests to the task and await a oneshot reply; the task also
publishes events on a broadcast channel.  Nothing serialises operations of
several requests: two callers' requests interleave.  A FlexRadio's getters
do not ask the radio, they read a cache that a background task fills.

What is hard here:

 * an answer, a late answer to an earlier attempt, and an unsolicited frame are
   told apart by their prefix only, in CI-V not even by that;
 * frames torn between two buffers, lost and garbled bytes, and finding the next frame;
 * timeouts on three levels: the read, the retry loop, the caller's own timer, the
   first of which starts anew with every chunk that comes;
 * the ways a task ends - shutdown, drop, cancellation, dead transport - while
   requests are queued or callers wait for a slot;
 * operations of several exchanges (receiver selection on an Icom, RIT by steps,
   CW by chunks, SETs that are read back) that interleave or fail half-way;
 * caches that lag behind the radio, and status lines that overtake responses;
 * the SmartSDR client, where background loops, `disconnect` and any number of
   calls share flags and maps under separate locks;
 * an audio thread that may not wait, against an application that does.

`PROJECT.json` lists the hazards with the line where each bites and the
properties that would show it going wrong, or why there is none.

## How the modules fit together

    Framing <- Wire                    bytes, buffers, ports
    RigLink <= TextIo, CivIo           requests, retries, late answers  (refinement)
    Cat <- *Commands, *Models <- *Rig <- Rigs    operations as scripts of exchanges
                 TextRadio, CivRadio <- Rigs     the transceivers
    RemoteCall <= FlexClient           handshake, commands, disconnect  (refinement)
    FlexState                          the cache, the meters and the events
    FlexCodec <- FlexRig <- FlexSlices a FlexRadio at work
    FlexCodec <- FlexAudio             DAX streams
    UsbAudio                           USB codec
    X <- XProofs                       the theorems about X

The layers meet in promises.  `TextIo` and `CivIo` are shown to be the serial
server `RigLink`: each request is executed at most once or, if its answer is not
in by the deadline, perhaps; one at a time.  `Rigs` takes exactly that for an
exchange.  `Wire` shows how many frames a tear or a damaged byte can cost; `TextIo`
and `CivIo` take whole frames, and lose some.  `FlexClient` is a `RemoteCall`, which is what
`FlexSlices` and `FlexAudio` take a command for.  Each `MC` module instantiates the
module it is named for.

### Framing and Wire - the line

`Framing` has the decoders as operators on sequences of bytes: the shared text
decoder, the copies in the crates of the three makes, `extract_command_prefix`,
and the CI-V scanner with collision bytes.  `Wire` runs them on a port: `Receives`,
`TimesOut`, `ConnectionLost`, `open_with_config`, `SetLine`, `Close` are the
transports; `IdleRead`, `IdleFrame` the idle arm of the loops; `Begin`,
`ExchangeRead`, `ExchangeFrame`, `ExchangeEnds` an exchange with its own buffer.
Each byte carries, as history, the frame it was sent in and its place there.

Instance (`wire`): the line of each make, a text frame of three bytes or a CI-V
frame of six, one or two unsolicited frames, one exchange (a query, a set or a
control line) and one damage: a byte is lost (`Lose`), or garbled (`Garble`) into a
terminator, a byte that is no UTF-8, a letter or a digit, on the CI-V bus into a
terminator or a preamble byte, or the echo of a command is garbled by a collision.
Each make has two such bytes (`Noise`), so that every kind is met.  Reads return any
part of what has come.  One exchange gives two
tears (one where it begins, one where it ends), and the frame behind each shows
whether the decoder found its way.  The makes get different ports: a serial
port whose dead line reads as an error, TCP, a serial port that reports the end
as no bytes, and a serial port whose control line stays as the system set it.
`Spec` asks only that a task whose line is dead is scheduled.

 * `TypeOK`: no control line is asserted that nobody asked for, unless it is stuck;
 * `Resync`: a tear, a lost and a garbled byte spoil two frames each at most; on a line
   without damage answers are never made of a torn frame; each make's copy decodes
   every buffer met as the shared one;
 * `LossTold`: a line that goes down ends the task, and `Disconnected` is published,
   unless the task was asked to end.

### RigLink, TextIo - the text IO task

`RigLink` is one handle and its task as a server: calls are served one at a time,
each at most once; each gets one verdict that never changes; a call that is told
"not connected" was never served.

| `TextIo` | Code |
|---|---|
| `Call`, `Enqueue`, `Refused`, `CallerTimeout`, `Abandon` | the methods of `RigIo`: make the request, await a slot, await the reply with the safety timer, or have the future dropped |
| `DropHandle`, `Cancel` | dropping the rig; the public cancellation token |
| `SeeCancel`, `TakeRt`, `SeeClosed`, `RtEmpty`, `TakeBg`, `BgEmpty`, `IdleRead`, `IdleError` | the arms of the biased `select!`, one poll after the other: callers go on in between |
| `Wake` | an arm is ready, or the idle read is over, and `select!` polls again |
| `Send`, `RecvAnswer`, `RecvOther`, `RecvTimeout`, `TransportError` | `execute_cat_command` |
| `Send`, `DrainError`, `DrainOther`, `DrainEnd`, `TransportError` | `execute_set_command` |
| `SetLine`, `Shutdown`, `Exit` | `handle_request`, the `Shutdown` arms, the end of the task |
| `stage`, `tries`, `since`, `answer`, `grace` | history: where each request is, how often the task acted for it, what decided its result, how many background requests may still pass it |
| `toRig`, `fromRig`, `line`, `radio`, `aiOn`, `Radio*`, `TurnDial`, `Repeats`, `LineFails` | the transport and the radio, modelled from how `io.rs` uses them |

A frame is its prefix, the version of the radio's state that it reports and the
request that caused it.

| Run | Question | Instance |
|---|---|---|
| `text_io_prompt` | `AnswersRight`: an answer belongs to its request and is no older than the call | 2 calls (queries of two prefixes, SETs on both channels), a prompt but lossy rig, 2 retries, AI off |
| `text_io_late` | `TypeOK`, `Accounted`, `ShutdownQuiets`, `RtFirst`, `ImplementsLink` | 2 calls of all kinds in channels of one slot, late answers, lossy line, AI on, 1 retry |
| `text_io_live` | `NobodyHangs`: every call returns, the task ends when it should, as long as AI frames pause some time | 2 calls of all kinds, late and lossy, AI on with a radio that repeats AI frames |

Two calls are enough for what happens between requests - a late answer meets
the next query, a request waits while another runs - because the task executes one
at a time and remembers nothing of those before the last; with one slot the second
call waits for a place.  `AnswersRight` needs a prompt rig and AI off: with late
answers or AI frames matching by prefix gives no more, and `NoAiFrameAnswers`
says what fails.  `RtFirst`: a real-time request that is in its channel when the task
polls it is passed by no background request, and one that comes between the polls of
the two channels by one.  `ShutdownQuiets` is about the shutdown request on a line that
is up, and not about the other ways the task ends.  A radio repeats one AI frame at a
time (`Repeats`), for as long as it likes: `NobodyHangs` needs `Pauses`, for while such
frames keep coming a query keeps reading (see below).  Fairness (`FairSpec`): the spawned task runs when it can, a caller
that finds a slot or a closed channel goes on, a radio looks at what it received:
what a tokio runtime and expiring timers give.  Nothing is assumed of callers'
timers, the line or the operator.

### CivIo - the CI-V IO task

The same interface on a bus of one wire: the controller reads its echo, a collision
garbles it and the command is sent again, the first frame addressed to the
controller is taken for the answer, and broadcasts are events.  `transceive.rs` has
rigs that address their transceive frames to the controller instead of to all
(`direct`): such a frame is an event while the task is idle, and the answer to
whatever command it meets.  Run `civ_io`: every pair of kinds of calls in channels of
one slot, a rig without fault (`Orderly`) or one that is late and direct (`Habits`),
two mishaps (lost, garbled, a turn of the operator) and one retry: `AnswersTrue` (with
an orderly rig a command succeeds or is rejected by its own answer, and what was
acknowledged was obeyed; with any rig nothing is written more often than the retries
allow, and a call told "not connected" has written nothing), `ImplementsLink`,
`NobodyHangs`.  Two mishaps let an echo be garbled and the next answer be lost.  They
also bound what the rig says unasked: here, too, a rig that never pauses would keep a
command reading.  Fairness as in
`TextIo`.

### The serial rigs

`KenwoodCommands`, `ElecraftCommands`, `YaesuCommands`, `IcomCommands` are the
command builders and response parsers; a text body is a list of fields with their
widths (`Cat`, which also has the types of `riglib-core`), a CI-V body a list of
bytes with BCD numbers: what
differs between what a setter writes and a getter reads is kept, the characters
are not.  Functions of one form are one operator that takes what tells them apart
from a table: `cmd_read("power")` is `cmd_read_power()`.  `*Models` are the model
definitions and the builders, whose setters are one operator, `set`.  `*Rig` has one operator per operation of the trait: from the answers
received so far it says which exchanges follow, what is returned and
which events are published.  `TextRadio` and `CivRadio` are transceivers as the
commands use them: registers that keep what was written, those of the receivers for
each of the two.  A command that names no receiver acts on the first one, or on the
one that an Icom has selected; an Icom has one antenna switch for both.

`Rigs` runs the operations: `Call`, `Exchanged`, `Lost` (an exchange whose answer
is lost, with or without its effect), `Returns`, `KeyerSends`, `Turn` (the operator).

Run `rigs`: every model of the four makes, made by its builder, alone with each
call in `AllCalls` and one lost exchange; a model of each kind (`Prepared`) with a
second task that calls one of `Preparations` before, after or in between, which is
where one call changes what the next one meets: AGC off and the modes with filters of
their own on an Icom, an offset and split on the others; and a model of each kind
(`Shared`) with two tasks and an operator.  A rig struct keeps nothing between calls,
so what a call can do to a later one it does through the radio: the two
calls are two tasks' in the model, one after the other among their interleavings.
`MAX_BUFFER_RETRIES` is 2 (50 in the code) with a keyer that holds one chunk, so that it is
full, empty, and given up.

What is true of the radio is not read with the getter's own choice of receiver: the
radio is shown with the receiver that the call names (`Facing`), and the getter's codec
reads that (`Peek`).  Where the rig has no way to ask for it (`Heeded` lists where it
has one) the first receiver is meant: the properties say so, and `ReceiverHeeded`, that
there were no such case, is among the disagreements below.

 * `Honest`: what a getter returns the receiver it reaches has held during the call;
   of getters that take several exchanges, all of an Icom's included, only when nobody
   came in between;
 * `SetHolds`: what a setter sets is what the getter reads, as closely as the radio
   can hold it, whatever is lost and whoever else is at work in Verify mode, and
   otherwise if nothing was lost and nobody came in between; but for what `NotHeld`
   lists: CW filters above 3600 Hz on an Icom, and an AGC mode that was switched off;
 * `NothingElseChanges`: an operation changes what it is about on the receiver it
   reaches, and nothing when it is refused for its argument, and does what the
   capabilities offer, but for what `Broken` lists with the lines;
 * `CwWhole`: a CW message reported sent is in the keyer whole and in order, but for
   the pieces that an Icom has cut inside a character;
 * `EventsTrue`: an event of an operation tells what the receiver it reaches held
   during it (but for `NotHeld`), and an event of the panel what was turned, but for
   three things it makes up: the offset 0 for a RIT or XIT switch, RIT on for an offset,
   and VFO A for the selected VFO of an Icom;
 * `OnlyPttTransmits`: nothing but `set_ptt(true)` switches the transmitter on.

Run `icom_active_vfo` expects a violation: see below.

### RemoteCall and FlexClient - the SmartSDR client

`RemoteCall` is what a client of a remote radio promises: each call gets one
verdict; a verdict of the radio is given only for a command it has executed; a
call told "not connected" is never executed.

| `FlexClient` | Code |
|---|---|
| `Connect`, `ReadVersion`, `ReadHandle`, `NotGreeted`, `Subscribe`, `Open` | `connect_with_options`, `from_streams`, `read_handshake_line` |
| `Check`, `Number`, `Register`, `Lock`, `Write`, `Receive`, `Expire`, `Unregister` | the steps of `send_command`, from one lock or await to the next |
| `Abandon` | its future is dropped at an await point, the entry stays in the map |
| `ReadLine`, `ReadEnd`, `ReadAnnounce`, `ReadClear`, `ReadAborted` | `tcp_read_loop`; `ReadLine` reads a line and delivers it, two awaits in one step |
| `DCheck`, `DStore`, `DWriter`, `DAbort`, `DClear`, `DState` | `disconnect` |
| `pending`, `mailbox` | the map of oneshot senders, the channels themselves |

`ReadLine` takes the stream and the map's lock together.  Between the two awaits the
line is in a local variable of the loop that nobody else sees; what others do then
(insert, remove, expire, write) could as well be done before the line is read, and an
abort there loses the line as an abort before it does.

Run `flex_client`: five greetings (good, in the other order, partial, malformed,
another service), then two commands and a `disconnect` on a stream that takes
three lines and may end or break at any point.  Calls meet pairwise, in the
counter, the map and the writer's lock.  `PendingAgrees`, `EndIsKnown`,
`ImplementsRemote`, `NobodyHangs`.  Fairness: a task that can go on does, timers
elapse, the read loop sees what the stream has for it, and its abort takes
effect; nothing is assumed of the radio or the network.

### FlexCodec, FlexRig, FlexSlices - a FlexRadio at work

`FlexCodec` is the command builders, the parsers of lines and datagrams, the
discovery, the builder and the models.  `FlexRig`
has one operator per operation, as in the serial rigs, whose steps are snapshots of
the cache, meter values, commands and the pause of 100 ms.  `FlexSlices` puts
them between the radio and the cache: responses and status lines come in one
stream, either first; the read loop takes one line after another; other clients
change the radio.

Run `flex_slices`: three ways to a rig (streams connected by the application,
found by discovery among other traffic, an unknown model), none, one or two
slices, every operation alone with one mishap (a lost response, a pause that was too
short), and some of them against a second task and the operator: `TypeOK`,
`Honest`, `SetHolds`, `NothingElseChanges`.  Each slice has an S-meter of its own on the
radio, and the client one meter of that name, so `Honest` says of `get_s_meter` only
that it has read the S-meter of some slice (`MeterOfItsSlice`, below, is more).  Two slices are what split and the
two receivers need; a third would be like the second.

### FlexAudio - DAX audio streams

A stream is known in three places: the radio sends its packets (`streams`), the
client routes them by id (`routes`), the rig lists it (`active`).  `Create`,
`SetDax`, `Register`, `Track` are `start_rx_audio`; `CallStop`, `Drain`,
`Unregister`, `RemoveStream`, `StopReturns` are `stop_audio`; `Packet` is the DAX
half of `process_vita49_packet` with the datagrams of `FlexCodec`.

Run `flex_audio`: two starts and two stops on two ids, any dropped half-way.  The
radio may give a removed id to the second start while the first stop runs,
which is what the order of `unregister` and `stream remove` is about.  A channel of
one buffer is full after one packet; the code's 64 differ only in how many it
takes.  `Routing`: list and routing table stay in step; `StopCovers`: a stop
closes what was there when it was called.

### FlexState - the cache and its events

`MeterMap` is two maps in a record; `ReadSlice`, `ReadTx`, `ReadMeter` are `process_status`; `ReceivePacket` is the
meter half of `process_vita49_packet`, with packets as a set (late, out of
order or never).  `view` is what an application knows from events alone.

Run `flex_state`: 2 slices, 9 kinds of changes with known and unknown modes, 2 meter
ids and names, 4 changes: enough for a slice to come, change in two fields and go,
and for two meters to swap a name.  `MetersInverse`, `EventsTell`, `Mirrors`.
The event channel is taken to lose nothing: an application that falls behind is told
so by tokio.

### UsbAudio - audio over a USB codec

`start_rx_audio`, `start_tx_audio`, `stop_audio` of the four makes with
`CpalAudioBackend`: finding the device by name, its native format, the callbacks
(`Capture`, `Play`), which never wait, and the handles (`Send`, `Recv`), which do.

Run `usb_audio`: three hosts (the usual codec; f32 behind another device; two codecs
of one name in formats nobody converts), two starts, two buffers each through a
channel of one, samples at and beyond the range of i16.  `InOrder`: what goes
through a handle keeps its order and comes out once; a capture is lost only where the
application let the channel overflow, a buffer that was sent only with its stream, and
the tail of a buffer only where the device asked for less than some buffer held (it
asks for 1 to 3 samples, and buffers hold 2); `StopEnds`: whoever waits when its stream
is stopped, dropped or replaced is told.  Fairness: the device calls back while it is there,
and an application uses its handles; nobody has to stop anything.

## Proofs

TLC checks an instance; the theorems below hold for every set of calls, requests, streams
or slices, every capacity and number of retries, and every behaviour of line and radio that
the modules allow, under the assumptions named in the modules.  Each proof is one inductive
invariant with a step per action, and the theorems follow from it.

| Module | Theorems |
|---|---|
| `TextIoProofs` | `TypeCorrect` (`TypeOK`); `RequestsInOnePlace`, `BookkeepingAgrees`, `SendsAreLimited`, `NotConnectedIsUnsent`, together `RequestsAccounted` (`Accounted`); `RealTimeFirst` (`RtFirst`); `ShutdownLeavesQuiet` (`ShutdownQuiets`); `PromptAnswersAreRight` (`AnswersRight`); `Refinement` (`ImplementsLink`) |
| `CivIoProofs` | `TypeCorrect`; `AnswersAreTrue` (`AnswersTrue`); `Refinement` (`ImplementsLink`) |
| `FlexClientProofs` | `TypeCorrect`; `PendingIsRight` (`PendingAgrees`); `EndIsToldOf` (`EndIsKnown`); `Refinement` (`ImplementsRemote`) |
| `FlexAudioProofs` | `TypeCorrect`; `RoutingHolds` (`Routing`); `StopIsComplete` (`StopCovers`) |
| `FlexStateProofs` | `TypeCorrect`; `MapsStayInverse` (`MetersInverse`); `EventsTellTheCache` (`EventsTell`); `CacheMirrors` (`Mirrors`) |
| `UsbAudioProofs` | `TypeCorrect`; `OrderKept` (`InOrder`) |
| `WireProofs` | `Inductive` (`IInv`); `TypeCorrect` (`TypeOK`); `Resyncs` (`Resync`) |
| `RigsProofs` | `OnlyPttTransmitsHolds` (`OnlyPttTransmits`) |

**TextIoProofs.**  `IInv` is the types; `Placed` (a request is once in its channel, or it is
the one being executed); `NoneLost` (a queued request is in a channel); and `Bookkeeping`,
which ties the state of the caller, the stage of its request and the number of times the
task acted to the place in the code.  `SentAtMost` is not inductive by itself: that a
retried SET cannot happen follows from `tries = attempt` at `send` and `attempt = 0` for a
SET, which `TaskAgrees` says.  `RtFirst` says that no real-time request is passed more often
than its `grace` allows, which is once if it came between the polls of the two channels and
otherwise never; inductive with it is `Overtaking`, that at the second poll each one queued
has come in between, which needs `NoneLost`: one queued before would have been in its
channel, and `RtEmpty` not enabled.  `ShutdownQuiets` needs two facts
more: a shutdown that has succeeded has ended the loop (`ShutdownEnds`), and from then on AI
is off, or the command that switches it off is the last on its way to the radio
(`Quieted`).  `AnswersRight` is proved for a rig that is not late and has AI off
(`ASSUME ~LateAnswers, ~AiEnabled`, the instance of `text_io_prompt`; the other instances
violate it): then there is never more on the line than one command of the
current request, or one answer to it which is no older than the call (`Outstanding`), so
an answer found by its prefix cannot be another's.  The refinement maps `stage` to the
phase of a call and needs `Bookkeeping` to see that whoever waits when the task ends was
never served.  Assumptions: requests are a finite set, the shutdown request travels on
the background channel, numbers are natural.

**CivIoProofs.**  In CI-V no frame says what it answers.  So the heart of `IInv` is `InTime`
(`Clean`): with an orderly rig, one that is not late and addresses what it says unasked to
all, the bus holds at most one frame that could be taken
for an answer, that of the command being executed, and only while the task reads; between
two commands there is none.  `Obeying` counts that the rig obeys what was written,
once, and acknowledges only what it has obeyed; `Attempts` ties what was written to the
loop variable, `Bounded` the rig's changes to the mishaps.  `Truth`, the callers' half of
`AnswersTrue`, follows from these at each verdict (`DecidedBy`).  With a direct rig a
transceive frame may decide a command, and only the other half holds, on how often a
command is written.  The task's steps are grouped by what
they mean for a request (`Ends`, `Again`, `Stops`), which is also what the refinement
uses.  Assumptions: `NoOne` is no request, the capacity is positive.

**FlexClientProofs.**  A sequence number names one call for ever (`Numbers`).  So the map has a
caller under its own number only (`PendingHonest`), a response finds the sender of the
call whose command the radio has executed (`LinesHonest`, `MailHonest`), and a command that
was not written is not executed.  `PendingAgrees` (`PendingHonest`, `NoAnswerLost`) rests on
these; `EndIsKnown` on `EndTold`, which says at each place of the read loop and of a
`disconnect` who knows of the end of the connection or is about to tell.  Assumptions: `NoCall` is no call; the
window is positive.

**FlexAudioProofs.**  A stream id has one owner at a time - the list of the rig, the work of
one stop, or one start that has it from the radio (`OwnedOnce`, `OwnersApart`) - and the
radio does not give it out again while it has one (`OwnedExists`).  That is what makes the
order in `stop_audio` matter: `StopsKnow` says that a stream about to be removed is not
routed any more.  `RoutesKnow` and `Known` then say of each route whose it is, and `Drained`
of each stop that nothing of what was there when it was called is left in the list.
Assumptions: `NoId` is no id, the capacity is positive.

**FlexStateProofs.**  `MapsStayInverse` rests on lemmas that each removal keeps the two maps
inverse and frees the id or the name.  `EventsTell` is not inductive: a slice that is not
in the cache yet must have the default values in the view, since the first line about it is
told only where it differs from them (`ViewAhead`).  `Mirrors` speaks of the moment when no
line is under way; inductive is `Follows`: the last line under way that says something
about a setting, or else the cache, has what the radio has.  `FlexStateAssumption` says that
a new slice is described in full, that statuses are about the keys there are, and that
`NoName` and `NoSlice` are no names and slices.

**UsbAudioProofs.**  `AudioInv` is said of each handle: the numbers of the buffers that came
out, followed by those in the channel, rise and are among those that were made (`Line`);
unless the application was too slow or the stream was cut off they are all of them
(`Complete`); each came out with all its samples, unless the device asked for less (`Kept`); the format of the handle is that of the device (`Native`) and of each buffer
(`Line`), and samples written to an i16 device stay in their range (`Fits`).  `Complete` is
not inductive without `Unused` (a channel starts empty, and a start that was refused never
uses it) and `Room` (a send that waits has its buffer still to be counted).  Assumptions:
samples are sequences of integers, the capacity is positive.

**WireProofs.**  `Resync` bounds what goes wrong by two for each tear and each damaged byte;
the proof is a bookkeeping of that.  A frame is *safe* (`Safe`) while its bytes lie together
and nothing unfinished is before them; whatever a decoder takes next, a safe frame is taken
as it was sent or stays safe (`CutKeeps`, from `decode_response` and `decode_frame` spelled
out in `Decoding` and `CivDecoding`).  The *weight* of what is still read (`Weight`) is the
number of frames that are neither settled nor safe, and one more while the last is open:
reading, decoding and a new frame never add to it, and a lost or garbled byte, a collision,
the beginning and the end of an exchange add two at most (`GarbleWeighs`: a byte that is
no terminator any more spoils its frame and the next; one that has become a terminator
its own only, which leaves one for what is decoded in front of it).  `Owing` says that the weight, and the piece
in `idle_buf` while an exchange runs, are within the allowance; so the frames that are
missing, which are not safe, are.  `Consistent` says that bytes are in the order in which they
were sent and that each wrong decoding has used up the last byte of a frame that is not
settled (`Gone`), or a terminator that nobody sent (`Used`), so wrong decodings are within
the allowance as well.  `Intact` is the
clause on answers: without damage what an exchange reads is one stream of whole frames but
for the first, which may lack its beginning; the end of a text frame is no answer
(`EndsDiffer`), and in CI-V has no preamble.  The decoders are not recursive:
where a terminator is, is a least index, which the well-founded order of finite sets gives.

`FramesAssumption` says what the encoders do: `encode_command` appends the only terminator,
`encode_frame` puts two preamble bytes before and a terminator behind addresses, command
and BCD data, none of which is a preamble, terminator or collision byte; and the end of a
text frame, without its first letter, is not an answer to the command of the instance.  The
last is about what the radio sends, not about the library; TLC evaluates it on the instance.
That a rig's frame may be of any other form is thus not covered; that any byte may arrive
as any other is, for the theorem has no assumption on `Noise` but its type.

**RigsProofs.**  The theorem is about every rig that the builders of the four makes accept, any
tasks, any calls they make at once, and any exchanges that are lost.  A rig's script is a
function of the call and of the answers it has; what it asks next is *harmless*
(`TextHarmless`, `CivHarmless`) if it is not a keying command and does not raise the line
that keys the transmitter.  `KenwoodAsks`, `ElecraftAsks`, `YaesuAsks` and `IcomAsks` go
through the operations of a make and show that each asks only what is harmless, whatever
the answers, unless it is `set_ptt(true)`.  `TextExchange` and `CivExchange` show that a
harmless exchange leaves a transceiver that does not transmit as it is, and that
every exchange keeps its shape.  `IInv` carries this through a behaviour: the rig is one
that its builder accepts, with the transmitter and the key on lines of their own
(`Sound`, from `BuiltSound`); the transceiver has its shape (`Shaped`); calls are among
those that the task may make; and answers are sequences.  `Sound` is where the
builders' check matters: without it `set_cw_key` raises the line that keys the transmitter.
`ParametersAssumption`, in `Rigs`, says that a rig is of one of the makes with one of the
methods, that calls name operations of the trait, that the offset of `set_rit` and `set_xit`
is a number, and that an operator's turn is not at the transmit key; TLC evaluates it.
The scripts are a parameter of `Rigs`, `RigOperation`, that each cfg binds to `OperationOf`;
the theorem says so with `Operated`.

### Model-checked only

 * Liveness (`NobodyHangs`, `LossTold`, `StopEnds`): the prover has no rules for
   fairness and `ENABLED`.
 * `Rigs` and `FlexSlices` (`Honest`, `SetHolds`, `NothingElseChanges`, `CwWhole`,
   `EventsTrue`): they compare what the codecs of the makes write and read, by recursion
   over fields, digits and frames - induction over data - and by evaluating tables of
   models.  `Rigs.TypeOK` is about what the codecs make of answers, too.
 * `FlexSlices.TypeOK`: it rests on what the parameters `Setups`, `Calls` and `Turns` let the
   builder, the operations and the operator write, power above all; not proved yet.

## What disagrees with the documentation

`icom_active_vfo`: a comment in the Icom rig says "VFO A on a single-receiver rig
is always active", and so `select_receiver` sends nothing for VFO A.  After a
call on VFO B, which selects VFO B, `get_frequency(VFO A)` returns the frequency of
VFO B.  In `Rigs`, `OnItsVfo` marks the calls that this concerns.

The modules state other sentences that the code does not keep; they are not among
the runs, and TLC shows each when it is named in the component's cfg (without the
symmetry; the temporal ones under `FairSpec`, `DropQuiets` with AI on,
`MeterHasOwnValue` with five changes).

The serial rigs (`Rigs`):

 * `ReceiverHeeded`: "the current operating mode of a receiver" (`rig.rs` of the core,
   54, and the like of the others).  Kenwood and Elecraft ask and set mode, passband,
   AGC, preamplifier, attenuator and antenna of the first receiver whatever the call
   names, Yaesu all of these but the mode, an Icom the antenna; only Kenwood's
   `GcVfo` models have AGC for each.
 * `OffersKept`: "The set of operating modes the rig supports" (`types.rs` of the core,
   492).  What the capabilities list is refused in Verify mode for the data modes of
   Kenwood (`rig.rs:343`) and the RTTY and data modes of Elecraft (`rig.rs:346`), which
   share a code, and in any mode for Kenwood's `swap_vfo` (853), Elecraft's second
   preamplifier (673) and its antennas (847).  `Broken` is this list.
 * `AgcComesBack`: "Set the AGC mode for a receiver" (166).  On an Icom with a time constant
   `set_agc(Off)` writes the time constant 0 to the mode that is on (`rig.rs:653`), and no
   later `set_agc` writes another: the mode comes back switched off, and `get_agc` says
   so.
 * `HeardAsTold`: "Current RIT offset in hertz" (`events.rs` of the core, 98).  The
   AI handlers tell the offset 0 for the frame of a switch, Icom's tells RIT on for
   the frame of an offset, and VFO A for whichever VFO was turned.
 * `CwWholeText`: "Longer messages will be chunked automatically" (234).  An Icom cuts the
   text every 30 bytes; the pieces of a character that is cut are no UTF-8, their
   chunks are sent empty (`rig.rs:890`), and the call returns `Ok`.

The tasks and the line:

 * `NobodyHangs` without `Pauses` (`TextIo`): "Timeout for a single command/response
   exchange" (`io.rs:32`).  It is given to every single read (449-453), so while AI frames
   keep coming a query reads on, and shutdown and control lines, which have no timer of
   their own, wait behind it.
 * `DropQuiets` (`TextIo`): the builders say "On rig drop the IO task sends `AI0;`";
   it does so for a `Shutdown` request only.
 * `NoAiFrameAnswers` (`TextIo`): an AI frame with the prefix of the pending query is
   returned as its answer.
 * `ResponsesActual` (`CivIo`): "Actual response from the rig to us" (`io.rs:445`) is said of
   every frame to the controller, where `transceive.rs:61` has transceive frames sent
   there as well: one that comes during a command is returned as its answer.
 * `SetsLoseNothing` (`CivIo`): "SET operations don't generate transceive events";
   a broadcast of the operator's change that arrives during one is dropped.

FlexRadio:

 * `NobodyLeft` (`FlexClient`): a call that has passed the check of the flag may insert
   its sender after the map was cleared, and is left to its timer.
 * `WritesTimeOut` (`FlexClient`): the timer covers the response only; a write to a
   radio that has stopped to read holds its caller and all who wait for the writer's
   lock, `disconnect` included.  (It takes a `Window` of one line.)
 * `DisconnectCleansUp` (`FlexClient`): when the radio has closed the stream before,
   `disconnect` returns at once and the VITA-49 task runs on.
 * `StopStops`, `DisconnectEnds`, `DropEnds` (`FlexAudio`): a second `stop_audio`
   returns before the first has closed the streams; a `disconnect` leaves senders in
   the routing table and receivers waiting; a dropped receiver is taken for a slow one.
 * `SlicesExist` and `MeterHasOwnValue` (`FlexState`): removed slices stay
   in the cache, and a meter that gets another's id is read with the other's value.
 * `CreatesOnlyMissing` (`FlexSlices`, with `Told = {FALSE}`): right after `build` the
   cache is empty, so the first operation creates a slice that exists.
 * `SplitHolds` (`FlexSlices`): "Ensure at least 2 slices exist", but
   `set_split(true)` creates one, and on a radio without slices reports success.
 * `MeterOfItsSlice` (`FlexSlices`): "Read the S-meter value for a receiver" (`rig.rs` of
   the core, 83).  `get_s_meter` ignores the receiver (`rig.rs:363`), and returns the
   reading of the slice whose meter was announced last.

Found while reading, and not stated as a property: Yaesu's `decode_response` says that
"Any bytes before the first printable ASCII character are silently skipped"
(`protocol.rs:90`), but nothing skips them: with one in front of its first letter a response
has an empty prefix, and the query passes it over; the
output callback of the USB audio drops the tail of a buffer that is longer than the
device's request (`audio.rs:496` and 538), although `send` has returned `Ok`; a VITA-49
datagram that declares a size below the header's makes `parse_packet` panic
(`vita49.rs:213`, `Err("panic")` in `FlexCodec`, which no instance reaches); reconnect settings of
`IcomBuilder` are read by nobody; `FlexRadioBuilder::radio` with an unknown model
keeps the one set before although its doc says FLEX-6600; `udp_port` is stored
but nothing starts the UDP receiver; `stop_audio`'s doc says receivers return
`None`, but buffers already in the channel come first; a serial port that
reports its end as no bytes makes a text query loop without a deadline.

## Not modelled

 * `UdpTransport`: used by nothing in the library.
 * `send_command_no_wait` of the SmartSDR client: used by nobody.
 * Bands and frequency ranges (`band.rs`, `BandRange`): tables and helpers for
   applications, without state; the error texts; `Display` and `FromStr` of the types
   where no operation uses them.
 * The overflow of the 8192 byte read buffers: it takes more garbage without a
   terminator than an instance can hold.
 * Numbers beyond the widths of the fields.
 * What the system does with the control lines while a port is being opened, before
   `open_with_config` takes them back.
 * The facade, which re-exports; examples, test harness and test application, which
   are around the library.

## What is left

Proofs of `TypeOK` in `FlexSlices`, and of the part of `Honest` in `Rigs` that is about
getters of one exchange; liveness of `FlexAudio` in a run of its own; a datagram of any
declared size; `Rigs` with longer rows of calls than the two of `Prepared`.
