# Verification of interceptor

TLA+ models of the interceptor library (a fork of pion/interceptor), TLC
configurations that check them on small instances, and TLAPS proofs that hold
for every value of the constants.

## 1. The system

An interceptor sits between a peer connection and the network. It wraps RTP
and RTCP readers and writers (`BindRTCPReader`, `BindRTCPWriter`,
`BindLocalStream`, `BindRemoteStream`, and their unbinds) and is closed once.
`Chain` composes interceptors by calling them in order. Nearly all state is
inside one interceptor. Interceptors interact through packets (generator and
responder of NACKs, feedback sender and bandwidth estimator), through
attributes of a packet, and through callbacks.

| Part | State | What is hard | Correct when |
|---|---|---|---|
| `pkg/nack` receive log | bitmap of `size` slots, `end`, `lastConsecutive` | slots shared by numbers `size` apart, uint16 wrap, late packets | it reports exactly the gaps of the window and stays inside its slice |
| `pkg/nack` generator | logs and NACK counts per SSRC, loops, WaitGroup | tick against read, unbind and close; counts left behind by `continue` | counts are those of the current loss; quiet after `Close` |
| `pkg/nack` responder, `internal/rtpbuffer` | ring of counted packets per stream, pools | writes from pooled memory without a lock, stale stream | a packet is not recycled while it is written; the newest packets are held |
| `pkg/jitterbuffer` | linked list, playout head, state | duplicates, wrap, removal from the middle | no packet is lost, playback goes on in order |
| `pkg/videoframe` | packet ring, reference finders, stashes | slots reused, frames completed out of order, three numbers that wrap | frames are whole, their references resolved, the stream plays on |
| `pkg/flexfec` | coverage masks; decoder lists with pointers | pointers into a sorted slice, wrap, retry loop | a single loss is repaired, with the packet that was sent |
| `pkg/twcc`, `pkg/rfc8888`, `internal/cc` | arrival time map, stream logs, history | wrap, growth of the ring, pairing of symbols and deltas, cut reports | the sender learns the right times and losses, and nothing is skipped |
| `pkg/report`, `pkg/stats` | loss bitmap, report times, last reports, recorders | wrap, late and repeated packets and reports; stop before start | figures and times are exact; nothing runs after `Close` |
| `pkg/pacing`, `pkg/gcc` pacer | channel, queue, tokens | change of the rate between check and send | order and rate are kept, nothing is stuck |
| `pkg/gcc` estimator | two goroutines with channels, two controllers | close against feedback, rates taken over from one another | no send on a closed channel, target within limits |
| `pkg/intervalpli`, `pkg/packetdump` | loops and channels | blocking sends | callers get away, a new stream gets a PLI |

`PROJECT.json` lists each part with its sources, each definition with the lines
it models, and each hazard at its line.

## 2. What is modelled

| Module | Models | State and actions |
|---|---|---|
| `SeqNum` | uint16 arithmetic, with `2 * Half` for 65536 | operators `Plus`, `Minus`, `IsAhead` |
| `ReceiveLog` | `receive_log.go` | a log is a record; each method is an operator of the same name |
| `PacketGaps` | what the log promises: newest number, arrived and missing sets, no slots | abstract |
| `ReceiveLogStream` | one log fed by a network | `Receive` |
| `NackGenerator` | `generator_interceptor.go` of `pkg/nack` | one action per method; the goroutine is `Tick`, `Send`, `Stop` |
| `RTPBuffer` | `rtpbuffer.go` | `Add`, `Get`, and the set of packets `Add` evicts |
| `PacketWindow` | what the ring promises: the newest packets | abstract |
| `NackResponder` | `responder_interceptor.go`, `retainable_packet.go`, allocation in `packet_factory.go` | writers `NewPacket`, `AddPacket`; resends `ReadNack`, `Lookup`, `GetPacket`, `Resent` |
| `NackSession` | both ends of one stream and the network | `Write`, `Read`, `Tick`, `Resend`, and the losses |
| `PriorityQueue`, `JitterBuffer` | `pkg/jitterbuffer` | nodes with next pointers; one action per call that changes the buffer |
| `VideoPacketBuffer` | `packet_buffer.go`, `frame_assembler.go` | the ring of packets, `InsertPacket`, `findFrames` |
| `SeqNumOnlyRefFinder`, `VP8RefFinder` | the three reference finders and the unwrappers | finders are records, `ManageFrame` an operator on them |
| `VideoReceiver` | `receiver_interceptor.go` of `pkg/videoframe`, `video_header.go` | bind, unbind, close, `Read`; sender and network |
| `FlexFecEncoder`, `FlexFecDecoder` | coverage, masks and encoder; decoder | an xor is the set of the packets in it; pointers are indexes into the slice |
| `FecSession` | `encoder_interceptor.go`, a network and a decoder | `Write`, `Deliver`, `Lose` |
| `Unwrapper` | `internal/sequencenumber` | `Unwrap` |
| `ArrivalTimeMap`, `TwccRecorder` | `arrival_time_map.go`, `twcc.go` | the growing ring; `Record`, `BuildFeedbackPacket` down to status chunks |
| `Rfc8888Recorder` | `stream_log.go`, `recorder.go` | `AddToStream`, `BuildReport` |
| `FeedbackAdapter` | `feedback_adapter.go` | the history, and feedback translated to acknowledgments |
| `FeedbackSession` | all five composed: sender, network, recorder, sender | `Number`, `Send`, `Arrive`, `RecordPacket`, ticks, losses |
| `Reports` | `pkg/report`, and the loss figure and round trip time of `pkg/stats` | writers, readers, ticks; reports on a network |
| `StatsInterceptor` | life cycle of the recorders of `pkg/stats` | `getRecorder`, `Start`, `Queue`, `Record`, `Close` |
| `InterceptorLoops` | the goroutines of `pkg/twcc`, `pkg/rfc8888`, `pkg/report`, `pkg/intervalpli`, `pkg/packetdump` | one life cycle; `kind` selects where they differ |
| `Pacers` | `pkg/pacing` and `leaky_bucket_pacer.go` | writers, `SetRate`, the loop's select, check and send |
| `BandwidthEstimator` | `send_side_bwe.go`, both controllers, and their goroutines | `WriteRTCP` in its steps, the two goroutines, `Close` |
| `Evaluation` | nothing: helpers that make TLC evaluate an argument once | |

An action is what runs under one lock, or between two operations on channels.
`receiveLogsMu` covers a whole bind, unbind or tick of the generator, so these
are single steps; the writes of a tick follow the unlock and are steps of their
own. In `NackResponder` a packet and the pooled memory it owns are one entry of
`heap`, and a count of zero means the memory may be taken by any writer. A
reader of `pkg/twcc` stamps a packet and hands it over in two steps; so do the
ticks of `pkg/report`, which read the clock before they lock the stream. The
pacing loop looks at the budget and takes the tokens in two steps. A call of
`WriteRTCP` is a step for the loss controller and one for each channel.

History variables (`asked`, `travel`, `got`, `arrivals`, `reported`, `firstAt`,
`accepted`, `unpaid`, `plis`, ...) record what happened, for properties and
bounds. No guard that stands for code reads them. Operators marked `Fault` are
plausible mistakes in the code, kept next to the definition they spoil;
substituting one must make its property fail.

## 3. What is checked

A run explores one or more scenarios: different components, or one component
restricted in different ways so that each stays small. A variable `scenario` is
chosen at first and never changes; in each scenario only its own components move.
Where there are theorems, the module of the run extends the module they are about
and only conjoins restrictions to its `Next`, so that the run and the theorem
speak of the same formula.

| Run | Scenarios | Shows |
|---|---|---|
| `nack_session` | `log`, `session` | `LogInvariant` (type and window bound, inductive), `MissingFits` (never past the slice of `size` elements, for every `skipLastN` up to half the number space beyond the window), `ImplementsGaps` (the bitmap reports exactly the abstract gaps), `LogIsTruthful` (no NACK for a packet that arrived), `LossesRecovered` (every loss in the window is repaired) |
| `nack_generator` | `counts`, `closing` | `TypeOK` (the WaitGroup never goes negative), `CountsExact` (a count is the number of NACKs for this very loss, up to the limit), `CountsOnlyForBound`, `QuietAfterClose`, `CloseReturns` |
| `nack_responder` | `ring`, `rebind` | `TypeOK`, `RefCountExact` (a count is the number of references), `ResendIntact` (the packet being resent is live and the one asked for), `ImplementsWindow` (`Get` answers for exactly the newest packets) |
| `playout` | `frames`, `jitter`, `fec` | frames: `FramesAreWhole`, `IdsAgree` (ids keep the sender's order across three wraps), `ReferencesResolved`, `StreamPlays` (without loss a frame comes out as soon as everything from its key frame on has been read, except one overtaken by a later key frame and one that depends on a frame numbered below zero). Jitter buffer: `QueueInOrder`, `NothingLost`, `PlaysOn`. FEC: `RecoveredRight`, `LossesRepaired` |
| `congestion_feedback` | `congestion` (TWCC and RFC 8888), `loss`, `delay`, `frames` | `ArrivalsRight`, `LossesRight` (what the sender is told is what was recorded), `NothingSkipped` (what was recorded and not reported will be), `LossFiguresRight`, `RoundTripRight`, `ReportTimesRight`; their exceptions are listed below |
| `interceptor_loops` | `loops`, `pacers`, `estimator` | `PacketsKept`, `RateKept`, `AcceptedLeave` (pacers); `PipesOpen`, `TargetBounded` (estimator); `CallersReturn`, `NewStreamsGetPLI` (loops); `QuietAfterClose`, `PacingQuietAfterClose`, `EstimatorQuiet` (nothing moves once `Close` has returned), `AllReturn` (all three) |
| `receive_log_full_window` | | violated: with `size` 32768 a full window reports nothing |
| `nack_generator_max` | | violated: the uint16 count wraps and a packet is asked for more often than the maximum |
| `jitter_buffer_repeat` | | violated: a repeat of the front's number makes the list a circle |
| `fec_delayed` | | violated: a late media packet makes the decoder return a packet nobody sent |
| `fec_full_batch` | | violated: the last packet of the largest batch is in the repair packet and not in its mask |
| `stats_close` | | violated: a recorder runs after `Close` has returned |

### The disagreements

`GapsAreReported`. `missingSeqNumbers` returns nil when
`until - lastConsecutive` is at least 2^15. `size` 32768 is allowed by
`generator_option.go:17`, and a full window of that size has exactly this
distance. The test at `receive_log_test.go:141` says the latest entries are
considered when the window overflows. With that size none are.

`AtMostMaxNacks`. The count is incremented on every tick, also when the packet
is not asked for any more, and wraps after 65536 ticks. `generator_option.go:37`
says a packet is NACKed at most the given number of times. It takes a stream
that pauses with a gap inside its window for nearly two hours at the default
interval.

`QueueInOrder` with repeats. `Push` starts its search with `prev` at the front.
For the front's own number it links the new node before and behind the front,
and the rest of the list is gone (`priority_queue.go:65`: "in order of sequence
number"). `playout` leaves such repeats out; repeats of any other number are in.

`RecoveredRight` with delays. The decoder keeps pointers into the slice of its
recovered packets (`flexfec_decoder_03.go:174`), appends a late packet to that
slice in place, and sorts it: the pointers then refer to other packets. Go's
`append` allocates a new array only when the old one is full, and the model has
both. `playout` delivers packets in order, where the pointers stay right. The
decoder is marked as used for testing (`flexfec_decoder_03.go:27`).

`RecoveredRight` with full batches. `MaxMediaPackets` is 110 and a batch of that
size is accepted (`flexfec_coverage.go:11`: "Maximum number of media packets that
can be protected by a single FEC packet"), but the three masks have
15 + 31 + 63 = 109 bits. The last packet goes into the XOR and into no mask, so a
recovery of another packet of its column returns the XOR of the two. `playout`
has batches up to the number of bits.

`RecordersClosed`. `getRecorder` starts a recorder in a goroutine. `Close` stops
the recorders and then waits for these goroutines, one of which may start its
recorder after it was stopped (`interceptor.go:164`: "closes the interceptor and
associated stats recorders").

### Exceptions the properties name

The code gives up or misstates some packets by design or by the width of a
number. The runs reach these cases and the properties say which they are.

* `StreamPlays`: a frame whose picture ID or TL0PICIDX unwraps below zero is dropped
  by the finder, and with it what depends on it. This happens when the first
  frame is complete only after one from behind the wrap.
* `LossesRight`: the unwrapper does not go below zero. A packet from before the wrap
  that follows a first packet from behind it is placed a cycle ahead, and what
  was recorded before is left behind and may be reported lost.
* `LossFiguresRight`: for the same reason the loss figure of `pkg/stats` is claimed
  only while no such packet has come. The total of a receiver report ends at 24
  bits.
* `ArrivalsRight`: the arrival time offset of RFC 8888 is cut to 16 bits, so a packet
  reported more than 64 s after it came looks like a new arrival.
* `NothingSkipped`: TWCC gives up packets `MaxPackets` behind the newest. RFC 8888
  gives up what a cut report had no room for, and packets before the first of
  their stream.
* `ReportTimesRight`: a stream whose timestamps so far were all 0 has no reference
  time, and the RTP time of its report has no meaning. When a frame begins between
  the reading of the clock and the report, the negative difference is converted
  to an unsigned number, which depends on the machine.
* `RoundTripRight`: the receiver's loop has read its time after the sender report came.

Three situations are not reached. A packet later than a ring remembers breaks the
promises of the ring (`MaxLate`). Feedback with a packet that has left the history
of 250 shifts the arrival times behind it (`feedback_adapter.go:130`). `Clear` of the
jitter buffer's queue resets the length and not `next`; it is modelled as it is, in
every state, but the properties do not say that the buffer is empty after it.

### Bounds and why they suffice

* `Half` or `Modulus` replaces the width of the numbers. The code uses the width
  only through differences modulo it and the comparison with half of it. Each is
  several times the size of the log or ring where a run is about wrap-around,
  and equal to it where the run is about that case. All streams start close to
  the largest number and wrap: RTP numbers, picture IDs, TL0PICIDX, transport
  wide numbers, and the numbers of repair packets. Where numbers are unwrapped,
  the first is close enough to the wrap for a later one to overtake it.
* `Size` 4 and `BufferSize` 2 have slots that alias, windows with several gaps,
  and jumps shorter and longer than the window; in `rebind` only numbers of one
  slot are written, so that every write evicts. `PacketBufferSize` 4 is less than a stream of frames has
  packets, so that slots are reused.
* `MaxLate` and `MaxReorder` are how late a packet may arrive. The ring
  structures are only right for packets less than their size late, and the runs
  say so. Two packets overtaking is enough to complete a frame before the one it
  refers to.
* `CountModulus` replaces 65536 for counts and `CountCeiling` stops ticks before
  the wrap in `nack_generator`; `nack_generator_max` lets it happen.
* `MaxTravel` is how many numbers a stream passes in one tick interval. Counts
  are left behind when a tick has nothing to ask for, so `CountsExact` has at most
  `2 * Half - 2 * Size` numbers in an interval. At the real width this is 49152
  packets (size 8192) or more in 100 ms.
* `nack_generator`: `counts` has one loop, no `Close` and every number;
  `closing` has no maximum, two loops, two callers of `Close`, and streams whose
  newest number is one of four. Counts do not depend on the loops, nor the loops
  on which numbers are missing.
* `nack_session`: `log` feeds one log every order of arrival that `MaxLate`
  admits; `session` sends `MaxSend` 7 packets over a log and a ring of 4, starting
  shortly before the wrap.
* Three `Nodes` are enough for a front, a middle and an end, with repeats among
  the last two. `DefaultStart` 3 replaces the 50 packets that `Clear` goes back
  to.
* The three scripts of `MCPlayout` are a stream with a second key frame, one
  joined before its key frame, and one with an enhancement layer. The finders
  remember one base layer, so that entries are dropped while frames still come.
  The first frame has the last RTP number and the last picture ID or TL0PICIDX
  before the wrap.
* FEC masks have parts of one, one and two bits in place of 15, 31 and 63, and
  `MaxMediaPackets` is five, one more than the bits, as in the code. A batch of four
  spans all parts; the decoder is full after one batch.
* A TWCC packet has a largest difference, and status chunks of two and four
  symbols: two steps of the clock, one short and one too long for a packet, give
  every kind of symbol and a feedback cut in two. The map of arrival times has at
  most `MaxPackets` 4 entries for up to five numbers, starts with one slot and
  grows twice, so that packets are too old or dropped; `PacketWindow` 6 steps drop
  others by age. A tick sends all the packets it has built. `AtoModulus` 6 with
  `MaxTime` 15 has offsets that wrap. The five settings of `MCSettings` share out two
  writers, a loss, a repeat, and every order of arrival. `MaxFeedback` 1 lets a
  tick begin when no feedback is on its way, whose translation is read in every
  state that follows.
* Reports start with number 14 of 16 and timestamp 0. `MaxTotalLost` 2 replaces
  0xFFFFFF and is met.
* Two loops, closers, callers and readers meet in every way the code lets them:
  locks admit one, and channels pair two.
* Pacers: sizes 1 and 3 and rates 1 and 2 have a packet that needs several
  intervals and packets that share one. Packets are smaller than the burst of
  every rate. A packet as large as the burst is never sent by `pkg/pacing`
  (`interceptor.go:240`); `AcceptedLeave` makes no claim there. Payloads fit the
  1460 bytes of the leaky bucket's buffers.
* Estimator: rates are small numbers, growth by a few per cent is growth by none
  or one, and the limits are close enough for both to be met.

### Fairness

* Writes return and goroutines that can run do: `WF` of `Send`, `Written`,
  `Sending`, `updateLossEstimate`, `onDelayUpdate`, and of the returns of `Close`
  once its WaitGroup is at zero.
* A select chooses at random among ready branches, so nothing that is ready again
  and again is passed over for ever: `SF` of `Stop`, `TakeRequest`, `Receive`,
  `Tick` of the pacers, and of the hand-over on a channel (`Leave`, `SendAcks`,
  `SendAcksForRate`), since goroutines wait for a channel in a queue.
* The acknowledgments of one feedback packet come to an end: `WF(RatesDone)`,
  `SF(NoGroup)`.
* Session: `WF(Tick)` (the ticker), `WF(Read)` per number (the network delivers
  what it does not lose; losses are bounded by `MaxLoss`), `WF` of resends.
* Nothing is assumed of callers: writes, reads, binds, rate changes and `Close`
  may come or not.

`MCInterceptorLoops` joins conditions of different scenarios in one formula. As
the scenario never changes, fairness of "a step of one or a step of the other"
is fairness of each.

`CHECK_DEADLOCK FALSE` is set where the system may stop: everything was sent and
repaired, or everything is closed.

## 4. What is proved

Twenty-one theorems, in six modules; `SeqNumProofs` and `ReceiveLogProofs` hold the
lemmas they share. Every safety property of the NACK runs, and every safety
property of `interceptor_loops`, is a theorem. Constants are arbitrary, within the
`ASSUME`s of their modules and the hypotheses named here.

### The operators

`SeqNumProofs` has the arithmetic of wrapping numbers: distances add up below one
full turn (`MinusSum`), and in a ring whose size divides the number space, numbers
less than the size apart fall into different slots and numbers exactly the size
apart into the same one (`SlotsApart`, `SlotsRepeat`). It has, too, what a ring of
numbers does to the window of the newest when a number is stored: the first
(`RingFirst`), one ahead, which passes exactly the slots of the numbers that leave
the window (`PassedSlots`, `RingAdvances`), and a late one (`RingLate`).

`ReceiveLogProofs` has one lemma per method of the receive log: how each changes
the bits and the marks (`SetReceived`, `ClearBetween`, `FixLastConsecutive`,
`AddFirst`, `AddAhead`, `AddLate`), what `missingSeqNumbers` returns (`MissingIs`),
that it stays in the window and within `Size` numbers (`MissingInWindow`,
`MissingBounded`), and that `skipLastN` leaves
out exactly the newest (`MissingSkips`). `GoodLog` is the invariant of one log: its
type, `end - lastConsecutive <= Size`, and that an unused log is the initial one.
The last part is needed because the first packet sets its own bit and clears none.
`FirstGaps`, `AheadGaps` and `LateGaps` say the same of the sets of received and
missing numbers.

### Receive log and session (`NackSessionProofs`)

* `LogInvariantHolds`, `MissingFitsHolds`: for every `Size` up to `Half`. The second
  is for every `skipLastN` up to `Half` plus the distance from `lastConsecutive` to
  `end`; beyond that the number to stop at lies ahead of `end`, the early return is
  not taken, and the loop runs over numbers that were never sent.
* `LogImplementsGaps`: the log implements `PacketGaps`, when `Size < Half` and
  `MaxLate < Size`. The first condition excludes the finding above; the second
  excludes packets later than the log remembers. `First`, `Advance` and `Fill` of
  `PacketGaps` are the three branches of `add`.
* `SessionImplementsStream`: a session of generator, responder and network is, seen
  from the log, a `ReceiveLogStream`, so the three results hold in it.
* `LogIsTruthfulHolds`, under the same two conditions, for sessions of up to `Half`
  packets. `SessionInv` adds to the property that only written numbers are under
  way, in the ring or in the history, that `end` is the latest that arrived, and
  that in the window a bit is set exactly for a number that arrived.

### Generator (`NackGeneratorProofs`)

* `GeneratorTypes`, `CountsOnlyForBoundHolds`, `QuietAfterCloseHolds`. `LoopsInv`: the
  WaitGroup is the number of loops that run, a `Close` that waits has closed the
  interceptor, and no loop runs when one has returned. The WaitGroup thus never
  goes below zero, where Go panics.
* `CountsExactHolds`, under `CountsAssumption`: `Size < Half`, `MaxLate < Size`, at most
  `2 * Half - 2 * Size` numbers between two ticks, and ticks that start with counts
  short of their width; `SkipLastN` is at most `Half`. Both `continue` statements leave counts of numbers that
  are no longer missing, so the property is not inductive: `StreamInv` bounds how
  old a number with a count is. It is at least `skipLastN` plus what the stream has
  travelled since the last tick, and less than `2 * Size` plus that travel; any two
  are less than `Size` apart. Such a count cannot be met again by a number that
  becomes missing. A tick that asks for nothing although something is missing
  keeps the bounds because all that is missing has a count then.
* `AtMostMaxNacksBelowWidth`: under the same assumptions a packet is asked for at
  most `maxNacksPerPacket` times. The violation in `nack_generator_max` therefore
  comes from the wrap of the count and from nothing else in these bounds.

### Responder (`NackResponderProofs`, `NackWindowProofs`)

For any number of streams, packets, writers and resends:

* `ResponderTypes`, `RefCountExactHolds`, `ResendIntactHolds`. `RefInv`: a packet has
  at most one owner, a slot of one ring or a writer that has not stored it yet; a
  resend never holds a packet that is still with its writer; a packet is in the
  slot of its number and the ring of its stream; a count is one for the owner and
  one for each resend. `ResendIntact` follows because `NewPacket` takes a packet
  with count zero only.
* `ResponderImplementsWindow`: every stream implements `PacketWindow`, when
  `MaxLate < BufferSize`. `WindowInv` adds that what is in a ring is in its window,
  and that the numbers of writes in progress are near the ring's newest and close
  to each other: otherwise a write that stores first could leave another behind
  the window.

### Loops, pacers and estimator

* `InterceptorLoopsProofs`: `QuietAfterCloseHolds`, for any number of binds, closers
  and callers. `LoopsInv` is the count of the WaitGroup as above; in `rfc8888`, where
  the check for `Close` and the start are two steps, `QuietAfterClose` makes no
  claim.
* `CongestionProofs`, for packets (that fit the leaky bucket's buffers), rates, burst
  and queue of any size (`PacerConstants`): `PacketsKeptHolds`, which with the types of the queues, and that
  a packet that was checked is there, is inductive (`EndOfAppend`, `HeadMoves`,
  `EndOfNext` are the steps); `RateKeptHolds`, where `RateInv` adds that the packet that
  was checked has its tokens unless the rate has been changed more often than
  packets were sent without; `PacingQuietHolds`.
* `CongestionProofs`, for any number of readers and any rates: `PipesOpenHolds`, where
  `PipesInv` has the pipes open exactly as long as the estimator, and no reader in a
  call when it is not; `TargetBoundedHolds`, when the limits are in order and the
  initial rate lies within them (`BWEConstants`), where `RatesInv` keeps the delay
  based rate within its limits and the loss based one above the lesser of the two
  minima, also when the loss based rate starts over from the one it is given
  (`getEstimate`); `EstimatorQuietHolds`.

### Only model-checked

* Liveness (`LossesRecovered`, `CloseReturns`, `AllReturn`, `CallersReturn`,
  `NewStreamsGetPLI`, `AcceptedLeave`): out of the
  prover's reach.
* Frames, FEC and TWCC feedback: what their loops compute is a fold or a recursion
  over data, and a proof would be an induction over that data, which the provers do
  not do. The same holds for the list of the jitter buffer (`QueueInOrder`,
  `NothingLost`), which is a walk along pointers.
* RFC 8888, reports and statistics, and `PlaysOn` of the jitter buffer: not yet
  proved.

## 5. Not modelled

Left out of the modelled parts: logging, errors of the underlying writer beyond
being ignored, packet bytes, the RTX rewrite, the factory that does not copy,
the packing of numbers into NACK pairs (an external library), stream filters, the
jitter buffer's statistics and events, a second bind of an SSRC without an
unbind (except in `pkg/intervalpli`, where only `UnbindLocalStream` removes a
stream), and calls that panic by contract of the channels (a second `Close` of
`pkg/pacing`, `pkg/gcc` and the leaky bucket).

* `pkg/gcc` filters (Kalman filter, adaptive threshold, slope estimator, moving
  averages, grouping of arrivals): floating point arithmetic on times. What they
  may answer is a choice in `BandwidthEstimator`. `rate_controller.go:95` replaces
  the controller's state by the detector's before each transition; the model has
  it so, and no doc says otherwise.
* `pkg/report`: jitter and fraction lost (floating point), octet counts (sums).
* `pkg/stats`: the other counters, and extended reports, whose arithmetic is that
  of receiver reports.
* `pkg/flexfec`: the bytes of headers, malformed repair packets, and FlexFEC-20
  (`flexfec_encoder.go`), which the interceptor does not use.
* `pkg/packetdump`: filters, formatting, output.
* `internal/ntp`: floating point, apart from the bits that pair reports.
* `pkg/cc`: hands packets to an estimator and feedback back to it.
* The framework (`chain.go`, `registry.go`, `attributes.go`, `noop.go`): composition
  of calls without state of its own beyond a list.
* Mocks, test helpers and examples.

## 6. Running

    tlc -config NackSession.cfg MCNackSession
    tlapm NackSessionProofs.tla

The other runs are listed in `PROJECT.json` with module and configuration.
