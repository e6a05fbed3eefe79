-------------------------- MODULE InterceptorLoops --------------------------
(***************************************************************************)
(* The goroutines of the interceptors that send RTCP, or dump packets, on  *)
(* their own: the life cycle of the loop that BindRTCPWriter (or the       *)
(* constructor) starts and Close ends, and the hand-over of packets and    *)
(* requests to it by the callers of readers and writers.                   *)
(*                                                                         *)
(*   twcc      pkg/twcc/sender_interceptor.go                              *)
(*   rfc8888   pkg/rfc8888/interceptor.go                                  *)
(*   reports   pkg/report, both interceptors                               *)
(*   pli       pkg/intervalpli/generator_interceptor.go                    *)
(*   dump      pkg/packetdump/default_packet_logger.go                     *)
(*                                                                         *)
(* What the loops record and send is modelled elsewhere.  rfc8888 and dump *)
(* do not lock in Close; it is called once at a time for them.             *)
(***************************************************************************)
EXTENDS Integers, Sequences, SequencesExt, FiniteSets

CONSTANTS
    Kinds,          \* the interceptors of the list above
    Binds,          \* calls of BindRTCPWriter, numbered as they come
    Closers,        \* calls of Close, numbered as they come
    Callers,        \* callers of readers and writers, each with its own SSRC
    Intervals       \* pli: whether there is an interval, values of the option

VARIABLES
    kind,
    interval,       \* a ticker runs
    loops,          \* bind -> where its goroutine is
    writing,        \* bind -> the SSRCs it is writing PLIs for
    wg,
    closed,
    closers,        \* closer -> where it is
    callers,        \* caller -> where it is
    needed,         \* pli: immediatePLINeeded, a channel of one element
    streams,        \* pli: the streams bound
    plis            \* history: the streams a PLI was written for since the bind

loopVars == <<kind, interval, loops, writing, wg, closed, closers, callers, needed,
              streams, plis>>

\* Close takes the lock of BindRTCPWriter.
Locked == kind \in {"twcc", "reports", "pli"}
\* The logger is used once its constructor has started the loop.
Constructed == kind = "dump" => \E b \in Binds : loops[b] # "none"
\* The calls there were.
Bound == {b \in Binds : loops[b] # "none"}
Closings == {c \in Closers : closers[c] # "idle"}
Alive == {b \in Binds : loops[b] \in {"first", "select", "write"}}

LoopsInit ==
    /\ kind \in Kinds
    /\ interval \in IF kind = "pli" THEN Intervals ELSE {TRUE}
    /\ loops = [b \in Binds |-> "none"]
    /\ writing = [b \in Binds |-> {}]
    /\ wg = 0
    /\ closed = FALSE
    /\ closers = [c \in Closers |-> "idle"]
    /\ callers = [r \in Callers |-> "idle"]
    /\ needed = <<>>
    /\ streams = {}
    /\ plis = {}

\* Where a loop begins: those of the feedback interceptors wait for a packet
\* before they start the ticker.
Begin == IF kind \in {"twcc", "rfc8888"} THEN "first" ELSE "select"

StartLoop(b) ==
    /\ wg' = wg + 1
    /\ loops' = [loops EXCEPT ![b] = Begin]
    /\ UNCHANGED <<kind, interval, writing, closed, closers, callers, needed, streams, plis>>

\* Fault: a loop is started though the interceptor is closed.
BindRTCPWriterAlways(b) ==
    /\ kind \in {"twcc", "reports", "pli"}
    /\ b = Cardinality(Bound) + 1
    /\ StartLoop(b)

\* The check and the start are under the lock that Close takes too.
BindRTCPWriter(b) ==
    /\ kind \in {"twcc", "reports", "pli"}
    /\ b = Cardinality(Bound) + 1
    /\ ~closed
    /\ StartLoop(b)

\* rfc8888: Close does not take the lock, and may come between check and start.
BindRTCPWriterCheck(b) ==
    /\ kind = "rfc8888"
    /\ b = Cardinality(Bound) + 1
    /\ \A other \in Binds : loops[other] # "starting"
    /\ ~closed
    /\ loops' = [loops EXCEPT ![b] = "starting"]
    /\ UNCHANGED <<kind, interval, writing, wg, closed, closers, callers, needed, streams,
                   plis>>

BindRTCPWriterStart(b) == loops[b] = "starting" /\ StartLoop(b)

\* dump: the constructor starts the one loop there is, before anything else.
run(b) ==
    /\ kind = "dump"
    /\ b = 1 /\ Bound = {}
    /\ ~closed
    /\ StartLoop(b)

Close(c) ==
    /\ c = Cardinality(Closings) + 1
    /\ Locked \/ \A other \in Closers : closers[other] # "waiting"
    /\ Constructed
    /\ closed' = TRUE
    /\ closers' = [closers EXCEPT ![c] = "waiting"]
    /\ UNCHANGED <<kind, interval, loops, writing, wg, callers, needed, streams, plis>>

CloseReturn(c) ==
    /\ closers[c] = "waiting"
    /\ wg = 0
    /\ closers' = [closers EXCEPT ![c] = "returned"]
    /\ UNCHANGED <<kind, interval, loops, writing, wg, closed, callers, needed, streams,
                   plis>>
-----------------------------------------------------------------------------
\* The loops.

\* Fault: the loop ends without wg.Done.
StopWithoutDone(b) ==
    /\ loops[b] \in {"first", "select"}
    /\ closed
    /\ loops' = [loops EXCEPT ![b] = "done"]
    /\ UNCHANGED <<kind, interval, writing, wg, closed, closers, callers, needed, streams,
                   plis>>

Stop(b) ==
    /\ loops[b] \in {"first", "select"}
    /\ closed
    /\ loops' = [loops EXCEPT ![b] = "done"]
    /\ wg' = wg - 1
    /\ UNCHANGED <<kind, interval, writing, closed, closers, callers, needed, streams, plis>>

\* A report is written, or there is none to write.
Tick(b) ==
    /\ loops[b] = "select"
    /\ kind # "dump" /\ interval
    /\ \/ kind # "pli" /\ writing' = writing
       \/ kind = "pli" /\ streams # {} /\ writing' = [writing EXCEPT ![b] = streams]
    /\ loops' = [loops EXCEPT ![b] = "write"]
    /\ UNCHANGED <<kind, interval, wg, closed, closers, callers, needed, streams, plis>>

\* pli: a request is taken off the channel.
TakeRequest(b) ==
    /\ loops[b] = "select"
    /\ needed # <<>>
    /\ writing' = [writing EXCEPT ![b] = Head(needed)]
    /\ needed' = Tail(needed)
    /\ loops' = [loops EXCEPT ![b] = "write"]
    /\ UNCHANGED <<kind, interval, wg, closed, closers, callers, streams, plis>>

\* The call of Write returns, with or without an error.
Written(b) ==
    /\ loops[b] = "write"
    /\ loops' = [loops EXCEPT ![b] = "select"]
    /\ plis' = plis \cup writing[b]
    /\ writing' = [writing EXCEPT ![b] = {}]
    /\ UNCHANGED <<kind, interval, wg, closed, closers, callers, needed, streams>>
-----------------------------------------------------------------------------
\* The callers.

\* A reader or writer is called and comes to the channel.
Offer(r) ==
    /\ kind \in {"twcc", "rfc8888", "dump"}
    /\ Constructed
    /\ callers[r] = "idle"
    /\ callers' = [callers EXCEPT ![r] = "offering"]
    /\ UNCHANGED <<kind, interval, loops, writing, wg, closed, closers, needed, streams,
                   plis>>

\* The channel has no buffer: the loop takes the packet.  A dump is written on
\* the loop's goroutine.
Take(r, b) ==
    /\ kind \in {"twcc", "rfc8888", "dump"}
    /\ callers[r] = "offering"
    /\ loops[b] \in {"first", "select"}
    /\ callers' = [callers EXCEPT ![r] = "idle"]
    /\ loops' = [loops EXCEPT ![b] = IF kind = "dump" THEN "write" ELSE "select"]
    /\ UNCHANGED <<kind, interval, writing, wg, closed, closers, needed, streams, plis>>

\* Fault: the send is not a select with the close channel.
GiveUpNever(r) == FALSE /\ UNCHANGED loopVars

\* The sends of twcc and dump are selects with the close channel.
GiveUp(r) ==
    /\ kind \in {"twcc", "dump"}
    /\ callers[r] = "offering"
    /\ closed
    /\ callers' = [callers EXCEPT ![r] = "idle"]
    /\ UNCHANGED <<kind, interval, loops, writing, wg, closed, closers, needed, streams,
                   plis>>

\* pli: the stream is stored, then ForcePLI is called.
BindRemoteStream(r) ==
    /\ kind = "pli"
    /\ callers[r] = "idle"
    /\ streams' = streams \cup {r}
    /\ plis' = plis \ {r}
    /\ callers' = [callers EXCEPT ![r] = "offering"]
    /\ UNCHANGED <<kind, interval, loops, writing, wg, closed, closers, needed>>

\* pli: only UnbindLocalStream deletes.  A remote stream goes when a local one with
\* its SSRC does, and stays, to be bound again, when it is unbound itself.
UnbindLocalStream(r) ==
    /\ kind = "pli"
    /\ callers[r] = "idle"
    /\ r \in streams
    /\ streams' = streams \ {r}
    /\ UNCHANGED <<kind, interval, loops, writing, wg, closed, closers, callers, needed,
                   plis>>

\* Fault: a request that finds the channel full is dropped.
ForcePLIOrDrop(r) ==
    /\ kind = "pli"
    /\ callers[r] = "offering"
    /\ needed' = IF needed = <<>> THEN <<{r}>> ELSE needed
    /\ callers' = [callers EXCEPT ![r] = "idle"]
    /\ UNCHANGED <<kind, interval, loops, writing, wg, closed, closers, streams, plis>>

ForcePLI(r) ==
    /\ kind = "pli"
    /\ callers[r] = "offering"
    /\ needed = <<>>
    /\ needed' = <<{r}>>
    /\ callers' = [callers EXCEPT ![r] = "idle"]
    /\ UNCHANGED <<kind, interval, loops, writing, wg, closed, closers, streams, plis>>

\* A caller gets away.
Leave(r) == ForcePLI(r) \/ GiveUp(r) \/ \E b \in Binds : Take(r, b)

LoopsNext ==
    \/ \E b \in Binds : \/ BindRTCPWriter(b) \/ BindRTCPWriterCheck(b)
                        \/ BindRTCPWriterStart(b) \/ run(b)
                        \/ Stop(b) \/ Tick(b) \/ TakeRequest(b) \/ Written(b)
    \/ \E c \in Closers : Close(c) \/ CloseReturn(c)
    \/ \E r \in Callers : \/ Offer(r) \/ Leave(r)
                          \/ BindRemoteStream(r) \/ UnbindLocalStream(r)

\* A select chooses at random among what is ready, so that nothing that is ready
\* again and again is passed over for ever; writes return; and the scheduler runs
\* what can run.
LoopsFairness ==
    /\ \A b \in Binds : /\ SF_loopVars(Stop(b)) /\ SF_loopVars(TakeRequest(b))
                        /\ WF_loopVars(Written(b) \/ BindRTCPWriterStart(b))
    /\ \A c \in Closers : WF_loopVars(CloseReturn(c))
    /\ \A r \in Callers : SF_loopVars(Leave(r))

LoopsSpec == LoopsInit /\ [][LoopsNext]_loopVars /\ LoopsFairness
-----------------------------------------------------------------------------
\* Once any call of Close has returned, no loop starts, records or writes
\* (Close, BindRTCPWriter and loop).  Not so for rfc8888, whose Close does not
\* take the lock of BindRTCPWriter.
LoopsQuiet == kind # "rfc8888" /\ \E c \in Closers : closers[c] = "returned"
QuietAfterClose == [][LoopsQuiet => UNCHANGED loops]_loopVars

\* Every call of Close returns, whatever the loops and the callers are doing, and
\* also when Close came in the middle of a BindRTCPWriter.
CloseReturns ==
    \A c \in Closers : (closers[c] = "waiting") ~> (closers[c] = "returned")

\* A caller that hands over a packet or a request gets away once a loop runs:
\* neither a loop that ends nor other callers hold it for ever.  When the
\* interceptor is closed this is so for twcc and dump, whose sends give up; the
\* readers of rfc8888 and the callers of ForcePLI stay.
CallersReturn ==
    \A r \in Callers :
        (callers[r] = "offering" /\ (Alive # {} \/ closed)) ~>
            (callers[r] = "idle" \/ (closed /\ kind \in {"rfc8888", "pli"}))

\* "New streams need to receive a PLI as soon as possible"
\* (generator_interceptor.go:187): while a loop runs, every stream that is bound
\* gets a PLI, also without an interval, and when streams are bound together.
NewStreamsGetPLI ==
    \A r \in Callers :
        (r \in streams /\ Alive # {}) ~> (r \in plis \/ closed)
=============================================================================
