--------------------------- MODULE NackGenerator ---------------------------
(***************************************************************************)
(* pkg/nack/generator_interceptor.go: the receive logs of the bound remote *)
(* streams, the goroutine that asks for their missing packets on every     *)
(* tick, and the life cycle of both.                                       *)
(*                                                                         *)
(* receiveLogs and nackCountLogs are maps, so functions with a changing    *)
(* domain.  receiveLogsMu is held for a whole bind, unbind or tick, and m  *)
(* for a whole BindRTCPWriter or Close, so each is one action; the writes  *)
(* of a tick happen after the unlock and are actions of their own.         *)
(*                                                                         *)
(* A reader whose stream was unbound keeps feeding the log it was made     *)
(* with, which no other code can reach any more: it takes no step here.    *)
(***************************************************************************)
EXTENDS ReceiveLog, Functions

CONSTANTS SSRCs,            \* the remote streams that support NACK
          Loops,            \* the calls of BindRTCPWriter
          Closers,          \* the callers of Close
          MaxNacksChoices,  \* values of the option maxNacksPerPacket
          SkipLastNChoices, \* values of the option skipLastN: up to half the number
                            \* space, as larger ones run the loop past its slice
                            \* (MissingFits of ReceiveLogStream)
          CountModulus,     \* 2^16: the width of a count in nackCountLogs
          CountCeiling,     \* bound: a tick starts with counts below this
          MaxLate,          \* bound on how late a packet arrives
          MaxTravel         \* bound on how far a stream gets in one interval

ASSUME GeneratorAssumption ==
    /\ IsFiniteSet(Loops)
    /\ MaxNacksChoices \subseteq Nat
    /\ SkipLastNChoices \subseteq 0 .. Half
    /\ CountModulus \in Nat \ {0} /\ CountCeiling \in Nat
    /\ MaxLate \in Nat /\ MaxTravel \in Nat

VARIABLES
    options,        \* [maxNacksPerPacket, skipLastN], fixed at construction
    receiveLogs,    \* SSRC -> receive log
    nackCountLogs,  \* SSRC -> number -> count
    loops,          \* per BindRTCPWriter call: pc, and the NACKs not yet written
    wg,             \* the WaitGroup's counter
    closed,         \* the channel close is closed
    closers,        \* per caller of Close: idle, waiting in wg.Wait, returned
    asked,          \* history: SSRC -> number -> NACKs prepared for this loss
    travel          \* history: SSRC -> numbers passed since the last tick

vars == <<options, receiveLogs, nackCountLogs, loops, wg, closed, closers,
          asked, travel>>
-----------------------------------------------------------------------------
EmptyMap == [seq \in {} |-> 0]

\* Reading a Go map: zero for a key it does not have.
Count(counts, seq) == IF seq \in DOMAIN counts THEN counts[seq] ELSE 0

Put(map, key, value) ==
    [k \in DOMAIN map \cup {key} |-> IF k = key THEN value ELSE map[k]]

Delete(map, key) == Restrict(map, DOMAIN map \ {key})

Missing(ssrc) == missingSeqNumbers(receiveLogs[ssrc], options.skipLastN)
-----------------------------------------------------------------------------
Init ==
    /\ options \in [maxNacksPerPacket : MaxNacksChoices,
                    skipLastN         : SkipLastNChoices]
    /\ receiveLogs = EmptyMap
    /\ nackCountLogs = EmptyMap
    /\ loops = [l \in Loops |-> [pc |-> "none", toSend |-> {}]]
    /\ wg = 0
    /\ closed = FALSE
    /\ closers = [c \in Closers |-> "idle"]
    /\ asked = EmptyMap
    /\ travel = EmptyMap

\* Fault: a loop is started though the interceptor is closed.
BindRTCPWriterUnchecked(l) ==
    /\ loops[l].pc = "none"
    /\ wg' = wg + 1
    /\ loops' = [loops EXCEPT ![l].pc = "select"]
    /\ UNCHANGED <<options, receiveLogs, nackCountLogs, closed, closers,
                   asked, travel>>

BindRTCPWriter(l) ==
    /\ loops[l].pc = "none"
    /\ ~closed
    /\ wg' = wg + 1
    /\ loops' = [loops EXCEPT ![l].pc = "select"]
    /\ UNCHANGED <<options, receiveLogs, nackCountLogs, closed, closers,
                   asked, travel>>

\* A stream is bound once before it is unbound.
BindRemoteStream(ssrc) ==
    /\ ssrc \notin DOMAIN receiveLogs
    /\ receiveLogs' = Put(receiveLogs, ssrc, newReceiveLog)
    /\ asked' = Put(asked, ssrc, EmptyMap)
    /\ travel' = Put(travel, ssrc, 0)
    /\ UNCHANGED <<options, nackCountLogs, loops, wg, closed, closers>>

\* Fault: the count log outlives the stream.
UnbindRemoteStreamKeepingCounts(ssrc) ==
    /\ ssrc \in DOMAIN receiveLogs
    /\ receiveLogs' = Delete(receiveLogs, ssrc)
    /\ asked' = Delete(asked, ssrc)
    /\ travel' = Delete(travel, ssrc)
    /\ UNCHANGED <<options, nackCountLogs, loops, wg, closed, closers>>

UnbindRemoteStream(ssrc) ==
    /\ ssrc \in DOMAIN receiveLogs
    /\ receiveLogs' = Delete(receiveLogs, ssrc)
    /\ nackCountLogs' = Delete(nackCountLogs, ssrc)
    /\ asked' = Delete(asked, ssrc)
    /\ travel' = Delete(travel, ssrc)
    /\ UNCHANGED <<options, loops, wg, closed, closers>>

\* The reader of a bound stream returns a packet.
Read(ssrc, seq) ==
    /\ ssrc \in DOMAIN receiveLogs
    /\ LET log     == receiveLogs[ssrc]
           ahead   == log.started /\ IsAhead(seq, log.end)
           jump    == IF ahead THEN Minus(seq, log.end) ELSE 0
           added   == add(log, seq)
           missing == missingSeqNumbers(added, options.skipLastN)
       IN  /\ log.started => ahead \/ Minus(log.end, seq) <= MaxLate
           /\ travel[ssrc] + jump <= MaxTravel
           /\ receiveLogs' = [receiveLogs EXCEPT ![ssrc] = added]
           /\ travel' = [travel EXCEPT ![ssrc] = @ + jump]
           /\ asked' = [asked EXCEPT ![ssrc] = Restrict(@, DOMAIN @ \cap missing)]
    /\ UNCHANGED <<options, nackCountLogs, loops, wg, closed, closers>>
-----------------------------------------------------------------------------
(***************************************************************************)
(* One stream's share of a tick, from the counts it starts with.           *)
(***************************************************************************)
Started(ssrc) ==
    IF Missing(ssrc) = {} \/ ssrc \notin DOMAIN nackCountLogs
      THEN EmptyMap
      ELSE nackCountLogs[ssrc]

\* filteredMissingPacket, or all of missing when there is no maximum.
Requested(ssrc) ==
    IF options.maxNacksPerPacket = 0
      THEN Missing(ssrc)
      ELSE {seq \in Missing(ssrc) :
                Count(Started(ssrc), seq) < options.maxNacksPerPacket}

\* Every missing number is counted, requested or not.
Bumped(ssrc) ==
    IF options.maxNacksPerPacket = 0
      THEN Started(ssrc)
      ELSE [seq \in DOMAIN Started(ssrc) \cup Missing(ssrc) |->
                IF seq \in Missing(ssrc)
                  THEN (Count(Started(ssrc), seq) + 1) % CountModulus
                  ELSE Started(ssrc)[seq]]

\* Fault: the counts of numbers no longer missing are never dropped.
CountedForEver(ssrc) == Bumped(ssrc)

\* The counts of numbers no longer missing are dropped, but only on the way
\* to a NACK: both continue statements leave the counts as they are.
Counted(ssrc) ==
    IF Requested(ssrc) = {}
      THEN Bumped(ssrc)
      ELSE Restrict(Bumped(ssrc), DOMAIN Bumped(ssrc) \cap Missing(ssrc))

\* An empty count log goes too, again only on the way to a NACK.
Cleaned(ssrc) == Requested(ssrc) # {} /\ Counted(ssrc) = EmptyMap

\* The history of requests for one loss, saturating one above the maximum.
AskedAgain(ssrc, seq) ==
    IF seq \in Requested(ssrc)
      THEN Min({Count(asked[ssrc], seq) + 1, options.maxNacksPerPacket + 1})
      ELSE asked[ssrc][seq]

Tick(l) ==
    /\ loops[l].pc = "select"
    /\ \A ssrc \in DOMAIN nackCountLogs : \A seq \in DOMAIN nackCountLogs[ssrc] :
          nackCountLogs[ssrc][seq] < CountCeiling
    /\ LET bound  == DOMAIN receiveLogs
           kept   == (DOMAIN nackCountLogs \cup bound)
                        \ {ssrc \in bound : Cleaned(ssrc)}
           toSend == {[ssrc |-> ssrc, seqs |-> Requested(ssrc)] :
                         ssrc \in {s \in bound : Requested(s) # {}}}
       IN  /\ nackCountLogs' = [ssrc \in kept |->
                  IF ssrc \in bound THEN Counted(ssrc) ELSE nackCountLogs[ssrc]]
           /\ loops' = [loops EXCEPT ![l] =
                  [pc     |-> IF toSend = {} THEN "select" ELSE "send",
                   toSend |-> toSend]]
           /\ asked' = [ssrc \in bound |->
                  [seq \in DOMAIN asked[ssrc] \cup Requested(ssrc) |->
                      AskedAgain(ssrc, seq)]]
           /\ travel' = [ssrc \in bound |-> 0]
    /\ UNCHANGED <<options, receiveLogs, wg, closed, closers>>

\* One write of the tick's NACKs; an error is only logged.
Send(l) ==
    /\ loops[l].pc = "send"
    /\ \E nack \in loops[l].toSend :
          LET rest == loops[l].toSend \ {nack}
          IN  loops' = [loops EXCEPT ![l] =
                  [pc |-> IF rest = {} THEN "select" ELSE "send", toSend |-> rest]]
    /\ UNCHANGED <<options, receiveLogs, nackCountLogs, wg, closed, closers,
                   asked, travel>>

\* Fault: wg.Done is called twice.
StopDoneTwice(l) ==
    /\ loops[l].pc = "select"
    /\ closed
    /\ loops' = [loops EXCEPT ![l].pc = "done"]
    /\ wg' = wg - 2
    /\ UNCHANGED <<options, receiveLogs, nackCountLogs, closed, closers,
                   asked, travel>>

\* Fault: wg.Done is not called.
StopWithoutDone(l) ==
    /\ loops[l].pc = "select"
    /\ closed
    /\ loops' = [loops EXCEPT ![l].pc = "done"]
    /\ UNCHANGED <<options, receiveLogs, nackCountLogs, wg, closed, closers,
                   asked, travel>>

\* The loop takes the close branch and leaves, running wg.Done.
Stop(l) ==
    /\ loops[l].pc = "select"
    /\ closed
    /\ loops' = [loops EXCEPT ![l].pc = "done"]
    /\ wg' = wg - 1
    /\ UNCHANGED <<options, receiveLogs, nackCountLogs, closed, closers,
                   asked, travel>>

Close(c) ==
    /\ closers[c] = "idle"
    /\ closed' = TRUE
    /\ closers' = [closers EXCEPT ![c] = "waiting"]
    /\ UNCHANGED <<options, receiveLogs, nackCountLogs, loops, wg, asked, travel>>

\* wg.Wait, deferred before the lock and so run after the unlock, returns.
CloseReturn(c) ==
    /\ closers[c] = "waiting"
    /\ wg = 0
    /\ closers' = [closers EXCEPT ![c] = "returned"]
    /\ UNCHANGED <<options, receiveLogs, nackCountLogs, loops, wg, closed,
                   asked, travel>>
-----------------------------------------------------------------------------
Next ==
    \/ \E l \in Loops : BindRTCPWriter(l) \/ Tick(l) \/ Send(l) \/ Stop(l)
    \/ \E ssrc \in SSRCs : BindRemoteStream(ssrc) \/ UnbindRemoteStream(ssrc)
    \/ \E ssrc \in SSRCs, seq \in SeqNums : Read(ssrc, seq)
    \/ \E c \in Closers : Close(c) \/ CloseReturn(c)

\* A write returns; the scheduler runs what can run; and a select that keeps
\* finding close ready does not choose the ticker for ever.
Fairness ==
    /\ \A l \in Loops : WF_vars(Send(l)) /\ SF_vars(Stop(l))
    /\ \A c \in Closers : WF_vars(CloseReturn(c))

Spec == Init /\ [][Next]_vars /\ Fairness
-----------------------------------------------------------------------------
TypeOK ==
    /\ options \in [maxNacksPerPacket : MaxNacksChoices,
                    skipLastN         : SkipLastNChoices]
    /\ DOMAIN receiveLogs \subseteq SSRCs
    /\ \A ssrc \in DOMAIN receiveLogs : receiveLogs[ssrc] \in Log
    /\ \A ssrc \in DOMAIN nackCountLogs :
          /\ DOMAIN nackCountLogs[ssrc] \subseteq SeqNums
          /\ Range(nackCountLogs[ssrc]) \subseteq 0 .. CountModulus - 1
    /\ \A l \in Loops : loops[l].pc \in {"none", "select", "send", "done"}
    /\ wg \in 0 .. Cardinality(Loops)
    /\ closed \in BOOLEAN
    /\ closers \in [Closers -> {"idle", "waiting", "returned"}]
    /\ DOMAIN asked = DOMAIN receiveLogs
    /\ travel \in [DOMAIN receiveLogs -> 0 .. MaxTravel]

(***************************************************************************)
(* The count that decides whether a missing number is asked for again is   *)
(* the number of requests already made for this very loss, as far as the   *)
(* limit can tell: no count of an earlier loss of the same number, of an   *)
(* earlier stream with the same SSRC, or left behind by one of loop's two  *)
(* continue statements ever stands in its way, and none is forgotten while *)
(* the number stays missing (generator_interceptor.go, loop and            *)
(* UnbindRemoteStream).                                                    *)
(***************************************************************************)
CountsExact ==
    LET max == options.maxNacksPerPacket
    IN  max > 0 =>
          \A ssrc \in DOMAIN receiveLogs : \A seq \in Missing(ssrc) :
             LET counts == IF ssrc \in DOMAIN nackCountLogs
                             THEN nackCountLogs[ssrc] ELSE EmptyMap
                 count  == Count(counts, seq)
             IN  Count(asked[ssrc], seq) = IF count < max THEN count ELSE max

(***************************************************************************)
(* With a maximum set, a missing packet is asked for at most that many     *)
(* times (generator_option.go, GeneratorMaxNacksPerPacket: "a missing      *)
(* packet will only be NACKed at most twice").                             *)
(***************************************************************************)
AtMostMaxNacks ==
    options.maxNacksPerPacket > 0 =>
        \A ssrc \in DOMAIN asked : \A seq \in DOMAIN asked[ssrc] :
            asked[ssrc][seq] <= options.maxNacksPerPacket

(***************************************************************************)
(* Counts are kept for bound streams only: an unbind racing with a tick    *)
(* leaves no entry behind that a later stream with the SSRC would inherit  *)
(* (generator_interceptor.go, UnbindRemoteStream: "the count logs must     *)
(* also be dropped for the specific SSRC").                                *)
(***************************************************************************)
CountsOnlyForBound == DOMAIN nackCountLogs \subseteq DOMAIN receiveLogs

(***************************************************************************)
(* Once any call of Close has returned, no loop starts, ticks or writes:   *)
(* the writer it was given may be torn down (generator_interceptor.go,     *)
(* BindRTCPWriter, Close and loop).                                        *)
(***************************************************************************)
QuietAfterClose ==
    [][(\E c \in Closers : closers[c] = "returned") => UNCHANGED loops]_vars

\* Every call of Close returns, whatever ticks and writes are in progress
\* (generator_interceptor.go, Close and loop).
CloseReturns ==
    \A c \in Closers : closers[c] = "waiting" ~> closers[c] = "returned"
=============================================================================
