------------------------ MODULE NackGeneratorProofs ------------------------
(***************************************************************************)
(* Proofs about NackGenerator for every width of the numbers, size of the  *)
(* log, set of streams, loops and callers of Close: the types, the wait    *)
(* group and the silence after Close, and that a count is the number of    *)
(* requests made for the loss it stands for.                               *)
(***************************************************************************)
EXTENDS NackGenerator, ReceiveLogProofs, FiniteSetTheorems, TLAPS

\* The loops the wait group stands for.
Running == {l \in Loops : loops[l].pc \in {"select", "send"}}

\* One NACK of a tick.
Nack == [ssrc : SSRCs, seqs : SUBSET SeqNums]

\* Where a loop and a call of Close may be.
LoopsType ==
    /\ loops \in [Loops -> [pc     : {"none", "select", "send", "done"},
                            toSend : SUBSET Nack]]
    /\ closed \in BOOLEAN
    /\ closers \in [Closers -> {"idle", "waiting", "returned"}]

(***************************************************************************)
(* The wait group counts the loops that run; a Close that waits has closed *)
(* the interceptor; and when one has returned no loop runs.                *)
(***************************************************************************)
LoopsInv ==
    /\ LoopsType
    /\ wg = Cardinality(Running)
    /\ \A c \in Closers : closers[c] # "idle" => closed
    /\ \A c \in Closers : closers[c] = "returned" => Running = {}

\* The maps of the streams.
StreamsType ==
    /\ options \in [maxNacksPerPacket : MaxNacksChoices,
                    skipLastN         : SkipLastNChoices]
    /\ DOMAIN receiveLogs \subseteq SSRCs
    /\ receiveLogs = [s \in DOMAIN receiveLogs |-> receiveLogs[s]]
    /\ \A s \in DOMAIN receiveLogs : GoodLog(receiveLogs[s])
    /\ DOMAIN nackCountLogs \subseteq DOMAIN receiveLogs
    /\ nackCountLogs = [s \in DOMAIN nackCountLogs |-> nackCountLogs[s]]
    /\ \A s \in DOMAIN nackCountLogs :
          /\ DOMAIN nackCountLogs[s] \subseteq SeqNums
          /\ nackCountLogs[s] \in [DOMAIN nackCountLogs[s] -> 0 .. CountModulus - 1]
    /\ asked = [s \in DOMAIN receiveLogs |-> asked[s]]
    /\ travel \in [DOMAIN receiveLogs -> 0 .. MaxTravel]

TypeInv == LoopsInv /\ StreamsType
-----------------------------------------------------------------------------
\* The loops that run are finitely many, and no more than there are loops.
LEMMA RunningFinite ==
    /\ IsFiniteSet(Running)
    /\ Cardinality(Running) \in 0 .. Cardinality(Loops)
  <1>1. IsFiniteSet(Loops) /\ Running \subseteq Loops
    BY GeneratorAssumption DEF Running
  <1>2. IsFiniteSet(Running) /\ Cardinality(Running) <= Cardinality(Loops)
    BY <1>1, FS_Subset
  <1>3. Cardinality(Running) \in Nat /\ Cardinality(Loops) \in Nat
    BY <1>1, <1>2, FS_CardinalityType
  <1> QED  BY <1>2, <1>3

\* wg.Add goes with a loop more; a loop is only started while the interceptor
\* is open, so no Close has returned.
LEMMA BindCounts ==
    ASSUME LoopsInv, NEW l \in Loops, BindRTCPWriter(l)
    PROVE  LoopsInv'
  <1>1. LoopsType'
    BY DEF LoopsInv, LoopsType, BindRTCPWriter
  <1>2. Running' = Running \cup {l} /\ l \notin Running
    BY DEF LoopsInv, LoopsType, BindRTCPWriter, Running
  <1>3. Cardinality(Running') = Cardinality(Running) + 1
    BY <1>2, RunningFinite, FS_AddElement
  <1>4. /\ \A c \in Closers : closers'[c] # "idle" => closed'
        /\ \A c \in Closers : closers'[c] # "returned"
    BY DEF LoopsInv, LoopsType, BindRTCPWriter
  <1> QED  BY <1>1, <1>3, <1>4 DEF LoopsInv, BindRTCPWriter

\* wg.Done goes with a loop less.
LEMMA StopCounts ==
    ASSUME LoopsInv, NEW l \in Loops, Stop(l)
    PROVE  LoopsInv'
  <1>1. LoopsType'
    BY DEF LoopsInv, LoopsType, Stop
  <1>2. Running' = Running \ {l} /\ l \in Running
    BY DEF LoopsInv, LoopsType, Stop, Running
  <1>3. Cardinality(Running') = Cardinality(Running) - 1
    BY <1>2, RunningFinite, FS_RemoveElement
  <1>4. /\ \A c \in Closers : closers'[c] # "idle" => closed'
        /\ \A c \in Closers : closers'[c] = "returned" => Running' = {}
    BY <1>2 DEF LoopsInv, LoopsType, Stop
  <1> QED  BY <1>1, <1>3, <1>4 DEF LoopsInv, Stop

\* A tick and a write leave a loop running.
LEMMA MoveCounts ==
    ASSUME LoopsInv, NEW l \in Loops, l \in Running,
           NEW pc \in {"select", "send"}, NEW toSend \in SUBSET Nack,
           loops' = [loops EXCEPT ![l] = [pc |-> pc, toSend |-> toSend]],
           UNCHANGED <<wg, closed, closers>>
    PROVE  LoopsInv'
  <1>1. LoopsType' /\ Running' = Running
    BY DEF LoopsInv, LoopsType, Running
  <1> QED  BY <1>1 DEF LoopsInv

\* Close closes; it returns when the wait group is at zero, so when no loop runs.
LEMMA CloseCounts ==
    ASSUME LoopsInv, NEW c \in Closers, Close(c) \/ CloseReturn(c)
    PROVE  LoopsInv'
  <1>1. LoopsType' /\ Running' = Running /\ wg' = wg
    BY DEF LoopsInv, LoopsType, Close, CloseReturn, Running
  <1>2. \A x \in Closers : closers'[x] # "idle" => closed'
    BY DEF LoopsInv, LoopsType, Close, CloseReturn
  <1>3. CASE Close(c)
    <2>1. \A x \in Closers : closers'[x] = "returned" => Running' = {}
      BY <1>1, <1>3 DEF LoopsInv, LoopsType, Close
    <2> QED  BY <1>1, <1>2, <2>1 DEF LoopsInv
  <1>4. CASE CloseReturn(c)
    <2>1. Running = {}
      BY <1>4, RunningFinite, FS_EmptySet DEF LoopsInv, CloseReturn
    <2> QED  BY <1>1, <1>2, <2>1 DEF LoopsInv
  <1> QED  BY <1>3, <1>4
-----------------------------------------------------------------------------
\* The numbers a bound stream misses are numbers, less than Size behind its end.
LEMMA MissingNear ==
    ASSUME StreamsType, NEW s \in DOMAIN receiveLogs
    PROVE  /\ options.skipLastN \in 0 .. Half
           /\ options.maxNacksPerPacket \in Nat
           /\ Missing(s) \subseteq SeqNums
           /\ \A x \in Missing(s) : Minus(receiveLogs[s].end, x) < Size
  <1>1. options.skipLastN \in 0 .. Half /\ options.maxNacksPerPacket \in Nat
    BY GeneratorAssumption DEF StreamsType
  <1>2. GoodLog(receiveLogs[s])
    BY DEF StreamsType
  <1> QED  BY <1>1, <1>2, MissingInWindow DEF Missing

\* A tick leaves counts of the width the code gives them, for numbers.
LEMMA CountedType ==
    ASSUME StreamsType, NEW s \in DOMAIN receiveLogs
    PROVE  /\ DOMAIN Counted(s) \subseteq SeqNums
           /\ Counted(s) \in [DOMAIN Counted(s) -> 0 .. CountModulus - 1]
           /\ Requested(s) \subseteq SeqNums
  <1>1. Missing(s) \subseteq SeqNums
    BY MissingNear
  <1>2. /\ DOMAIN Started(s) \subseteq SeqNums
        /\ Started(s) \in [DOMAIN Started(s) -> 0 .. CountModulus - 1]
    BY DEF StreamsType, Started, EmptyMap
  <1>3. CountModulus \in Nat \ {0}
    BY GeneratorAssumption
  <1>4. ASSUME NEW x
        PROVE  (Count(Started(s), x) + 1) % CountModulus \in 0 .. CountModulus - 1
    <2>1. Count(Started(s), x) \in Nat
      BY <1>2, <1>3 DEF Count
    <2> HIDE DEF Count
    <2> QED  BY <1>3, <2>1
  <1>5. /\ DOMAIN Bumped(s) \subseteq SeqNums
        /\ Bumped(s) \in [DOMAIN Bumped(s) -> 0 .. CountModulus - 1]
    <2>1. CASE options.maxNacksPerPacket = 0
      BY <1>2, <2>1 DEF Bumped
    <2>2. CASE options.maxNacksPerPacket # 0
      BY <1>1, <1>2, <1>4, <2>2 DEF Bumped
    <2> QED  BY <2>1, <2>2
  <1>6. /\ DOMAIN Counted(s) \subseteq SeqNums
        /\ Counted(s) \in [DOMAIN Counted(s) -> 0 .. CountModulus - 1]
    BY <1>5 DEF Counted, Restrict
  <1>7. Requested(s) \subseteq SeqNums
    BY <1>1 DEF Requested
  <1> QED  BY <1>6, <1>7

\* A tick keeps the types.
LEMMA TickTypes ==
    ASSUME TypeInv, NEW l \in Loops, Tick(l)
    PROVE  TypeInv'
  <1> DEFINE bound  == DOMAIN receiveLogs
             kept   == (DOMAIN nackCountLogs \cup bound)
                          \ {s \in bound : Cleaned(s)}
             toSend == {[ssrc |-> s, seqs |-> Requested(s)] :
                           s \in {x \in bound : Requested(x) # {}}}
  <1>1. /\ loops[l].pc = "select"
        /\ nackCountLogs' = [s \in kept |->
                IF s \in bound THEN Counted(s) ELSE nackCountLogs[s]]
        /\ loops' = [loops EXCEPT ![l] =
                [pc |-> IF toSend = {} THEN "select" ELSE "send", toSend |-> toSend]]
        /\ asked' = [s \in bound |-> [seq \in DOMAIN asked[s] \cup Requested(s) |->
                AskedAgain(s, seq)]]
        /\ travel' = [s \in bound |-> 0]
        /\ UNCHANGED <<options, receiveLogs, wg, closed, closers>>
    BY DEF Tick
  <1>2. bound \subseteq SSRCs /\ DOMAIN nackCountLogs \subseteq bound
    BY DEF TypeInv, StreamsType
  <1>3. LoopsInv'
    <2>1. toSend \in SUBSET Nack
      <3>1. ASSUME NEW s \in bound
            PROVE  [ssrc |-> s, seqs |-> Requested(s)] \in Nack
        BY <1>2, CountedType DEF TypeInv, Nack
      <3> QED  BY <3>1
    <2>2. l \in Running
      BY <1>1 DEF Running
    <2>3. PICK pc \in {"select", "send"} :
              loops' = [loops EXCEPT ![l] = [pc |-> pc, toSend |-> toSend]]
      BY <1>1
    <2> HIDE DEF toSend
    <2> QED  BY <1>1, <2>1, <2>2, <2>3, MoveCounts DEF TypeInv
  <1>4. StreamsType'
    <2> HIDE DEF toSend
    <2>1. DOMAIN nackCountLogs' \subseteq bound
          /\ nackCountLogs' = [s \in DOMAIN nackCountLogs' |-> nackCountLogs'[s]]
      BY <1>1, <1>2
    <2>2. \A s \in DOMAIN nackCountLogs' : nackCountLogs'[s] = Counted(s)
      BY <1>1, <1>2
    <2>3. \A s \in DOMAIN nackCountLogs' :
              /\ DOMAIN nackCountLogs'[s] \subseteq SeqNums
              /\ nackCountLogs'[s] \in
                    [DOMAIN nackCountLogs'[s] -> 0 .. CountModulus - 1]
      BY <2>1, <2>2, CountedType DEF TypeInv
    <2>4. asked' = [s \in bound |-> asked'[s]] /\ travel' \in [bound -> 0 .. MaxTravel]
      BY <1>1, GeneratorAssumption
    <2> QED  BY <1>1, <2>1, <2>3, <2>4 DEF TypeInv, StreamsType
  <1> QED  BY <1>3, <1>4 DEF TypeInv

\* A bind puts in a new log; an unbind takes out the log and its counts.
LEMMA BindTypes ==
    ASSUME TypeInv, NEW s \in SSRCs, BindRemoteStream(s) \/ UnbindRemoteStream(s)
    PROVE  TypeInv'
  <1>1. LoopsInv'
    BY DEF TypeInv, LoopsInv, LoopsType, Running, BindRemoteStream, UnbindRemoteStream
  <1>2. CASE BindRemoteStream(s)
    <2>1. /\ DOMAIN receiveLogs' = DOMAIN receiveLogs \cup {s}
          /\ receiveLogs' = [x \in DOMAIN receiveLogs' |-> receiveLogs'[x]]
          /\ \A x \in DOMAIN receiveLogs' :
                receiveLogs'[x] = IF x = s THEN newReceiveLog ELSE receiveLogs[x]
          /\ UNCHANGED <<options, nackCountLogs>>
      BY <1>2 DEF BindRemoteStream, Put
    <2>2. \A x \in DOMAIN receiveLogs' : GoodLog(receiveLogs'[x])
      BY <2>1, NewLog DEF TypeInv, StreamsType
    <2>3. DOMAIN asked = DOMAIN receiveLogs /\ DOMAIN travel = DOMAIN receiveLogs
      BY DEF TypeInv, StreamsType
    <2>4. asked' = [x \in DOMAIN receiveLogs' |-> asked'[x]]
      BY <1>2, <2>1, <2>3 DEF BindRemoteStream, Put
    <2>5. travel' \in [DOMAIN receiveLogs' -> 0 .. MaxTravel]
      BY <1>2, <2>1, <2>3, GeneratorAssumption
         DEF BindRemoteStream, Put, TypeInv, StreamsType
    <2>6. StreamsType'
      BY <2>1, <2>2, <2>4, <2>5 DEF TypeInv, StreamsType
    <2> QED  BY <1>1, <2>6 DEF TypeInv
  <1>3. CASE UnbindRemoteStream(s)
    <2>1. /\ DOMAIN receiveLogs' = DOMAIN receiveLogs \ {s}
          /\ receiveLogs' = [x \in DOMAIN receiveLogs' |-> receiveLogs'[x]]
          /\ \A x \in DOMAIN receiveLogs' : receiveLogs'[x] = receiveLogs[x]
          /\ options' = options
      BY <1>3 DEF UnbindRemoteStream, Delete, Restrict
    <2>2. /\ DOMAIN nackCountLogs' = DOMAIN nackCountLogs \ {s}
          /\ nackCountLogs' = [x \in DOMAIN nackCountLogs' |-> nackCountLogs'[x]]
          /\ \A x \in DOMAIN nackCountLogs' : nackCountLogs'[x] = nackCountLogs[x]
      BY <1>3 DEF UnbindRemoteStream, Delete, Restrict
    <2>3. DOMAIN asked = DOMAIN receiveLogs /\ DOMAIN travel = DOMAIN receiveLogs
      BY DEF TypeInv, StreamsType
    <2>4. /\ asked' = [x \in DOMAIN receiveLogs' |-> asked'[x]]
          /\ travel' \in [DOMAIN receiveLogs' -> 0 .. MaxTravel]
      BY <1>3, <2>1, <2>3 DEF UnbindRemoteStream, Delete, Restrict, TypeInv, StreamsType
    <2>5. StreamsType'
      BY <2>1, <2>2, <2>4 DEF TypeInv, StreamsType
    <2> QED  BY <1>1, <2>5 DEF TypeInv
  <1> QED  BY <1>2, <1>3

\* A packet changes the log, the history and the travel of its own stream.
LEMMA ReadTypes ==
    ASSUME TypeInv, NEW s \in SSRCs, NEW seq \in SeqNums, Read(s, seq)
    PROVE  TypeInv'
  <1>1. LoopsInv'
    BY DEF TypeInv, LoopsInv, LoopsType, Running, Read
  <1> DEFINE log  == receiveLogs[s]
             jump == IF log.started /\ IsAhead(seq, log.end)
                       THEN Minus(seq, log.end) ELSE 0
  <1>2. /\ s \in DOMAIN receiveLogs
        /\ travel[s] + jump <= MaxTravel
        /\ receiveLogs' = [receiveLogs EXCEPT ![s] = add(log, seq)]
        /\ travel' = [travel EXCEPT ![s] = @ + jump]
        /\ DOMAIN asked' = DOMAIN asked
        /\ asked' = [x \in DOMAIN asked' |-> asked'[x]]
        /\ UNCHANGED <<options, nackCountLogs>>
    BY DEF Read
  <1>3. GoodLog(log) /\ log.end \in SeqNums
    BY <1>2 DEF TypeInv, StreamsType, GoodLog, Log
  <1>4. jump \in Nat
    BY <1>3, PlusMinusType
  <1> HIDE DEF jump, log
  <1>5. /\ DOMAIN receiveLogs' = DOMAIN receiveLogs
        /\ receiveLogs' = [x \in DOMAIN receiveLogs |-> receiveLogs'[x]]
        /\ \A x \in DOMAIN receiveLogs :
              receiveLogs'[x] = IF x = s THEN add(log, seq) ELSE receiveLogs[x]
    BY <1>2 DEF TypeInv, StreamsType
  <1>6. \A x \in DOMAIN receiveLogs' : GoodLog(receiveLogs'[x])
    BY <1>3, <1>5, AddKeeps DEF TypeInv, StreamsType
  <1>7. travel' \in [DOMAIN receiveLogs -> 0 .. MaxTravel]
    BY <1>2, <1>4, GeneratorAssumption DEF TypeInv, StreamsType
  <1>8. asked' = [x \in DOMAIN receiveLogs |-> asked'[x]]
    BY <1>2 DEF TypeInv, StreamsType
  <1>9. StreamsType'
    BY <1>2, <1>5, <1>6, <1>7, <1>8 DEF TypeInv, StreamsType
  <1> QED  BY <1>1, <1>9 DEF TypeInv

\* The types hold at first: no stream, no loop.
LEMMA TypeInit == Init => TypeInv
  <1> SUFFICES ASSUME Init PROVE TypeInv
    OBVIOUS
  <1>1. LoopsType /\ Running = {}
    BY DEF Init, LoopsType, Running, Nack
  <1>2. LoopsInv
    BY <1>1, FS_EmptySet DEF Init, LoopsInv
  <1>3. StreamsType
    BY DEF Init, StreamsType, EmptyMap
  <1> QED  BY <1>2, <1>3 DEF TypeInv

\* Every step keeps the types and the count of the wait group.
LEMMA TypeNext == TypeInv /\ [Next]_vars => TypeInv'
  <1> SUFFICES ASSUME TypeInv, [Next]_vars PROVE TypeInv'
    OBVIOUS
  <1>1. CASE UNCHANGED vars
    BY <1>1 DEF vars, TypeInv, LoopsInv, LoopsType, Running, StreamsType
  <1>2. ASSUME UNCHANGED <<options, receiveLogs, nackCountLogs, asked, travel>>, LoopsInv'
        PROVE  TypeInv'
    BY <1>2 DEF TypeInv, StreamsType
  <1>3. ASSUME NEW l \in Loops, BindRTCPWriter(l) PROVE TypeInv'
    BY <1>2, <1>3, BindCounts DEF TypeInv, BindRTCPWriter
  <1>4. ASSUME NEW l \in Loops, Stop(l) PROVE TypeInv'
    BY <1>2, <1>4, StopCounts DEF TypeInv, Stop
  <1>5. ASSUME NEW l \in Loops, Send(l) PROVE TypeInv'
    <2>1. PICK nack \in loops[l].toSend : loops' = [loops EXCEPT ![l] =
              [pc     |-> IF loops[l].toSend \ {nack} = {} THEN "select" ELSE "send",
               toSend |-> loops[l].toSend \ {nack}]]
      BY <1>5 DEF Send
    <2> DEFINE rest == loops[l].toSend \ {nack}
    <2>2. rest \in SUBSET Nack /\ l \in Running
      BY <1>5 DEF Send, Running, TypeInv, LoopsInv, LoopsType
    <2>3. PICK pc \in {"select", "send"} :
              loops' = [loops EXCEPT ![l] = [pc |-> pc, toSend |-> rest]]
      BY <2>1
    <2> HIDE DEF rest
    <2>4. UNCHANGED <<wg, closed, closers, options, receiveLogs, nackCountLogs,
                      asked, travel>>
      BY <1>5 DEF Send
    <2>5. LoopsInv'
      BY <2>2, <2>3, <2>4, MoveCounts DEF TypeInv
    <2> QED  BY <1>2, <2>4, <2>5
  <1>6. ASSUME NEW c \in Closers, Close(c) \/ CloseReturn(c) PROVE TypeInv'
    BY <1>2, <1>6, CloseCounts DEF TypeInv, Close, CloseReturn
  <1> QED
    BY <1>1, <1>3, <1>4, <1>5, <1>6, TickTypes, BindTypes, ReadTypes DEF Next

\* So they hold always.
LEMMA TypeAlways == Spec => []TypeInv
  BY TypeInit, TypeNext, PTL DEF Spec
-----------------------------------------------------------------------------
(***************************************************************************)
(* The state keeps its types: in particular the wait group never goes      *)
(* below zero, where sync.WaitGroup panics, nor above the number of loops, *)
(* and a count keeps its width.                                            *)
(***************************************************************************)
THEOREM GeneratorTypes == Spec => []TypeOK
  <1>1. TypeInv => TypeOK
    <2> SUFFICES ASSUME TypeInv PROVE TypeOK
      OBVIOUS
    <2>1. wg \in 0 .. Cardinality(Loops)
      BY RunningFinite DEF TypeInv, LoopsInv
    <2>2. \A s \in DOMAIN nackCountLogs :
              Range(nackCountLogs[s]) \subseteq 0 .. CountModulus - 1
      BY DEF TypeInv, StreamsType, Range
    <2>3. \A l \in Loops : loops[l].pc \in {"none", "select", "send", "done"}
      BY DEF TypeInv, LoopsInv, LoopsType
    <2>4. \A s \in DOMAIN receiveLogs : receiveLogs[s] \in Log
      BY DEF TypeInv, StreamsType, GoodLog
    <2>5. DOMAIN asked = DOMAIN receiveLogs
      BY DEF TypeInv, StreamsType
    <2> QED
      BY <2>1, <2>2, <2>3, <2>4, <2>5
         DEF TypeOK, TypeInv, LoopsInv, LoopsType, StreamsType
  <1> QED  BY <1>1, TypeAlways, PTL

(***************************************************************************)
(* Counts are kept for bound streams only: an unbind drops them, and a     *)
(* tick, which holds the same mutex, only writes those of bound streams.   *)
(***************************************************************************)
THEOREM CountsOnlyForBoundHolds == Spec => []CountsOnlyForBound
  <1>1. TypeInv => CountsOnlyForBound
    BY DEF TypeInv, StreamsType, CountsOnlyForBound
  <1> QED  BY <1>1, TypeAlways, PTL

(***************************************************************************)
(* Once a call of Close has returned, no loop starts, ticks or writes.     *)
(***************************************************************************)
THEOREM QuietAfterCloseHolds == Spec => QuietAfterClose
  <1>1. TypeInv /\ [Next]_vars
          => [(\E c \in Closers : closers[c] = "returned") => UNCHANGED loops]_vars
    <2> SUFFICES ASSUME TypeInv, Next, NEW c \in Closers, closers[c] = "returned"
                 PROVE  UNCHANGED loops
      OBVIOUS
    <2>1. closed /\ \A l \in Loops : loops[l].pc \notin {"select", "send"}
      BY DEF TypeInv, LoopsInv, Running
    <2>2. ~\E l \in Loops : BindRTCPWriter(l) \/ Tick(l) \/ Send(l) \/ Stop(l)
      BY <2>1 DEF BindRTCPWriter, Tick, Send, Stop
    <2>3. \/ \E s \in SSRCs : BindRemoteStream(s) \/ UnbindRemoteStream(s)
          \/ \E s \in SSRCs, seq \in SeqNums : Read(s, seq)
          \/ \E x \in Closers : Close(x) \/ CloseReturn(x)
      BY <2>2 DEF Next
    <2> QED
      BY <2>3 DEF BindRemoteStream, UnbindRemoteStream, Read, Close, CloseReturn
  <1> QED  BY <1>1, TypeAlways, PTL DEF Spec, QuietAfterClose
-----------------------------------------------------------------------------
\* The counts of one stream, none when it has no entry.
CountsOf(s) == IF s \in DOMAIN nackCountLogs THEN nackCountLogs[s] ELSE EmptyMap

\* The limit's view of a count.
Capped(count, max) == IF count < max THEN count ELSE max

(***************************************************************************)
(* What a stream's counts and the history of its requests have to do with  *)
(* each other, between two ticks: requests are remembered for numbers that *)
(* are missing; a number that has a count is old enough to be asked for,   *)
(* and has been since the last tick, and not so old that the numbers have  *)
(* gone round; the numbers with counts are less than a window apart; and   *)
(* the count of a number that is missing is that of its requests.          *)
(*                                                                         *)
(* The two bounds on the age are what CountsExact needs to be inductive: a *)
(* count left behind by a tick that sent no NACK would otherwise meet its  *)
(* number again one turn later.                                            *)
(***************************************************************************)
StreamInv(log, counts, requests, passed, max, skip) ==
    /\ DOMAIN requests \subseteq missingSeqNumbers(log, skip)
    /\ requests \in [DOMAIN requests -> Nat]
    /\ ~log.started => DOMAIN counts = {}
    /\ \A k \in DOMAIN counts :
          /\ passed + skip <= Minus(log.end, k)
          /\ Minus(log.end, k) < 2 * Size + passed
    /\ \A k, m \in DOMAIN counts : Minus(log.end, k) < Minus(log.end, m) + Size
    /\ \A x \in missingSeqNumbers(log, skip) :
          Count(requests, x) = Capped(Count(counts, x), max)

\* It holds of every bound stream, with a maximum.
CountsInv ==
    options.maxNacksPerPacket > 0 =>
        \A s \in DOMAIN receiveLogs :
            StreamInv(receiveLogs[s], CountsOf(s), asked[s], travel[s],
                      options.maxNacksPerPacket, options.skipLastN)

(***************************************************************************)
(* The assumptions: a log smaller than half the numbers, so any but the    *)
(* largest newReceiveLog accepts; packets late by less than the log; a     *)
(* stream that does not go round between two ticks; counts that do not     *)
(* reach their width.                                                      *)
(***************************************************************************)
CountsAssumption ==
    /\ Size < Half
    /\ MaxLate < Size
    /\ 2 * Size + MaxTravel <= Modulus
    /\ CountModulus > 1 /\ CountCeiling < CountModulus

\* A stream that was just bound.
LEMMA NewStream ==
    ASSUME CountsAssumption, NEW max \in Nat \ {0}, NEW skip \in 0 .. Half
    PROVE  StreamInv(newReceiveLog, EmptyMap, EmptyMap, 0, max, skip)
  <1>1. /\ GoodLog(newReceiveLog) /\ newReceiveLog.end = 0
        /\ newReceiveLog.lastConsecutive = 0
    BY NewLog
  <1>2. newReceiveLog \in Log /\ Minus(newReceiveLog.end, newReceiveLog.lastConsecutive) = 0
    BY <1>1 DEF GoodLog, Minus
  <1>3. \A x \in SeqNums : ~(Minus(0, x) < 0)
    BY HalfAssumption DEF Minus, SeqNums, Modulus
  <1>4. missingSeqNumbers(newReceiveLog, 0) = {}
    BY <1>1, <1>2, <1>3, MissingIs, HalfAssumption
  <1>5. missingSeqNumbers(newReceiveLog, skip) = {}
    BY <1>1, <1>4, MissingSkips DEF CountsAssumption
  <1> QED  BY <1>5 DEF StreamInv, EmptyMap

\* Requests are remembered while their number stays missing.
LEMMA RestrictCount ==
    ASSUME NEW f, NEW M, NEW x \in M
    PROVE  Count(Restrict(f, DOMAIN f \cap M), x) = Count(f, x)
  BY DEF Restrict, Count

\* A number without a count or a request.
LEMMA CountNone ==
    ASSUME NEW f, NEW x, x \notin DOMAIN f
    PROVE  Count(f, x) = 0
  BY DEF Count

(***************************************************************************)
(* A late packet, or one that was there, only shortens what is missing.    *)
(***************************************************************************)
LEMMA ReadBehind ==
    ASSUME CountsAssumption, NEW max \in Nat \ {0}, NEW skip \in 0 .. Half,
           NEW log, NEW counts, NEW requests, NEW passed \in Nat, NEW added,
           StreamInv(log, counts, requests, passed, max, skip),
           log.started, added.started, added.end = log.end,
           missingSeqNumbers(added, skip) \subseteq missingSeqNumbers(log, skip)
    PROVE  StreamInv(added, counts,
                     Restrict(requests, DOMAIN requests \cap missingSeqNumbers(added, skip)),
                     passed, max, skip)
  <1> DEFINE M == missingSeqNumbers(added, skip)
             kept == Restrict(requests, DOMAIN requests \cap M)
  <1>1. DOMAIN kept \subseteq M /\ kept \in [DOMAIN kept -> Nat]
    BY DEF StreamInv, Restrict
  <1>2. \A x \in M : Count(kept, x) = Count(requests, x)
    BY RestrictCount
  <1> HIDE DEF M, kept
  <1>3. M \subseteq missingSeqNumbers(log, skip)
    BY DEF M
  <1>4. \A x \in M : Count(kept, x) = Capped(Count(counts, x), max)
    BY <1>2, <1>3, Zenon DEF StreamInv
  <1>5. StreamInv(added, counts, kept, passed, max, skip)
    BY <1>1, <1>4 DEF StreamInv, M
  <1> QED  BY <1>5 DEF kept, M

(***************************************************************************)
(* A packet ahead: the numbers with counts age by as much as the stream    *)
(* moves, and a number that becomes missing, because it was jumped over or *)
(* because it is no longer among the last skipLastN, has no count.         *)
(***************************************************************************)
LEMMA ReadAheadOf ==
    ASSUME CountsAssumption, NEW max \in Nat \ {0}, NEW skip \in 0 .. Half,
           NEW log, NEW counts, NEW requests, NEW passed \in Nat,
           GoodLog(log), log.started, DOMAIN counts \subseteq SeqNums,
           StreamInv(log, counts, requests, passed, max, skip),
           NEW seq \in SeqNums, IsAhead(seq, log.end),
           passed + Minus(seq, log.end) <= MaxTravel
    PROVE  LET added == addAhead(log, seq)
           IN  StreamInv(added, counts,
                   Restrict(requests, DOMAIN requests \cap missingSeqNumbers(added, skip)),
                   passed + Minus(seq, log.end), max, skip)
  <1> DEFINE added == addAhead(log, seq)
             e     == log.end
             jump  == Minus(seq, e)
             M     == missingSeqNumbers(added, skip)
             old   == missingSeqNumbers(log, skip)
             kept  == Restrict(requests, DOMAIN requests \cap M)
             K     == DOMAIN counts
  <1>0. /\ Size < Half /\ 2 * Size + MaxTravel <= Modulus
        /\ Size \in Nat /\ Half \in Nat /\ MaxTravel \in Nat /\ Modulus \in Nat
    BY SizeAssumption, HalfAssumption, GeneratorAssumption DEF CountsAssumption, Modulus
  <1>1. e \in SeqNums /\ jump \in Nat /\ passed + jump <= MaxTravel
    BY PlusMinusType DEF GoodLog, Log
  <1>2. add(log, seq) = added
    BY DEF add, IsAhead
  <1>3. GoodLog(added) /\ added.started /\ added.end = seq
        /\ missingSeqNumbers(added, 0) =
               {x \in missingSeqNumbers(log, 0)
                        \cup {x \in SeqNums : x # e /\ Minus(x, e) < jump} :
                    Minus(seq, x) < Size}
    BY <1>0, <1>2, AddKeeps, AheadGaps
  <1>4. /\ M = {x \in missingSeqNumbers(added, 0) : Minus(seq, x) >= skip}
        /\ old = {x \in missingSeqNumbers(log, 0) : Minus(e, x) >= skip}
    BY <1>0, <1>3, MissingSkips
  <1>5. DOMAIN kept \subseteq M /\ kept \in [DOMAIN kept -> Nat]
    BY DEF StreamInv, Restrict
  <1>6. \A x \in M : Count(kept, x) = Count(requests, x)
    BY RestrictCount
  <1>7. \A k \in K : /\ passed + skip <= Minus(e, k)
                     /\ Minus(e, k) < 2 * Size + passed
                     /\ k \in SeqNums /\ Minus(e, k) \in Nat
    <2>1. \A k \in K : k \in SeqNums /\ Minus(e, k) \in Nat
      BY <1>1, PlusMinusType
    <2> QED  BY <2>1 DEF StreamInv
  <1>8. \A k, m \in K : Minus(e, k) < Minus(e, m) + Size
    BY DEF StreamInv
  <1>9. DOMAIN requests \subseteq old
        /\ \A x \in old : Count(requests, x) = Capped(Count(counts, x), max)
    BY DEF StreamInv
  <1> HIDE DEF added, e, jump, M, old, kept, K
  <1>10. \A k \in K : Minus(seq, k) = jump + Minus(e, k)
    <2> TAKE k \in K
    <2>1. jump + Minus(e, k) < Modulus
      BY <1>0, <1>1, <1>7
    <2> QED  BY <1>1, <1>7, <2>1, MinusSum DEF jump
  <1>11. ASSUME NEW x \in M, x \notin old
         PROVE  x \notin K
    <2> SUFFICES ASSUME x \in K PROVE FALSE
      OBVIOUS
    <2>1. x \in SeqNums /\ Minus(e, x) >= skip /\ Minus(e, x) \in Nat
      BY <1>7
    <2>2. x \notin missingSeqNumbers(log, 0)
      BY <1>4, <1>11, <2>1
    <2>3. x # e /\ Minus(x, e) < jump
      BY <1>3, <1>4, <1>11, <2>2
    <2>4. Minus(seq, x) = jump + Minus(e, x)
      BY <1>10
    <2> QED
      BY <1>1, <2>1, <2>3, <2>4, HalfAssumption DEF jump, Minus, SeqNums, Modulus
  <1>12. \A x \in M : Count(kept, x) = Capped(Count(counts, x), max)
    <2> TAKE x \in M
    <2>1. CASE x \in old
      BY <1>6, <1>9, <2>1
    <2>2. CASE x \notin old
      <3>1. Count(requests, x) = 0 /\ Count(counts, x) = 0
        BY <1>9, <1>11, <2>2, CountNone DEF K
      <3> QED  BY <1>6, <3>1 DEF Capped
    <2> QED  BY <2>1, <2>2
  <1>13. \A k \in K : /\ passed + jump + skip <= Minus(seq, k)
                      /\ Minus(seq, k) < 2 * Size + (passed + jump)
    BY <1>0, <1>1, <1>7, <1>10
  <1>14. \A k, m \in K : Minus(seq, k) < Minus(seq, m) + Size
    BY <1>0, <1>1, <1>7, <1>8, <1>10
  <1>15. StreamInv(added, counts, kept, passed + jump, max, skip)
    BY <1>3, <1>5, <1>12, <1>13, <1>14 DEF StreamInv, M, K
  <1> QED  BY <1>15 DEF added, kept, M, jump, e

(***************************************************************************)
(* Any packet the reader of the stream may get.                            *)
(***************************************************************************)
LEMMA ReadStream ==
    ASSUME CountsAssumption, NEW max \in Nat \ {0}, NEW skip \in 0 .. Half,
           NEW log, NEW counts, NEW requests, NEW passed \in Nat,
           GoodLog(log), DOMAIN counts \subseteq SeqNums,
           StreamInv(log, counts, requests, passed, max, skip),
           NEW seq \in SeqNums, NEW jump,
           jump = IF log.started /\ IsAhead(seq, log.end)
                    THEN Minus(seq, log.end) ELSE 0,
           log.started => IsAhead(seq, log.end) \/ Minus(log.end, seq) <= MaxLate,
           passed + jump <= MaxTravel
    PROVE  LET added == add(log, seq)
           IN  StreamInv(added, counts,
                   Restrict(requests, DOMAIN requests \cap missingSeqNumbers(added, skip)),
                   passed + jump, max, skip)
  <1> DEFINE added == add(log, seq)
             M     == missingSeqNumbers(added, skip)
             kept  == Restrict(requests, DOMAIN requests \cap M)
  <1>0. log.end \in SeqNums /\ Size < Half /\ MaxLate < Size
        /\ Size \in Nat /\ MaxLate \in Nat /\ Half \in Nat
    BY SizeAssumption, HalfAssumption, GeneratorAssumption
       DEF CountsAssumption, GoodLog, Log
  <1>1. CASE ~log.started
    <2>1. log = newReceiveLog /\ added = addFirst(newReceiveLog, seq) /\ jump = 0
      BY <1>1 DEF GoodLog, add
    <2>2. GoodLog(added) /\ added.started /\ missingSeqNumbers(added, 0) = {}
      BY <2>1, AddKeeps, FirstGaps
    <2>3. M = {}
      BY <1>0, <2>2, MissingSkips
    <2>4. DOMAIN kept = {}
      BY <2>3 DEF Restrict
    <2>5. kept \in [DOMAIN kept -> Nat]
      BY <2>4 DEF Restrict
    <2>6. DOMAIN counts = {}
      BY <1>1 DEF StreamInv
    <2> HIDE DEF kept
    <2> QED  BY <2>2, <2>3, <2>4, <2>5, <2>6 DEF StreamInv, kept
  <1>2. CASE log.started /\ seq = log.end
    <2>1. added = log /\ jump = 0 /\ passed + jump = passed
      BY <1>2 DEF add, IsAhead
    <2> HIDE DEF added
    <2>2. StreamInv(added, counts, kept, passed, max, skip)
      BY <1>2, <2>1, ReadBehind
    <2> QED  BY <2>1, <2>2 DEF added
  <1>3. CASE log.started /\ IsAhead(seq, log.end)
    <2>1. added = addAhead(log, seq) /\ jump = Minus(seq, log.end)
      BY <1>3 DEF add, IsAhead
    <2> QED  BY <1>3, <2>1, ReadAheadOf
  <1>4. CASE log.started /\ seq # log.end /\ ~IsAhead(seq, log.end)
    <2>1. added = addLate(log, seq) /\ jump = 0 /\ passed + jump = passed
      BY <1>4 DEF add
    <2>2. Minus(log.end, seq) < Size
      BY <1>0, <1>4, PlusMinusType
    <2>3. /\ GoodLog(added) /\ added.started /\ added.end = log.end
          /\ missingSeqNumbers(added, 0) = missingSeqNumbers(log, 0) \ {seq}
      BY <1>0, <1>4, <2>1, <2>2, AddKeeps, LateGaps
    <2> HIDE DEF added
    <2>4. M \subseteq missingSeqNumbers(log, skip)
      <3>1. M = {x \in missingSeqNumbers(added, 0) : Minus(added.end, x) >= skip}
        BY <1>0, <2>3, MissingSkips
      <3>2. missingSeqNumbers(log, skip)
              = {x \in missingSeqNumbers(log, 0) : Minus(log.end, x) >= skip}
        BY <1>0, MissingSkips
      <3> QED  BY <2>3, <3>1, <3>2
    <2>5. StreamInv(added, counts, kept, passed, max, skip)
      BY <1>4, <2>3, <2>4, ReadBehind
    <2> QED  BY <2>1, <2>5 DEF added
  <1> QED  BY <1>1, <1>2, <1>3, <1>4

(***************************************************************************)
(* One stream's share of a tick: every missing number's count goes up by   *)
(* one, and so does the number of its requests as long as the maximum is   *)
(* not reached.  Counts of numbers that are not missing stay only when no  *)
(* number was asked for, and then all that is missing has a count: what    *)
(* stays is less than a window older than that.                            *)
(***************************************************************************)
LEMMA TickStream ==
    ASSUME CountsAssumption, StreamsType, NEW s \in DOMAIN receiveLogs,
           NEW max \in Nat \ {0}, max = options.maxNacksPerPacket,
           NEW skip \in 0 .. Half, skip = options.skipLastN,
           StreamInv(receiveLogs[s], CountsOf(s), asked[s], travel[s], max, skip),
           \A x \in DOMAIN CountsOf(s) : CountsOf(s)[x] < CountCeiling
    PROVE  /\ StreamInv(receiveLogs[s], Counted(s),
                  [seq \in DOMAIN asked[s] \cup Requested(s) |-> AskedAgain(s, seq)],
                  0, max, skip)
           /\ ~Cleaned(s)
  <1> DEFINE e      == receiveLogs[s].end
             M      == Missing(s)
             counts == CountsOf(s)
             K      == DOMAIN counts
             c(x)   == Count(counts, x)
             asked1 == [seq \in DOMAIN asked[s] \cup Requested(s) |-> AskedAgain(s, seq)]
  <1>0. /\ Size \in Nat \ {0} /\ CountModulus \in Nat /\ CountModulus > 1
        /\ CountCeiling \in Nat /\ CountCeiling < CountModulus /\ Size < Half
        /\ Half \in Nat
    BY SizeAssumption, HalfAssumption, GeneratorAssumption DEF CountsAssumption
  <1>1. M = missingSeqNumbers(receiveLogs[s], skip)
    BY DEF Missing
  <1>2. GoodLog(receiveLogs[s]) /\ e \in SeqNums
    BY DEF StreamsType, GoodLog, Log
  <1>3. M \subseteq SeqNums /\ \A x \in M : Minus(e, x) < Size
    BY MissingNear
  <1>4. \A x \in M : skip <= Minus(e, x)
    BY <1>0, <1>1, <1>2, MissingSkips
  <1>5. /\ K \subseteq SeqNums
        /\ counts \in [K -> 0 .. CountModulus - 1]
    BY DEF StreamsType, CountsOf, EmptyMap
  <1>6. /\ DOMAIN asked[s] \subseteq M
        /\ asked[s] \in [DOMAIN asked[s] -> Nat]
        /\ ~receiveLogs[s].started => K = {}
        /\ \A k, m \in K : Minus(e, k) < Minus(e, m) + Size
        /\ \A x \in M : Count(asked[s], x) = Capped(c(x), max)
    BY <1>1 DEF StreamInv
  <1>7. \A k \in K : skip <= Minus(e, k)
    <2>1. travel[s] \in Nat
      BY GeneratorAssumption DEF StreamsType
    <2>2. \A k \in K : travel[s] + skip <= Minus(e, k) /\ Minus(e, k) \in Int
      BY <1>2, <1>5, PlusMinusType DEF StreamInv
    <2> QED  BY <2>1, <2>2
  <1>8. \A x : c(x) \in Nat /\ c(x) + 1 < CountModulus
    BY <1>0, <1>5 DEF Count
  <1>9. \A x : (c(x) + 1) % CountModulus = c(x) + 1
    BY <1>0, <1>8
  <1>10. ~receiveLogs[s].started => M = {}
    <2>1. SUFFICES ASSUME ~receiveLogs[s].started PROVE M = {}
      OBVIOUS
    <2>2. receiveLogs[s] = newReceiveLog
      BY <1>2, <2>1 DEF GoodLog
    <2>3. /\ StreamInv(newReceiveLog, EmptyMap, EmptyMap, 0, max, skip)
          /\ missingSeqNumbers(newReceiveLog, 0) = {}
      <3>1. newReceiveLog \in Log /\ Minus(newReceiveLog.end, newReceiveLog.lastConsecutive) = 0
        BY NewLog DEF GoodLog, Minus
      <3>2. \A x \in SeqNums : ~(Minus(newReceiveLog.end, x) < 0)
        BY NewLog, HalfAssumption DEF Minus, SeqNums, Modulus
      <3> QED  BY <3>1, <3>2, NewStream, MissingIs, HalfAssumption
    <2> QED  BY <1>0, <1>1, <1>2, <2>2, <2>3, MissingSkips
  <1>11. ASSUME NEW after, NEW asks, DOMAIN after \subseteq K \cup M,
                DOMAIN asks \subseteq M, asks \in [DOMAIN asks -> Nat],
                \A k \in DOMAIN after : Minus(e, k) < 2 * Size,
                \A k, m \in DOMAIN after : Minus(e, k) < Minus(e, m) + Size,
                \A x \in M : Count(asks, x) = Capped(Count(after, x), max)
         PROVE  StreamInv(receiveLogs[s], after, asks, 0, max, skip)
    <2>1. \A k \in DOMAIN after : 0 + skip <= Minus(e, k) /\ Minus(e, k) < 2 * Size + 0
      BY <1>0, <1>4, <1>7, <1>11
    <2>2. ~receiveLogs[s].started => DOMAIN after = {}
      BY <1>6, <1>10, <1>11
    <2> HIDE DEF M
    <2> QED  BY <1>1, <1>11, <2>1, <2>2 DEF StreamInv
  <1> HIDE DEF e, M, counts, K, c
  <1>12. CASE M = {}
    <2>1. DOMAIN Counted(s) = {} /\ Requested(s) = {}
      BY <1>12 DEF Counted, Requested, Bumped, Started, M, EmptyMap
    <2>2. DOMAIN asked1 = {} /\ asked1 \in [DOMAIN asked1 -> Nat]
      BY <1>6, <1>12, <2>1
    <2> HIDE DEF asked1
    <2>3. StreamInv(receiveLogs[s], Counted(s), asked1, 0, max, skip)
      BY <1>11, <1>12, <2>1, <2>2
    <2> QED  BY <2>1, <2>3 DEF asked1, Cleaned
  <1>13. CASE M # {}
    <2>1. Started(s) = counts
      BY <1>13 DEF Started, CountsOf, counts, M
    <2>2. Requested(s) = {x \in M : c(x) < max}
      BY <2>1 DEF Requested, M, c
    <2>3. /\ DOMAIN Bumped(s) = K \cup M
          /\ \A x \in M : Bumped(s)[x] = c(x) + 1
      BY <1>9, <2>1 DEF Bumped, M, K, c
    <2>4. \A x \in M : Count(asked[s], x) = IF c(x) < max THEN c(x) ELSE max
      BY <1>6 DEF Capped
    <2>5. \A x \in M : c(x) >= max => x \in DOMAIN asked[s] /\ asked[s][x] = max
      BY <1>8, <2>4 DEF Count
    <2>6. ASSUME NEW x \in Requested(s) PROVE AskedAgain(s, x) = c(x) + 1
      <3>1. x \in M /\ c(x) < max /\ Count(asked[s], x) = c(x) /\ c(x) \in Nat
        BY <1>8, <2>2, <2>4, <2>6
      <3>2. AskedAgain(s, x) = Min({c(x) + 1, max + 1})
        BY <2>6, <3>1 DEF AskedAgain
      <3>3. Min({c(x) + 1, max + 1}) \in {c(x) + 1, max + 1}
            /\ Min({c(x) + 1, max + 1}) <= c(x) + 1
        <4>1. {c(x) + 1, max + 1} \subseteq Nat /\ c(x) + 1 \in {c(x) + 1, max + 1}
          BY <3>1
        <4> QED  BY <4>1, MinIsLeast
      <3> QED  BY <3>1, <3>2, <3>3
    <2>7. \A x : x \notin Requested(s) => AskedAgain(s, x) = asked[s][x]
      BY DEF AskedAgain
    <2>8. DOMAIN asked1 \subseteq M /\ asked1 \in [DOMAIN asked1 -> Nat]
      <3>1. \A x \in DOMAIN asked1 : asked1[x] \in Nat
        BY <1>6, <1>8, <2>6, <2>7
      <3> QED  BY <1>6, <2>2, <3>1
    <2>9. \A x \in M : Count(asked1, x) = Capped(c(x) + 1, max)
      <3> TAKE x \in M
      <3>1. CASE c(x) < max
        <4>1. Count(asked1, x) = c(x) + 1
          BY <2>2, <2>6, <3>1 DEF Count
        <4> QED  BY <1>8, <3>1, <4>1 DEF Capped
      <3>2. CASE ~(c(x) < max)
        <4>1. Count(asked1, x) = max
          BY <1>8, <2>2, <2>5, <2>7, <3>2 DEF Count
        <4> QED  BY <1>8, <3>2, <4>1 DEF Capped
      <3> QED  BY <3>1, <3>2
    <2> HIDE DEF asked1
    <2>10. CASE Requested(s) # {}
      <3>1. DOMAIN Counted(s) = M /\ \A x \in M : Counted(s)[x] = c(x) + 1
        <4>1. Counted(s) = Restrict(Bumped(s), DOMAIN Bumped(s) \cap M)
          BY <2>10 DEF Counted, M
        <4>2. DOMAIN Bumped(s) \cap M = M
          BY <2>3
        <4> QED  BY <2>3, <4>1, <4>2 DEF Restrict
      <3>2. \A x \in M : Count(Counted(s), x) = c(x) + 1
        BY <3>1 DEF Count
      <3>3. \A x \in M : Count(asked1, x) = Capped(Count(Counted(s), x), max)
        BY <2>9, <3>2
      <3>4. \A k \in M : Minus(e, k) < Size /\ Minus(e, k) \in Nat
        BY <1>2, <1>3, PlusMinusType
      <3>5. /\ \A k \in M : Minus(e, k) < 2 * Size
            /\ \A k, m \in M : Minus(e, k) < Minus(e, m) + Size
        BY <1>0, <3>4
      <3>6. StreamInv(receiveLogs[s], Counted(s), asked1, 0, max, skip)
        BY <1>11, <2>8, <3>1, <3>3, <3>5
      <3>7. ~Cleaned(s)
        BY <1>13, <3>1 DEF Cleaned, EmptyMap
      <3> QED  BY <3>6, <3>7 DEF asked1
    <2>11. CASE Requested(s) = {}
      <3>1. \A x \in M : c(x) >= max
        BY <1>8, <2>2, <2>11
      <3>2. M \subseteq K
        BY <1>8, <3>1 DEF c, K, Count
      <3>3. Counted(s) = Bumped(s) /\ DOMAIN Counted(s) = K
        BY <2>3, <2>11, <3>2 DEF Counted
      <3>4. \A x \in M : Count(Counted(s), x) = c(x) + 1
        BY <2>3, <3>2, <3>3 DEF Count
      <3>5. \A x \in M : Count(asked1, x) = Capped(Count(Counted(s), x), max)
        BY <2>9, <3>4
      <3>6. \A k \in K : Minus(e, k) < 2 * Size
        <4>1. PICK m \in M : Minus(e, m) < Size
          BY <1>3, <1>13
        <4> TAKE k \in K
        <4>2. Minus(e, k) < Minus(e, m) + Size
          BY <1>6, <3>2, <4>1
        <4>3. Minus(e, k) \in Nat /\ Minus(e, m) \in Nat
          BY <1>2, <1>3, <1>5, PlusMinusType
        <4> QED  BY <1>0, <4>1, <4>2, <4>3
      <3>7. StreamInv(receiveLogs[s], Counted(s), asked1, 0, max, skip)
        BY <1>6, <1>11, <2>8, <3>3, <3>5, <3>6
      <3> QED  BY <2>11, <3>7 DEF asked1, Cleaned
    <2> QED  BY <2>10, <2>11
  <1> QED  BY <1>12, <1>13

\* The options are in range.
LEMMA OptionsRange ==
    ASSUME StreamsType, options.maxNacksPerPacket > 0
    PROVE  options.maxNacksPerPacket \in Nat \ {0} /\ options.skipLastN \in 0 .. Half
  BY GeneratorAssumption DEF StreamsType

\* The counts of a bound stream are counts of numbers.
LEMMA CountsOfNumbers ==
    ASSUME StreamsType, NEW s
    PROVE  DOMAIN CountsOf(s) \subseteq SeqNums
  BY DEF StreamsType, CountsOf, EmptyMap

\* A tick keeps the counts exact.
LEMMA TickExact ==
    ASSUME CountsAssumption, TypeInv, CountsInv, NEW l \in Loops, Tick(l)
    PROVE  CountsInv'
  <1>1. UNCHANGED <<options, receiveLogs>>
    BY DEF Tick
  <1> DEFINE max  == options.maxNacksPerPacket
             skip == options.skipLastN
  <1>2. SUFFICES ASSUME max > 0, NEW s \in DOMAIN receiveLogs
                 PROVE  StreamInv(receiveLogs[s], CountsOf(s)', asked'[s], travel'[s],
                                  max, skip)
    BY <1>1 DEF CountsInv
  <1>3. max \in Nat \ {0} /\ skip \in 0 .. Half
    BY <1>2, OptionsRange DEF TypeInv
  <1>4. \A x \in DOMAIN CountsOf(s) : CountsOf(s)[x] < CountCeiling
    BY DEF Tick, CountsOf, EmptyMap
  <1>5. StreamInv(receiveLogs[s], CountsOf(s), asked[s], travel[s], max, skip)
    BY <1>2 DEF CountsInv
  <1>6. /\ StreamInv(receiveLogs[s], Counted(s),
               [seq \in DOMAIN asked[s] \cup Requested(s) |-> AskedAgain(s, seq)],
               0, max, skip)
        /\ ~Cleaned(s)
    BY <1>3, <1>4, <1>5, TickStream DEF TypeInv
  <1>7. /\ asked'[s] = [seq \in DOMAIN asked[s] \cup Requested(s) |-> AskedAgain(s, seq)]
        /\ travel'[s] = 0
    BY DEF Tick
  <1>8. CountsOf(s)' = Counted(s)
    <2>1. s \in DOMAIN nackCountLogs' /\ nackCountLogs'[s] = Counted(s)
      BY <1>6 DEF Tick
    <2> QED  BY <2>1 DEF CountsOf
  <1> QED  BY <1>6, <1>7, <1>8

\* A bind and an unbind do: a stream that is bound starts without counts.
LEMMA BindExact ==
    ASSUME CountsAssumption, TypeInv, CountsInv, NEW b \in SSRCs,
           BindRemoteStream(b) \/ UnbindRemoteStream(b)
    PROVE  CountsInv'
  <1>1. options' = options
    BY DEF BindRemoteStream, UnbindRemoteStream
  <1> DEFINE max  == options.maxNacksPerPacket
             skip == options.skipLastN
  <1>2. SUFFICES ASSUME max > 0, NEW s \in DOMAIN receiveLogs'
                 PROVE  StreamInv(receiveLogs'[s], CountsOf(s)', asked'[s], travel'[s],
                                  max, skip)
    BY <1>1 DEF CountsInv
  <1>3. max \in Nat \ {0} /\ skip \in 0 .. Half
    BY <1>2, OptionsRange DEF TypeInv
  <1>4. DOMAIN asked = DOMAIN receiveLogs /\ DOMAIN travel = DOMAIN receiveLogs
        /\ DOMAIN nackCountLogs \subseteq DOMAIN receiveLogs
    BY DEF TypeInv, StreamsType
  <1>5. CASE s \in DOMAIN receiveLogs /\ s # b
    <2>1. StreamInv(receiveLogs[s], CountsOf(s), asked[s], travel[s], max, skip)
      BY <1>2, <1>5 DEF CountsInv
    <2>2. receiveLogs'[s] = receiveLogs[s] /\ asked'[s] = asked[s] /\ travel'[s] = travel[s]
      BY <1>4, <1>5 DEF BindRemoteStream, UnbindRemoteStream, Put, Delete, Restrict
    <2>3. CountsOf(s)' = CountsOf(s)
      BY <1>5 DEF BindRemoteStream, UnbindRemoteStream, Delete, Restrict, CountsOf
    <2> QED  BY <2>1, <2>2, <2>3
  <1>6. CASE ~(s \in DOMAIN receiveLogs /\ s # b)
    <2>1. BindRemoteStream(b) /\ s = b /\ s \notin DOMAIN receiveLogs
      BY <1>2, <1>6 DEF BindRemoteStream, UnbindRemoteStream, Put, Delete, Restrict
    <2>2. receiveLogs'[s] = newReceiveLog /\ asked'[s] = EmptyMap /\ travel'[s] = 0
      BY <2>1 DEF BindRemoteStream, Put
    <2>3. CountsOf(s)' = EmptyMap
      BY <1>4, <2>1 DEF BindRemoteStream, CountsOf
    <2> QED  BY <1>3, <2>2, <2>3, NewStream
  <1> QED  BY <1>5, <1>6

\* A packet does.
LEMMA ReadExact ==
    ASSUME CountsAssumption, TypeInv, CountsInv, NEW r \in SSRCs, NEW seq \in SeqNums,
           Read(r, seq)
    PROVE  CountsInv'
  <1>1. UNCHANGED <<options, nackCountLogs>> /\ DOMAIN receiveLogs' = DOMAIN receiveLogs
        /\ r \in DOMAIN receiveLogs
    BY DEF Read
  <1> DEFINE max  == options.maxNacksPerPacket
             skip == options.skipLastN
  <1>2. SUFFICES ASSUME max > 0, NEW s \in DOMAIN receiveLogs
                 PROVE  StreamInv(receiveLogs'[s], CountsOf(s)', asked'[s], travel'[s],
                                  max, skip)
    BY <1>1 DEF CountsInv
  <1>3. max \in Nat \ {0} /\ skip \in 0 .. Half
    BY <1>2, OptionsRange DEF TypeInv
  <1>4. StreamInv(receiveLogs[s], CountsOf(s), asked[s], travel[s], max, skip)
    BY <1>2 DEF CountsInv
  <1>5. CountsOf(s)' = CountsOf(s)
    BY <1>1 DEF CountsOf
  <1>6. DOMAIN asked = DOMAIN receiveLogs /\ DOMAIN travel = DOMAIN receiveLogs
    BY DEF TypeInv, StreamsType
  <1>7. CASE s # r
    <2>1. receiveLogs'[s] = receiveLogs[s] /\ asked'[s] = asked[s] /\ travel'[s] = travel[s]
      BY <1>1, <1>6, <1>7 DEF Read
    <2> QED  BY <1>4, <1>5, <2>1
  <1>8. CASE s = r
    <2> DEFINE log   == receiveLogs[s]
               jump  == IF log.started /\ IsAhead(seq, log.end)
                          THEN Minus(seq, log.end) ELSE 0
               added == add(log, seq)
               kept  == Restrict(asked[s],
                                 DOMAIN asked[s] \cap missingSeqNumbers(added, skip))
    <2>1. /\ log.started => IsAhead(seq, log.end) \/ Minus(log.end, seq) <= MaxLate
          /\ travel[s] + jump <= MaxTravel
          /\ receiveLogs'[s] = added /\ travel'[s] = travel[s] + jump /\ asked'[s] = kept
      BY <1>1, <1>6, <1>8 DEF Read
    <2>2. GoodLog(log) /\ travel[s] \in Nat
      BY GeneratorAssumption DEF TypeInv, StreamsType
    <2>3. DOMAIN CountsOf(s) \subseteq SeqNums
      BY CountsOfNumbers DEF TypeInv
    <2>4. StreamInv(added, CountsOf(s), kept, travel[s] + jump, max, skip)
      BY <1>3, <1>4, <2>1, <2>2, <2>3, ReadStream
    <2> QED  BY <1>5, <2>1, <2>4
  <1> QED  BY <1>7, <1>8

\* So does every step.
LEMMA ExactNext ==
    ASSUME CountsAssumption
    PROVE  TypeInv /\ CountsInv /\ [Next]_vars => CountsInv'
  <1> SUFFICES ASSUME TypeInv, CountsInv, [Next]_vars PROVE CountsInv'
    OBVIOUS
  <1>1. CASE UNCHANGED <<options, receiveLogs, nackCountLogs, asked, travel>>
    BY <1>1 DEF CountsInv, CountsOf
  <1>2. ASSUME NEW l \in Loops, BindRTCPWriter(l) \/ Send(l) \/ Stop(l)
        PROVE  UNCHANGED <<options, receiveLogs, nackCountLogs, asked, travel>>
    BY <1>2 DEF BindRTCPWriter, Send, Stop
  <1>3. ASSUME NEW c \in Closers, Close(c) \/ CloseReturn(c)
        PROVE  UNCHANGED <<options, receiveLogs, nackCountLogs, asked, travel>>
    BY <1>3 DEF Close, CloseReturn
  <1>4. CASE UNCHANGED vars
    BY <1>1, <1>4 DEF vars
  <1> QED
    BY <1>1, <1>2, <1>3, <1>4, TickExact, BindExact, ReadExact DEF Next

(***************************************************************************)
(* The count that decides whether a missing number is asked for again is   *)
(* the number of requests made for this loss, capped at the maximum:       *)
(* neither of loop's continue statements, which leave the counts of        *)
(* numbers that arrived in place, nor an unbind and a new bind makes it    *)
(* that of another loss.                                                   *)
(***************************************************************************)
THEOREM CountsExactHolds ==
    ASSUME CountsAssumption
    PROVE  Spec => []CountsExact
  <1>1. Init => CountsInv
    BY DEF Init, CountsInv, EmptyMap
  <1>2. TypeInv /\ CountsInv => CountsExact
    <2> SUFFICES ASSUME TypeInv, CountsInv, options.maxNacksPerPacket > 0,
                        NEW s \in DOMAIN receiveLogs, NEW x \in Missing(s)
                 PROVE  Count(asked[s], x)
                          = Capped(Count(CountsOf(s), x), options.maxNacksPerPacket)
      BY Zenon DEF CountsExact, CountsOf, Capped
    <2> QED  BY DEF CountsInv, StreamInv, Missing
  <1> QED  BY <1>1, <1>2, ExactNext, TypeAlways, PTL DEF Spec

(***************************************************************************)
(* So the promise of GeneratorMaxNacksPerPacket is kept as long as no      *)
(* count reaches its width, and the wrap of the count is the only way to   *)
(* break it.                                                               *)
(***************************************************************************)
THEOREM AtMostMaxNacksBelowWidth ==
    ASSUME CountsAssumption
    PROVE  Spec => []AtMostMaxNacks
  <1>1. Init => CountsInv
    BY DEF Init, CountsInv, EmptyMap
  <1>2. TypeInv /\ CountsInv => AtMostMaxNacks
    <2> SUFFICES ASSUME TypeInv, CountsInv, options.maxNacksPerPacket > 0,
                        NEW s \in DOMAIN asked, NEW x \in DOMAIN asked[s]
                 PROVE  asked[s][x] <= options.maxNacksPerPacket
      BY DEF AtMostMaxNacks
    <2> DEFINE max == options.maxNacksPerPacket
    <2>1. s \in DOMAIN receiveLogs /\ max \in Nat
      BY OptionsRange DEF TypeInv, StreamsType
    <2>2. Count(asked[s], x) = Capped(Count(CountsOf(s), x), max)
      BY <2>1 DEF CountsInv, StreamInv
    <2>3. Count(CountsOf(s), x) \in Int
      BY <2>1, GeneratorAssumption DEF TypeInv, StreamsType, CountsOf, Count, EmptyMap
    <2>4. asked[s][x] = Count(asked[s], x)
      BY DEF Count
    <2> QED  BY <2>1, <2>2, <2>3, <2>4 DEF Capped
  <1> QED  BY <1>1, <1>2, ExactNext, TypeAlways, PTL DEF Spec
=============================================================================
