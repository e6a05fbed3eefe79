----------------------- MODULE InterceptorLoopsProofs -----------------------
(***************************************************************************)
(* Proofs about InterceptorLoops for any number of binds, calls of Close   *)
(* and callers: the wait group counts the loops that run, and once a call  *)
(* of Close has returned no loop does anything any more.                   *)
(***************************************************************************)
EXTENDS InterceptorLoops, FiniteSetTheorems, TLAPS

\* The calls of BindRTCPWriter are numbered, and there are finitely many.
LoopConstants == \E n \in Nat : Binds = 1..n

\* Where a goroutine may be.
LoopsType ==
    /\ loops \in [Binds -> {"none", "starting", "first", "select", "write", "done"}]
    /\ closers \in [Closers -> {"idle", "waiting", "returned"}]

(***************************************************************************)
(* Calls of BindRTCPWriter get their numbers in order; the wait group      *)
(* counts the loops that run; a Close that waits has closed the            *)
(* interceptor, and except in rfc8888 a loop is started in one step with   *)
(* the check; when a Close has returned there is no loop.                  *)
(***************************************************************************)
LoopsInv ==
    /\ LoopsType
    /\ Bound = 1..Cardinality(Bound)
    /\ wg = Cardinality(Alive)
    /\ \A c \in Closers : closers[c] # "idle" => closed
    /\ kind # "rfc8888" => \A b \in Binds : loops[b] # "starting"
    /\ LoopsQuiet => Alive = {}

-----------------------------------------------------------------------------
\* The sets of loops are finite.
LEMMA LoopsFinite ==
    ASSUME LoopConstants
    PROVE  /\ IsFiniteSet(Alive) /\ Cardinality(Alive) \in Nat
           /\ IsFiniteSet(Bound) /\ Cardinality(Bound) \in Nat
  <1>1. IsFiniteSet(Binds)
    BY FS_Interval DEF LoopConstants
  <1>2. Alive \in SUBSET Binds /\ Bound \in SUBSET Binds
    BY DEF Alive, Bound
  <1>3. IsFiniteSet(Alive) /\ IsFiniteSet(Bound)
    BY <1>1, <1>2, FS_Subset
  <1> QED  BY <1>3, FS_CardinalityType

\* No loop runs at first.
LEMMA LoopsInitInv ==
    ASSUME LoopConstants, LoopsInit
    PROVE  LoopsInv
  <1>1. LoopsType /\ Alive = {} /\ Bound = {}
    BY DEF LoopsInit, LoopsType, Alive, Bound
  <1>2. Cardinality({}) = 0 /\ 1..0 = {}
    BY FS_EmptySet
  <1> QED  BY <1>1, <1>2 DEF LoopsInit, LoopsInv, LoopsQuiet

\* A bind that comes gets a number no bind has, and the next one the next.
LEMMA BindIsNew ==
    ASSUME LoopConstants, LoopsInv, NEW b \in Binds, b = Cardinality(Bound) + 1,
           Bound' = Bound \cup {b}
    PROVE  loops[b] = "none" /\ Bound' = 1..Cardinality(Bound')
  <1>1. Cardinality(Bound) \in Nat /\ b \notin 1..Cardinality(Bound)
    BY LoopsFinite
  <1>2. b \notin Bound
    BY <1>1, Zenon DEF LoopsInv
  <1>3. Cardinality(Bound') = b
    BY <1>2, LoopsFinite, FS_AddElement
  <1>4. Bound' = 1..Cardinality(Bound) \cup {b}
    BY Zenon DEF LoopsInv
  <1>5. 1..Cardinality(Bound) \cup {b} = 1..b
    BY <1>1
  <1> QED  BY <1>2, <1>3, <1>4, <1>5 DEF Bound

\* wg.Add(1) goes with a loop more, where the interceptor is open or is rfc8888.
LEMMA StartCounts ==
    ASSUME LoopConstants, LoopsInv, NEW b \in Binds, StartLoop(b),
           loops[b] \in {"none", "starting"}, Bound' = 1..Cardinality(Bound'),
           ~closed \/ kind = "rfc8888"
    PROVE  LoopsInv'
  <1>1. LoopsType'
    BY DEF LoopsInv, LoopsType, StartLoop, Begin
  <1>2. Alive' = Alive \cup {b} /\ b \notin Alive
    BY DEF LoopsInv, LoopsType, StartLoop, Begin, Alive
  <1>3. Cardinality(Alive') = Cardinality(Alive) + 1
    BY <1>2, LoopsFinite, FS_AddElement
  <1>4. \A c \in Closers : closers'[c] # "idle" => closed'
    BY DEF LoopsInv, StartLoop
  <1>5. kind' # "rfc8888" => \A x \in Binds : loops'[x] # "starting"
    BY DEF LoopsInv, LoopsType, StartLoop, Begin
  <1>6. ~LoopsQuiet'
    BY DEF LoopsInv, LoopsQuiet, LoopsType, StartLoop
  <1> QED  BY <1>1, <1>3, <1>4, <1>5, <1>6 DEF LoopsInv, StartLoop

\* A loop that starts is bound from then on.
LEMMA StartBinds ==
    ASSUME LoopsInv, NEW b \in Binds, StartLoop(b)
    PROVE  Bound' = Bound \cup {b}
  BY DEF LoopsInv, LoopsType, StartLoop, Begin, Bound

\* The three ways to start a loop, and the first part of that of rfc8888.
LEMMA BindCounts ==
    ASSUME LoopConstants, LoopsInv, NEW b \in Binds,
           BindRTCPWriter(b) \/ BindRTCPWriterCheck(b) \/ BindRTCPWriterStart(b) \/ run(b)
    PROVE  LoopsInv'
  <1>1. CASE BindRTCPWriter(b)
    BY <1>1, BindIsNew, StartBinds, StartCounts DEF BindRTCPWriter
  <1>2. CASE BindRTCPWriterCheck(b)
    <2>1. Bound' = Bound \cup {b}
      BY <1>2 DEF LoopsInv, LoopsType, BindRTCPWriterCheck, Bound
    <2>2. loops[b] = "none" /\ Bound' = 1..Cardinality(Bound')
      BY <1>2, <2>1, BindIsNew DEF BindRTCPWriterCheck
    <2>3. LoopsType' /\ Alive' = Alive
      BY <1>2, <2>2 DEF LoopsInv, LoopsType, BindRTCPWriterCheck, Alive
    <2> QED  BY <1>2, <2>2, <2>3 DEF LoopsInv, LoopsQuiet, BindRTCPWriterCheck
  <1>3. CASE BindRTCPWriterStart(b)
    <2>1. b \in Bound /\ Bound' = Bound \cup {b}
      BY <1>3, StartBinds DEF BindRTCPWriterStart, Bound
    <2>2. Bound' = Bound
      BY <2>1
    <2>3. kind = "rfc8888"
      BY <1>3 DEF BindRTCPWriterStart, LoopsInv
    <2> QED  BY <1>3, <2>2, <2>3, StartCounts DEF BindRTCPWriterStart, LoopsInv
  <1>4. CASE run(b)
    <2>1. b = Cardinality(Bound) + 1
      BY <1>4, FS_EmptySet DEF run
    <2> QED  BY <1>4, <2>1, BindIsNew, StartBinds, StartCounts DEF run
  <1> QED  BY <1>1, <1>2, <1>3, <1>4

\* wg.Done goes with a loop less.
LEMMA StopCounts ==
    ASSUME LoopConstants, LoopsInv, NEW b \in Binds, Stop(b)
    PROVE  LoopsInv'
  <1>1. LoopsType' /\ Bound' = Bound
    BY DEF LoopsInv, LoopsType, Stop, Bound
  <1>2. Alive' = Alive \ {b} /\ b \in Alive
    BY DEF LoopsInv, LoopsType, Stop, Alive
  <1>3. Cardinality(Alive') = Cardinality(Alive) - 1
    BY <1>2, LoopsFinite, FS_RemoveElement
  <1>4. /\ \A c \in Closers : closers'[c] # "idle" => closed'
        /\ kind' # "rfc8888" => \A x \in Binds : loops'[x] # "starting"
        /\ LoopsQuiet' => LoopsQuiet
    BY DEF LoopsInv, LoopsType, LoopsQuiet, Stop
  <1> QED  BY <1>1, <1>2, <1>3, <1>4 DEF LoopsInv, Stop

\* A loop that moves from one of its states to another is counted as before.
LEMMA MoveCounts ==
    ASSUME LoopConstants, LoopsInv, NEW b \in Binds, b \in Alive,
           NEW where \in {"first", "select", "write"},
           loops' = [loops EXCEPT ![b] = where],
           UNCHANGED <<kind, wg, closed, closers>>
    PROVE  LoopsInv'
  <1>1. LoopsType' /\ Alive' = Alive /\ Bound' = Bound
    BY DEF LoopsInv, LoopsType, Alive, Bound
  <1>2. /\ kind' # "rfc8888" => \A x \in Binds : loops'[x] # "starting"
        /\ LoopsQuiet' => LoopsQuiet
    BY DEF LoopsInv, LoopsType, LoopsQuiet
  <1> QED  BY <1>1, <1>2 DEF LoopsInv

\* Close closes; it returns when the wait group is at zero, that is when no loop
\* runs.
LEMMA CloseCounts ==
    ASSUME LoopConstants, LoopsInv, NEW c \in Closers, Close(c) \/ CloseReturn(c)
    PROVE  LoopsInv'
  <1>1. LoopsType' /\ Alive' = Alive /\ Bound' = Bound /\ wg' = wg /\ kind' = kind
    BY DEF LoopsInv, LoopsType, Close, CloseReturn, Alive, Bound
  <1>2. /\ \A x \in Closers : closers'[x] # "idle" => closed'
        /\ kind' # "rfc8888" => \A x \in Binds : loops'[x] # "starting"
    BY DEF LoopsInv, LoopsType, Close, CloseReturn
  <1>3. CASE Close(c)
    <2>1. LoopsQuiet' => LoopsQuiet
      BY <1>3 DEF LoopsInv, LoopsType, LoopsQuiet, Close
    <2> QED  BY <1>1, <1>2, <2>1 DEF LoopsInv
  <1>4. CASE CloseReturn(c)
    <2>1. Alive = {}
      BY <1>4, LoopsFinite, FS_EmptySet DEF LoopsInv, CloseReturn
    <2> QED  BY <1>1, <1>2, <2>1 DEF LoopsInv
  <1> QED  BY <1>3, <1>4

\* Every step keeps the count.
LEMMA LoopsNextInv ==
    ASSUME LoopConstants, LoopsInv, [LoopsNext]_loopVars
    PROVE  LoopsInv'
  <1>1. ASSUME NEW b \in Binds, Tick(b) \/ TakeRequest(b) \/ Written(b)
        PROVE  LoopsInv'
    <2>1. b \in Alive
      BY <1>1 DEF Tick, TakeRequest, Written, Alive
    <2>2. \E where \in {"first", "select", "write"} : loops' = [loops EXCEPT ![b] = where]
      BY <1>1 DEF Tick, TakeRequest, Written
    <2>3. UNCHANGED <<kind, wg, closed, closers>>
      BY <1>1 DEF Tick, TakeRequest, Written
    <2> QED  BY <2>1, <2>2, <2>3, MoveCounts
  <1>2. ASSUME NEW r \in Callers, NEW b \in Binds, Take(r, b)
        PROVE  LoopsInv'
    <2>1. b \in Alive /\ UNCHANGED <<kind, wg, closed, closers>>
      BY <1>2 DEF Take, Alive
    <2>2. \E where \in {"first", "select", "write"} : loops' = [loops EXCEPT ![b] = where]
      BY <1>2 DEF Take
    <2> QED  BY <2>1, <2>2, MoveCounts
  <1>3. CASE UNCHANGED <<kind, loops, wg, closed, closers>>
    BY <1>3 DEF LoopsInv, LoopsType, Alive, Bound, LoopsQuiet
  <1>4. ASSUME NEW r \in Callers,
               \/ Offer(r) \/ ForcePLI(r) \/ GiveUp(r) \/ BindRemoteStream(r)
               \/ UnbindLocalStream(r)
        PROVE  UNCHANGED <<kind, loops, wg, closed, closers>>
    BY <1>4 DEF Offer, ForcePLI, GiveUp, BindRemoteStream, UnbindLocalStream
  <1>5. CASE UNCHANGED loopVars
    BY <1>3, <1>5 DEF loopVars
  <1> QED
    BY <1>1, <1>2, <1>3, <1>4, <1>5, BindCounts, StopCounts, CloseCounts
       DEF LoopsNext, Leave

\* With no loop there is none that a step could move, and a closed interceptor
\* starts none.
LEMMA QuietStep ==
    ASSUME LoopsInv, LoopsNext, LoopsQuiet
    PROVE  UNCHANGED loops
  <1>1. /\ \A b \in Binds : loops[b] \notin {"starting", "first", "select", "write"}
        /\ closed
        /\ kind # "rfc8888"
    BY DEF LoopsInv, LoopsType, LoopsQuiet, Alive
  <1>2. ASSUME NEW b \in Binds
        PROVE  /\ ~BindRTCPWriter(b) /\ ~BindRTCPWriterCheck(b)
               /\ ~BindRTCPWriterStart(b) /\ ~run(b)
               /\ ~Stop(b) /\ ~Tick(b) /\ ~TakeRequest(b) /\ ~Written(b)
               /\ \A r \in Callers : ~Take(r, b)
    BY <1>1 DEF BindRTCPWriter, BindRTCPWriterCheck, BindRTCPWriterStart, run, Stop, Tick,
       TakeRequest, Written, Take
  <1>3. ASSUME NEW c \in Closers, Close(c) \/ CloseReturn(c)
        PROVE  UNCHANGED loops
    BY <1>3 DEF Close, CloseReturn
  <1>4. ASSUME NEW r \in Callers,
               \/ Offer(r) \/ ForcePLI(r) \/ GiveUp(r) \/ BindRemoteStream(r)
               \/ UnbindLocalStream(r)
        PROVE  UNCHANGED loops
    BY <1>4 DEF Offer, ForcePLI, GiveUp, BindRemoteStream, UnbindLocalStream
  <1> QED  BY <1>2, <1>3, <1>4 DEF LoopsNext, Leave

\* However many binds, calls of Close and callers there are: once a call of Close has
\* returned, no loop starts, records or writes (all interceptors but rfc8888's).
THEOREM QuietAfterCloseHolds ==
    ASSUME LoopConstants
    PROVE  LoopsSpec => QuietAfterClose
  <1>1. LoopsInit => LoopsInv
    BY LoopsInitInv
  <1>2. LoopsInv /\ [LoopsNext]_loopVars => LoopsInv'
    BY LoopsNextInv
  <1>3. LoopsInv /\ [LoopsNext]_loopVars => [LoopsQuiet => UNCHANGED loops]_loopVars
    BY QuietStep
  <1> QED
    BY <1>1, <1>2, <1>3, PTL DEF LoopsSpec, QuietAfterClose
=============================================================================
