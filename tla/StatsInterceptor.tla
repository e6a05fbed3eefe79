------------------------- MODULE StatsInterceptor --------------------------
(***************************************************************************)
(* The life cycle of the recorders of the stats interceptor                *)
(* (pkg/stats/interceptor.go and stats_recorder.go): binding a stream      *)
(* makes a recorder and has a goroutine start it, Close stops those there  *)
(* are, and packets are counted while the recorder is running.  What is    *)
(* counted is modelled in Reports.                                         *)
(***************************************************************************)
EXTENDS Naturals, FiniteSets

CONSTANTS Streams, MaxCounted   \* bound: packets counted for a stream

VARIABLES
    recorders,      \* the streams that have a recorder
    starting,       \* recorders whose goroutine is yet to run
    running,
    queueing,       \* streams with a packet that has found the recorder running
    counted,        \* stream -> packets counted
    close           \* "open", "waiting" for the goroutines, "returned"

vars == <<recorders, starting, running, queueing, counted, close>>

Init ==
    /\ recorders = {} /\ starting = {} /\ running = {} /\ queueing = {}
    /\ counted = [s \in Streams |-> 0]
    /\ close = "open"

\* BindLocalStream, BindRemoteStream; streams are bound before Close.
getRecorder(s) ==
    /\ close = "open"
    /\ s \notin recorders
    /\ recorders' = recorders \cup {s}
    /\ starting' = starting \cup {s}
    /\ UNCHANGED <<running, queueing, counted, close>>

Start(s) ==
    /\ s \in starting
    /\ starting' = starting \ {s}
    /\ running' = running \cup {s}
    /\ UNCHANGED <<recorders, queueing, counted, close>>

\* A packet is read or written: nothing happens unless the recorder is running, and
\* the statistics are locked after that was found.
Queue(s) ==
    /\ s \in running \ queueing
    /\ counted[s] < MaxCounted
    /\ queueing' = queueing \cup {s}
    /\ UNCHANGED <<recorders, starting, running, counted, close>>

Record(s) ==
    /\ s \in queueing
    /\ queueing' = queueing \ {s}
    /\ counted' = [counted EXCEPT ![s] = @ + 1]
    /\ UNCHANGED <<recorders, starting, running, close>>

\* Stop, for every recorder.
Close ==
    /\ close = "open"
    /\ close' = "waiting"
    /\ running' = running \ recorders
    /\ UNCHANGED <<recorders, starting, queueing, counted>>

CloseReturn ==
    /\ close = "waiting"
    /\ starting = {}
    /\ close' = "returned"
    /\ UNCHANGED <<recorders, starting, running, queueing, counted>>

Next ==
    \/ \E s \in Streams : getRecorder(s) \/ Start(s) \/ Queue(s) \/ Record(s)
    \/ Close \/ CloseReturn

Spec == Init /\ [][Next]_vars
-----------------------------------------------------------------------------
\* "Close closes the interceptor and associated stats recorders"
\* (interceptor.go:164): once it has returned, after waiting for the goroutines
\* that start the recorders, none of them is running.
RecordersClosed == close = "returned" => running = {}
=============================================================================
