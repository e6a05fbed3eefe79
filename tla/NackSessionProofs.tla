------------------------- MODULE NackSessionProofs --------------------------
(***************************************************************************)
(* Proofs about one stream's receive log, fed by the network alone or by   *)
(* the sender of a session, for every width of the sequence numbers, every *)
(* log size and every bound on lateness.                                   *)
(***************************************************************************)
EXTENDS NackSession, ReceiveLogProofs, TLAPS

\* The log's inductive invariant, in the words of the lemmas about logs.
LEMMA LogIsGood == LogInvariant <=> GoodLog(log)
BY DEF LogInvariant, TypeOK, WindowBounded, GoodLog

\* A step of the stream keeps the invariant.
LEMMA LogNext ==
    ASSUME LogInvariant, [Next]_log
    PROVE  LogInvariant'
<1>1. LogInvariant' <=> GoodLog(log')
  BY DEF LogInvariant, TypeOK, WindowBounded, GoodLog
<1>2. CASE UNCHANGED log
  BY <1>1, <1>2, LogIsGood
<1>3. CASE Next
  <2>1. PICK seq \in SeqNums : log' = add(log, seq)
    BY <1>3 DEF Next, Receive
  <2>. QED
    BY <1>1, <2>1, LogIsGood, AddKeeps
<1>. QED
  BY <1>2, <1>3

(***************************************************************************)
(* The log's inductive invariant, for every size, number width and order   *)
(* of arrival: it has its type and lastConsecutive never falls more than   *)
(* Size behind end (receive_log.go, add).                                  *)
(***************************************************************************)
THEOREM LogInvariantHolds == Spec => []LogInvariant
<1>1. Init => LogInvariant
  BY NewLog, LogIsGood DEF Init
<1>2. LogInvariant /\ [Next]_log => LogInvariant'
  BY LogNext
<1>. QED
  BY <1>1, <1>2, PTL DEF Spec

(***************************************************************************)
(* What loop passes to missingSeqNumbers is long enough, for every size    *)
(* and every skipLastN up to half the number space beyond the window: at   *)
(* most Size numbers are written, all in the window and at least skipLastN *)
(* behind the newest (generator_interceptor.go, loop; receive_log.go,      *)
(* missingSeqNumbers).  No other skipLastN is excluded, and for those that *)
(* are the loop does leave the window.                                     *)
(***************************************************************************)
THEOREM MissingFitsHolds == Spec => []MissingFits
<1>1. LogInvariant => MissingFits
  BY LogIsGood, MissingBounded DEF MissingFits
<1>. QED
  BY <1>1, LogInvariantHolds, PTL

-----------------------------------------------------------------------------
(***************************************************************************)
(* The log implements the abstract stream of gaps, for every number width, *)
(* size and bound on lateness, when the size is below half the number      *)
(* space and no packet arrives later than the log remembers: whatever the  *)
(* network reorders, drops or repeats, missingSeqNumbers(0) is exactly the *)
(* set of numbers skipped over inside the window and not received since    *)
(* (receive_log.go, add, get and missingSeqNumbers).                       *)
(***************************************************************************)
THEOREM LogImplementsGaps ==
    ASSUME Size < Half, MaxLate < Size
    PROVE  Spec => ImplementsGaps
<1>1. Init => Gaps!Init
  <2> SUFFICES ASSUME Init PROVE Gaps!Init
    OBVIOUS
  <2>1. /\ log \in Log /\ log.end = 0 /\ log.lastConsecutive = 0 /\ log.started = FALSE
        /\ \A x \in SeqNums : ~getReceived(log, x)
    BY NewLog DEF Init, GoodLog
  <2>2. Minus(0, 0) = 0 /\ 0 < Half /\ \A x \in SeqNums : ~(Minus(0, x) < 0)
    BY HalfAssumption DEF Minus, SeqNums, Modulus
  <2>3. missingSeqNumbers(log, 0) = {}
    BY <2>1, <2>2, MissingIs
  <2>4. {x \in SeqNums : get(log, x)} = {}
    BY <2>1, ReceivedIs DEF Received
  <2>. QED
    BY <2>1, <2>3, <2>4 DEF Gaps!Init
<1>2. LogInvariant /\ [Next]_log => [Gaps!Next]_(Gaps!vars)
  <2> SUFFICES ASSUME LogInvariant, [Next]_log
               PROVE  [Gaps!Next]_(Gaps!vars)
    OBVIOUS
  <2>0. GoodLog(log)
    BY LogIsGood
  <2>1. CASE UNCHANGED log
    BY <2>1 DEF Gaps!vars
  <2>2. CASE Next
    <3>1. PICK seq \in SeqNums : CanArrive(seq) /\ log' = add(log, seq)
      BY <2>2 DEF Next, Receive
    <3>2. CASE ~log.started
      <4>1. log = newReceiveLog /\ log' = addFirst(newReceiveLog, seq)
        BY <2>0, <3>1, <3>2 DEF GoodLog, add
      <4>2. Gaps!First(seq)
        BY <3>2, <4>1, FirstGaps
           DEF Gaps!First, Gaps!SeqNums, Gaps!Modulus, SeqNums, Modulus, Received
      <4>. QED
        BY <4>2 DEF Gaps!Next, Gaps!SeqNums, Gaps!Modulus, SeqNums, Modulus
    <3>3. CASE log.started /\ seq = log.end
      BY <3>1, <3>3 DEF add, Gaps!vars
    <3>4. CASE log.started /\ IsAhead(seq, log.end)
      <4>1. log' = addAhead(log, seq)
        BY <3>1, <3>4 DEF add, IsAhead
      <4>2. /\ log'.end = seq /\ log'.started
            /\ {x \in SeqNums : get(log', x)} =
                  {x \in {x \in SeqNums : get(log, x)} \cup {seq} : Minus(seq, x) < Size}
            /\ missingSeqNumbers(log', 0) =
                  {x \in missingSeqNumbers(log, 0)
                           \cup {x \in SeqNums : /\ x # log.end
                                                 /\ Minus(x, log.end) < Minus(seq, log.end)} :
                       Minus(seq, x) < Size}
        BY <2>0, <3>4, <4>1, AheadGaps DEF Received
      <4>3. Gaps!Advance(seq)
        BY <3>4, <4>2
           DEF Gaps!Advance, Gaps!Remembered, Gaps!Between, Gaps!IsAhead, Gaps!Minus,
               Gaps!SeqNums, Gaps!Modulus, Gaps!Uint16SizeHalf,
               IsAhead, Minus, SeqNums, Modulus, Uint16SizeHalf
      <4>. QED
        BY <4>3 DEF Gaps!Next, Gaps!SeqNums, Gaps!Modulus, SeqNums, Modulus
    <3>5. CASE log.started /\ seq # log.end /\ ~IsAhead(seq, log.end)
      <4>1. log' = addLate(log, seq) /\ Minus(log.end, seq) <= MaxLate
        BY <3>1, <3>5 DEF add, CanArrive
      <4>2. Minus(log.end, seq) < Size
        BY <2>0, <4>1, PlusMinusType, SizeAssumption, StreamAssumption DEF GoodLog, Log
      <4>3. /\ log'.end = log.end /\ log'.started
            /\ {x \in SeqNums : get(log', x)} = {x \in SeqNums : get(log, x)} \cup {seq}
            /\ missingSeqNumbers(log', 0) = missingSeqNumbers(log, 0) \ {seq}
        BY <2>0, <3>5, <4>1, <4>2, LateGaps DEF Received
      <4>4. Gaps!Fill(seq)
        BY <3>5, <4>1, <4>3
           DEF Gaps!Fill, Gaps!Minus, Gaps!SeqNums, Gaps!Modulus, Minus, SeqNums, Modulus
      <4>. QED
        BY <4>4 DEF Gaps!Next, Gaps!SeqNums, Gaps!Modulus, SeqNums, Modulus
    <3>. QED
      BY <3>2, <3>3, <3>4, <3>5
  <2>. QED
    BY <2>1, <2>2
<1>. QED
  BY <1>1, <1>2, LogInvariantHolds, PTL DEF Spec, ImplementsGaps, Gaps!Spec

-----------------------------------------------------------------------------
\* Every step of the session is a step of the receiver's stream, or leaves its log.
LEMMA SessionStep == SessionNext \/ UNCHANGED sessionVars => [Next]_log
BY DEF SessionNext, sessionVars, Next, Write, Tick, Read, Lose, LoseNack, Resend, Expire

(***************************************************************************)
(* The receiver of a session is a ReceiveLogStream: whatever the sender    *)
(* writes and resends and the network does, the log sees packets that the  *)
(* theorems above allow for, so that all of them hold in the session.      *)
(***************************************************************************)
THEOREM SessionImplementsStream == SessionSpec => Spec
BY SessionStep, PTL DEF SessionSpec, SessionInit, Spec

\* x is one of the first n numbers of the stream.
Written(x, n) == x \in SeqNums /\ Minus(x, FirstSeq) < n

\* Only written numbers are under way or have arrived; end is the latest of those that
\* arrived; and in the window the bits say which did.
SessionInv ==
    /\ LogInvariant
    /\ sent \in 0 .. MaxSend
    /\ \A x \in net \cup got : Written(x, sent)
    /\ \A nack \in nackNet : nack \subseteq SeqNums
    /\ \A i \in Indexes : buffer.packets[i] # NoPacket => Written(buffer.packets[i], sent)
    /\ ~log.started => got = {}
    /\ log.started => /\ log.end \in got
                      /\ \A x \in got : Minus(x, FirstSeq) <= Minus(log.end, FirstSeq)
                      /\ \A x \in SeqNums : Minus(log.end, x) < Size =>
                            (getReceived(log, x) <=> x \in got)

\* The bits and the history agree at the start.
LEMMA SessionStart == SessionInit => SessionInv
<1> SUFFICES ASSUME SessionInit PROVE SessionInv
  OBVIOUS
<1>1. LogInvariant /\ ~log.started
  BY NewLog, LogIsGood DEF SessionInit, Init
<1>2. sent = 0 /\ net = {} /\ got = {} /\ nackNet = {}
      /\ \A i \in Indexes : buffer.packets[i] = NoPacket
  BY DEF SessionInit, NewRTPBuffer
<1>3. sent \in 0 .. MaxSend
  BY <1>2, SessionAssumption, HalfAssumption
<1>. QED
  BY <1>1, <1>2, <1>3 DEF SessionInv

\* A packet that arrives is recorded as such, and nothing else is.
LEMMA ReadTruthful ==
    ASSUME Size < Half, MaxLate < Size, SessionInv, LogInvariant',
           NEW seq \in SeqNums, Read(seq)
    PROVE  SessionInv'
<1>0. /\ GoodLog(log) /\ log \in Log /\ log.end \in SeqNums
      /\ sent \in 0 .. MaxSend /\ sent \in Nat /\ MaxSend <= Half /\ Half \in Nat /\ MaxSend \in Nat
      /\ Size \in Nat /\ MaxLate \in Nat /\ FirstSeq \in SeqNums
  BY LogIsGood, HalfAssumption, SizeAssumption, SessionAssumption, StreamAssumption
     DEF SessionInv, GoodLog, Log
<1>1. /\ seq \in net /\ CanArrive(seq) /\ log' = add(log, seq) /\ got' = got \cup {seq}
      /\ net' = net \ {seq} /\ UNCHANGED <<sent, buffer, nackNet>>
  BY DEF Read, Receive
<1>2. Written(seq, sent) /\ \A x \in got : Written(x, sent)
  BY <1>1 DEF SessionInv
<1>3. \A x \in SeqNums : /\ Minus(log.end, x) \in Nat /\ Minus(x, log.end) \in Nat
                         /\ Minus(x, FirstSeq) \in Nat /\ Minus(seq, x) \in Nat
  BY <1>0, PlusMinusType
<1> DEFINE Truth == /\ log'.started /\ log'.end \in got'
                    /\ \A x \in got' : Minus(x, FirstSeq) <= Minus(log'.end, FirstSeq)
                    /\ \A x \in SeqNums : Minus(log'.end, x) < Size =>
                          (getReceived(log', x) <=> x \in got')
<1>9. /\ sent' \in 0 .. MaxSend
      /\ \A x \in net' \cup got' : Written(x, sent')
      /\ \A nack \in nackNet' : nack \subseteq SeqNums
      /\ \A i \in Indexes : buffer'.packets[i] # NoPacket => Written(buffer'.packets[i], sent')
  BY <1>0, <1>1, <1>2 DEF SessionInv, Written
<1> SUFFICES Truth
  BY <1>1, <1>9 DEF SessionInv
<1>4. CASE ~log.started
  <2>1. got = {} /\ log' = addFirst(newReceiveLog, seq)
    BY <1>0, <1>1, <1>4 DEF SessionInv, GoodLog, add
  <2>2. /\ log'.started /\ log'.end = seq
        /\ \A x \in SeqNums : Minus(seq, x) < Size => (getReceived(log', x) <=> x = seq)
    BY <2>1, AddFirst
  <2>. QED
    BY <1>1, <1>3, <2>1, <2>2
<1>5. CASE log.started /\ seq = log.end
  <2>1. log' = log /\ got' = got
    BY <1>1, <1>5 DEF SessionInv, add
  <2>. QED
    BY <1>5, <2>1 DEF SessionInv
<1>6. CASE log.started /\ IsAhead(seq, log.end)
  <2>1. log' = addAhead(log, seq)
    BY <1>1, <1>6 DEF add, IsAhead
  <2>2. /\ log'.started /\ log'.end = seq
        /\ \A x \in SeqNums : Minus(seq, x) < Size =>
              (getReceived(log', x) <=>
                  \/ x = seq
                  \/ /\ getReceived(log, x)
                     /\ ~(x # log.end /\ Minus(x, log.end) < Minus(seq, log.end)))
    BY <1>0, <1>6, <2>1, AddAhead DEF GoodLog
  <2>3. /\ log.end \in got
        /\ \A x \in got : Minus(x, FirstSeq) <= Minus(log.end, FirstSeq)
        /\ \A x \in SeqNums : Minus(log.end, x) < Size => (getReceived(log, x) <=> x \in got)
    BY <1>6 DEF SessionInv
  <2>4. Written(log.end, sent)
    BY <1>2, <2>3
  \* The new end was written later than the old one.
  <2>5. Minus(log.end, FirstSeq) < Minus(seq, FirstSeq)
    BY <1>0, <1>2, <1>6, <2>4 DEF Written, IsAhead, Uint16SizeHalf, Minus, SeqNums, Modulus
  \* What arrived earlier is not between the two.
  <2>6. ASSUME NEW x \in got
        PROVE  ~(x # log.end /\ Minus(x, log.end) < Minus(seq, log.end))
    <3>1. Written(x, sent) /\ Minus(x, FirstSeq) <= Minus(log.end, FirstSeq)
      BY <1>2, <2>3
    <3>. QED
      BY <1>0, <1>2, <1>6, <2>4, <3>1
         DEF Written, IsAhead, Uint16SizeHalf, Minus, SeqNums, Modulus
  <2>7. ASSUME NEW x \in SeqNums, Minus(seq, x) < Size, x # seq,
               ~(x # log.end /\ Minus(x, log.end) < Minus(seq, log.end))
        PROVE  Minus(log.end, x) < Size
    BY <1>0, <1>6, <2>7 DEF IsAhead, Uint16SizeHalf, Minus, SeqNums, Modulus
  <2>8. \A x \in got' : Minus(x, FirstSeq) <= Minus(log'.end, FirstSeq)
    <3>1. \A x \in got : Minus(x, FirstSeq) \in Nat
      BY <1>2, <1>3 DEF Written
    <3>. QED
      BY <1>0, <1>1, <1>3, <2>2, <2>3, <2>5, <3>1
  <2>9. ASSUME NEW x \in SeqNums, Minus(seq, x) < Size
        PROVE  getReceived(log', x) <=> x \in got'
    BY <1>1, <2>2, <2>3, <2>6, <2>7, <2>9
  <2>. QED
    BY <1>1, <2>2, <2>8, <2>9
<1>7. CASE log.started /\ seq # log.end /\ ~IsAhead(seq, log.end)
  <2>1. log' = addLate(log, seq) /\ Minus(log.end, seq) <= MaxLate
    BY <1>1, <1>7 DEF add, CanArrive
  <2>2. Minus(log.end, seq) < Size
    BY <1>0, <1>3, <2>1
  <2>3. /\ log'.end = log.end /\ log'.started
        /\ \A x \in SeqNums : Minus(log.end, x) < Size =>
              (getReceived(log', x) <=> x = seq \/ getReceived(log, x))
    BY <1>0, <1>7, <2>1, <2>2, AddLate DEF GoodLog
  <2>4. /\ log.end \in got
        /\ \A x \in got : Minus(x, FirstSeq) <= Minus(log.end, FirstSeq)
        /\ \A x \in SeqNums : Minus(log.end, x) < Size => (getReceived(log, x) <=> x \in got)
    BY <1>7 DEF SessionInv
  <2>5. Written(log.end, sent)
    BY <1>2, <2>4
  <2>6. Minus(seq, FirstSeq) <= Minus(log.end, FirstSeq)
    BY <1>0, <1>2, <1>7, <2>5 DEF Written, IsAhead, Uint16SizeHalf, Minus, SeqNums, Modulus
  <2>. QED
    BY <1>1, <2>3, <2>4, <2>6
<1>. QED
  BY <1>0, <1>4, <1>5, <1>6, <1>7 DEF Log

\* The other steps leave the log and the history alone.
LEMMA SessionKeeps ==
    ASSUME Size < Half, MaxLate < Size, SessionInv, SessionNext \/ UNCHANGED sessionVars
    PROVE  SessionInv'
<1>0. LogInvariant'
  BY SessionStep, LogNext DEF SessionInv
<1>1. ASSUME UNCHANGED <<log, got>>,
             sent' \in 0 .. MaxSend, sent' >= sent,
             \A x \in net' : Written(x, sent'),
             \A nack \in nackNet' : nack \subseteq SeqNums,
             \A i \in Indexes : buffer'.packets[i] # NoPacket => Written(buffer'.packets[i], sent')
      PROVE  SessionInv'
  <2>1. \A x \in SeqNums : Minus(x, FirstSeq) \in Nat
    BY PlusMinusType, SessionAssumption
  <2>2. sent \in 0 .. MaxSend /\ MaxSend \in Nat
    BY SessionAssumption, HalfAssumption DEF SessionInv
  <2>3. \A x \in got' : Written(x, sent')
    BY <1>1, <2>1, <2>2 DEF SessionInv, Written
  <2>. QED
    BY <1>0, <1>1, <2>3 DEF SessionInv
<1>2. /\ sent \in 0 .. MaxSend /\ sent \in Nat /\ MaxSend \in Nat
      /\ MaxSend <= Half /\ Half \in Nat /\ FirstSeq \in SeqNums
      /\ \A x \in net : Written(x, sent)
      /\ \A nack \in nackNet : nack \subseteq SeqNums
      /\ \A i \in Indexes : buffer.packets[i] # NoPacket => Written(buffer.packets[i], sent)
  BY SessionAssumption, HalfAssumption DEF SessionInv
<1>3. \A x : UNCHANGED sent /\ Written(x, sent) => Written(x, sent')
  BY DEF Written
<1>4. CASE UNCHANGED sessionVars
  BY <1>1, <1>2, <1>3, <1>4 DEF sessionVars
<1>5. CASE Write
  <2> DEFINE seq == SeqOf(sent + 1)
  <2>1. /\ sent < MaxSend /\ sent' = sent + 1 /\ buffer' = Add(buffer, seq, seq)
        /\ net' = net \cup {seq} /\ UNCHANGED <<nackNet, log, got>>
    BY <1>5 DEF Write
  <2>2. seq \in SeqNums /\ Minus(seq, FirstSeq) = sent
    <3>1. sent \in SeqNums /\ seq = Plus(FirstSeq, sent)
      BY <1>2, <2>1 DEF SeqOf, SeqNums, Modulus
    <3>. QED
      BY <1>2, <3>1, PlusMinusType
  <2> HIDE DEF seq
  <2>3. Written(seq, sent') /\ \A x : Written(x, sent) => Written(x, sent')
    <3>1. \A x \in SeqNums : Minus(x, FirstSeq) \in Nat
      BY <1>2, PlusMinusType
    <3>2. seq \in SeqNums /\ Minus(seq, FirstSeq) < sent'
      BY <1>2, <2>1, <2>2
    <3>3. \A x \in SeqNums : Minus(x, FirstSeq) < sent => Minus(x, FirstSeq) < sent'
      BY <1>2, <2>1, <3>1
    <3>. QED
      BY <3>2, <3>3 DEF Written
  <2>4. \A i \in Indexes : buffer'.packets[i] \in {seq, NoPacket, buffer.packets[i]}
    BY <2>1 DEF Add
  <2>5. \A i \in Indexes : buffer'.packets[i] # NoPacket => Written(buffer'.packets[i], sent')
    BY <1>2, <2>3, <2>4
  <2>. QED
    BY <1>1, <1>2, <2>1, <2>3, <2>5
<1>6. CASE Tick
  <2>1. /\ nackNet' = nackNet \cup {missingSeqNumbers(log, 0)}
        /\ UNCHANGED <<sent, buffer, net, log, got>>
    BY <1>6 DEF Tick
  <2>2. missingSeqNumbers(log, 0) \subseteq SeqNums
    BY <1>2, LogIsGood, MissingInWindow, HalfAssumption DEF SessionInv
  <2>. QED
    BY <1>1, <1>2, <2>1, <2>2
<1>7. ASSUME NEW seq \in SeqNums, Read(seq)
      PROVE  SessionInv'
  BY <1>0, <1>7, ReadTruthful
<1>8. ASSUME NEW seq \in SeqNums, Lose(seq) \/ Expire(seq)
      PROVE  SessionInv'
  BY <1>1, <1>2, <1>8 DEF Lose, Expire
<1>9. ASSUME NEW nack \in nackNet, LoseNack(nack)
      PROVE  SessionInv'
  BY <1>1, <1>2, <1>9 DEF LoseNack
<1>10. ASSUME NEW nack \in nackNet, NEW seq \in nack, Resend(nack, seq)
       PROVE  SessionInv'
  <2>1. seq \in SeqNums
    BY <1>2
  <2>2. /\ nackNet' = (nackNet \ {nack}) \cup ({nack \ {seq}} \ {{}})
        /\ net' = IF Get(buffer, seq, Number) = NoPacket THEN net ELSE net \cup {seq}
        /\ UNCHANGED <<sent, buffer, log, got>>
    BY <1>10 DEF Resend
  \* The ring holds only what was written.
  <2>3. Get(buffer, seq, Number) # NoPacket => Written(seq, sent)
    <3> SUFFICES ASSUME Get(buffer, seq, Number) # NoPacket PROVE Written(seq, sent)
      OBVIOUS
    <3> DEFINE p == buffer.packets[Index(seq)]
    <3>1. p # NoPacket /\ Number[p] = seq
      BY DEF Get
    <3>2. Index(seq) \in Indexes
      BY <2>1, BufferSizeAssumption, HalfAssumption DEF Index, Indexes, SeqNums, Modulus
    <3>3. Written(p, sent)
      BY <1>2, <3>1, <3>2
    <3>4. p \in SeqNums
      BY <3>3 DEF Written
    <3> HIDE DEF p
    <3>5. Number[p] = p
      BY <3>4 DEF Number
    <3>. QED
      BY <3>1, <3>3, <3>5
  <2>4. \A x \in net' : Written(x, sent')
    BY <1>2, <2>2, <2>3
  <2>5. \A n \in nackNet' : n \subseteq SeqNums
    BY <1>2, <2>2
  <2>. QED
    BY <1>1, <1>2, <2>2, <2>4, <2>5
<1>. QED
  BY <1>4, <1>5, <1>6, <1>7, <1>8, <1>9, <1>10 DEF SessionNext

(***************************************************************************)
(* In a session of up to half the number space, however packets and NACKs  *)
(* are lost, reordered, repeated and resent, the log takes no packet for   *)
(* received that did not arrive and reports none as missing that did, for  *)
(* every log and ring size, when the log is below half the number space    *)
(* and packets are not later than it remembers (receive_log.go, add, get   *)
(* and missingSeqNumbers).                                                 *)
(***************************************************************************)
THEOREM LogIsTruthfulHolds ==
    ASSUME Size < Half, MaxLate < Size
    PROVE  SessionSpec => []LogIsTruthful
<1>1. SessionInv => LogIsTruthful
  <2> SUFFICES ASSUME SessionInv PROVE LogIsTruthful
    OBVIOUS
  <2>1. GoodLog(log) /\ log \in Log /\ log.end \in SeqNums /\ log.lastConsecutive \in SeqNums
    BY LogIsGood DEF SessionInv, GoodLog, Log
  <2> DEFINE E == Minus(log.end, log.lastConsecutive)
  <2>2. E \in Nat /\ E <= Size /\ E < Half /\ Size \in Nat
    <3>1. E \in Nat /\ E <= Size
      BY <2>1, PlusMinusType DEF GoodLog
    <3> HIDE DEF E
    <3>. QED
      BY <3>1, SizeAssumption, HalfAssumption
  <2>3. missingSeqNumbers(log, 0) =
            {x \in SeqNums : Minus(log.end, x) < E /\ ~getReceived(log, x)}
    BY <2>1, <2>2, MissingIs
  <2> HIDE DEF E
  <2>4. missingSeqNumbers(log, 0) \cap got = {}
    <3> SUFFICES ASSUME NEW x \in missingSeqNumbers(log, 0), x \in got PROVE FALSE
      OBVIOUS
    <3>1. log.started /\ x \in SeqNums /\ ~getReceived(log, x) /\ Minus(log.end, x) < E
      BY <2>3 DEF SessionInv
    <3>2. Minus(log.end, x) < Size
      BY <2>1, <2>2, <3>1, PlusMinusType
    <3>. QED
      BY <3>1, <3>2 DEF SessionInv
  <2>5. \A x \in SeqNums : log.started /\ get(log, x) => x \in got
    BY DEF SessionInv, get
  <2>. QED
    BY <2>4, <2>5 DEF LogIsTruthful
<1>2. SessionInv /\ [SessionNext]_sessionVars => SessionInv'
  BY SessionKeeps
<1>. QED
  BY <1>1, <1>2, SessionStart, PTL DEF SessionSpec
=============================================================================
