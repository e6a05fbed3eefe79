------------------------ MODULE SeqNumOnlyRefFinder ------------------------
(***************************************************************************)
(* pkg/videoframe/seq_num_only_ref_finder.go: references of frames that    *)
(* carry no picture ID.  A frame is handed out when its first packet       *)
(* follows the last packet of the frame handed out before it, and is       *)
(* stashed otherwise.  A finder is a record; operators return a new finder *)
(* with the frames they hand out in field out.                             *)
(***************************************************************************)
EXTENDS Integers, Sequences, SequencesExt, Evaluation

CONSTANT MaxStashedFrames   \* maxStashedFrames: 100

NewSeqNumOnlyRefFinder ==
    [gop |-> -1, lastFirst |-> -1, lastLast |-> -1, gotInitialFrame |-> FALSE,
     stash |-> <<>>]

\* The append of both finders that stash: at the limit the first frame of the
\* stash makes room. Both then sort their stash.
Stashed(stash, entry) ==
    Append(IF Len(stash) >= MaxStashedFrames THEN Tail(stash) ELSE stash, entry)

stashFrame(f, frame) ==
    [f EXCEPT !.stash =
        SortSeq(Stashed(@, frame), LAMBDA a, b : a.first < b.first)]

clearStashedFramesBefore(f, seqNum) ==
    [f EXCEPT !.stash = SelectSeq(@, LAMBDA fr : fr.first >= seqNum)]

\* The frame becomes the one the next frame refers to.
Advance(f, frame) ==
    [f EXCEPT !.lastFirst = frame.first, !.lastLast = frame.last]

Referring(f, frame) ==
    [frame EXCEPT !.id = frame.first, !.refs = <<f.lastFirst>>]

\* Fault: the stash is not looked at again.
tryResolveNothing(f) == [finder |-> f, out |-> <<>>]

\* Stashed frames are handed out as long as one of them continues the chain.
tryResolveStashedFrames(f) ==
    LET next(r, i) ==
            LET k == SelectInSeq(r.finder.stash,
                        LAMBDA fr : fr.first = r.finder.lastLast + 1)
            IN  IF k = 0
                THEN r
                ELSE LET fr == r.finder.stash[k]
                     IN  [finder |-> [Advance(r.finder, fr) EXCEPT
                                         !.stash = RemoveAt(@, k)],
                          out |-> Append(r.out, Referring(r.finder, fr))]
    IN  FoldOnce(next, [finder |-> f, out |-> <<>>], f.stash)

Release(f, frame) ==
    LET r == tryResolveStashedFrames(Advance(f, frame))
    IN  [r EXCEPT !.out = <<frame>> \o @]

\* Stashed frames older than a key frame are dropped.
handleKeyframe(f, frame) ==
    Release(clearStashedFramesBefore(
                [f EXCEPT !.gop = frame.first, !.gotInitialFrame = TRUE],
                frame.first),
            [frame EXCEPT !.id = frame.first])

\* Fault: a frame that starts after the expected number is let through.
handleDeltaFrameAhead(f, frame) ==
    IF f.gotInitialFrame /\ frame.first > f.lastLast
    THEN Release(f, Referring(f, frame))
    ELSE [finder |-> stashFrame(f, frame), out |-> <<>>]

handleDeltaFrame(f, frame) ==
    IF f.gotInitialFrame /\ frame.first = f.lastLast + 1
    THEN Release(f, Referring(f, frame))
    ELSE [finder |-> IF f.gotInitialFrame /\ frame.first < f.gop
                     THEN f
                     ELSE stashFrame(f, frame),
          out |-> <<>>]

ManageFrame(f, frame) ==
    IF frame.key THEN handleKeyframe(f, frame) ELSE handleDeltaFrame(f, frame)
=============================================================================
