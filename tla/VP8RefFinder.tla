---------------------------- MODULE VP8RefFinder ----------------------------
(***************************************************************************)
(* The reference finders of pkg/videoframe that use the VP8 picture ID:    *)
(* frame_id_only_ref_finder.go and vp8_ref_finder.go, which also uses the  *)
(* temporal layer and TL0PICIDX of a frame.  A stashed frame keeps the     *)
(* numbers unwrapped when it was stashed.                                  *)
(***************************************************************************)
EXTENDS Integers, Sequences, SequencesExt, Evaluation

CONSTANTS
    PicModulus,         \* pictureIDModulus: 2^15
    TL0Modulus,         \* tl0PicIdxModulus: 2^8
    Layers,             \* maxTemporalLayers: 4
    MaxTL0History,      \* maxTL0History: 10
    MaxPictureAge,      \* age at which a key frame drops a stashed frame: 100
    MaxStashedFrames,   \* maxStashedFrames: 100
    Absent              \* NoPictureID, NoTemporalIdx, NoTL0PicIdx

\* The two finders that stash frames share the rule of their stashes.
LOCAL S == INSTANCE SeqNumOnlyRefFinder

NewUnwrapper == [started |-> FALSE, last |-> 0]

\* Fault: a number is unwrapped as if it never wrapped.
UnwrapPlain(u, v, modulus) == [started |-> TRUE, last |-> v]

\* The unwrappers of the package: the number congruent to v nearest to the
\* last one.
Unwrap(u, v, modulus) ==
    IF ~u.started
    THEN [started |-> TRUE, last |-> v % modulus]
    ELSE LET diff == (v % modulus) - (u.last % modulus)
         IN  [u EXCEPT !.last = @ +
                 (IF diff > modulus \div 2 THEN diff - modulus
                  ELSE IF diff < -(modulus \div 2) THEN diff + modulus
                  ELSE diff)]

UnwrapPictureID(u, pictureID) == Unwrap(u, pictureID, PicModulus)

UnwrapTL0PicIdx(u, tl0) == Unwrap(u, tl0, TL0Modulus)
-----------------------------------------------------------------------------
\* FrameIdOnlyRefFinder: no stash; a delta frame refers to the picture before.

\* ClearTo of this finder is empty, and ManageFrame is not called without a
\* picture ID (SelectRefFinderType).
ByPictureID(frame, id) ==
    [frame EXCEPT !.id = id, !.refs = IF frame.key THEN <<>> ELSE <<id - 1>>]

ManageFrameIdOnly(u, frame, header) ==
    LET v == UnwrapPictureID(u, header.pictureID)
    IN  [finder |-> v,
         out |-> IF v.last < 0 THEN <<>> ELSE <<ByPictureID(frame, v.last)>>]
-----------------------------------------------------------------------------
\* VP8RefFinder.  layerInfo maps an unwrapped TL0PICIDX to the picture of each
\* layer, stored plus one; 0 is none.

NewVP8RefFinder ==
    [pics |-> NewUnwrapper, tl0s |-> NewUnwrapper, layerInfo |-> <<>>,
     lastPictureID |-> -1, gotInitialFrame |-> FALSE, stash |-> <<>>]

NoLayers == [t \in 0..Layers - 1 |-> 0]

updateLayerInfo(f, tl0, tid, pid) ==
    LET info == IF tl0 \in DOMAIN f.layerInfo THEN f.layerInfo[tl0] ELSE NoLayers
    IN  [f EXCEPT !.layerInfo =
            (tl0 :> [info EXCEPT ![tid] = pid + 1]) @@ @]

initLayerInfo(f, tl0, pid) ==
    [f EXCEPT !.layerInfo = (tl0 :> [NoLayers EXCEPT ![0] = pid + 1]) @@ @]

clearOldState(f, tl0) ==
    [f EXCEPT !.layerInfo = Restrict(@, {t \in DOMAIN @ : tl0 - t <= MaxTL0History}),
              !.stash = SelectSeq(@, LAMBDA s : f.lastPictureID - s.pid < MaxPictureAge)]

\* The picture of the highest layer set among 0..top for this TL0PICIDX.
TopLayer(f, tl0, top) ==
    LET set == {t \in 0..top : tl0 \in DOMAIN f.layerInfo /\ f.layerInfo[tl0][t] # 0}
    IN  {f.layerInfo[tl0][t] - 1 : t \in {t \in set : \A o \in set : o <= t}}

\* The references getReferences may return, none when it fails.  The last
\* resort of an enhancement layer ranges over a Go map: any base layer.  The
\* previous TL0PICIDX of an enhancement frame is its own.
getReferences(f, tl0, tid) ==
    IF tid = 0
    THEN TopLayer(f, tl0 - 1, 0)
    ELSE LET lower == TopLayer(f, tl0, tid - 1)
             same  == TopLayer(f, tl0, tid)
         IN  IF lower # {} THEN lower
             ELSE IF same # {} THEN same
             ELSE UNION {TopLayer(f, t, 0) : t \in DOMAIN f.layerInfo}

stashVP8Frame(f, entry) ==
    [f EXCEPT !.stash =
        SortSeq(S!Stashed(@, entry), LAMBDA a, b : a.pid < b.pid)]

\* Handing out a frame with reference ref.
Accept(f, entry, ref) ==
    [finder |-> [updateLayerInfo(f, entry.tl0, entry.tid, entry.pid) EXCEPT
                    !.lastPictureID = entry.pid],
     out |-> <<[entry.frame EXCEPT !.id = entry.pid, !.refs = <<ref>>]>>]

\* All outcomes of handing out stashed frames until none has a reference:
\* each round takes the first frame of the stash that has one.
tryResolveStashedVP8Frames(f) ==
    LET refs(g, i) == getReferences(g, g.stash[i].tl0, g.stash[i].tid)
        round(r) ==
            LET g     == r.finder
                ready == {i \in DOMAIN g.stash : refs(g, i) # {}}
            IN  IF ready = {}
                THEN {r}
                ELSE LET i == CHOOSE i \in ready : \A j \in ready : i <= j
                     IN  {LET a == Accept(g, g.stash[i], ref)
                          IN  [finder |-> [a.finder EXCEPT !.stash = RemoveAt(@, i)],
                               out |-> r.out \o a.out] : ref \in refs(g, i)}
        rounds(R, i) == UNION {round(r) : r \in R}
    IN  FoldOnce(rounds, {[finder |-> f, out |-> <<>>]}, f.stash)

WithResolved(result) ==
    UNION {{[r EXCEPT !.out = a.out \o @] : r \in tryResolveStashedVP8Frames(a.finder)} :
               a \in {result}}

handleVP8Keyframe(f, entry) ==
    LET g == [initLayerInfo(f, entry.tl0, entry.pid) EXCEPT
                 !.lastPictureID = entry.pid, !.gotInitialFrame = TRUE]
    IN  WithResolved([finder |-> clearOldState(g, entry.tl0),
                      out |-> <<[entry.frame EXCEPT !.id = entry.pid]>>])

handleVP8DeltaFrame(f, entry) ==
    LET refs == getReferences(f, entry.tl0, entry.tid)
    IN  IF ~f.gotInitialFrame \/ refs = {}
        THEN {[finder |-> stashVP8Frame(f, entry), out |-> <<>>]}
        ELSE UNION {WithResolved(Accept(f, entry, ref)) : ref \in refs}

\* The set of outcomes of ManageFrame.
ManageVP8Frame(f, frame, header) ==
    LET pics  == UnwrapPictureID(f.pics, header.pictureID)
        tl0s  == UnwrapTL0PicIdx(f.tl0s, header.tl0)
        g     == [f EXCEPT !.pics = pics, !.tl0s = tl0s]
        entry == [frame |-> frame, pid |-> pics.last, tl0 |-> tl0s.last,
                  tid |-> IF header.tid >= Layers THEN Layers - 1 ELSE header.tid]
    IN  IF pics.last < 0 \/ tl0s.last < 0 THEN {[finder |-> g, out |-> <<>>]}
        ELSE IF frame.key /\ entry.tid = 0 THEN handleVP8Keyframe(g, entry)
        ELSE handleVP8DeltaFrame(g, entry)
=============================================================================
