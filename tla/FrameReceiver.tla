--------------------------- MODULE FrameReceiver ---------------------------
(***************************************************************************)
(* The FEC frame receiver of the client (FrameReceiver): gap detection and *)
(* NACK bookkeeping, reassembly of frames from FEC groups, delivery in     *)
(* frame order, timeouts and the limit on pending frames.                  *)
(*                                                                         *)
(* One thread feeds it: a packet, and after every packet a tick, so each   *)
(* call is one action and a tick is due only when a packet has come.  The  *)
(* network may lose, reorder, delay and duplicate packets, and a NACK may  *)
(* bring a block back: any packet may arrive at any time, or never.        *)
(*                                                                         *)
(* Times are abstracted: a tick may find any of the oldest unfinished      *)
(* frames timed out, and may give up any NACK entry (its retries or its    *)
(* lifetime are used up).  The clock is finer than packet arrivals, so     *)
(* frames are ordered by the arrival of their first block.                 *)
(***************************************************************************)
EXTENDS Integers, Sequences, FiniteSets, FiniteSetsExt

CONSTANTS
    Packets,          \* the data packets of the sender, by sequence number:
                      \*   [frame, index, data, fec], frames counted from 1, the
                      \*   index of the block in its group from 0
    FrameIds,         \* number of frame ids (65536)
    FirstFrameId,     \* the id of frame 1
    MaxGap,           \* gap that detectGaps no longer fills with NACKs (512)
    MaxPendingFrames, \* config.max_pending_frames
    None              \* no delivery cursor yet

VARIABLES
    pending,   \* pending_frames, in the order their first blocks arrived
    cursor,    \* next_deliver_frame_id, or None
    expected,  \* expected_data_seq, 0 before the first packet
    completed, \* completed_seq
    nacks,     \* the keys of nack_states
    layouts,   \* group_layouts: start_seq of the groups whose layout is known
    delivered, \* frames handed to the application, in order
    dropped,   \* frames that timed out, reported with frame_dropped_cb
    evicted,   \* frames whose place was given to others: unfinished ones, reported
               \* likewise, and ones that had timed out
    due        \* a packet was handled and the tick that follows it was not

vars == <<pending, cursor, expected, completed, nacks, layouts, delivered, dropped, evicted, due>>

Seqs == DOMAIN Packets
Frames == {Packets[q].frame : q \in Seqs}

Id(f) == (FirstFrameId + f - 1) % FrameIds

\* The int16_t difference of two frame ids.
Diff(a, b) == ((a - b + FrameIds + FrameIds \div 2) % FrameIds) - FrameIds \div 2

\* A group is named by the sequence number of its first block.
Group(q) == q - Packets[q].index
Blocks == [s \in Seqs |-> s .. s + Packets[s].data + Packets[s].fec - 1]
GroupsOf == [f \in Frames |-> {q \in Seqs : Packets[q].frame = f /\ Packets[q].index = 0}]
FrameStart == [f \in Frames |-> Min({q \in Seqs : Packets[q].frame = f})]
FrameEnd == [f \in Frames |-> Max({q \in Seqs : Packets[q].frame = f})]

Init ==
    /\ pending = <<>>
    /\ cursor = None
    /\ expected = 0
    /\ completed = 0
    /\ nacks = {}
    /\ layouts = {}
    /\ delivered = <<>>
    /\ dropped = {}
    /\ evicted = {}
    /\ due = FALSE

-----------------------------------------------------------------------------
(* Reassembly *)

\* FecGroupState and PendingFrame: a group is decoded as soon as it has as many
\* blocks as it has data blocks, whichever they are.
Decoded(r, s) == Cardinality(r.got \cap Blocks[s]) >= Packets[s].data

\* Mutant: a frame that timed out can still be completed.
CompleteLate(r) == \A s \in GroupsOf[r.frame] : Decoded(r, s)

Complete(r) == ~r.discarded /\ \A s \in GroupsOf[r.frame] : Decoded(r, s)
Unfinished(r) == ~r.discarded /\ ~Complete(r)

\* Mutant: first_seq stays that of the block that came first.
WithBlockInexact(r, q, known) ==
    [r EXCEPT !.got = IF Decoded(r, Group(q)) THEN @ ELSE @ \cup {q}]

\* addBlock, and first_seq, which is made exact when the layouts of all earlier
\* groups of the frame are known.
WithBlock(r, q, known) ==
    [r EXCEPT !.got = IF Decoded(r, Group(q)) THEN @ ELSE @ \cup {q},
              !.first = IF {s \in GroupsOf[r.frame] : s < Group(q)} \subseteq known
                        THEN Min({@, FrameStart[r.frame]}) ELSE @]

NewFrame(q) == [frame |-> Packets[q].frame, got |-> {}, first |-> q, discarded |-> FALSE]

\* findOrCreateFrame makes room for a new frame when the limit is reached: the
\* discarded frames go and, if that is not enough, the one that waited longest.
Released == IF Len(pending) < MaxPendingFrames THEN pending
            ELSE SelectSeq(pending, LAMBDA r : ~r.discarded)

\* Mutant: nothing is evicted.
EvictedNone == {}

Evicted == IF Len(Released) < MaxPendingFrames \/ Released = <<>> THEN {}
           ELSE {Released[1].frame}

FramesIn(P) == {P[k].frame : k \in DOMAIN P}

\* The pending frames that are left when packet q looks for its frame: room is
\* made unless that frame is there and unfinished.
Room(q) ==
    IF \E k \in DOMAIN pending : pending[k].frame = Packets[q].frame /\ Unfinished(pending[k])
    THEN pending
    ELSE SelectSeq(Released, LAMBDA r : r.frame \notin Evicted)

\* ... and with its frame, which is created if it is not among them.
WithFrame(q) ==
    IF Packets[q].frame \in FramesIn(Room(q)) THEN Room(q) ELSE Append(Room(q), NewFrame(q))

-----------------------------------------------------------------------------
(* Gaps *)

IsFecSeq(q, known) == \E s \in known : q \in Blocks[s] /\ q - s >= Packets[s].data

\* The first packet that is seen of a group, not being the group's first block,
\* moves expected_data_seq behind the start of the group.
Jumps(q) ==
    /\ Group(q) \notin layouts
    /\ Packets[q].index > 0
    /\ expected = 0 \/ Group(q) >= expected

\* Where detectGaps starts for packet q.
From(q) == IF Jumps(q) THEN Group(q) + 1 ELSE IF expected = 0 THEN q ELSE expected

\* The sequence numbers that packet q shows to be missing: the start of the
\* group, and those detectGaps finds.
Missing(q, known) ==
    (IF Jumps(q) THEN {Group(q)} ELSE {})
      \cup (IF q - From(q) > MaxGap THEN {} ELSE {m \in From(q) .. q - 1 : ~IsFecSeq(m, known)})

\* Mutant: off by one.
ExpectedAfterNext(q) == IF q >= From(q) THEN q + 2 ELSE From(q)

ExpectedAfter(q) == IF q >= From(q) THEN q + 1 ELSE From(q)

\* Mutant: the entries of a decoded group stay.
ObsoleteNone(old, new, q) == {}

\* eraseGroupNacks, when packet q completes its group.
Obsolete(old, new, q) ==
    IF Decoded(new, Group(q)) /\ ~Decoded(old, Group(q)) THEN Blocks[Group(q)] ELSE {}

-----------------------------------------------------------------------------
(* Delivery *)

\* updateCompletedSeq for the frames out of P, never past an unfinished one.
Acknowledged(P, out) ==
    LET last(r) == r.first + FrameEnd[r.frame] - FrameStart[r.frame]
        limits  == {P[k].first - 1 : k \in {j \in DOMAIN P : Unfinished(P[j])}}
    IN  Max({completed} \cup {Min({last(out[k])} \cup limits) : k \in DOMAIN out})

At(P, i) == {r \in {P[k] : k \in DOMAIN P} : Id(r.frame) = i}

\* The number of frames the cursor passes: those that are complete or discarded,
\* up to the first that is missing or unfinished.
Run(P, c) == Min({k \in 0..Len(P) : \A r \in At(P, (c + k) % FrameIds) : Unfinished(r)})

\* Mutant: the frames the cursor passes are delivered in the order they arrived in.
OutByArrival(P, c) == SelectSeq(P, LAMBDA r : Complete(r) /\ Diff(Id(r.frame), c) < Run(P, c))

\* The frames delivered on the way.
Out(P, c) ==
    SelectSeq([k \in 1..Run(P, c) |-> CHOOSE r \in At(P, (c + k - 1) % FrameIds) : TRUE], Complete)

\* tryDeliverInOrder on the pending frames P with the cursor at c, after frames
\* behind the cursor are erased.
DeliverInOrder(P, c) ==
    \E fresh \in {SelectSeq(P, LAMBDA r : Diff(Id(r.frame), c) >= 0)} :
    \E out \in {Out(fresh, c)}, passed \in {{(c + k - 1) % FrameIds : k \in 1..Run(fresh, c)}} :
        /\ pending' = SelectSeq(fresh, LAMBDA r : Id(r.frame) \notin passed)
        /\ cursor' = (c + Run(fresh, c)) % FrameIds
        /\ delivered' = delivered \o [k \in DOMAIN out |-> out[k].frame]
        /\ completed' = Acknowledged(fresh, out)

-----------------------------------------------------------------------------
(* Operations *)

Stale(q) == cursor # None /\ Diff(Id(Packets[q].frame), cursor) < 0

\* handleData: late blocks of frames behind the cursor are ignored; any other is
\* looked at for gaps and added to its frame, which may complete it.
HandleData(q) ==
    LET f     == Packets[q].frame
        known == layouts \cup {Group(q)}
        P     == WithFrame(q)
        k     == CHOOSE j \in DOMAIN P : P[j].frame = f
        new   == WithBlock(P[k], q, known)
    IN  /\ ~due
        /\ ~Stale(q)
        /\ due' = TRUE
        /\ layouts' = known
        /\ expected' = ExpectedAfter(q)
        /\ nacks' = ((nacks \cup Missing(q, known)) \ {q}) \ Obsolete(P[k], new, q)
        /\ DeliverInOrder([P EXCEPT ![k] = new], IF cursor = None THEN Id(f) ELSE cursor)
        /\ evicted' = evicted \cup (FramesIn(pending) \ FramesIn(Room(q)))
        /\ UNCHANGED dropped

\* A packet that changes nothing here, but is followed by a tick like any other: a
\* late block, or one that is not data.  (Before the first block a tick does nothing.)
HandleOther ==
    /\ ~due
    /\ cursor # None
    /\ due' = TRUE
    /\ UNCHANGED <<pending, cursor, expected, completed, nacks, layouts, delivered, dropped, evicted>>

\* The frames a tick may find timed out: with one, every older unfinished one.
TimedOut ==
    {{pending[j].frame : j \in {i \in 1..k : Unfinished(pending[i])}} : k \in 0..Len(pending)}

\* The NACK entries generateNacks may give up: those out of retries or too old.
GivenUp == SUBSET nacks

Discard(late) ==
    [k \in DOMAIN pending |-> [pending[k] EXCEPT !.discarded = @ \/ pending[k].frame \in late]]

\* Mutant: frames are discarded without a report.
TickSilent(late, spent) ==
    /\ due
    /\ due' = FALSE
    /\ DeliverInOrder(Discard(late), cursor)
    /\ nacks' = nacks \ spent
    /\ layouts' = {s \in layouts : Max(Blocks[s]) >= expected}
    /\ UNCHANGED <<expected, dropped, evicted>>

\* Mutant: a timeout does not move the cursor.
TickStanding(late, spent) ==
    /\ due
    /\ due' = FALSE
    /\ pending' = Discard(late)
    /\ dropped' = dropped \cup late
    /\ nacks' = nacks \ spent
    /\ layouts' = {s \in layouts : Max(Blocks[s]) >= expected}
    /\ UNCHANGED <<cursor, delivered, completed, expected, evicted>>

\* tick: checkFrameTimeouts, generateNacks and pruneGroupLayouts.  The frames in
\* late time out; the NACK entries in spent are given up.
Tick(late, spent) ==
    /\ due
    /\ due' = FALSE
    /\ UNCHANGED <<expected, evicted>>
    /\ dropped' = dropped \cup late
    /\ nacks' = nacks \ spent
    /\ layouts' = {s \in layouts : Max(Blocks[s]) >= expected}
    /\ DeliverInOrder(Discard(late), cursor)

FrameTimeout == due /\ \E late \in TimedOut \ {{}} : \E spent \in GivenUp : Tick(late, spent)
OtherTick == due /\ \E spent \in GivenUp : Tick({}, spent)

Next ==
    \/ \E q \in Seqs : HandleData(q)
    \/ HandleOther
    \/ OtherTick
    \/ FrameTimeout

\* The thread that hands over a packet goes on to the tick (which is always
\* possible then, and the only step that ends due), and if ticks keep coming, one
\* of them finds the frame that stays unfinished 2 s old.  Nothing says that
\* packets, and with them ticks, keep coming.
Fairness == WF_due(due /\ due' = FALSE) /\ SF_vars(FrameTimeout)

Spec == Init /\ [][Next]_vars /\ Fairness

-----------------------------------------------------------------------------
(* Properties *)

Pending(f) == {pending[k] : k \in {j \in DOMAIN pending : pending[j].frame = f}}
Passed(f) == cursor # None /\ Diff(Id(f), cursor) < 0
Delivered == {delivered[k] : k \in DOMAIN delivered}

\* The receiver names only frames and sequence numbers the sender has used.
TypeOK ==
    /\ pending \in Seq([frame : Frames, got : SUBSET Seqs, first : Seqs, discarded : BOOLEAN])
    /\ cursor \in (0..FrameIds-1) \cup {None}
    /\ expected \in 0..Len(Packets)+1
    /\ completed \in 0..Len(Packets)
    /\ nacks \subseteq Seqs
    /\ layouts \subseteq {q \in Seqs : Packets[q].index = 0}
    /\ delivered \in Seq(Frames)
    /\ dropped \subseteq Frames
    /\ evicted \subseteq Frames
    /\ due \in BOOLEAN

\* Frames reach the application in the order they were sent and at most once,
\* whatever the network does to the packets and across the wrap of frame ids.
InOrderOnce == \A j, k \in DOMAIN delivered : j < k => delivered[j] < delivered[k]

\* The cursor skips nothing in silence: every frame since the first delivered
\* one that the cursor has passed was delivered or reported as dropped.
NoSilentSkip ==
    \A f \in Frames :
        Passed(f) /\ delivered # <<>> /\ f > Head(delivered) => f \in Delivered \cup dropped \cup evicted

\* A frame that timed out, as the application was told, is not delivered after all,
\* whatever blocks still come for it, as long as its place among the pending frames
\* is not given to another.
DroppedStayDropped == Delivered \cap dropped \subseteq evicted

\* The sender may free its retransmission cache up to completed_seq: every block
\* up to it belongs to a frame that needs no more retransmissions.
AckSparesPending == \A q \in 1..completed : Passed(Packets[q].frame)

\* What was recovered is not asked for again: no NACK entry names a block of a
\* frame that was delivered nor, in a frame that is being put together, one that has
\* arrived or whose group is decoded without it.  (The entries of a frame that timed
\* out or was evicted stay until their retries or their lifetime are used up.)
RecoveredIsNotAsked ==
    \A q \in nacks :
        /\ Packets[q].frame \notin Delivered
        /\ \A r \in Pending(Packets[q].frame) : ~r.discarded => q \notin r.got /\ ~Decoded(r, Group(q))

\* A slow or lossy stream costs at most max_pending_frames frames of memory.
PendingBounded == Len(pending) <= MaxPendingFrames

\* While packets keep coming, a frame that is partly there cannot hold up the
\* stream for ever: the cursor leaves it, because it is completed or because one of
\* the ticks that follow the packets times it out, unless its place is given away.
CursorLeavesPending ==
    []<>due => \A f \in Frames :
        (cursor = Id(f) /\ Pending(f) # {}) ~> (cursor # Id(f) \/ Pending(f) = {})

-----------------------------------------------------------------------------
(* What comments and tests of the source promise and the code does not keep *)

\* When the cursor jumps to the start of a group, that block is "added to the NACK
\* tracking explicitly" and detectGaps "then covers the missing blocks in between":
\* a data block that the expected sequence number passes is tracked.
GapsAreTracked ==
    [][\A q \in Seqs :
         /\ expected # 0 /\ q >= expected /\ q < expected'
         /\ expected' - expected <= MaxGap
         /\ Packets[q].index < Packets[q].data
         /\ \E r \in Pending(Packets[q].frame)' : q \notin r.got /\ ~Decoded(r, Group(q))
         => q \in nacks']_vars

\* handleData: "a frame dropped by timeout is not delivered even if later blocks
\* complete it".  At the limit findOrCreateFrame forgets it, and a block that comes
\* later creates it anew.
DroppedIsFinal == Delivered \cap dropped = {}

\* A missing frame is "dropped after the 2 s of caching", so that a complete
\* frame behind it does not wait for ever, while packets keep coming.
CompleteIsDelivered ==
    []<>due => \A f \in Frames :
        (\E r \in Pending(f) : Complete(r)) ~> ~(\E r \in Pending(f) : Complete(r))

\* Discarded frames "wait for the cursor to skip them, their places can safely be
\* released": the cursor does not stop for ever at a frame that timed out.
DroppedIsSkipped ==
    []<>due => \A f \in Frames : (cursor = Id(f) /\ f \in dropped) ~> cursor # Id(f)

=============================================================================
