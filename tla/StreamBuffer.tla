---------------------------- MODULE StreamBuffer ----------------------------
(***************************************************************************)
(* The bounded stores of a downstream stream of the Relay                   *)
(* (apps/relay/src/realtime/buffer.rs and DStream in realtime/mod.rs) as    *)
(* operators on sequences of frames: the replay window with its merging and *)
(* eviction, the stash of batches that came before the first snapshot, the  *)
(* replays computed from a window, and the outbox of a browser connection.  *)
(* Byte limits are limits on the number of frames.                          *)
(***************************************************************************)
EXTENDS Naturals, Sequences, SequencesExt

CONSTANTS
    BufferMax,      \* limits::BUFFER_MAX_EVENTS
    PendingMax,     \* limits::SNAPSHOT_PENDING_MAX_EVENTS
    OutboxMax,      \* limits::BROWSER_QUEUE_MAX_FRAMES
    DirectReserve   \* DIRECT_RESERVE_BYTES, in direct messages

ASSUME BufferAssumption ==
    /\ BufferMax \in Nat \ {0}
    /\ PendingMax \in Nat \ {0}
    /\ OutboxMax \in Nat \ {0}
    /\ DirectReserve \in Nat \ {0}

\* classify: an event kind has a priority and perhaps a way of merging.
\* "critical" and "presence" are never dropped or merged, "item" can be read
\* again, "append" (an output increment) and "usage" (a latest value) merge.
Kinds == {"critical", "presence", "item", "append", "usage"}
Mergeable(f) == f.kind \in {"append", "usage"}
Recoverable(f) == f.kind = "item"

\* A frame: its coordinates downstream (stream incarnation, epoch, sequence),
\* its device, the upstream batch it came from (0: not from a batch), the
\* version it brings its device to, and the bytes of output it appends.
EventFrame(sid, epoch, seq, dev, b) ==
    [type |-> "event", sid |-> sid, epoch |-> epoch, seq |-> seq, dev |-> dev,
     kind |-> b.kind, useq |-> b.seq, ver |-> b.ver, off |-> b.off, len |-> 1]
SnapshotFrame(sid, epoch, seq, dev, ver) ==
    [type |-> "snapshot", sid |-> sid, epoch |-> epoch, seq |-> seq, dev |-> dev,
     kind |-> "critical", useq |-> 0, ver |-> ver, off |-> 0, len |-> 0]

\* merge_pair: adjacent output increments of one device that continue each
\* other become one frame with the coordinates of the first.
CanMerge(a, b) ==
    /\ a.kind = "append" /\ b.kind = "append"
    /\ a.dev = b.dev /\ a.epoch = b.epoch
    /\ a.off + a.len = b.off
MergePair(a, b) ==
    [a EXCEPT !.len = a.len + b.len, !.ver = b.ver,
              !.useq = IF b.useq < a.useq THEN b.useq ELSE a.useq]

\* The frame of the window that a new latest value replaces.
SameValue(a, b) ==
    a.kind = "usage" /\ b.kind = "usage" /\ a.dev = b.dev /\ a.epoch = b.epoch

\* coalesce: keep the latest of each value, then merge neighbours.
Coalesce(items) ==
    LET latest ==
          SelectSeq([i \in DOMAIN items |-> <<i, items[i]>>],
                    LAMBDA p : \A j \in (p[1] + 1)..Len(items) :
                                  ~SameValue(p[2], items[j]))
        Take(done, p) ==
          IF done # <<>> /\ CanMerge(Last(done), p[2])
          THEN Append(Front(done), MergePair(Last(done), p[2]))
          ELSE Append(done, p[2])
    IN  FoldLeft(Take, <<>>, latest)

FirstWhere(s, P(_)) ==
    CHOOSE i \in DOMAIN s : P(s[i]) /\ \A j \in 1..(i - 1) : ~P(s[j])

\* StreamBuffer::insert. Frames up to sequence aged have outlived the
\* retention. One frame is added, so removing one is enough; when only
\* critical frames are left the window is reset.
Insert(items, f, aged) ==
    LET fresh == SelectSeq(items, LAMBDA g : g.seq > aged)
        added ==
          IF fresh # <<>> /\ CanMerge(Last(fresh), f)
          THEN Append(Front(fresh), MergePair(Last(fresh), f))
          ELSE Append(SelectSeq(fresh, LAMBDA g : ~SameValue(g, f)), f)
        small == IF Len(added) <= BufferMax THEN added ELSE Coalesce(added)
        Has(P(_)) == \E i \in DOMAIN small : P(small[i])
    IN  CASE Len(small) <= BufferMax -> [items |-> small, reset |-> FALSE]
          [] Len(small) > BufferMax /\ Has(Mergeable) ->
               [items |-> RemoveAt(small, FirstWhere(small, Mergeable)), reset |-> FALSE]
          [] Len(small) > BufferMax /\ ~Has(Mergeable) /\ Has(Recoverable) ->
               [items |-> RemoveAt(small, FirstWhere(small, Recoverable)), reset |-> FALSE]
          [] OTHER -> [items |-> <<>>, reset |-> TRUE]

\* retain_uncovered: frames of the device up to the covered batch go.
RetainUncovered(items, dev, covered) ==
    SelectSeq(items, LAMBDA f : ~(f.dev = dev /\ f.useq # 0 /\ f.useq <= covered))

\* DStream::push_pending: over the limit only mergeable events may go.
PushPending(pending, b) ==
    LET all == Append(pending, b)
    IN  CASE Len(all) <= PendingMax -> [items |-> all, over |-> FALSE]
          [] Len(all) > PendingMax /\ \E i \in DOMAIN all : Mergeable(all[i]) ->
               [items |-> RemoveAt(all, FirstWhere(all, Mergeable)), over |-> FALSE]
          [] OTHER -> [items |-> all, over |-> TRUE]

\* DStream::cache_snapshot: one snapshot per device, the newest last.
CacheSnapshot(snaps, f) == Append(SelectSeq(snaps, LAMBDA s : s.dev # f.dev), f)

BySequence(frames) == SortSeq(frames, LAMBDA a, b : a.seq < b.seq)

Contiguous(frames, lo, next) ==
    /\ Len(frames) = next - lo
    /\ \A i \in DOMAIN frames : frames[i].seq = lo + i - 1

\* replay_base: a snapshot occupies its base, an event follows it.
ReplayBase(frames) ==
    IF frames = <<>> THEN 0
    ELSE IF frames[1].type = "snapshot" THEN frames[1].seq
    ELSE frames[1].seq - 1

\* full_replay, and anchored_replay where the window has holes: all surviving
\* frames when they are contiguous up to next; otherwise the snapshots, and
\* what follows the newest one if that is contiguous.
AfterSnapshots(snaps, items) == SelectSeq(items, LAMBDA f : f.seq > Last(snaps).seq)
TailIsWhole(snaps, items, next) ==
    Contiguous(AfterSnapshots(snaps, items), Last(snaps).seq + 1, next)
Replay(snaps, items, next) ==
    LET all == BySequence(snaps \o items)
        frames ==
          IF Contiguous(all, all[1].seq, next) THEN all
          ELSE BySequence(IF TailIsWhole(snaps, items, next)
                          THEN snaps \o AfterSnapshots(snaps, items) ELSE snaps)
    IN  [base |-> ReplayBase(frames), frames |-> frames]

---------------------------------------------------------------------------
\* Outbox: a FIFO with a limit on frames and a reserve for direct messages.

NewOutbox == [items |-> <<>>, closed |-> FALSE]
IsFrame(i) == i.type \in {"event", "snapshot"}
FrameCount(o) == Len(SelectSeq(o.items, IsFrame))

\* Outbox::close: frames are dropped, direct messages are kept, Close follows.
Close(o) ==
    IF o.closed THEN o
    ELSE [items |-> Append(SelectSeq(o.items, LAMBDA i : ~IsFrame(i)), [type |-> "close"]),
          closed |-> TRUE]

\* Outbox::push_direct: over the reserve the outbox closes itself.
PushDirect(o, m) ==
    CASE o.closed -> o
      [] ~o.closed /\ Len(o.items) >= OutboxMax + DirectReserve -> Close(o)
      [] OTHER -> [o EXCEPT !.items = Append(@, m)]

\* Outbox::push_frame, for one frame or several: all fit or the push fails.
\* Mutant FitsAlways: the limit is not enforced.
FitsAlways(o, n) == ~o.closed
Fits(o, n) == ~o.closed /\ FrameCount(o) + n <= OutboxMax
PushFrames(o, frames) == [o EXCEPT !.items = @ \o frames]
=============================================================================
