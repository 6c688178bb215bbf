--------------------------- MODULE NBFFmpegExtractor ---------------------------
(***************************************************************************)
(* The demultiplexer (NBFFmpegExtractor) and the tracks its clients read   *)
(* (NBFFmpegMediaTrack, NBBufferQueue).                                    *)
(*                                                                         *)
(* One event, mExtractorEvent, runs on the extractor's own event queue: it *)
(* reads one packet into its track's queue and posts itself again until    *)
(* every queue is full, or it executes a seek.  Readers, one per track,    *)
(* take packets without the extractor's lock and ask for more when they    *)
(* find their queue empty.  Every action is one critical section, or one   *)
(* call made between two of them.                                          *)
(***************************************************************************)
EXTENDS Integers, Sequences, FiniteSets

CONSTANTS
  Tracks,      \* the streams of the container
  Unqueued,    \* the streams that have no packet queue (unsupported ones)
  Media,       \* the packets in file order: the stream each belongs to
  MIN_FRAMES,  \* packets a queue must hold to count as full
  Targets,     \* the packets clients seek to
  MaxSeeks,    \* bound: calls of seekTo
  MaxErrors,   \* bound: reads and seeks of the container that fail
  MayStop      \* whether the owner may stop the extractor

ASSUME ExtractorAssumption ==
  /\ Unqueued \subseteq Tracks
  /\ Media \in Seq(Tracks)
  /\ MIN_FRAMES \in Nat \ {0}
  /\ Targets \subseteq 1 .. Len(Media)
  /\ MaxSeeks \in Nat /\ MaxErrors \in Nat
  /\ MayStop \in BOOLEAN

VARIABLES
  mSeekTimeUs,             \* the seek asked for, or NoSeek
  mReachedEnd,
  mExtractorEventPending,
  posted,                  \* extractor events queued and not fired yet
  ev,                      \* what the event being fired is doing
  pos,                     \* the packet av_read_frame returns next
  queue,                   \* the NBBufferQueue of every track
  active,                  \* tracks started by their decoders
  reader,                  \* where the reader of every track is in read()
  result,                  \* what its last read() returned
  last,                    \* the packet it read last since a discontinuity, or 0
  sought,                  \* the packet its queue was last restarted from
  phase,                   \* of stop()
  seeks, errors            \* how often the bounded things happened

vars == <<mSeekTimeUs, mReachedEnd, mExtractorEventPending, posted, ev, pos,
          queue, active, reader, result, last, sought, phase, seeks, errors>>

NoSeek  == -1
Flash   == 0     \* FlashPacket, the marker of a discontinuity
Packets == 1 .. Len(Media)
AtEnd   == pos > Len(Media)

\* The first packet of track t at or after i, none being one past the end.
NextOf(t, i) ==
  LET S == {j \in i .. Len(Media) : Media[j] = t}
  IN  IF S = {} THEN Len(Media) + 1 ELSE CHOOSE j \in S : \A k \in S : j <= k

(***************************************************************************)
(* The event: where it is, the seek it read, the packet it read, and the   *)
(* tracks it still has to flush.                                           *)
(***************************************************************************)
EventPCs == {"idle", "begin", "seek", "flush", "flash", "seeked",
             "read", "eof", "failed", "push", "more"}
At(pc)   == [pc |-> pc, seek |-> NoSeek, packet |-> 0, todo |-> {}]
InFlight == IF ev.pc = "idle" THEN 0 ELSE 1

demuxer == <<pos, queue, sought, active>>
readers == <<reader, result, last>>
bounds  == <<phase, seeks, errors>>

Init ==
  /\ mSeekTimeUs = NoSeek
  /\ mReachedEnd = FALSE
  /\ mExtractorEventPending = FALSE
  /\ posted = 0
  /\ ev = At("idle")
  /\ pos = 1
  /\ queue = [t \in Tracks |-> <<>>]
  /\ active = {}
  /\ reader = [t \in Tracks |-> "idle"]
  /\ result = [t \in Tracks |-> "none"]
  /\ last = [t \in Tracks |-> 0]
  /\ sought = [t \in Tracks |-> 1]
  /\ phase = "running"
  /\ seeks = 0 /\ errors = 0

\* postEventWithDelay puts the event at the front; behind the StopEvent, which
\* is queued from the call of mQueue.stop() on, it never fires.
Enqueue == posted' = IF phase = "joining" THEN posted ELSE posted + 1

\* (The operators named ..._mut are the plausible mistakes the properties
\* below are tested against; the specification does not use them.)
postExtractorEvent_l ==
  IF mExtractorEventPending THEN UNCHANGED <<mExtractorEventPending, posted>>
  ELSE mExtractorEventPending' = TRUE /\ Enqueue

\* NBBufferQueue: pushPacket, popPacket and flush, each under its own lock.
Pushed(t, packet) == [queue EXCEPT ![t] = Append(@, packet)]
Popped(t)         == [queue EXCEPT ![t] = Tail(@)]
Flushed_mut(t)    == queue
Flushed(t)        == [queue EXCEPT ![t] = <<>>]

-----------------------------------------------------------------------------
(***************************************************************************)
(* onExtractorEvent.                                                       *)
(***************************************************************************)

\* The loop breaks at the first queue that is not full and skips streams
\* without a queue, but compares with the number of all streams.
AllFull_mut == Unqueued = {} /\ \A t \in Tracks : Len(queue[t]) > MIN_FRAMES
AllFull     == Unqueued = {} /\ \A t \in Tracks : Len(queue[t]) >= MIN_FRAMES

Fire ==
  /\ ev.pc = "idle" /\ posted > 0
  /\ posted' = posted - 1
  /\ ev' = At("begin")
  /\ UNCHANGED <<mSeekTimeUs, mReachedEnd, mExtractorEventPending, demuxer, readers, bounds>>

Begin ==
  /\ ev.pc = "begin"
  /\ IF mSeekTimeUs = NoSeek /\ AllFull
     THEN mExtractorEventPending' = FALSE /\ ev' = At("idle")
     ELSE /\ ev' = IF mSeekTimeUs = NoSeek THEN At("read")
                   ELSE [At("seek") EXCEPT !.seek = mSeekTimeUs]
          /\ UNCHANGED mExtractorEventPending
  /\ UNCHANGED <<mSeekTimeUs, mReachedEnd, posted, demuxer, readers, bounds>>

\* avformat_seek_file, without the lock.
TracksToFlush_mut == {t \in active : queue[t] # <<>>}
TracksToFlush     == active

SeekFile ==
  /\ ev.pc = "seek"
  /\ \/ /\ pos' = ev.seek
        /\ ev' = [ev EXCEPT !.pc = "flush", !.todo = TracksToFlush]
        /\ UNCHANGED <<mReachedEnd, errors>>
     \/ /\ errors < MaxErrors /\ errors' = errors + 1
        /\ mReachedEnd' = TRUE
        /\ ev' = [ev EXCEPT !.pc = "seeked"]
        /\ UNCHANGED pos
  /\ UNCHANGED <<mSeekTimeUs, mExtractorEventPending, posted, queue, sought, active,
                 readers, phase, seeks>>

\* For each active track, its queue is flushed, then gets the flash packet.
FlushTrack ==
  /\ ev.pc = "flush" /\ ev.todo # {}
  /\ \E t \in ev.todo :
       /\ queue' = Flushed(t)
       /\ ev' = [ev EXCEPT !.pc = "flash", !.packet = t]
  /\ UNCHANGED <<mSeekTimeUs, mReachedEnd, mExtractorEventPending, posted, pos, sought,
                 active, readers, bounds>>

WithFlash_mut(t) == queue
WithFlash(t)     == Pushed(t, Flash)

PushFlash ==
  /\ ev.pc = "flash"
  /\ LET t == ev.packet IN
       /\ queue' = WithFlash(t)
       /\ sought' = [sought EXCEPT ![t] = ev.seek]
       /\ ev' = [ev EXCEPT !.pc = "flush", !.packet = 0, !.todo = @ \ {t}]
  /\ UNCHANGED <<mSeekTimeUs, mReachedEnd, mExtractorEventPending, posted, pos, active,
                 readers, bounds>>

\* The seek is over, its result is not looked at: the listener is told, unless
\* another seek was asked for; no event is posted.
Seeked ==
  /\ ev.pc = "seeked" \/ (ev.pc = "flush" /\ ev.todo = {})
  /\ mSeekTimeUs' = IF ev.seek = mSeekTimeUs THEN NoSeek ELSE mSeekTimeUs
  /\ mExtractorEventPending' = FALSE
  /\ ev' = At("idle")
  /\ UNCHANGED <<mReachedEnd, posted, demuxer, readers, bounds>>

\* av_read_frame, without the lock.  stop() interrupts it: an end of file is
\* then no end of the stream.
ReadFrame ==
  /\ ev.pc = "read"
  /\ \/ /\ ~AtEnd /\ phase = "running"
        /\ pos' = pos + 1
        /\ ev' = [ev EXCEPT !.pc = "push", !.packet = pos]
        /\ UNCHANGED errors
     \/ /\ AtEnd
        /\ ev' = [ev EXCEPT !.pc = IF phase = "running" THEN "eof" ELSE "failed"]
        /\ UNCHANGED <<pos, errors>>
     \/ /\ \/ errors < MaxErrors /\ errors' = errors + 1
           \/ phase # "running" /\ UNCHANGED errors
        /\ ev' = [ev EXCEPT !.pc = "failed"]
        /\ UNCHANGED pos
  /\ UNCHANGED <<mSeekTimeUs, mReachedEnd, mExtractorEventPending, posted, queue, sought,
                 active, readers, phase, seeks>>

ReachEnd ==
  /\ ev.pc = "eof"
  /\ mReachedEnd' = TRUE
  /\ ev' = [ev EXCEPT !.pc = "failed"]
  /\ UNCHANGED <<mSeekTimeUs, mExtractorEventPending, posted, demuxer, readers, bounds>>

ReadFailed_mut ==
  /\ ev.pc = "failed" /\ ev' = At("idle")
  /\ UNCHANGED <<mSeekTimeUs, mReachedEnd, mExtractorEventPending, posted, demuxer, readers, bounds>>

ReadFailed ==
  /\ ev.pc = "failed"
  /\ mExtractorEventPending' = FALSE
  /\ ev' = At("idle")
  /\ UNCHANGED <<mSeekTimeUs, mReachedEnd, posted, demuxer, readers, bounds>>

\* The packet goes to its track's queue; packets of other tracks are dropped.
PushPacket ==
  /\ ev.pc = "push"
  /\ LET t == Media[ev.packet] IN
       queue' = IF t \in active THEN Pushed(t, ev.packet) ELSE queue
  /\ ev' = At("more")
  /\ UNCHANGED <<mSeekTimeUs, mReachedEnd, mExtractorEventPending, posted, pos, sought,
                 active, readers, bounds>>

Cancelled_mut == FALSE
Cancelled     == ~mExtractorEventPending

ReadMore ==
  /\ ev.pc = "more"
  /\ IF Cancelled THEN UNCHANGED <<mExtractorEventPending, posted>>
     ELSE mExtractorEventPending' = TRUE /\ Enqueue
  /\ ev' = At("idle")
  /\ UNCHANGED <<mSeekTimeUs, mReachedEnd, demuxer, readers, bounds>>

EventStep ==
  \/ Fire \/ Begin \/ SeekFile \/ FlushTrack \/ PushFlash \/ Seeked
  \/ ReadFrame \/ ReachEnd \/ ReadFailed \/ PushPacket \/ ReadMore

-----------------------------------------------------------------------------
(***************************************************************************)
(* The owner and the readers.                                              *)
(***************************************************************************)

NobodyReads == \A t \in Tracks : reader[t] = "idle"
NothingRead == NobodyReads /\ \A t \in Tracks : result[t] = "none"

\* A decoder starts its track while the player is prepared, before anything
\* is read.
StartTrack(t) ==
  /\ phase = "running" /\ NothingRead /\ t \notin active \cup Unqueued
  /\ active' = active \cup {t}
  /\ sought' = [sought EXCEPT ![t] = pos]
  /\ UNCHANGED <<mSeekTimeUs, mReachedEnd, mExtractorEventPending, posted, ev, pos, queue,
                 readers, bounds>>

SeekTo(target) ==
  /\ phase = "running" /\ seeks < MaxSeeks
  /\ seeks' = seeks + 1
  /\ mSeekTimeUs' = target
  /\ postExtractorEvent_l
  /\ UNCHANGED <<mReachedEnd, ev, demuxer, readers, phase, errors>>

\* read(): the queue is popped; if it is empty, the end is asked for; if that
\* is not reached, more is asked for.
Returns(t, what) ==
  /\ reader' = [reader EXCEPT ![t] = "idle"]
  /\ result' = [result EXCEPT ![t] = what]

Pop(t) ==
  /\ phase = "running" /\ t \in active /\ reader[t] = "idle"
  /\ IF queue[t] = <<>>
     THEN /\ reader' = [reader EXCEPT ![t] = "empty"]
          /\ UNCHANGED <<queue, result, last>>
     ELSE /\ queue' = Popped(t)
          /\ last' = [last EXCEPT ![t] = Head(queue[t])]
          /\ Returns(t, IF Head(queue[t]) = Flash THEN "discontinuity" ELSE "ok")
  /\ UNCHANGED <<mSeekTimeUs, mReachedEnd, mExtractorEventPending, posted, ev, pos, sought,
                 active, bounds>>

CheckEnd(t) ==
  /\ reader[t] = "empty"
  /\ IF mReachedEnd THEN Returns(t, "end")
     ELSE reader' = [reader EXCEPT ![t] = "wants"] /\ UNCHANGED result
  /\ UNCHANGED <<mSeekTimeUs, mReachedEnd, mExtractorEventPending, posted, ev, demuxer,
                 last, bounds>>

NotifyContinueRead(t) ==
  /\ reader[t] = "wants"
  /\ postExtractorEvent_l
  /\ Returns(t, "tooSmall")
  /\ UNCHANGED <<mSeekTimeUs, mReachedEnd, ev, demuxer, last, bounds>>

\* stop(): the event is cancelled; then the event queue is stopped and joined;
\* then the packet queues are emptied.  The owner has stopped the readers and
\* interrupted the data source before.
StopCancel ==
  /\ MayStop /\ phase = "running" /\ NobodyReads
  /\ phase' = "cancelled"
  /\ posted' = 0
  /\ mExtractorEventPending' = FALSE
  /\ UNCHANGED <<mSeekTimeUs, mReachedEnd, ev, demuxer, readers, seeks, errors>>

StopQueue ==
  /\ phase = "cancelled"
  /\ phase' = "joining"
  /\ UNCHANGED <<mSeekTimeUs, mReachedEnd, mExtractorEventPending, posted, ev, demuxer,
                 readers, seeks, errors>>

StopJoined ==
  /\ phase = "joining" /\ posted = 0 /\ ev.pc = "idle"
  /\ phase' = "stopped"
  /\ queue' = [t \in Tracks |-> <<>>]
  /\ mReachedEnd' = TRUE
  /\ UNCHANGED <<mSeekTimeUs, mExtractorEventPending, posted, ev, pos, sought, active,
                 readers, seeks, errors>>

ReaderStep(t) == Pop(t) \/ CheckEnd(t) \/ NotifyContinueRead(t)

Next ==
  \/ EventStep
  \/ \E t \in Tracks : StartTrack(t) \/ ReaderStep(t)
  \/ \E target \in Targets : SeekTo(target)
  \/ StopCancel \/ StopQueue \/ StopJoined

Spec == Init /\ [][Next]_vars

\* The event thread runs, and the decoders go on reading: the player and the
\* audio player try again after a read that returned nothing.
Fairness == WF_vars(EventStep) /\ \A t \in Tracks : WF_vars(ReaderStep(t))
FairSpec == Spec /\ Fairness

-----------------------------------------------------------------------------
(***************************************************************************)
(* Properties.                                                             *)
(***************************************************************************)

TypeOK ==
  /\ mSeekTimeUs \in Targets \cup {NoSeek}
  /\ mReachedEnd \in BOOLEAN /\ mExtractorEventPending \in BOOLEAN
  /\ posted \in 0 .. 1
  /\ ev.pc \in EventPCs /\ ev.seek \in Targets \cup {NoSeek}
  /\ ev.packet \in Tracks \cup Packets \cup {0} /\ ev.todo \subseteq Tracks
  /\ pos \in 1 .. Len(Media) + 1
  /\ queue \in [Tracks -> Seq(Packets \cup {Flash})]
  /\ active \subseteq Tracks \ Unqueued
  /\ reader \in [Tracks -> {"idle", "empty", "wants"}]
  /\ result \in [Tracks -> {"none", "ok", "discontinuity", "end", "tooSmall"}]
  /\ last \in [Tracks -> Packets \cup {0}]
  /\ sought \in [Tracks -> 1 .. Len(Media) + 1]
  /\ phase \in {"running", "cancelled", "joining", "stopped"}
  /\ seeks \in 0 .. MaxSeeks /\ errors \in 0 .. MaxErrors

\* The pending flag stands for exactly one event, queued or being fired, so
\* that the event never runs twice for one request; once stop() has cancelled
\* it, it is neither pending nor queued again.
OneEventAtATime ==
  IF phase = "running" THEN posted + InFlight = (IF mExtractorEventPending THEN 1 ELSE 0)
  ELSE posted = 0 /\ ~mExtractorEventPending

\* A discontinuity is the first thing in its queue: nothing from before the
\* seek is left ahead of it.
FlashAtHead == \A t \in Tracks : \A i \in 2 .. Len(queue[t]) : queue[t][i] # Flash

\* Between seeks all the tracks have resumed from the same place.
TracksAgree ==
  ev.pc \notin {"flush", "flash"} => \A t, u \in active : sought[t] = sought[u]

\* With every track read, the extractor reads no further ahead than the
\* slowest reader needs: some queue is within its limit.
ReadAheadBounded ==
  active = Tracks => \E t \in Tracks : Len(queue[t]) <= MIN_FRAMES

\* A reader gets every packet of its track, in order, from where the last
\* discontinuity it was told of resumed, although the container is read and
\* repositioned by another thread.
ReadsInOrder ==
  [][\A t \in Tracks : last'[t] # last[t] /\ last'[t] # Flash
       => last'[t] = NextOf(t, IF last[t] = 0 THEN sought[t] ELSE last[t] + 1)]_vars

\* The extractor keeps what a demultiplexer promises the decoders: to them the
\* queues, the event that flushes them one by one while they are read, and the
\* file it moves about in are streams that go on in order, or from the place of a
\* seek, the same for all.  A track restarts when its queue is flushed, for from
\* then on its reader gets nothing before the flash packet.
Flashes(t)  == ev.pc = "flash" /\ ev.packet = t
Restarts(t) == Flashes(t) \/ (queue[t] # <<>> /\ Head(queue[t]) = Flash)
Place(t) ==
  IF phase = "stopped" THEN 1
  ELSE IF Flashes(t) THEN ev.seek
  ELSE IF Restarts(t) \/ last[t] = 0 THEN sought[t] ELSE last[t] + 1
Places    == [t \in Tracks |-> Place(t)]
Cuts      == [t \in Tracks |-> Restarts(t)]
Goal      == IF ev.pc \in {"flush", "flash"} THEN ev.seek ELSE NoSeek
Unflushed == {t \in ev.todo : ~Flashes(t)}
Open      == phase # "stopped"
Streams   == INSTANCE PacketStreams WITH
  NoPlace <- NoSeek, started <- active, at <- Places, cut <- Cuts, goal <- Goal,
  left <- Unflushed, open <- Open
ImplementsStreams == Streams!Spec

\* Its event is posted and cancelled as a timed event queue allows.
EventItems ==
  [posted |-> [e \in {"extractor"} |-> posted], id |-> [e \in {"extractor"} |-> posted > 0],
   firing |-> {e \in {"extractor"} : ev.pc # "idle"}]
Queue == INSTANCE PostedEvents WITH Objects <- {"extractor"}, queue <- EventItems
QueueContract == Queue!ClientSpec

\* A reader that finds nothing gets something, or the end, unless stop() comes
\* first, whatever the other tracks do with their packets.
ReaderServed ==
  \A t \in Tracks :
    (t \in active /\ queue[t] = <<>>) ~> (queue[t] # <<>> \/ mReachedEnd \/ phase # "running")

(***************************************************************************)
(* What comments of the source say and the extractor does not do.          *)
(***************************************************************************)

\* "restore when we only have no other seek": another seek asked for in the
\* meantime is kept, to be executed in its turn.
SeekExecuted == (mSeekTimeUs # NoSeek) ~> (mSeekTimeUs = NoSeek)

=============================================================================
