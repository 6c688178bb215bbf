---------------------- MODULE NBFFmpegExtractor_proofs ----------------------
(***************************************************************************)
(* The demultiplexer's safety properties, for every file, any number of    *)
(* tracks, seeks and failures, and every length of the queues.             *)
(***************************************************************************)
EXTENDS NBFFmpegExtractor, SequenceLemmas

(***************************************************************************)
(* The inductive invariant.                                                *)
(***************************************************************************)

EventType ==
  [pc : EventPCs, seek : Targets \cup {NoSeek}, packet : Tracks \cup Packets \cup {0},
   todo : SUBSET Tracks]

Types == TypeOK /\ ev \in EventType

Flushing == ev.pc \in {"flush", "flash"}

\* What the event knows at each of its places.
EventIsWhole ==
  /\ ev.pc = "seek" => ev.seek \in Targets
  /\ Flushing => ev.seek \in Targets /\ pos = ev.seek /\ ev.todo \subseteq active
  /\ ~Flushing => ev.todo = {}
  /\ ev.pc = "flash" => ev.packet \in ev.todo /\ queue[ev.packet] = <<>>
  /\ ev.pc = "push" => ev.packet \in Packets /\ ev.packet + 1 = pos

StoppedIsQuiet ==
  /\ phase # "running" => NobodyReads
  /\ phase = "stopped" => ev.pc = "idle"

\* Before anything is read only seeks are executed, and the tracks that have
\* been started and repositioned resume where the file is.
NothingReadYet ==
  NothingRead /\ phase = "running" =>
    /\ ev.pc \in {"idle", "begin", "seek", "flush", "flash", "seeked"}
    /\ posted > 0 \/ ev.pc = "begin" => mSeekTimeUs # NoSeek
    /\ \A t \in active \ ev.todo : sought[t] = pos

UnstartedIsEmpty == \A t \in Tracks \ active : queue[t] = <<>> /\ last[t] = 0

\* Tracks agree, but for those the event still has to flush.
RestartedAlike ==
  /\ \A t, u \in active \ ev.todo : sought[t] = sought[u]
  /\ Flushing => \A t \in active \ ev.todo : sought[t] = ev.seek

\* A packet is read only if some queue is short of its limit.
RoomToRead ==
  active = Tracks /\ ev.pc \in {"read", "push"} => \E t \in Tracks : Len(queue[t]) < MIN_FRAMES

\* Where a track goes on behind its packet e (the discontinuity: Flash).
After(t, e) == IF e = Flash THEN sought[t] ELSE e + 1

\* Each packet in a queue is the next one of its track behind the one before,
\* the first one behind the packet the reader has.
InOrder ==
  \A t \in active : \A i \in 1 .. Len(queue[t]) :
    queue[t][i] # Flash =>
      queue[t][i] = NextOf(t, After(t, IF i = 1 THEN last[t] ELSE queue[t][i - 1]))

\* The file is read on where each track's queue ends: no packet is skipped.
Newest(t) == IF queue[t] = <<>> THEN last[t] ELSE queue[t][Len(queue[t])]
FilePos == IF ev.pc = "push" THEN ev.packet ELSE pos
CaughtUp ==
  phase # "stopped" =>
    \A t \in active \ ev.todo :
      /\ After(t, Newest(t)) <= FilePos
      /\ \A j \in After(t, Newest(t)) .. FilePos - 1 : Media[j] # t

ExtractorInv ==
  /\ Types /\ EventIsWhole /\ OneEventAtATime /\ StoppedIsQuiet /\ NothingReadYet
  /\ UnstartedIsEmpty /\ FlashAtHead /\ RestartedAlike
  /\ RoomToRead /\ (Tracks # {} => ReadAheadBounded) /\ InOrder /\ CaughtUp

-----------------------------------------------------------------------------
(***************************************************************************)
(* Facts the steps share.                                                  *)
(***************************************************************************)

\* NextOf is what its name says.
LEMMA NextOfIs ==
  ASSUME NEW t \in Tracks, NEW i \in Nat, NEW j \in i .. Len(Media), Media[j] = t,
         \A k \in i .. j - 1 : Media[k] # t
  PROVE  NextOf(t, i) = j
<1> DEFINE S == {k \in i .. Len(Media) : Media[k] = t}
<1>0. Len(Media) \in Nat
  BY ExtractorAssumption
<1>1. j \in S /\ \A k \in S : j <= k
  BY <1>0
<1>2. \A m \in S : (\A k \in S : m <= k) => m = j
  BY <1>0, <1>1
<1>3. (CHOOSE m \in S : \A k \in S : m <= k) = j
  <2> HIDE DEF S
  <2> QED BY <1>1, <1>2, Zenon
<1> QED BY <1>1, <1>3 DEF NextOf

LEMMA MediaFacts ==
  /\ Len(Media) \in Nat /\ Packets = 1 .. Len(Media)
  /\ Targets \subseteq Packets /\ Flash \notin Packets /\ NoSeek \notin Targets
  /\ \A p \in Packets : Media[p] \in Tracks
  /\ \A p \in Targets : p \in Int /\ p \in 1 .. Len(Media) + 1
  /\ MIN_FRAMES \in Nat /\ 1 <= MIN_FRAMES
BY ExtractorAssumption DEF Packets, Flash, NoSeek

\* The fields of the event.
LEMMA EventFields ==
  ASSUME Types
  PROVE  /\ ev.pc \in EventPCs /\ ev.seek \in Targets \cup {NoSeek}
         /\ ev.packet \in Tracks \cup Packets \cup {0} /\ ev.todo \in SUBSET Tracks
BY DEF Types, EventType

LEMMA AtType ==
  ASSUME NEW pc \in EventPCs
  PROVE  /\ At(pc) \in EventType
         /\ At(pc).pc = pc /\ At(pc).seek = NoSeek /\ At(pc).packet = 0 /\ At(pc).todo = {}
BY DEF At, EventType

\* A step that neither touches the queues nor the place of the file, and flushes
\* no new track, keeps the order of the packets.
LEMMA DataKept ==
  ASSUME ExtractorInv, UNCHANGED <<queue, last, sought, active>>,
         FilePos' = FilePos, ev.todo \subseteq ev.todo',
         phase' # "stopped" => phase # "stopped"
  PROVE  UnstartedIsEmpty' /\ FlashAtHead' /\ (Tracks # {} => ReadAheadBounded')
         /\ InOrder' /\ CaughtUp'
         /\ \A t, u \in active' \ ev.todo' : sought'[t] = sought'[u]
<1>1. UnstartedIsEmpty' /\ FlashAtHead' /\ (Tracks # {} => ReadAheadBounded')
  BY DEF ExtractorInv, UnstartedIsEmpty, FlashAtHead, ReadAheadBounded
<1>2. InOrder'
  BY DEF ExtractorInv, InOrder, After
<1>3. CaughtUp'
  BY DEF ExtractorInv, CaughtUp, After, Newest
<1>4. \A t, u \in active' \ ev.todo' : sought'[t] = sought'[u]
  BY DEF ExtractorInv, RestartedAlike
<1> QED BY <1>1, <1>2, <1>3, <1>4

\* Where a track goes on is a place in the file.
LEMMA AfterType ==
  ASSUME Types, NEW t \in Tracks
  PROVE  After(t, Newest(t)) \in Nat
<1>1. queue[t] \in Seq(Packets \cup {Flash}) /\ last[t] \in Packets \cup {0} /\ sought[t] \in Nat
  BY MediaFacts DEF Types, TypeOK
<1>2. Packets \subseteq Nat
  BY MediaFacts
<1>3. Newest(t) \in Packets \cup {Flash}
  <2>1. CASE queue[t] = <<>>
    BY <1>1, <2>1 DEF Newest, Flash
  <2>2. CASE queue[t] # <<>>
    <3>1. Len(queue[t]) \in 1 .. Len(queue[t])
      BY <1>1, <2>2
    <3>2. queue[t][Len(queue[t])] \in Packets \cup {Flash}
      BY <1>1, <3>1
    <3> QED BY <2>2, <3>2 DEF Newest
  <2> QED BY <2>1, <2>2
<1>4. Newest(t) # Flash => Newest(t) \in Nat
  BY <1>2, <1>3
<1> QED BY <1>1, <1>4 DEF After

LEMMA InitGood == Init => ExtractorInv
<1> SUFFICES ASSUME Init PROVE ExtractorInv
  OBVIOUS
<1>1. "idle" \in EventPCs
  BY DEF EventPCs
<1>2. /\ ev \in EventType /\ ev.pc = "idle" /\ ev.todo = {} /\ ev.seek = NoSeek
      /\ ev.packet = 0
  BY <1>1, AtType DEF Init
<1>3. Types
  <2>1. posted \in 0 .. 1 /\ pos \in 1 .. Len(Media) + 1 /\ sought \in [Tracks -> 1 .. Len(Media) + 1]
    BY MediaFacts DEF Init
  <2>2. queue \in [Tracks -> Seq(Packets \cup {Flash})]
    <3>1. <<>> \in Seq(Packets \cup {Flash})
      OBVIOUS
    <3> QED BY <3>1 DEF Init
  <2>3. seeks \in 0 .. MaxSeeks /\ errors \in 0 .. MaxErrors
    BY ExtractorAssumption DEF Init
  <2>4. /\ mSeekTimeUs \in Targets \cup {NoSeek} /\ mReachedEnd \in BOOLEAN
        /\ mExtractorEventPending \in BOOLEAN
        /\ active \subseteq Tracks \ Unqueued
        /\ phase \in {"running", "cancelled", "joining", "stopped"}
    BY Zenon DEF Init
  <2>5. /\ reader \in [Tracks -> {"idle", "empty", "wants"}]
        /\ result \in [Tracks -> {"none", "ok", "discontinuity", "end", "tooSmall"}]
        /\ last \in [Tracks -> Packets \cup {0}]
    BY DEF Init
  <2>6. ev.pc \in EventPCs /\ ev.seek \in Targets \cup {NoSeek} /\ ev.todo \subseteq Tracks
        /\ ev.packet \in Tracks \cup Packets \cup {0}
    BY <1>1, <1>2
  <2> QED BY <1>2, <2>1, <2>2, <2>3, <2>4, <2>5, <2>6 DEF Types, TypeOK
<1>4. EventIsWhole /\ StoppedIsQuiet /\ NothingReadYet /\ UnstartedIsEmpty /\ RestartedAlike
  BY <1>2 DEF Init, EventIsWhole, Flushing, StoppedIsQuiet, NobodyReads, NothingReadYet,
              UnstartedIsEmpty, RestartedAlike
<1>5. OneEventAtATime /\ FlashAtHead /\ RoomToRead
  BY <1>2 DEF Init, OneEventAtATime, InFlight, FlashAtHead, RoomToRead
<1>6. Tracks # {} => ReadAheadBounded
  BY ExtractorAssumption DEF Init, ReadAheadBounded
<1>7. InOrder /\ CaughtUp
  BY DEF Init, InOrder, CaughtUp
<1> QED BY <1>3, <1>4, <1>5, <1>6, <1>7 DEF ExtractorInv

-----------------------------------------------------------------------------
(***************************************************************************)
(* The event's steps that leave the packets alone.                         *)
(***************************************************************************)

LEMMA FireKeeps == ASSUME ExtractorInv, Fire PROVE ExtractorInv'
<1>0. ev.pc = "idle" /\ posted = 1 /\ posted' = 0 /\ ev' = At("begin")
  BY DEF Fire, ExtractorInv, Types, TypeOK
<1>1. /\ ev' \in EventType /\ ev'.pc = "begin" /\ ev'.todo = {}
      /\ FilePos = pos /\ FilePos' = pos' /\ ev.todo = {}
  BY <1>0, AtType DEF EventPCs, FilePos, Fire, demuxer, ExtractorInv, EventIsWhole, Flushing
<1>2. Types'
  <2>1. ev'.pc \in EventPCs /\ ev'.seek \in Targets \cup {NoSeek}
        /\ ev'.packet \in Tracks \cup Packets \cup {0} /\ ev'.todo \subseteq Tracks
    BY <1>1 DEF EventType
  <2> QED BY <1>0, <1>1, <2>1 DEF Fire, demuxer, readers, bounds, ExtractorInv, Types, TypeOK
<1>3. EventIsWhole'
  BY <1>1 DEF EventIsWhole, Flushing
<1>4. OneEventAtATime' /\ StoppedIsQuiet'
  BY <1>0, <1>1 DEF Fire, readers, bounds, ExtractorInv, OneEventAtATime, InFlight, StoppedIsQuiet,
                    NobodyReads
<1>5. NothingReadYet'
  BY <1>0, <1>1 DEF Fire, demuxer, readers, bounds, ExtractorInv, NothingReadYet, NothingRead, NobodyReads
<1>6. RestartedAlike' /\ RoomToRead'
  BY <1>1 DEF Fire, demuxer, ExtractorInv, RestartedAlike, Flushing, RoomToRead
<1>7. UnstartedIsEmpty' /\ FlashAtHead' /\ (Tracks # {} => ReadAheadBounded') /\ InOrder' /\ CaughtUp'
  BY <1>1, DataKept DEF Fire, demuxer, readers, bounds
<1> QED BY <1>2, <1>3, <1>4, <1>5, <1>6, <1>7 DEF ExtractorInv

LEMMA BeginKeeps == ASSUME ExtractorInv, Begin PROVE ExtractorInv'
<1>0. /\ ev.pc = "begin" /\ ev.todo = {}
      /\ UNCHANGED <<mSeekTimeUs, mReachedEnd, posted, demuxer, readers, bounds>>
  BY DEF Begin, ExtractorInv, EventIsWhole, Flushing
<1>1. CASE mSeekTimeUs = NoSeek /\ AllFull
  <2>1. mExtractorEventPending' = FALSE /\ ev' = At("idle")
    BY <1>1 DEF Begin
  <2>2. /\ ev' \in EventType /\ ev'.pc = "idle" /\ ev'.todo = {}
        /\ FilePos = pos /\ FilePos' = pos'
    BY <1>0, <2>1, AtType DEF EventPCs, FilePos, demuxer
  <2>3. Types'
    <3>1. ev'.pc \in EventPCs /\ ev'.seek \in Targets \cup {NoSeek}
          /\ ev'.packet \in Tracks \cup Packets \cup {0} /\ ev'.todo \subseteq Tracks
      BY <2>2 DEF EventType
    <3> QED BY <1>0, <2>1, <2>2, <3>1 DEF demuxer, readers, bounds, ExtractorInv, Types, TypeOK
  <2>4. EventIsWhole'
    BY <2>2 DEF EventIsWhole, Flushing
  <2>5. OneEventAtATime' /\ StoppedIsQuiet'
    BY <1>0, <2>1, <2>2 DEF readers, bounds, ExtractorInv, Types, TypeOK, OneEventAtATime, InFlight,
                            StoppedIsQuiet, NobodyReads
  <2>6. NothingReadYet'
    BY <1>0, <1>1, <2>2 DEF demuxer, readers, bounds, ExtractorInv, NothingReadYet, NothingRead, NobodyReads
  <2>7. RestartedAlike' /\ RoomToRead'
    BY <1>0, <2>2 DEF demuxer, ExtractorInv, RestartedAlike, Flushing, RoomToRead
  <2>8. UnstartedIsEmpty' /\ FlashAtHead' /\ (Tracks # {} => ReadAheadBounded') /\ InOrder' /\ CaughtUp'
    BY <1>0, <2>2, DataKept DEF demuxer, readers, bounds
  <2> QED BY <2>3, <2>4, <2>5, <2>6, <2>7, <2>8 DEF ExtractorInv
<1>2. CASE ~(mSeekTimeUs = NoSeek /\ AllFull)
  <2>1. /\ mExtractorEventPending' = mExtractorEventPending
        /\ ev' = IF mSeekTimeUs = NoSeek THEN At("read") ELSE [At("seek") EXCEPT !.seek = mSeekTimeUs]
    BY <1>2 DEF Begin
  <2>2. /\ ev' \in EventType /\ ev'.todo = {}
        /\ ev'.pc = IF mSeekTimeUs = NoSeek THEN "read" ELSE "seek"
        /\ mSeekTimeUs # NoSeek => ev'.seek = mSeekTimeUs /\ mSeekTimeUs \in Targets
        /\ FilePos = pos /\ FilePos' = pos'
    BY <1>0, <2>1 DEF At, EventType, EventPCs, FilePos, demuxer, ExtractorInv, Types, TypeOK
  <2>3. Types'
    <3>1. ev'.pc \in EventPCs /\ ev'.seek \in Targets \cup {NoSeek}
          /\ ev'.packet \in Tracks \cup Packets \cup {0} /\ ev'.todo \subseteq Tracks
      BY <2>2 DEF EventType
    <3> QED BY <1>0, <2>1, <2>2, <3>1 DEF demuxer, readers, bounds, ExtractorInv, Types, TypeOK
  <2>4. EventIsWhole'
    BY <2>2 DEF EventIsWhole, Flushing
  <2>5. OneEventAtATime' /\ StoppedIsQuiet'
    BY <1>0, <2>1, <2>2 DEF readers, bounds, ExtractorInv, OneEventAtATime, InFlight,
                            StoppedIsQuiet, NobodyReads
  <2>6. NothingReadYet'
    BY <1>0, <2>2 DEF demuxer, readers, bounds, ExtractorInv, NothingReadYet, NothingRead, NobodyReads
  <2>7. RestartedAlike'
    BY <1>0, <2>2 DEF demuxer, ExtractorInv, RestartedAlike, Flushing
  <2>8. RoomToRead'
    <3> SUFFICES ASSUME active = Tracks, mSeekTimeUs = NoSeek
                 PROVE  \E t \in Tracks : Len(queue[t]) < MIN_FRAMES
      BY <1>0, <2>2 DEF demuxer, RoomToRead
    <3>1. Unqueued = {} /\ ~AllFull
      BY <1>2, ExtractorAssumption DEF ExtractorInv, Types, TypeOK
    <3>2. PICK t \in Tracks : ~(Len(queue[t]) >= MIN_FRAMES)
      BY <3>1 DEF AllFull
    <3>3. Len(queue[t]) \in Nat
      BY DEF ExtractorInv, Types, TypeOK
    <3> QED BY <3>2, <3>3, ExtractorAssumption
  <2>9. UnstartedIsEmpty' /\ FlashAtHead' /\ (Tracks # {} => ReadAheadBounded') /\ InOrder' /\ CaughtUp'
    BY <1>0, <2>2, DataKept DEF demuxer, readers, bounds
  <2> QED BY <2>3, <2>4, <2>5, <2>6, <2>7, <2>8, <2>9 DEF ExtractorInv
<1> QED BY <1>1, <1>2

LEMMA SeekFileKeeps == ASSUME ExtractorInv, SeekFile PROVE ExtractorInv'
<1>0. /\ ev.pc = "seek" /\ ev.todo = {} /\ ev.seek \in Targets
      /\ UNCHANGED <<mSeekTimeUs, mExtractorEventPending, posted, queue, sought, active,
                     readers, phase, seeks>>
  BY DEF SeekFile, ExtractorInv, EventIsWhole, Flushing
<1>1. CASE /\ pos' = ev.seek
           /\ ev' = [ev EXCEPT !.pc = "flush", !.todo = TracksToFlush]
           /\ UNCHANGED <<mReachedEnd, errors>>
  <2>1. /\ ev' \in EventType /\ ev'.pc = "flush" /\ ev'.todo = active /\ ev'.seek = ev.seek
    BY <1>0, <1>1 DEF TracksToFlush, EventType, EventPCs, ExtractorInv, Types, TypeOK
  <2>2. Types'
    <3>1. ev'.pc \in EventPCs /\ ev'.seek \in Targets \cup {NoSeek}
          /\ ev'.packet \in Tracks \cup Packets \cup {0} /\ ev'.todo \subseteq Tracks
      BY <2>1 DEF EventType
    <3>2. pos' \in 1 .. Len(Media) + 1
      BY <1>0, <1>1, MediaFacts
    <3> QED BY <1>0, <1>1, <2>1, <3>1, <3>2 DEF readers, ExtractorInv, Types, TypeOK
  <2>3. EventIsWhole'
    BY <1>0, <1>1, <2>1 DEF EventIsWhole, Flushing
  <2>4. OneEventAtATime' /\ StoppedIsQuiet'
    BY <1>0, <2>1 DEF readers, ExtractorInv, OneEventAtATime, InFlight, StoppedIsQuiet, NobodyReads
  <2>5. NothingReadYet'
    BY <1>0, <2>1 DEF readers, ExtractorInv, NothingReadYet, NothingRead, NobodyReads
  <2>6. RestartedAlike' /\ RoomToRead'
    BY <1>0, <2>1 DEF RestartedAlike, RoomToRead
  <2>7. UnstartedIsEmpty' /\ FlashAtHead' /\ (Tracks # {} => ReadAheadBounded') /\ InOrder'
    BY <1>0 DEF readers, ExtractorInv, UnstartedIsEmpty, FlashAtHead, ReadAheadBounded, InOrder, After
  <2>8. CaughtUp'
    BY <1>0, <2>1 DEF CaughtUp
  <2> QED BY <2>2, <2>3, <2>4, <2>5, <2>6, <2>7, <2>8 DEF ExtractorInv
<1>2. CASE /\ errors < MaxErrors /\ errors' = errors + 1
           /\ mReachedEnd' = TRUE
           /\ ev' = [ev EXCEPT !.pc = "seeked"]
           /\ UNCHANGED pos
  <2>1. /\ ev' \in EventType /\ ev'.pc = "seeked" /\ ev'.todo = {}
        /\ FilePos' = FilePos
    BY <1>0, <1>2 DEF EventType, EventPCs, ExtractorInv, Types, FilePos
  <2>2. Types'
    <3>1. ev'.pc \in EventPCs /\ ev'.seek \in Targets \cup {NoSeek}
          /\ ev'.packet \in Tracks \cup Packets \cup {0} /\ ev'.todo \subseteq Tracks
      BY <2>1 DEF EventType
    <3>2. errors \in 0 .. MaxErrors /\ MaxErrors \in Nat
      BY ExtractorAssumption DEF ExtractorInv, Types, TypeOK
    <3>3. errors' \in 0 .. MaxErrors
      BY <1>2, <3>2
    <3> QED BY <1>0, <1>2, <2>1, <3>1, <3>3 DEF readers, ExtractorInv, Types, TypeOK
  <2>3. EventIsWhole'
    BY <2>1 DEF EventIsWhole, Flushing
  <2>4. OneEventAtATime' /\ StoppedIsQuiet'
    BY <1>0, <2>1 DEF readers, ExtractorInv, OneEventAtATime, InFlight, StoppedIsQuiet, NobodyReads
  <2>5. NothingReadYet'
    BY <1>0, <1>2, <2>1 DEF readers, ExtractorInv, NothingReadYet, NothingRead, NobodyReads
  <2>6. RestartedAlike' /\ RoomToRead'
    BY <1>0, <2>1 DEF ExtractorInv, RestartedAlike, Flushing, RoomToRead
  <2>7. UnstartedIsEmpty' /\ FlashAtHead' /\ (Tracks # {} => ReadAheadBounded') /\ InOrder' /\ CaughtUp'
    BY <1>0, <2>1, DataKept DEF readers
  <2> QED BY <2>2, <2>3, <2>4, <2>5, <2>6, <2>7 DEF ExtractorInv
<1> QED BY <1>1, <1>2 DEF SeekFile

LEMMA SeekedKeeps == ASSUME ExtractorInv, Seeked PROVE ExtractorInv'
<1>0. /\ ev.pc \in {"seeked", "flush"} /\ ev.todo = {}
      /\ mSeekTimeUs' \in {NoSeek, mSeekTimeUs}
      /\ mExtractorEventPending' = FALSE /\ ev' = At("idle")
      /\ UNCHANGED <<mReachedEnd, posted, demuxer, readers, bounds>>
  BY DEF Seeked, ExtractorInv, EventIsWhole, Flushing
<1>1. /\ ev' \in EventType /\ ev'.pc = "idle" /\ ev'.todo = {} /\ FilePos' = FilePos
  BY <1>0, AtType DEF EventPCs, FilePos, demuxer
<1>2. Types'
  <2>1. ev'.pc \in EventPCs /\ ev'.seek \in Targets \cup {NoSeek}
        /\ ev'.packet \in Tracks \cup Packets \cup {0} /\ ev'.todo \subseteq Tracks
    BY <1>1 DEF EventType
  <2> QED BY <1>0, <1>1, <2>1 DEF demuxer, readers, bounds, ExtractorInv, Types, TypeOK
<1>3. EventIsWhole'
  BY <1>1 DEF EventIsWhole, Flushing
<1>4. (phase = "running" => posted = 0) /\ OneEventAtATime' /\ StoppedIsQuiet'
  BY <1>0, <1>1 DEF readers, bounds, ExtractorInv, Types, TypeOK, OneEventAtATime, InFlight,
                    StoppedIsQuiet, NobodyReads
<1>5. NothingReadYet'
  BY <1>0, <1>1, <1>4 DEF demuxer, readers, bounds, ExtractorInv, NothingReadYet, NothingRead, NobodyReads
<1>6. RestartedAlike' /\ RoomToRead'
  BY <1>0, <1>1 DEF demuxer, ExtractorInv, RestartedAlike, Flushing, RoomToRead
<1>7. UnstartedIsEmpty' /\ FlashAtHead' /\ (Tracks # {} => ReadAheadBounded') /\ InOrder' /\ CaughtUp'
  BY <1>0, <1>1, DataKept DEF demuxer, readers, bounds
<1> QED BY <1>2, <1>3, <1>4, <1>5, <1>6, <1>7 DEF ExtractorInv

LEMMA ReadFrameKeeps == ASSUME ExtractorInv, ReadFrame PROVE ExtractorInv'
<1>0. /\ ev.pc = "read" /\ ev.todo = {}
      /\ UNCHANGED <<mSeekTimeUs, mReachedEnd, mExtractorEventPending, posted, queue, sought,
                     active, readers, phase, seeks>>
  BY DEF ReadFrame, ExtractorInv, EventIsWhole, Flushing
<1>1. CASE /\ ~AtEnd /\ phase = "running"
           /\ pos' = pos + 1
           /\ ev' = [ev EXCEPT !.pc = "push", !.packet = pos]
           /\ UNCHANGED errors
  <2>1. pos \in Packets /\ pos' \in 1 .. Len(Media) + 1
    BY <1>1, MediaFacts DEF AtEnd, ExtractorInv, Types, TypeOK
  <2>2. /\ ev' \in EventType /\ ev'.pc = "push" /\ ev'.todo = {} /\ ev'.packet = pos
        /\ FilePos = pos /\ FilePos' = pos
    BY <1>0, <1>1, <2>1 DEF EventType, EventPCs, ExtractorInv, Types, FilePos
  <2>3. Types'
    <3>1. ev'.pc \in EventPCs /\ ev'.seek \in Targets \cup {NoSeek}
          /\ ev'.packet \in Tracks \cup Packets \cup {0} /\ ev'.todo \subseteq Tracks
      BY <2>2 DEF EventType
    <3> QED BY <1>0, <1>1, <2>1, <2>2, <3>1 DEF readers, ExtractorInv, Types, TypeOK
  <2>4. EventIsWhole'
    BY <1>1, <2>1, <2>2 DEF EventIsWhole, Flushing
  <2>5. OneEventAtATime' /\ StoppedIsQuiet'
    BY <1>0, <2>2 DEF readers, ExtractorInv, OneEventAtATime, InFlight, StoppedIsQuiet, NobodyReads
  <2>6. NothingReadYet'
    BY <1>0 DEF readers, ExtractorInv, NothingReadYet, NothingRead, NobodyReads
  <2>7. RestartedAlike' /\ RoomToRead'
    BY <1>0, <2>2 DEF ExtractorInv, RestartedAlike, Flushing, RoomToRead
  <2>8. UnstartedIsEmpty' /\ FlashAtHead' /\ (Tracks # {} => ReadAheadBounded') /\ InOrder' /\ CaughtUp'
    BY <1>0, <2>2, DataKept DEF readers
  <2> QED BY <2>3, <2>4, <2>5, <2>6, <2>7, <2>8 DEF ExtractorInv
<1>2. CASE /\ \E pc \in {"eof", "failed"} : ev' = [ev EXCEPT !.pc = pc]
           /\ errors' \in 0 .. MaxErrors /\ pos' = pos
  <2>1. /\ ev' \in EventType /\ ev'.pc \in {"eof", "failed"} /\ ev'.todo = {} /\ FilePos' = FilePos
    BY <1>0, <1>2 DEF EventType, EventPCs, ExtractorInv, Types, FilePos
  <2>2. Types'
    <3>1. ev'.pc \in EventPCs /\ ev'.seek \in Targets \cup {NoSeek}
          /\ ev'.packet \in Tracks \cup Packets \cup {0} /\ ev'.todo \subseteq Tracks
      BY <2>1 DEF EventType
    <3> QED BY <1>0, <1>2, <2>1, <3>1 DEF readers, ExtractorInv, Types, TypeOK
  <2>3. EventIsWhole'
    BY <2>1 DEF EventIsWhole, Flushing
  <2>4. OneEventAtATime' /\ StoppedIsQuiet'
    BY <1>0, <2>1 DEF readers, ExtractorInv, OneEventAtATime, InFlight, StoppedIsQuiet, NobodyReads
  <2>5. NothingReadYet'
    BY <1>0 DEF readers, ExtractorInv, NothingReadYet, NothingRead, NobodyReads
  <2>6. RestartedAlike' /\ RoomToRead'
    BY <1>0, <2>1 DEF ExtractorInv, RestartedAlike, Flushing, RoomToRead
  <2>7. UnstartedIsEmpty' /\ FlashAtHead' /\ (Tracks # {} => ReadAheadBounded') /\ InOrder' /\ CaughtUp'
    BY <1>0, <2>1, DataKept DEF readers
  <2> QED BY <2>2, <2>3, <2>4, <2>5, <2>6, <2>7 DEF ExtractorInv
<1>3. errors \in 0 .. MaxErrors /\ MaxErrors \in Nat
  BY ExtractorAssumption DEF ExtractorInv, Types, TypeOK
<1>4. errors < MaxErrors /\ errors' = errors + 1 => errors' \in 0 .. MaxErrors
  BY <1>3
<1> QED BY <1>1, <1>2, <1>3, <1>4 DEF ReadFrame

\* The last step of a read, with the flag cleared, or before it the end noted.
LEMMA ReadEndsKeeps ==
  ASSUME ExtractorInv, ReachEnd \/ ReadFailed
  PROVE  ExtractorInv'
<1>0. /\ ev.pc \in {"eof", "failed"} /\ ev.todo = {}
      /\ ev'.pc \in {"failed", "idle"} /\ ev' \in EventType /\ ev'.todo = {}
      /\ IF ev'.pc = "idle" THEN mExtractorEventPending' = FALSE
         ELSE mExtractorEventPending' = mExtractorEventPending
      /\ mReachedEnd' \in BOOLEAN
      /\ UNCHANGED <<mSeekTimeUs, posted, demuxer, readers, bounds>>
  BY AtType DEF ReachEnd, ReadFailed, EventType, EventPCs, ExtractorInv, Types, TypeOK, EventIsWhole,
                Flushing
<1>1. FilePos' = FilePos
  BY <1>0 DEF FilePos, demuxer
<1>2. Types'
  <2>1. ev'.pc \in EventPCs /\ ev'.seek \in Targets \cup {NoSeek}
        /\ ev'.packet \in Tracks \cup Packets \cup {0} /\ ev'.todo \subseteq Tracks
    BY <1>0 DEF EventType
  <2>2. mExtractorEventPending' \in BOOLEAN
    BY <1>0 DEF ExtractorInv, Types, TypeOK
  <2> QED BY <1>0, <2>1, <2>2 DEF demuxer, readers, bounds, ExtractorInv, Types, TypeOK
<1>3. EventIsWhole'
  BY <1>0 DEF EventIsWhole, Flushing
<1>4. OneEventAtATime' /\ StoppedIsQuiet'
  BY <1>0 DEF readers, bounds, ExtractorInv, Types, TypeOK, OneEventAtATime, InFlight,
              StoppedIsQuiet, NobodyReads
<1>5. NothingReadYet'
  BY <1>0 DEF demuxer, readers, bounds, ExtractorInv, NothingReadYet, NothingRead, NobodyReads
<1>6. RestartedAlike' /\ RoomToRead'
  BY <1>0 DEF demuxer, ExtractorInv, RestartedAlike, Flushing, RoomToRead
<1>7. UnstartedIsEmpty' /\ FlashAtHead' /\ (Tracks # {} => ReadAheadBounded') /\ InOrder' /\ CaughtUp'
  BY <1>0, <1>1, DataKept DEF demuxer, readers, bounds
<1> QED BY <1>2, <1>3, <1>4, <1>5, <1>6, <1>7 DEF ExtractorInv

LEMMA ReadMoreKeeps == ASSUME ExtractorInv, ReadMore PROVE ExtractorInv'
<1>0. /\ ev.pc = "more" /\ ev.todo = {} /\ ev' = At("idle")
      /\ UNCHANGED <<mSeekTimeUs, mReachedEnd, demuxer, readers, bounds>>
  BY DEF ReadMore, ExtractorInv, EventIsWhole, Flushing
<1>1. /\ ev' \in EventType /\ ev'.pc = "idle" /\ ev'.todo = {} /\ FilePos' = FilePos
  BY <1>0, AtType DEF EventPCs, FilePos, demuxer
<1>2. /\ mExtractorEventPending' = mExtractorEventPending
      /\ posted' = IF mExtractorEventPending THEN 1 ELSE posted
      /\ (phase = "running" <=> mExtractorEventPending)
  <2>1. mExtractorEventPending \in BOOLEAN /\ posted \in 0 .. 1
    BY DEF ExtractorInv, Types, TypeOK
  <2>2. IF phase = "running" THEN posted = 0 /\ mExtractorEventPending
        ELSE posted = 0 /\ ~mExtractorEventPending
    BY <1>0, <2>1 DEF ExtractorInv, OneEventAtATime, InFlight
  <2>3. CASE mExtractorEventPending
    <3>1. phase = "running" /\ mExtractorEventPending' = TRUE /\ posted' = posted + 1
      BY <2>2, <2>3 DEF ReadMore, Cancelled, Enqueue
    <3> QED BY <2>2, <2>3, <3>1
  <2>4. CASE ~mExtractorEventPending
    BY <2>2, <2>4 DEF ReadMore, Cancelled
  <2> QED BY <2>3, <2>4
<1>3. Types'
  <2>1. ev'.pc \in EventPCs /\ ev'.seek \in Targets \cup {NoSeek}
        /\ ev'.packet \in Tracks \cup Packets \cup {0} /\ ev'.todo \subseteq Tracks
    BY <1>1 DEF EventType
  <2>2. posted' \in 0 .. 1
    BY <1>2 DEF ExtractorInv, Types, TypeOK
  <2> QED BY <1>0, <1>1, <1>2, <2>1, <2>2 DEF demuxer, readers, bounds, ExtractorInv, Types, TypeOK
<1>4. EventIsWhole'
  BY <1>1 DEF EventIsWhole, Flushing
<1>5. OneEventAtATime' /\ StoppedIsQuiet'
  BY <1>0, <1>1, <1>2 DEF readers, bounds, ExtractorInv, OneEventAtATime, InFlight, StoppedIsQuiet, NobodyReads
<1>6. NothingReadYet'
  BY <1>0 DEF demuxer, readers, bounds, ExtractorInv, NothingReadYet, NothingRead, NobodyReads
<1>7. RestartedAlike' /\ RoomToRead'
  BY <1>0, <1>1 DEF demuxer, ExtractorInv, RestartedAlike, Flushing, RoomToRead
<1>8. UnstartedIsEmpty' /\ FlashAtHead' /\ (Tracks # {} => ReadAheadBounded') /\ InOrder' /\ CaughtUp'
  BY <1>0, <1>1, DataKept DEF demuxer, readers, bounds
<1> QED BY <1>3, <1>4, <1>5, <1>6, <1>7, <1>8 DEF ExtractorInv

-----------------------------------------------------------------------------
(***************************************************************************)
(* The event's steps on the queues.                                        *)
(***************************************************************************)

LEMMA FlushTrackKeeps == ASSUME ExtractorInv, FlushTrack PROVE ExtractorInv'
<1>0. /\ ev.pc = "flush"
      /\ UNCHANGED <<mSeekTimeUs, mReachedEnd, mExtractorEventPending, posted, pos, sought,
                     active, readers, bounds>>
  BY DEF FlushTrack
<1>1. PICK t \in ev.todo : queue' = Flushed(t) /\ ev' = [ev EXCEPT !.pc = "flash", !.packet = t]
  BY DEF FlushTrack
<1>2. t \in active /\ t \in Tracks
  BY <1>0 DEF ExtractorInv, Types, TypeOK, EventIsWhole, Flushing
<1>3. /\ queue' \in [Tracks -> Seq(Packets \cup {Flash})] /\ queue'[t] = <<>> /\ Len(queue'[t]) = 0
      /\ \A u \in Tracks \ {t} : queue'[u] = queue[u]
  <2>1. <<>> \in Seq(Packets \cup {Flash})
    OBVIOUS
  <2> QED BY <1>1, <1>2, <2>1 DEF Flushed, ExtractorInv, Types, TypeOK
<1>4. /\ ev' \in EventType /\ ev'.pc = "flash" /\ ev'.packet = t /\ ev'.todo = ev.todo
      /\ ev'.seek = ev.seek
  BY <1>1, <1>2 DEF EventType, EventPCs, ExtractorInv, Types
<1>5. Types'
  <2>1. ev'.pc \in EventPCs /\ ev'.seek \in Targets \cup {NoSeek}
        /\ ev'.packet \in Tracks \cup Packets \cup {0} /\ ev'.todo \subseteq Tracks
    BY <1>4 DEF EventType
  <2> QED BY <1>0, <1>3, <1>4, <2>1 DEF readers, bounds, ExtractorInv, Types, TypeOK
<1>6. EventIsWhole'
  BY <1>0, <1>3, <1>4 DEF ExtractorInv, EventIsWhole, Flushing
<1>7. OneEventAtATime' /\ StoppedIsQuiet'
  BY <1>0, <1>4 DEF readers, bounds, ExtractorInv, OneEventAtATime, InFlight, StoppedIsQuiet, NobodyReads
<1>8. NothingReadYet'
  BY <1>0, <1>4 DEF readers, bounds, ExtractorInv, NothingReadYet, NothingRead, NobodyReads
<1>9. UnstartedIsEmpty' /\ RestartedAlike' /\ RoomToRead'
  BY <1>0, <1>2, <1>3, <1>4 DEF readers, ExtractorInv, Types, TypeOK, UnstartedIsEmpty, RestartedAlike,
                                Flushing, RoomToRead
<1>10. FlashAtHead'
  BY <1>3 DEF ExtractorInv, FlashAtHead
<1>11. Tracks # {} => ReadAheadBounded'
  BY <1>2, <1>3, ExtractorAssumption DEF ReadAheadBounded
<1>12. InOrder'
  <2>1. active' = active /\ active \subseteq Tracks
    BY <1>0 DEF ExtractorInv, Types, TypeOK
  <2>2. ASSUME NEW u \in active, u # t, NEW i \in 1 .. Len(queue[u]), queue[u][i] # Flash
        PROVE  queue[u][i] = NextOf(u, After(u, IF i = 1 THEN last[u] ELSE queue[u][i - 1]))'
    BY <1>0, <1>3, <2>1, <2>2 DEF readers, ExtractorInv, InOrder, After
  <2> QED BY <1>3, <2>1, <2>2 DEF InOrder
<1>13. CaughtUp'
  BY <1>0, <1>2, <1>3, <1>4 DEF readers, bounds, ExtractorInv, Types, TypeOK, CaughtUp, Newest, After,
                                FilePos
<1> QED BY <1>5, <1>6, <1>7, <1>8, <1>9, <1>10, <1>11, <1>12, <1>13 DEF ExtractorInv

LEMMA PushFlashKeeps == ASSUME ExtractorInv, PushFlash PROVE ExtractorInv'
<1> DEFINE t == ev.packet
<1>0. /\ ev.pc = "flash" /\ queue' = [queue EXCEPT ![t] = Append(@, Flash)]
      /\ sought' = [sought EXCEPT ![t] = ev.seek]
      /\ ev' = [ev EXCEPT !.pc = "flush", !.packet = 0, !.todo = @ \ {t}]
      /\ UNCHANGED <<mSeekTimeUs, mReachedEnd, mExtractorEventPending, posted, pos, active,
                     readers, bounds>>
  BY DEF PushFlash, WithFlash, Pushed
<1>1. /\ t \in ev.todo /\ t \in active /\ t \in Tracks /\ queue[t] = <<>> /\ active \subseteq Tracks
      /\ ev.seek \in Targets /\ pos = ev.seek /\ ev.todo \subseteq active
  BY <1>0 DEF ExtractorInv, Types, TypeOK, EventIsWhole, Flushing
<1>2. /\ queue' \in [Tracks -> Seq(Packets \cup {Flash})] /\ queue'[t] = <<Flash>> /\ Len(queue'[t]) = 1
      /\ queue'[t][Len(queue'[t])] = Flash /\ queue'[t] # <<>>
      /\ \A u \in Tracks \ {t} : queue'[u] = queue[u]
  <2>1. Append(<<>>, Flash) = <<Flash>> /\ <<Flash>> \in Seq(Packets \cup {Flash}) /\ Len(<<Flash>>) = 1
    OBVIOUS
  <2> QED BY <1>0, <1>1, <2>1 DEF ExtractorInv, Types, TypeOK
<1>3. /\ sought' \in [Tracks -> 1 .. Len(Media) + 1] /\ sought'[t] = ev.seek
      /\ \A u \in Tracks \ {t} : sought'[u] = sought[u]
  <2>1. ev.seek \in 1 .. Len(Media) + 1
    BY <1>1, MediaFacts, Zenon
  <2> QED BY <1>0, <1>1, <2>1 DEF ExtractorInv, Types, TypeOK
<1>4. /\ ev' \in EventType /\ ev'.pc = "flush" /\ ev'.todo = ev.todo \ {t} /\ ev'.seek = ev.seek
  BY <1>0 DEF EventType, EventPCs, ExtractorInv, Types
<1> HIDE DEF t
<1>5. Types'
  <2>1. ev'.pc \in EventPCs /\ ev'.seek \in Targets \cup {NoSeek}
        /\ ev'.packet \in Tracks \cup Packets \cup {0} /\ ev'.todo \subseteq Tracks
    BY <1>4 DEF EventType
  <2> QED BY <1>0, <1>2, <1>3, <1>4, <2>1 DEF readers, bounds, ExtractorInv, Types, TypeOK
<1>6. EventIsWhole'
  BY <1>0, <1>1, <1>4 DEF EventIsWhole, Flushing
<1>7. OneEventAtATime' /\ StoppedIsQuiet'
  BY <1>0, <1>4 DEF readers, bounds, ExtractorInv, OneEventAtATime, InFlight, StoppedIsQuiet, NobodyReads
<1>8. \A u \in active' \ ev'.todo : sought'[u] = ev.seek
  <2>1. \A u \in active \ ev.todo : sought[u] = ev.seek
    BY <1>0 DEF ExtractorInv, RestartedAlike, Flushing
  <2> QED BY <1>0, <1>1, <1>3, <1>4, <2>1
<1>9. NothingReadYet'
  BY <1>0, <1>1, <1>4, <1>8 DEF readers, bounds, ExtractorInv, NothingReadYet, NothingRead, NobodyReads
<1>10. RestartedAlike' /\ RoomToRead'
  BY <1>4, <1>8 DEF RestartedAlike, RoomToRead
<1>11. UnstartedIsEmpty'
  BY <1>0, <1>1, <1>2 DEF readers, ExtractorInv, UnstartedIsEmpty
<1>12. FlashAtHead'
  BY <1>2 DEF ExtractorInv, FlashAtHead
<1>13. Tracks # {} => ReadAheadBounded'
  <2>1. Len(queue'[t]) <= MIN_FRAMES
    BY <1>2, MediaFacts
  <2> QED BY <1>1, <2>1 DEF ReadAheadBounded
<1>14. InOrder'
  <2>1. active' = active
    BY <1>0
  <2>2. ASSUME NEW u \in active, u # t, NEW i \in 1 .. Len(queue[u]), queue[u][i] # Flash
        PROVE  queue[u][i] = NextOf(u, After(u, IF i = 1 THEN last[u] ELSE queue[u][i - 1]))'
    BY <1>0, <1>1, <1>2, <1>3, <2>2 DEF readers, ExtractorInv, InOrder, After
  <2>3. \A i \in 1 .. Len(queue'[t]) : queue'[t][i] = Flash
    BY <1>2
  <2> QED BY <1>1, <1>2, <2>1, <2>2, <2>3 DEF InOrder
<1>15. CaughtUp'
  <2> SUFFICES ASSUME phase' # "stopped", NEW u \in active' \ ev'.todo
               PROVE  /\ After(u, Newest(u))' <= FilePos'
                      /\ \A j \in After(u, Newest(u))' .. FilePos' - 1 : Media[j] # u
    BY DEF CaughtUp
  <2>1. FilePos' = pos /\ FilePos = pos /\ u \in Tracks
    BY <1>0, <1>1, <1>4 DEF FilePos
  <2>2. CASE u = t
    <3>1. After(u, Newest(u))' = pos
      BY <1>1, <1>2, <1>3, <2>2 DEF After, Newest
    <3>2. pos \in Int
      BY <1>1, MediaFacts
    <3> QED BY <2>1, <3>1, <3>2
  <2>3. CASE u # t
    <3>1. After(u, Newest(u))' = After(u, Newest(u)) /\ u \in active \ ev.todo
      BY <1>0, <1>2, <1>3, <1>4, <2>1, <2>3 DEF readers, After, Newest
    <3> QED BY <1>0, <2>1, <3>1 DEF bounds, ExtractorInv, CaughtUp
  <2> QED BY <2>2, <2>3
<1> QED BY <1>5, <1>6, <1>7, <1>9, <1>10, <1>11, <1>12, <1>13, <1>14, <1>15 DEF ExtractorInv

LEMMA PushPacketKeeps == ASSUME ExtractorInv, PushPacket PROVE ExtractorInv'
<1> DEFINE p == ev.packet
           t == Media[p]
<1>0. /\ ev.pc = "push" /\ ev.todo = {} /\ p \in Packets /\ p + 1 = pos
      /\ queue' = IF t \in active THEN [queue EXCEPT ![t] = Append(@, p)] ELSE queue
      /\ ev' = At("more")
      /\ UNCHANGED <<mSeekTimeUs, mReachedEnd, mExtractorEventPending, posted, pos, sought,
                     active, readers, bounds>>
  BY DEF PushPacket, Pushed, ExtractorInv, EventIsWhole, Flushing
<1>1. /\ ev' \in EventType /\ ev'.pc = "more" /\ ev'.todo = {}
      /\ FilePos = p /\ FilePos' = p + 1 /\ p \in Nat /\ p # Flash /\ p <= Len(Media)
      /\ active \subseteq Tracks
  BY <1>0, AtType, MediaFacts DEF EventPCs, FilePos, ExtractorInv, Types, TypeOK
<1>2. /\ queue \in [Tracks -> Seq(Packets \cup {Flash})]
      /\ queue' \in [Tracks -> Seq(Packets \cup {Flash})]
      /\ \A u \in Tracks : (u # t \/ t \notin active) => queue'[u] = queue[u]
      /\ t \in active =>
           /\ queue'[t] = Append(queue[t], p) /\ queue'[t] # <<>>
           /\ Len(queue'[t]) = Len(queue[t]) + 1 /\ queue'[t][Len(queue[t]) + 1] = p
           /\ \A i \in 1 .. Len(queue[t]) : queue'[t][i] = queue[t][i]
  <2>1. queue \in [Tracks -> Seq(Packets \cup {Flash})]
    BY DEF ExtractorInv, Types, TypeOK
  <2>2. ASSUME t \in active
        PROVE
          /\ queue[t] \in Seq(Packets \cup {Flash})
          /\ Append(queue[t], p) \in Seq(Packets \cup {Flash})
          /\ Append(queue[t], p) # <<>> /\ Len(Append(queue[t], p)) = Len(queue[t]) + 1
          /\ Append(queue[t], p)[Len(queue[t]) + 1] = p
          /\ \A i \in 1 .. Len(queue[t]) : Append(queue[t], p)[i] = queue[t][i]
    <3>1. queue[t] \in Seq(Packets \cup {Flash}) /\ p \in Packets \cup {Flash}
      BY <1>0, <1>1, <2>1, <2>2
    <3> HIDE DEF p, t
    <3> QED BY <3>1, AppendProperties
  <2> QED BY <1>0, <1>1, <2>1, <2>2
<1>3. \A u \in Tracks : Len(queue[u]) \in Nat
  BY <1>2
<1> HIDE DEF p, t
<1>4. Types'
  <2>1. ev'.pc \in EventPCs /\ ev'.seek \in Targets \cup {NoSeek}
        /\ ev'.packet \in Tracks \cup Packets \cup {0} /\ ev'.todo \subseteq Tracks
    BY <1>1 DEF EventType
  <2> QED BY <1>0, <1>1, <1>2, <2>1 DEF readers, bounds, ExtractorInv, Types, TypeOK
<1>5. EventIsWhole'
  BY <1>1 DEF EventIsWhole, Flushing
<1>6. OneEventAtATime' /\ StoppedIsQuiet'
  BY <1>0, <1>1 DEF readers, bounds, ExtractorInv, OneEventAtATime, InFlight, StoppedIsQuiet, NobodyReads
<1>7. NothingReadYet'
  BY <1>0 DEF readers, bounds, ExtractorInv, NothingReadYet, NothingRead, NobodyReads
<1>8. UnstartedIsEmpty'
  BY <1>0, <1>2 DEF readers, ExtractorInv, UnstartedIsEmpty
<1>9. RestartedAlike' /\ RoomToRead'
  BY <1>0, <1>1 DEF ExtractorInv, RestartedAlike, Flushing, RoomToRead
<1>10. FlashAtHead'
  <2> SUFFICES ASSUME NEW u \in Tracks, NEW i \in 2 .. Len(queue'[u]) PROVE queue'[u][i] # Flash
    BY DEF FlashAtHead
  <2>1. CASE u # t \/ t \notin active
    BY <1>2, <2>1 DEF ExtractorInv, FlashAtHead
  <2>2. CASE u = t /\ t \in active /\ i <= Len(queue[t])
    <3>1. i \in 2 .. Len(queue[t]) /\ i \in 1 .. Len(queue[t])
      BY <1>3, <2>2
    <3> QED BY <1>2, <2>2, <3>1 DEF ExtractorInv, FlashAtHead
  <2>3. CASE u = t /\ t \in active /\ ~(i <= Len(queue[t]))
    <3>1. i = Len(queue[t]) + 1
      BY <1>2, <1>3, <2>3
    <3> QED BY <1>1, <1>2, <2>3, <3>1
  <2> QED BY <2>1, <2>2, <2>3
<1>11. Tracks # {} => ReadAheadBounded'
  <2> SUFFICES ASSUME active' = Tracks PROVE \E u \in Tracks : Len(queue'[u]) <= MIN_FRAMES
    BY DEF ReadAheadBounded
  <2>1. PICK u \in Tracks : Len(queue[u]) < MIN_FRAMES
    BY <1>0 DEF ExtractorInv, RoomToRead
  <2>2. Len(queue'[u]) = Len(queue[u]) \/ Len(queue'[u]) = Len(queue[u]) + 1
    BY <1>2
  <2> QED BY <1>3, <2>1, <2>2, MediaFacts
\* The packet is the next one of its track behind the newest in its queue.
<1>12. t \in active => p = NextOf(t, After(t, Newest(t)))
  <2> SUFFICES ASSUME t \in active PROVE p = NextOf(t, After(t, Newest(t)))
    OBVIOUS
  <2> DEFINE from == After(t, Newest(t))
  <2>1. phase # "stopped"
    BY <1>0 DEF ExtractorInv, StoppedIsQuiet
  <2>2. from <= p /\ \A j \in from .. p - 1 : Media[j] # t
    BY <1>0, <1>1, <2>1 DEF ExtractorInv, CaughtUp
  <2>3. from \in Nat
    BY <1>1, AfterType DEF ExtractorInv
  <2>4. p \in from .. Len(Media) /\ Media[p] = t /\ t \in Tracks
    BY <1>1, <2>2, <2>3, MediaFacts DEF t
  <2> HIDE DEF from
  <2>5. NextOf(t, from) = p
    BY <2>2, <2>3, <2>4, NextOfIs
  <2> QED BY <2>5 DEF from
<1>13. InOrder'
  <2> SUFFICES ASSUME NEW u \in active, NEW i \in 1 .. Len(queue'[u]), queue'[u][i] # Flash
               PROVE  queue'[u][i] = NextOf(u, After(u, IF i = 1 THEN last[u] ELSE queue'[u][i - 1]))
    BY <1>0 DEF readers, InOrder, After
  <2>0. u \in Tracks
    BY <1>1
  <2>1. CASE u # t
    BY <1>2, <2>0, <2>1 DEF ExtractorInv, InOrder
  <2>2. CASE u = t /\ i <= Len(queue[t])
    <3>1. i \in 1 .. Len(queue[t]) /\ (i # 1 => i - 1 \in 1 .. Len(queue[t]))
      BY <1>3, <2>0, <2>2
    <3>2. queue'[t][i] = queue[t][i] /\ (i # 1 => queue'[t][i - 1] = queue[t][i - 1])
      BY <1>2, <2>2, <3>1
    <3> QED BY <2>2, <3>1, <3>2 DEF ExtractorInv, InOrder
  <2>3. CASE u = t /\ ~(i <= Len(queue[t]))
    <3>1. i = Len(queue[t]) + 1 /\ queue'[t][i] = p
      BY <1>2, <1>3, <2>0, <2>3
    <3>2. (IF i = 1 THEN last[t] ELSE queue'[t][i - 1]) = Newest(t)
      <4>1. CASE i = 1
        <5>1. Len(queue[t]) = 0
          BY <1>3, <2>0, <2>3, <3>1, <4>1
        <5>2. queue[t] = <<>>
          BY <1>2, <2>0, <2>3, <5>1, EmptySeq
        <5> QED BY <4>1, <5>2 DEF Newest
      <4>2. CASE i # 1
        <5>1. Len(queue[t]) \in 1 .. Len(queue[t]) /\ i - 1 = Len(queue[t])
          BY <1>3, <2>0, <2>3, <3>1, <4>2
        <5>2. queue[t] # <<>>
          BY <5>1
        <5>3. queue'[t][i - 1] = queue[t][Len(queue[t])]
          BY <1>2, <2>3, <5>1
        <5> QED BY <4>2, <5>2, <5>3 DEF Newest
      <4> QED BY <4>1, <4>2
    <3> QED BY <1>12, <2>3, <3>1, <3>2
  <2> QED BY <2>1, <2>2, <2>3
<1>14. CaughtUp'
  <2> SUFFICES ASSUME phase # "stopped", NEW u \in active
               PROVE  /\ After(u, Newest(u))' <= p + 1
                      /\ \A j \in After(u, Newest(u))' .. p : Media[j] # u
    <3>1. p + 1 - 1 = p
      BY <1>1
    <3> QED BY <1>0, <1>1, <3>1 DEF bounds, CaughtUp
  <2>0. u \in Tracks
    BY <1>1
  <2>1. CASE u = t
    <3>1. After(u, Newest(u))' = p + 1
      <4>1. Newest(u)' = p
        BY <1>2, <2>1 DEF Newest
      <4> QED BY <1>1, <4>1 DEF After
    <3> QED BY <1>1, <3>1
  <2>2. CASE u # t
    <3>1. After(u, Newest(u))' = After(u, Newest(u))
      BY <1>0, <1>2, <2>0, <2>2 DEF readers, After, Newest
    <3>2. After(u, Newest(u)) <= p /\ \A j \in After(u, Newest(u)) .. p - 1 : Media[j] # u
      BY <1>0, <1>1 DEF ExtractorInv, CaughtUp
    <3>3. After(u, Newest(u)) \in Int
      BY <2>0, AfterType DEF ExtractorInv
    <3>4. Media[p] # u
      BY <2>2 DEF t
    <3>5. \A j \in After(u, Newest(u)) .. p : j = p \/ j \in After(u, Newest(u)) .. p - 1
      BY <1>1, <3>3
    <3> QED BY <1>1, <3>1, <3>2, <3>3, <3>4, <3>5
  <2> QED BY <2>1, <2>2
<1> QED BY <1>4, <1>5, <1>6, <1>7, <1>8, <1>9, <1>10, <1>11, <1>13, <1>14 DEF ExtractorInv

-----------------------------------------------------------------------------
(***************************************************************************)
(* The readers and the owner.                                              *)
(***************************************************************************)

LEMMA StartTrackKeeps ==
  ASSUME ExtractorInv, NEW t \in Tracks, StartTrack(t)
  PROVE  ExtractorInv'
<1>0. /\ phase = "running" /\ NothingRead /\ t \notin active /\ t \notin Unqueued
      /\ active' = active \cup {t} /\ sought' = [sought EXCEPT ![t] = pos]
      /\ UNCHANGED <<mSeekTimeUs, mReachedEnd, mExtractorEventPending, posted, ev, pos, queue,
                     readers, bounds>>
  BY DEF StartTrack
<1>1. /\ ev.pc \in {"idle", "begin", "seek", "flush", "flash", "seeked"}
      /\ \A u \in active \ ev.todo : sought[u] = pos
      /\ queue[t] = <<>> /\ last[t] = 0 /\ Len(queue[t]) = 0
      /\ active \subseteq Tracks
  BY <1>0 DEF ExtractorInv, Types, TypeOK, NothingReadYet, UnstartedIsEmpty
<1>2. /\ sought' \in [Tracks -> 1 .. Len(Media) + 1] /\ sought'[t] = pos
      /\ \A u \in Tracks \ {t} : sought'[u] = sought[u]
  BY <1>0 DEF ExtractorInv, Types, TypeOK
<1>3. ev.todo \subseteq active
  BY DEF ExtractorInv, EventIsWhole
<1>4. \A u \in active' \ ev.todo : sought'[u] = pos
  BY <1>0, <1>1, <1>2
<1>5. Types'
  BY <1>0, <1>2 DEF readers, bounds, ExtractorInv, Types, TypeOK
<1>6. EventIsWhole' /\ OneEventAtATime' /\ StoppedIsQuiet' /\ UnstartedIsEmpty' /\ FlashAtHead'
  BY <1>0 DEF readers, bounds, ExtractorInv, EventIsWhole, Flushing, OneEventAtATime, InFlight,
              StoppedIsQuiet, NobodyReads, UnstartedIsEmpty, FlashAtHead
<1>7. NothingReadYet'
  BY <1>0, <1>1, <1>4 DEF readers, bounds, ExtractorInv, NothingReadYet, NothingRead, NobodyReads
<1>8. RestartedAlike'
  BY <1>0, <1>4 DEF ExtractorInv, EventIsWhole, RestartedAlike, Flushing
<1>9. RoomToRead' /\ (Tracks # {} => ReadAheadBounded')
  BY <1>0, <1>1, MediaFacts DEF RoomToRead, ReadAheadBounded
<1>10. InOrder'
  <2> SUFFICES ASSUME NEW u \in active', NEW i \in 1 .. Len(queue[u]), queue[u][i] # Flash
               PROVE  queue[u][i] = NextOf(u, After(u, IF i = 1 THEN last[u] ELSE queue[u][i - 1])')
    BY <1>0 DEF readers, InOrder, After
  <2>1. u # t /\ u \in active
    BY <1>0, <1>1
  <2>2. queue[u][i] = NextOf(u, After(u, IF i = 1 THEN last[u] ELSE queue[u][i - 1]))
    BY <2>1 DEF ExtractorInv, InOrder
  <2> QED BY <1>0, <1>1, <1>2, <2>1, <2>2 DEF readers, After
<1>11. CaughtUp'
  <2> SUFFICES ASSUME NEW u \in active' \ ev.todo
               PROVE  /\ After(u, Newest(u))' <= pos
                      /\ \A j \in After(u, Newest(u))' .. pos - 1 : Media[j] # u
    BY <1>0, <1>1 DEF CaughtUp, FilePos
  <2>1. CASE u = t
    <3>1. After(u, Newest(u))' = pos /\ pos \in Int
      BY <1>0, <1>1, <1>2, <2>1 DEF readers, After, Newest, Flash, ExtractorInv, Types, TypeOK
    <3> QED BY <3>1
  <2>2. CASE u # t
    <3>1. After(u, Newest(u))' = After(u, Newest(u)) /\ u \in active \ ev.todo
      BY <1>0, <1>1, <1>2, <2>2 DEF readers, After, Newest
    <3>2. FilePos = pos /\ phase # "stopped"
      BY <1>0, <1>1 DEF FilePos
    <3> QED BY <3>1, <3>2 DEF ExtractorInv, CaughtUp
  <2> QED BY <2>1, <2>2
<1> QED BY <1>5, <1>6, <1>7, <1>8, <1>9, <1>10, <1>11 DEF ExtractorInv

\* A post while running: the event is queued once.
LEMMA PostIsOne ==
  ASSUME ExtractorInv, phase = "running", postExtractorEvent_l
  PROVE  /\ mExtractorEventPending' = TRUE /\ posted' \in 0 .. 1
         /\ posted' + InFlight = 1
<1>1. mExtractorEventPending \in BOOLEAN /\ posted \in 0 .. 1 /\ InFlight \in 0 .. 1
  BY DEF ExtractorInv, Types, TypeOK, InFlight
<1>2. CASE mExtractorEventPending
  <2>1. posted + InFlight = 1
    BY <1>2 DEF ExtractorInv, OneEventAtATime
  <2> QED BY <1>1, <1>2, <2>1 DEF postExtractorEvent_l
<1>3. CASE ~mExtractorEventPending
  <2>1. posted + InFlight = 0
    BY <1>3 DEF ExtractorInv, OneEventAtATime
  <2>2. mExtractorEventPending' = TRUE /\ posted' = posted + 1
    BY <1>3 DEF postExtractorEvent_l, Enqueue
  <2> QED BY <1>1, <2>1, <2>2
<1> QED BY <1>1, <1>2, <1>3

LEMMA SeekToKeeps ==
  ASSUME ExtractorInv, NEW target \in Targets, SeekTo(target)
  PROVE  ExtractorInv'
<1>0. /\ phase = "running" /\ seeks < MaxSeeks /\ seeks' = seeks + 1 /\ mSeekTimeUs' = target
      /\ postExtractorEvent_l
      /\ UNCHANGED <<mReachedEnd, ev, demuxer, readers, phase, errors>>
  BY DEF SeekTo
<1>1. /\ mExtractorEventPending' = TRUE /\ posted' \in 0 .. 1 /\ posted' + InFlight = 1
  BY <1>0, PostIsOne
<1>2. seeks' \in 0 .. MaxSeeks
  <2>1. seeks \in 0 .. MaxSeeks /\ MaxSeeks \in Nat
    BY ExtractorAssumption DEF ExtractorInv, Types, TypeOK
  <2> QED BY <1>0, <2>1
<1>3. Types'
  BY <1>0, <1>1, <1>2 DEF demuxer, readers, ExtractorInv, Types, TypeOK
<1>4. EventIsWhole' /\ StoppedIsQuiet' /\ RestartedAlike' /\ RoomToRead'
  BY <1>0 DEF demuxer, readers, ExtractorInv, EventIsWhole, Flushing, StoppedIsQuiet, NobodyReads,
              RestartedAlike, RoomToRead
<1>5. OneEventAtATime'
  BY <1>0, <1>1 DEF OneEventAtATime, InFlight
<1>6. NothingReadYet'
  BY <1>0, MediaFacts DEF demuxer, readers, ExtractorInv, NothingReadYet, NothingRead, NobodyReads
<1>7. UnstartedIsEmpty' /\ FlashAtHead' /\ (Tracks # {} => ReadAheadBounded') /\ InOrder' /\ CaughtUp'
  BY <1>0, DataKept DEF demuxer, readers, FilePos
<1> QED BY <1>3, <1>4, <1>5, <1>6, <1>7 DEF ExtractorInv

LEMMA ReaderMovesKeeps ==
  ASSUME ExtractorInv, NEW t \in Tracks,
         \/ Pop(t) /\ queue[t] = <<>>
         \/ CheckEnd(t)
         \/ NotifyContinueRead(t)
  PROVE  ExtractorInv'
<1>0. /\ UNCHANGED <<mSeekTimeUs, mReachedEnd, ev, demuxer, last, bounds>>
      /\ reader' \in [Tracks -> {"idle", "empty", "wants"}]
      /\ result' \in [Tracks -> {"none", "ok", "discontinuity", "end", "tooSmall"}]
      /\ phase = "running"
  <2>1. phase = "running"
    BY DEF Pop, CheckEnd, NotifyContinueRead, ExtractorInv, StoppedIsQuiet, NobodyReads
  <2> QED BY <2>1 DEF Pop, CheckEnd, NotifyContinueRead, Returns, demuxer, bounds, ExtractorInv, Types,
                      TypeOK
<1>1. /\ mExtractorEventPending' \in BOOLEAN /\ posted' \in 0 .. 1
      /\ posted' + InFlight = (IF mExtractorEventPending' THEN 1 ELSE 0)
  <2>1. CASE UNCHANGED <<mExtractorEventPending, posted>>
    BY <1>0, <2>1 DEF ExtractorInv, Types, TypeOK, OneEventAtATime
  <2>2. CASE postExtractorEvent_l
    <3>1. mExtractorEventPending' = TRUE /\ posted' \in 0 .. 1 /\ posted' + InFlight = 1
      BY <1>0, <2>2, PostIsOne
    <3> QED BY <3>1
  <2> QED BY <2>1, <2>2 DEF Pop, CheckEnd, NotifyContinueRead
<1>2. ~NothingRead'
  BY DEF Pop, CheckEnd, NotifyContinueRead, Returns, NothingRead, NobodyReads, ExtractorInv, Types,
         TypeOK
<1>3. Types'
  BY <1>0, <1>1 DEF demuxer, bounds, ExtractorInv, Types, TypeOK
<1>4. EventIsWhole' /\ StoppedIsQuiet' /\ RestartedAlike' /\ RoomToRead' /\ NothingReadYet'
  BY <1>0, <1>2 DEF demuxer, bounds, ExtractorInv, EventIsWhole, Flushing, StoppedIsQuiet, NobodyReads,
                    RestartedAlike, RoomToRead, NothingReadYet
<1>5. OneEventAtATime'
  BY <1>0, <1>1 DEF bounds, OneEventAtATime, InFlight
<1>6. UnstartedIsEmpty' /\ FlashAtHead' /\ (Tracks # {} => ReadAheadBounded') /\ InOrder' /\ CaughtUp'
  BY <1>0, DataKept DEF demuxer, bounds, FilePos
<1> QED BY <1>3, <1>4, <1>5, <1>6 DEF ExtractorInv

LEMMA PopKeeps ==
  ASSUME ExtractorInv, NEW t \in Tracks, Pop(t), queue[t] # <<>>
  PROVE  ExtractorInv'
<1>0. /\ phase = "running" /\ t \in active
      /\ queue' = [queue EXCEPT ![t] = Tail(@)]
      /\ last' = [last EXCEPT ![t] = Head(queue[t])]
      /\ reader' = [reader EXCEPT ![t] = "idle"]
      /\ \E what \in {"discontinuity", "ok"} : result' = [result EXCEPT ![t] = what]
      /\ UNCHANGED <<mSeekTimeUs, mReachedEnd, mExtractorEventPending, posted, ev, pos, sought,
                     active, bounds>>
  BY DEF Pop, Popped, Returns
<1>1. /\ queue \in [Tracks -> Seq(Packets \cup {Flash})] /\ last \in [Tracks -> Packets \cup {0}]
      /\ active \subseteq Tracks
  BY DEF ExtractorInv, Types, TypeOK
<1>2. /\ queue[t] \in Seq(Packets \cup {Flash}) /\ Len(queue[t]) \in Nat /\ Len(queue[t]) >= 1
      /\ Head(queue[t]) = queue[t][1] /\ queue[t][1] \in Packets \cup {0}
      /\ Tail(queue[t]) \in Seq(Packets \cup {Flash})
      /\ Len(Tail(queue[t])) = Len(queue[t]) - 1
      /\ \A i \in 1 .. Len(queue[t]) - 1 : Tail(queue[t])[i] = queue[t][i + 1]
  <2>1. queue[t] \in Seq(Packets \cup {Flash})
    BY <1>1
  <2>2. Len(queue[t]) \in Nat /\ Len(queue[t]) >= 1
    BY <2>1, EmptySeq
  <2>3. Head(queue[t]) \in Packets \cup {Flash} /\ Head(queue[t]) = queue[t][1]
    BY <2>1
  <2>4. /\ Tail(queue[t]) \in Seq(Packets \cup {Flash})
        /\ Len(Tail(queue[t])) = Len(queue[t]) - 1
        /\ \A i \in 1 .. Len(Tail(queue[t])) : Tail(queue[t])[i] = queue[t][i + 1]
    BY <2>1, HeadTailProperties
  <2> QED BY <2>1, <2>2, <2>3, <2>4 DEF Flash
<1>3. /\ queue' \in [Tracks -> Seq(Packets \cup {Flash})] /\ last' \in [Tracks -> Packets \cup {0}]
      /\ queue'[t] = Tail(queue[t]) /\ last'[t] = queue[t][1]
      /\ \A u \in Tracks \ {t} : queue'[u] = queue[u] /\ last'[u] = last[u]
  BY <1>0, <1>1, <1>2
<1>4. \A u \in Tracks : Len(queue[u]) \in Nat /\ Len(queue'[u]) <= Len(queue[u]) /\ Len(queue'[u]) \in Nat
  <2> TAKE u \in Tracks
  <2>1. CASE u = t
    <3>1. Len(queue'[t]) = Len(queue[t]) - 1
      BY <1>2, <1>3
    <3> QED BY <1>2, <2>1, <3>1
  <2>2. CASE u # t
    <3>1. queue'[u] = queue[u] /\ Len(queue[u]) \in Nat
      BY <1>1, <1>3, <2>2
    <3> QED BY <3>1
  <2> QED BY <2>1, <2>2
<1>5. ~NothingRead'
  BY <1>0 DEF NothingRead, ExtractorInv, Types, TypeOK
<1>6. Types'
  BY <1>0, <1>3 DEF bounds, ExtractorInv, Types, TypeOK
<1>7. EventIsWhole'
  <2>1. ev.pc = "flash" => ev.packet \in Tracks \ {t}
    BY DEF ExtractorInv, EventIsWhole, Types, TypeOK
  <2> QED BY <1>0, <1>3, <2>1 DEF ExtractorInv, EventIsWhole, Flushing
<1>8. OneEventAtATime' /\ StoppedIsQuiet' /\ RestartedAlike' /\ NothingReadYet'
  BY <1>0, <1>5 DEF bounds, ExtractorInv, OneEventAtATime, InFlight, StoppedIsQuiet, RestartedAlike,
                    Flushing, NothingReadYet
<1>9. UnstartedIsEmpty'
  BY <1>0, <1>3 DEF ExtractorInv, UnstartedIsEmpty
<1>10. FlashAtHead'
  <2> SUFFICES ASSUME NEW u \in Tracks, NEW i \in 2 .. Len(queue'[u]) PROVE queue'[u][i] # Flash
    BY DEF FlashAtHead
  <2>1. CASE u # t
    BY <1>3, <2>1 DEF ExtractorInv, FlashAtHead
  <2>2. CASE u = t
    <3>1. i \in 1 .. Len(queue[t]) - 1 /\ i + 1 \in 2 .. Len(queue[t])
      BY <1>2, <1>3, <2>2
    <3>2. queue'[u][i] = queue[t][i + 1]
      BY <1>2, <1>3, <2>2, <3>1
    <3> QED BY <3>1, <3>2 DEF ExtractorInv, FlashAtHead
  <2> QED BY <2>1, <2>2
<1>11. RoomToRead'
  <2> SUFFICES ASSUME active = Tracks, ev.pc \in {"read", "push"}
               PROVE  \E u \in Tracks : Len(queue'[u]) < MIN_FRAMES
    BY <1>0 DEF RoomToRead
  <2>1. PICK u \in Tracks : Len(queue[u]) < MIN_FRAMES
    BY DEF ExtractorInv, RoomToRead
  <2> QED BY <1>4, <2>1, MediaFacts
<1>12. Tracks # {} => ReadAheadBounded'
  <2> SUFFICES ASSUME active = Tracks, Tracks # {} PROVE \E u \in Tracks : Len(queue'[u]) <= MIN_FRAMES
    BY <1>0 DEF ReadAheadBounded
  <2>1. PICK u \in Tracks : Len(queue[u]) <= MIN_FRAMES
    BY DEF ExtractorInv, ReadAheadBounded
  <2> QED BY <1>4, <2>1, MediaFacts
<1>13. InOrder'
  <2> SUFFICES ASSUME NEW u \in active, NEW i \in 1 .. Len(queue'[u]), queue'[u][i] # Flash
               PROVE  queue'[u][i] = NextOf(u, After(u, IF i = 1 THEN last'[u] ELSE queue'[u][i - 1]))
    BY <1>0 DEF InOrder, After
  <2>1. CASE u # t
    BY <1>1, <1>3, <2>1 DEF ExtractorInv, InOrder
  <2>2. CASE u = t
    <3>1. /\ i \in 1 .. Len(queue[t]) - 1 /\ i + 1 \in 1 .. Len(queue[t]) /\ i + 1 # 1
          /\ i + 1 - 1 = i /\ (i # 1 => i - 1 \in 1 .. Len(queue[t]) - 1 /\ i - 1 + 1 = i)
      BY <1>2, <1>3, <2>2
    <3>2. queue'[t][i] = queue[t][i + 1]
      BY <1>2, <1>3, <3>1
    <3>3. (IF i = 1 THEN last'[t] ELSE queue'[t][i - 1]) = queue[t][i]
      BY <1>2, <1>3, <3>1
    <3>4. queue[t][i + 1] = NextOf(t, After(t, queue[t][i]))
      BY <1>0, <2>2, <3>1, <3>2 DEF ExtractorInv, InOrder
    <3> QED BY <2>2, <3>2, <3>3, <3>4
  <2> QED BY <2>1, <2>2
<1>14. CaughtUp'
  <2>1. ASSUME NEW u \in active PROVE Newest(u)' = Newest(u)
    <3>1. CASE u # t
      BY <1>1, <1>3, <3>1 DEF Newest
    <3>2. CASE u = t /\ Len(queue[t]) = 1
      <4>1. queue'[t] = <<>>
        BY <1>2, <1>3, <3>2, EmptySeq
      <4> QED BY <1>3, <3>2, <4>1 DEF Newest
    <3>3. CASE u = t /\ Len(queue[t]) # 1
      <4>1. /\ Len(queue'[t]) = Len(queue[t]) - 1 /\ Len(queue'[t]) \in 1 .. Len(queue[t]) - 1
            /\ Len(queue'[t]) + 1 = Len(queue[t])
        <5>1. Len(queue'[t]) = Len(queue[t]) - 1
          BY <1>2, <1>3
        <5>2. Len(queue[t]) \in Nat /\ Len(queue[t]) >= 1
          BY <1>2
        <5>3. ASSUME NEW n \in Nat, n >= 1, n # 1
              PROVE  n - 1 \in 1 .. n - 1 /\ n - 1 + 1 = n
          BY <5>3
        <5>4. Len(queue[t]) # 1
          BY <3>3
        <5> QED BY <5>1, <5>2, <5>3, <5>4
      <4>2. queue'[t] # <<>>
        BY <4>1
      <4>3. queue'[t][Len(queue'[t])] = queue[t][Len(queue[t])]
        BY <1>2, <1>3, <4>1
      <4> QED BY <3>3, <4>2, <4>3 DEF Newest
    <3> QED BY <3>1, <3>2, <3>3
  <2> QED BY <1>0, <2>1 DEF bounds, ExtractorInv, CaughtUp, After, FilePos
<1> QED BY <1>6, <1>7, <1>8, <1>9, <1>10, <1>11, <1>12, <1>13, <1>14 DEF ExtractorInv

LEMMA StopKeeps ==
  ASSUME ExtractorInv, StopCancel \/ StopQueue
  PROVE  ExtractorInv'
<1>0. /\ phase # "stopped" /\ phase' \in {"cancelled", "joining"} /\ NobodyReads
      /\ posted' = 0 /\ mExtractorEventPending' = FALSE
      /\ UNCHANGED <<mSeekTimeUs, mReachedEnd, ev, demuxer, readers, seeks, errors>>
  BY DEF StopCancel, StopQueue, ExtractorInv, Types, TypeOK, OneEventAtATime, StoppedIsQuiet
<1>1. Types'
  <2>1. posted' \in 0 .. 1
    BY <1>0
  <2>2. /\ mExtractorEventPending' \in BOOLEAN
        /\ phase' \in {"running", "cancelled", "joining", "stopped"}
    BY <1>0, Zenon
  <2> QED BY <1>0, <2>1, <2>2 DEF demuxer, readers, ExtractorInv, Types, TypeOK
<1>2. EventIsWhole' /\ RestartedAlike' /\ RoomToRead'
  BY <1>0 DEF demuxer, ExtractorInv, EventIsWhole, Flushing, RestartedAlike, RoomToRead
<1>3. OneEventAtATime' /\ StoppedIsQuiet' /\ NothingReadYet'
  BY <1>0 DEF readers, OneEventAtATime, StoppedIsQuiet, NobodyReads, NothingReadYet
<1>4. UnstartedIsEmpty' /\ FlashAtHead' /\ (Tracks # {} => ReadAheadBounded') /\ InOrder' /\ CaughtUp'
  BY <1>0, DataKept DEF demuxer, readers, FilePos
<1> QED BY <1>1, <1>2, <1>3, <1>4 DEF ExtractorInv

LEMMA StopJoinedKeeps == ASSUME ExtractorInv, StopJoined PROVE ExtractorInv'
<1>0. /\ phase = "joining" /\ phase' = "stopped" /\ ev.pc = "idle"
      /\ queue' = [t \in Tracks |-> <<>>] /\ mReachedEnd' = TRUE
      /\ UNCHANGED <<mSeekTimeUs, mExtractorEventPending, posted, ev, pos, sought, active,
                     readers, seeks, errors>>
  BY DEF StopJoined
<1>1. /\ queue' \in [Tracks -> Seq(Packets \cup {Flash})]
      /\ \A t \in Tracks : queue'[t] = <<>> /\ Len(queue'[t]) = 0
  <2>1. <<>> \in Seq(Packets \cup {Flash}) /\ Len(<<>>) = 0
    OBVIOUS
  <2> QED BY <1>0, <2>1
<1>2. active \subseteq Tracks
  BY DEF ExtractorInv, Types, TypeOK
<1>3. Types'
  BY <1>0, <1>1 DEF readers, ExtractorInv, Types, TypeOK
<1>4. EventIsWhole' /\ RestartedAlike' /\ RoomToRead'
  BY <1>0 DEF ExtractorInv, EventIsWhole, Flushing, RestartedAlike, RoomToRead
<1>5. OneEventAtATime' /\ StoppedIsQuiet' /\ NothingReadYet'
  BY <1>0 DEF readers, ExtractorInv, OneEventAtATime, StoppedIsQuiet, NobodyReads, NothingReadYet
<1>6. UnstartedIsEmpty'
  BY <1>0, <1>1 DEF readers, ExtractorInv, UnstartedIsEmpty
<1>7. FlashAtHead' /\ (Tracks # {} => ReadAheadBounded') /\ InOrder' /\ CaughtUp'
  BY <1>0, <1>1, <1>2, MediaFacts DEF FlashAtHead, ReadAheadBounded, InOrder, CaughtUp
<1> QED BY <1>3, <1>4, <1>5, <1>6, <1>7 DEF ExtractorInv

LEMMA UnchangedKeeps == ASSUME ExtractorInv, UNCHANGED vars PROVE ExtractorInv'
<1>1. Types' /\ EventIsWhole' /\ OneEventAtATime' /\ StoppedIsQuiet' /\ NothingReadYet'
  BY DEF vars, ExtractorInv, Types, TypeOK, EventIsWhole, Flushing, OneEventAtATime, InFlight,
         StoppedIsQuiet, NobodyReads, NothingReadYet, NothingRead
<1>2. RestartedAlike' /\ RoomToRead'
  BY DEF vars, ExtractorInv, RestartedAlike, Flushing, RoomToRead
<1>3. UnstartedIsEmpty' /\ FlashAtHead' /\ (Tracks # {} => ReadAheadBounded') /\ InOrder' /\ CaughtUp'
  BY DataKept DEF vars, FilePos
<1> QED BY <1>1, <1>2, <1>3 DEF ExtractorInv

LEMMA StepKeepsExtractorInv == ExtractorInv /\ [Next]_vars => ExtractorInv'
<1> SUFFICES ASSUME ExtractorInv, [Next]_vars PROVE ExtractorInv'
  OBVIOUS
<1>1. CASE Fire \/ Begin \/ SeekFile \/ Seeked
  BY <1>1, FireKeeps, BeginKeeps, SeekFileKeeps, SeekedKeeps
<1>2. CASE FlushTrack \/ PushFlash \/ PushPacket
  BY <1>2, FlushTrackKeeps, PushFlashKeeps, PushPacketKeeps
<1>3. CASE ReadFrame \/ ReachEnd \/ ReadFailed \/ ReadMore
  BY <1>3, ReadFrameKeeps, ReadEndsKeeps, ReadMoreKeeps
<1>4. CASE \E t \in Tracks : StartTrack(t) \/ ReaderStep(t)
  <2>1. PICK t \in Tracks : StartTrack(t) \/ ReaderStep(t)
    BY <1>4
  <2>2. CASE StartTrack(t)
    BY <2>2, StartTrackKeeps
  <2>3. CASE Pop(t) /\ queue[t] # <<>>
    BY <2>3, PopKeeps
  <2>4. CASE (Pop(t) /\ queue[t] = <<>>) \/ CheckEnd(t) \/ NotifyContinueRead(t)
    BY <2>4, ReaderMovesKeeps
  <2> QED BY <2>1, <2>2, <2>3, <2>4 DEF ReaderStep
<1>5. CASE \E target \in Targets : SeekTo(target)
  BY <1>5, SeekToKeeps
<1>6. CASE StopCancel \/ StopQueue \/ StopJoined
  BY <1>6, StopKeeps, StopJoinedKeeps
<1>7. CASE UNCHANGED vars
  BY <1>7, UnchangedKeeps
<1> QED BY <1>1, <1>2, <1>3, <1>4, <1>5, <1>6, <1>7 DEF Next, EventStep

-----------------------------------------------------------------------------
(***************************************************************************)
(* The theorems.                                                           *)
(***************************************************************************)

\* The invariant holds, for every file and all bounds.
THEOREM ExtractorIsGood == Spec => []ExtractorInv
<1>1. Init => ExtractorInv
  BY InitGood
<1>2. ExtractorInv /\ [Next]_vars => ExtractorInv'
  BY StepKeepsExtractorInv
<1> QED BY <1>1, <1>2, PTL DEF Spec

\* Types of the extractor, its tracks and queues.
THEOREM ExtractorTypeCorrect == Spec => []TypeOK
<1>1. ExtractorInv => TypeOK
  BY DEF ExtractorInv, Types
<1> QED BY <1>1, ExtractorIsGood, PTL

\* One event for one request, and none after stop() has cancelled it
\* (mExtractorEventPending, NBFFmpegExtractor.cpp).
THEOREM ExtractorRunsOneEvent == Spec => []OneEventAtATime
<1>1. ExtractorInv => OneEventAtATime
  BY DEF ExtractorInv
<1> QED BY <1>1, ExtractorIsGood, PTL

\* A seek leaves nothing of the old position before its discontinuity.
THEOREM ExtractorFlushesAll == Spec => []FlashAtHead
<1>1. ExtractorInv => FlashAtHead
  BY DEF ExtractorInv
<1> QED BY <1>1, ExtractorIsGood, PTL

\* Tracks that resume after a seek resume from the same place.
THEOREM ExtractorTracksAgree == Spec => []TracksAgree
<1>1. ExtractorInv => TracksAgree
  BY DEF ExtractorInv, EventIsWhole, RestartedAlike, Flushing, TracksAgree
<1> QED BY <1>1, ExtractorIsGood, PTL

\* Reading ahead stops at the slowest reader, if there is a track at all.
THEOREM ExtractorReadsNotTooFar == ASSUME Tracks # {} PROVE Spec => []ReadAheadBounded
<1>1. ExtractorInv => ReadAheadBounded
  BY DEF ExtractorInv
<1> QED BY <1>1, ExtractorIsGood, PTL

\* Every reader gets the packets of its track, none twice and none left out,
\* from where its last discontinuity resumed (NBFFmpegMediaTrack::read).
THEOREM ExtractorReadsInOrder == Spec => ReadsInOrder
<1> DEFINE InOrderStep ==
             \A t \in Tracks : last'[t] # last[t] /\ last'[t] # Flash
               => last'[t] = NextOf(t, IF last[t] = 0 THEN sought[t] ELSE last[t] + 1)
<1>1. ExtractorInv /\ [Next]_vars => [InOrderStep]_vars
  <2> SUFFICES ASSUME ExtractorInv, Next, NEW t \in Tracks, last'[t] # last[t], last'[t] # Flash
               PROVE  last'[t] = NextOf(t, IF last[t] = 0 THEN sought[t] ELSE last[t] + 1)
    OBVIOUS
  <2>1. PICK u \in Tracks : Pop(u)
    BY DEF Next, EventStep, Fire, Begin, SeekFile, FlushTrack, PushFlash, Seeked, ReadFrame, ReachEnd,
           ReadFailed, PushPacket, ReadMore, StartTrack, ReaderStep, CheckEnd, NotifyContinueRead,
           SeekTo, StopCancel, StopQueue, StopJoined, readers
  <2>2. queue[u] # <<>> /\ last' = [last EXCEPT ![u] = Head(queue[u])] /\ u \in active
    BY <2>1 DEF Pop
  <2>3. u = t /\ last'[t] = queue[t][1] /\ 1 \in 1 .. Len(queue[t])
    <3>1. last \in [Tracks -> Packets \cup {0}] /\ queue[u] \in Seq(Packets \cup {Flash})
      BY DEF ExtractorInv, Types, TypeOK
    <3>2. Head(queue[u]) = queue[u][1] /\ 1 \in 1 .. Len(queue[u])
      BY <2>2, <3>1
    <3> QED BY <2>2, <3>1, <3>2
  <2>4. queue[t][1] = NextOf(t, After(t, last[t]))
    BY <2>2, <2>3 DEF ExtractorInv, InOrder
  <2> QED BY <2>3, <2>4 DEF After, Flash
<1> QED BY <1>1, ExtractorIsGood, PTL DEF Spec, ReadsInOrder

-----------------------------------------------------------------------------
(***************************************************************************)
(* The event queue's contract.                                             *)
(***************************************************************************)

Event   == "extractor"
Handles == {e \in {Event} : ev.pc # "idle"}

\* The extractor's event queue with n events, handling those of f.
Items(n, f) == Queue!QueueOf([e \in {Event} |-> n], [e \in {Event} |-> n > 0], f)

LEMMA ItemsOps ==
  ASSUME NEW f
  PROVE  /\ Queue!EmptyQueue = Items(0, {})
         /\ Queue!Posted(Items(0, f), Event) = Items(1, f)
         /\ Queue!Taken(Items(1, f), Event) = Items(0, f)
         /\ Queue!Fired(Items(1, f), Event) = Items(0, {Event})
         /\ Queue!Handled(Items(0, f)) = Items(0, {}) /\ Queue!Handled(Items(1, f)) = Items(1, {})
<1>1. /\ [[e \in {Event} |-> 0] EXCEPT ![Event] = @ + 1] = [e \in {Event} |-> 1]
      /\ [[e \in {Event} |-> 1] EXCEPT ![Event] = @ - 1] = [e \in {Event} |-> 0]
      /\ [[e \in {Event} |-> 0 > 0] EXCEPT ![Event] = TRUE] = [e \in {Event} |-> 1 > 0]
      /\ [[e \in {Event} |-> 1 > 0] EXCEPT ![Event] = FALSE] = [e \in {Event} |-> 0 > 0]
      /\ [e \in {Event} |-> FALSE] = [e \in {Event} |-> 0 > 0]
  <2>1. /\ [[e \in {Event} |-> 0] EXCEPT ![Event] = @ + 1] = [e \in {Event} |-> 1]
        /\ [[e \in {Event} |-> 1] EXCEPT ![Event] = @ - 1] = [e \in {Event} |-> 0]
    <3>1. 0 + 1 = 1 /\ 1 - 1 = 0
      OBVIOUS
    <3>2. /\ [[e \in {Event} |-> 0] EXCEPT ![Event] = @ + 1] = [e \in {Event} |-> 0 + 1]
          /\ [[e \in {Event} |-> 1] EXCEPT ![Event] = @ - 1] = [e \in {Event} |-> 1 - 1]
      BY Zenon
    <3> QED BY <3>1, <3>2
  <2>2. (0 > 0) = FALSE /\ (1 > 0) = TRUE
    OBVIOUS
  <2>3. /\ [[e \in {Event} |-> FALSE] EXCEPT ![Event] = TRUE] = [e \in {Event} |-> TRUE]
        /\ [[e \in {Event} |-> TRUE] EXCEPT ![Event] = FALSE] = [e \in {Event} |-> FALSE]
    BY Zenon
  <2>4. /\ [e \in {Event} |-> 0 > 0] = [e \in {Event} |-> FALSE]
        /\ [e \in {Event} |-> 1 > 0] = [e \in {Event} |-> TRUE]
    BY <2>2, Zenon
  <2> QED BY <2>1, <2>3, <2>4, Zenon
<1>2. ASSUME NEW n
      PROVE  /\ Items(n, f).posted = [e \in {Event} |-> n] /\ Items(n, f).id = [e \in {Event} |-> n > 0]
             /\ Items(n, f).firing = f
  BY DEF Items, Queue!QueueOf
<1> QED BY <1>1, <1>2, Zenon DEF Items, Queue!EmptyQueue, Queue!Posted, Queue!Out, Queue!Taken,
                                 Queue!Fired, Queue!Handled, Event

LEMMA ItemsAre == EventItems = Items(posted, Handles)
BY DEF EventItems, Items, Queue!QueueOf, Handles, Event

\* What the event queue allows of at most one event that is queued.
LEMMA ItemsMoves ==
  ASSUME NEW f, NEW m \in 0 .. 1
  PROVE  /\ Items(1, f) \in Queue!After(Items(0, f))
         /\ Items(0, f) \in Queue!After(Items(1, f))
         /\ Items(0, {Event}) \in Queue!After(Items(1, {}))
         /\ Items(m, {}) \in Queue!After(Items(m, f))
<1>1. \A n : Items(n, f).posted = [e \in {Event} |-> n] /\ Items(n, f).id = [e \in {Event} |-> n > 0]
  BY DEF Items, Queue!QueueOf
<1>2. Items(1, {}).posted = [e \in {Event} |-> 1] /\ Items(1, {}).firing = {}
  BY DEF Items, Queue!QueueOf
<1>3. Items(1, f) \in Queue!After(Items(0, f))
  BY ItemsOps, Zenon DEF Queue!After, Event
<1>4. Items(0, f) \in Queue!After(Items(1, f))
  <2>1. Items(1, f).posted[Event] > 0 /\ Items(1, f).id[Event]
    <3>1. [e \in {Event} |-> 1 > 0][Event] = (1 > 0) /\ [e \in {Event} |-> 1][Event] = 1
      BY Zenon
    <3>2. 1 > 0
      OBVIOUS
    <3> QED BY <1>1, <3>1, <3>2, Zenon
  <2> QED BY <2>1, ItemsOps, Zenon DEF Queue!After, Event
<1>5. Items(0, {Event}) \in Queue!After(Items(1, {}))
  <2>1. Items(1, {}).posted[Event] > 0
    BY <1>2
  <2>2. Queue!Fired(Items(1, {}), Event) = Items(0, {Event})
    BY ItemsOps
  <2> QED BY <1>2, <2>1, <2>2, Zenon DEF Queue!After, Event
<1>6. Items(m, {}) \in Queue!After(Items(m, f))
  <2>1. Items(m, {}) = Queue!Handled(Items(m, f))
    <3>1. m = 0 \/ m = 1
      OBVIOUS
    <3> QED BY <3>1, ItemsOps
  <2> QED BY <2>1, Zenon DEF Queue!After
<1> QED BY <1>3, <1>4, <1>5, <1>6

LEMMA ItemsStep ==
  ASSUME ExtractorInv, [Next]_vars
  PROVE  [Queue!Calls]_EventItems
<1>0. /\ posted \in 0 .. 1 /\ posted' \in 0 .. 1
      /\ ev.pc = "idle" => Handles = {}
      /\ ev.pc # "idle" => Handles = {Event}
      /\ ev'.pc = "idle" => Handles' = {}
      /\ ev'.pc # "idle" => Handles' = {Event}
  <2>1. ExtractorInv'
    BY StepKeepsExtractorInv
  <2>2. posted \in 0 .. 1 /\ posted' \in 0 .. 1
    BY <2>1 DEF ExtractorInv, Types, TypeOK
  <2> QED BY <2>2 DEF Handles
<1>1. EventItems = Items(posted, Handles) /\ EventItems' = Items(posted', Handles')
  BY DEF EventItems, Items, Queue!QueueOf, Handles, Event
<1>2. CASE posted' = posted /\ ((ev'.pc = "idle") <=> (ev.pc = "idle"))
  BY <1>0, <1>1, <1>2
<1>3. CASE posted' = posted /\ ev'.pc = "idle"
  <2>1. EventItems' \in Queue!After(EventItems)
    BY <1>0, <1>1, <1>3, ItemsMoves
  <2> QED BY <2>1, Zenon DEF Queue!Calls
<1>4. CASE posted = 0 /\ posted' = 1 /\ ((ev'.pc = "idle") <=> (ev.pc = "idle"))
  <2>1. EventItems' \in Queue!After(EventItems)
    BY <1>0, <1>1, <1>4, ItemsMoves
  <2> QED BY <2>1, Zenon DEF Queue!Calls
<1>5. CASE posted = 0 /\ posted' = 1 /\ ev'.pc = "idle"
  <2>1. /\ Items(1, Handles) \in Queue!After(EventItems)
        /\ EventItems' \in Queue!After(Items(1, Handles))
    BY <1>0, <1>1, <1>5, ItemsMoves
  <2> QED BY <2>1, Zenon DEF Queue!Calls
<1>6. CASE posted = 1 /\ posted' = 0 /\ ((ev'.pc = "idle") <=> (ev.pc = "idle"))
  <2>1. EventItems' \in Queue!After(EventItems)
    BY <1>0, <1>1, <1>6, ItemsMoves
  <2> QED BY <2>1, Zenon DEF Queue!Calls
<1>7. CASE posted = 1 /\ posted' = 0 /\ ev.pc = "idle" /\ ev'.pc # "idle"
  <2>1. EventItems' \in Queue!After(EventItems)
    BY <1>0, <1>1, <1>7, ItemsMoves
  <2> QED BY <2>1, Zenon DEF Queue!Calls
<1>8. CASE Fire
  BY <1>0, <1>7, <1>8, AtType DEF Fire, EventPCs
<1>9. CASE Begin
  <2>1. posted' = posted /\ ev.pc = "begin"
    BY <1>9 DEF Begin
  <2>2. ev'.pc = "idle" \/ ev'.pc # "idle"
    OBVIOUS
  <2> QED BY <1>2, <1>3, <2>1, <2>2
<1>10. CASE Seeked \/ ReadFailed
  <2>1. posted' = posted /\ ev'.pc = "idle"
    BY <1>10, AtType DEF Seeked, ReadFailed, EventPCs
  <2> QED BY <1>3, <2>1
<1>11. CASE SeekFile \/ FlushTrack \/ PushFlash \/ ReadFrame \/ ReachEnd \/ PushPacket
  <2>1. posted' = posted /\ ev.pc # "idle"
    BY <1>11 DEF SeekFile, FlushTrack, PushFlash, ReadFrame, ReachEnd, PushPacket
  <2> QED BY <1>2, <1>3, <2>1
<1>12. CASE ReadMore
  <2>1. ev'.pc = "idle" /\ (posted' = posted \/ posted' = posted + 1)
    BY <1>12, AtType DEF ReadMore, Enqueue, EventPCs
  <2> QED BY <1>0, <1>3, <1>5, <2>1
<1>13. CASE StopCancel
  <2>1. posted' = 0 /\ ev' = ev
    BY <1>13 DEF StopCancel
  <2> QED BY <1>0, <1>2, <1>6, <2>1
<1>14. CASE (\E target \in Targets : SeekTo(target)) \/ (\E t \in Tracks : NotifyContinueRead(t))
  <2>1. ev' = ev /\ (posted' = posted \/ posted' = posted + 1)
    BY <1>14 DEF SeekTo, NotifyContinueRead, postExtractorEvent_l, Enqueue
  <2> QED BY <1>0, <1>2, <1>4, <2>1
<1>15. CASE \/ \E t \in Tracks : StartTrack(t) \/ Pop(t) \/ CheckEnd(t)
            \/ StopQueue \/ StopJoined \/ UNCHANGED vars
  <2>1. ev' = ev /\ posted' = posted
    BY <1>15 DEF StartTrack, Pop, CheckEnd, StopQueue, StopJoined, vars
  <2> QED BY <1>2, <2>1
<1> QED BY <1>8, <1>9, <1>10, <1>11, <1>12, <1>13, <1>14, <1>15 DEF Next, EventStep, ReaderStep

\* The extractor posts, cancels and handles its event as a timed event queue
\* lets it, for every file and all bounds (NBFFmpegExtractor's mQueue).
THEOREM ExtractorKeepsQueueContract == Spec => QueueContract
<1>1. Init => Queue!Init
  <2> SUFFICES ASSUME Init PROVE EventItems = Queue!EmptyQueue
    BY DEF Queue!Init
  <2>1. posted = 0 /\ ev.pc = "idle"
    BY AtType DEF Init, EventPCs
  <2>2. Handles = {}
    BY <2>1 DEF Handles
  <2> QED BY <2>1, <2>2, ItemsAre, ItemsOps
<1>2. ExtractorInv /\ [Next]_vars => [Queue!Calls]_EventItems
  BY ItemsStep
<1> QED BY <1>1, <1>2, ExtractorIsGood, PTL DEF Spec, QueueContract, Queue!ClientSpec

-----------------------------------------------------------------------------
(***************************************************************************)
(* The promise to the decoders.                                            *)
(***************************************************************************)

\* A reader that has read nothing has no packet.
UnreadIsZero == \A t \in Tracks : result[t] = "none" => last[t] = 0

StreamInv == ExtractorInv /\ UnreadIsZero

LEMMA UnreadStaysZero == StreamInv /\ [Next]_vars => UnreadIsZero'
<1> SUFFICES ASSUME StreamInv, [Next]_vars PROVE UnreadIsZero'
  OBVIOUS
<1>0. /\ result \in [Tracks -> {"none", "ok", "discontinuity", "end", "tooSmall"}]
      /\ last \in [Tracks -> Packets \cup {0}] /\ \A t \in Tracks : result[t] = "none" => last[t] = 0
  BY DEF StreamInv, ExtractorInv, Types, TypeOK, UnreadIsZero
<1>1. CASE last' = last /\ \/ result' = result
                           \/ \E t \in Tracks, what \in {"end", "tooSmall"} :
                                result' = [result EXCEPT ![t] = what]
  BY <1>0, <1>1 DEF UnreadIsZero
<1>2. CASE EventStep
  BY <1>1, <1>2 DEF EventStep, Fire, Begin, SeekFile, FlushTrack, PushFlash, Seeked, ReadFrame, ReachEnd,
                    ReadFailed, PushPacket, ReadMore, readers
<1>3. ASSUME NEW t \in Tracks, Pop(t) PROVE UnreadIsZero'
  <2>1. CASE queue[t] = <<>>
    BY <1>1, <1>3, <2>1 DEF Pop
  <2>2. CASE queue[t] # <<>>
    <3>1. /\ last' = [last EXCEPT ![t] = Head(queue[t])]
          /\ \E what \in {"discontinuity", "ok"} : result' = [result EXCEPT ![t] = what]
      BY <1>3, <2>2 DEF Pop, Returns
    <3> QED BY <1>0, <3>1 DEF UnreadIsZero
  <2> QED BY <2>1, <2>2
<1>4. ASSUME NEW t \in Tracks, StartTrack(t) \/ CheckEnd(t) \/ NotifyContinueRead(t)
      PROVE  UnreadIsZero'
  BY <1>1, <1>4 DEF StartTrack, CheckEnd, NotifyContinueRead, Returns, readers
<1>5. CASE \/ \E target \in Targets : SeekTo(target)
           \/ StopCancel \/ StopQueue \/ StopJoined \/ UNCHANGED vars
  BY <1>1, <1>5 DEF SeekTo, StopCancel, StopQueue, StopJoined, readers, vars
<1> QED BY <1>2, <1>3, <1>4, <1>5 DEF Next, ReaderStep

\* NextOf finds the packet it names.
LEMMA NextOfFinds ==
  ASSUME NEW t \in Tracks, NEW i \in Nat, NextOf(t, i) \in Packets
  PROVE  /\ NextOf(t, i) \in i .. Len(Media) /\ Media[NextOf(t, i)] = t
         /\ \A k \in i .. NextOf(t, i) - 1 : Media[k] # t
<1> DEFINE S == {j \in i .. Len(Media) : Media[j] = t}
           first == CHOOSE j \in S : \A k \in S : j <= k
<1>0. Len(Media) \in Nat /\ Len(Media) + 1 \notin Packets
  BY MediaFacts
<1>1. NextOf(t, i) = IF S = {} THEN Len(Media) + 1 ELSE first
  BY DEF NextOf
<1>2. S # {}
  BY <1>0, <1>1
<1>3. S \in SUBSET Nat
  BY <1>0
<1>4. PICK j \in S : \A k \in S : j <= k
  <2> HIDE DEF S
  <2> QED BY <1>2, <1>3, LeastElement
<1>5. first \in S /\ \A k \in S : first <= k
  <2> HIDE DEF S
  <2> QED BY <1>4, Zenon
<1>6. NextOf(t, i) = first
  BY <1>1, <1>2
<1> HIDE DEF first
<1>7. first \in i .. Len(Media) /\ Media[first] = t
  BY <1>5
<1>8. \A k \in i .. first - 1 : Media[k] # t
  BY <1>0, <1>5, <1>7
<1> QED BY <1>6, <1>7, <1>8

\* A step that changes what one track's reader is offered, or nothing.
LEMMA PlacesAre ==
  ASSUME NEW t \in Tracks, \A u \in Tracks \ {t} : Place(u)' = Place(u)
  PROVE  Places' = [Places EXCEPT ![t] = Place(t)'] /\ Places[t] = Place(t)
BY DEF Places

LEMMA CutsAre ==
  ASSUME NEW t \in Tracks, \A u \in Tracks \ {t} : Restarts(u)' <=> Restarts(u)
  PROVE  Cuts' = [Cuts EXCEPT ![t] = Restarts(t)'] /\ (Cuts[t] <=> Restarts(t))
<1>1. \A u \in Tracks \ {t} : Restarts(u)' = Restarts(u)
  BY Zenon DEF Restarts
<1> QED BY <1>1, Zenon DEF Cuts

LEMMA OffersKept ==
  ASSUME \A t \in Tracks : Place(t)' = Place(t) /\ (Restarts(t)' <=> Restarts(t))
  PROVE  Places' = Places /\ Cuts' = Cuts
<1>1. \A t \in Tracks : Restarts(t)' = Restarts(t)
  BY Zenon DEF Restarts
<1>2. Cuts' = Cuts
  BY <1>1, Zenon DEF Cuts
<1> QED BY <1>2 DEF Places

\* What the event does besides flushing is hidden from the readers.
LEMMA StreamsKept ==
  ASSUME UNCHANGED <<queue, last, sought, active>>, (phase' = "stopped") <=> (phase = "stopped"),
         \/ ev' = ev
         \/ ~Flushing /\ ~Flushing' /\ ev.todo = {} /\ ev'.todo = {}
  PROVE  UNCHANGED Streams!streamVars
<1>1. \A t \in Tracks : (Flashes(t)' <=> Flashes(t)) /\ (Flashes(t) => ev'.seek = ev.seek)
  BY DEF Flashes, Flushing
<1>2. \A t \in Tracks : Restarts(t)' <=> Restarts(t)
  BY <1>1 DEF Restarts
<1>3. \A t \in Tracks : Place(t)' = Place(t)
  BY <1>1, <1>2 DEF Place
<1>4. Places' = Places /\ Cuts' = Cuts
  BY <1>2, <1>3, OffersKept
<1>5. Unflushed' = Unflushed /\ Goal' = Goal /\ Open' = Open
  <2>1. Open' = Open
    BY Zenon DEF Open
  <2>2. CASE ev' = ev
    BY <2>1, <2>2 DEF Unflushed, Flashes, Goal
  <2>3. CASE ~Flushing /\ ~Flushing' /\ ev.todo = {} /\ ev'.todo = {}
    BY <2>1, <2>3 DEF Unflushed, Flushing, Goal
  <2> QED BY <2>2, <2>3
<1> QED BY <1>4, <1>5 DEF Streams!streamVars

LEMMA SeekFileSeeks ==
  ASSUME StreamInv, SeekFile
  PROVE  Streams!Seek(ev.seek) \/ UNCHANGED Streams!streamVars
<1>0. /\ ev.pc = "seek" /\ ev.todo = {} /\ ev.seek \in Targets /\ ev \in EventType
      /\ UNCHANGED <<queue, last, sought, active, phase>>
  BY DEF SeekFile, readers, StreamInv, ExtractorInv, Types, EventIsWhole, Flushing
<1>1. CASE ev' = [ev EXCEPT !.pc = "flush", !.todo = TracksToFlush]
  <2>1. ev'.pc = "flush" /\ ev'.seek = ev.seek /\ ev'.todo = active
    BY <1>0, <1>1 DEF TracksToFlush, EventType
  <2>2. \A t : ~Flashes(t) /\ ~Flashes(t)'
    BY <1>0, <2>1 DEF Flashes
  <2>3. Places' = Places /\ Cuts' = Cuts
    <3>1. \A t \in Tracks : Restarts(t)' <=> Restarts(t)
      BY <1>0, <2>2 DEF Restarts
    <3>2. \A t \in Tracks : Place(t)' = Place(t)
      BY <1>0, <2>2, <3>1 DEF Place
    <3> QED BY <3>1, <3>2, OffersKept
  <2>4. Goal = NoSeek /\ Goal' = ev.seek /\ Unflushed' = active /\ Open' = Open
    BY <1>0, <2>1, <2>2 DEF Goal, Unflushed, Open
  <2> QED BY <1>0, <2>3, <2>4 DEF Streams!Seek
<1>2. CASE ev' = [ev EXCEPT !.pc = "seeked"]
  <2>1. ev'.pc = "seeked" /\ ev'.todo = {}
    BY <1>0, <1>2 DEF EventType
  <2> QED BY <1>0, <2>1, StreamsKept DEF Flushing
<1> QED BY <1>1, <1>2 DEF SeekFile

LEMMA FlushTrackRestarts ==
  ASSUME StreamInv, FlushTrack
  PROVE  \E t \in Tracks : Streams!Restart(t)
<1>1. PICK t \in ev.todo : queue' = Flushed(t) /\ ev' = [ev EXCEPT !.pc = "flash", !.packet = t]
  BY DEF FlushTrack
<1>2. /\ ev.pc = "flush" /\ ev.todo \subseteq active /\ active \subseteq Tracks /\ ev \in EventType
      /\ UNCHANGED <<last, sought, active, phase>> /\ phase # "stopped"
      /\ queue \in [Tracks -> Seq(Packets \cup {Flash})]
  BY DEF FlushTrack, bounds, readers, StreamInv, ExtractorInv, Types, TypeOK, EventIsWhole, Flushing,
         StoppedIsQuiet
<1>3. ev'.pc = "flash" /\ ev'.seek = ev.seek /\ ev'.todo = ev.todo /\ ev'.packet = t /\ t \in Tracks
  BY <1>1, <1>2 DEF EventType
<1>4. \A u \in Tracks : ~Flashes(u) /\ (Flashes(u)' <=> u = t)
  BY <1>2, <1>3 DEF Flashes
<1>5. \A u \in Tracks \ {t} : queue'[u] = queue[u]
  BY <1>1, <1>2 DEF Flushed
<1>6. /\ \A u \in Tracks \ {t} : Restarts(u)' <=> Restarts(u)
      /\ Restarts(t)'
  BY <1>3, <1>4, <1>5 DEF Restarts
<1>7. \A u \in Tracks \ {t} : Place(u)' = Place(u)
  BY <1>2, <1>4, <1>6 DEF Place
<1>8. Place(t)' = ev.seek
  BY <1>2, <1>3, <1>4 DEF Place
<1>9. Places' = [Places EXCEPT ![t] = ev.seek] /\ Cuts' = [Cuts EXCEPT ![t] = TRUE]
  <2>1. Restarts(t)' = TRUE
    BY <1>6, Zenon DEF Restarts
  <2> QED BY <1>3, <1>6, <1>7, <1>8, <2>1, PlacesAre, CutsAre, Zenon
<1>10. /\ Goal = ev.seek /\ Goal' = ev.seek /\ Open' = Open
       /\ Unflushed = ev.todo /\ Unflushed' = ev.todo \ {t}
  <2>1. ev.todo \subseteq Tracks
    BY <1>2
  <2> QED BY <1>2, <1>3, <1>4, <2>1 DEF Goal, Open, Unflushed
<1> QED BY <1>1, <1>2, <1>3, <1>9, <1>10 DEF Streams!Restart

LEMMA PushFlashIsHidden ==
  ASSUME StreamInv, PushFlash
  PROVE  UNCHANGED Streams!streamVars
<1>0. PICK t \in Tracks : t = ev.packet
  BY DEF PushFlash, StreamInv, ExtractorInv, Types, TypeOK, EventIsWhole
<1>1. /\ ev.pc = "flash" /\ queue' = Pushed(t, Flash) /\ sought' = [sought EXCEPT ![t] = ev.seek]
      /\ ev' = [ev EXCEPT !.pc = "flush", !.packet = 0, !.todo = @ \ {t}]
      /\ UNCHANGED <<last, active, phase>>
  BY <1>0 DEF PushFlash, WithFlash, bounds, readers
<1>2. /\ t \in ev.todo /\ t \in Tracks /\ ev \in EventType /\ queue[t] = <<>> /\ phase # "stopped"
      /\ ev.todo \subseteq Tracks /\ queue \in [Tracks -> Seq(Packets \cup {Flash})]
      /\ sought \in [Tracks -> 1 .. Len(Media) + 1]
  BY <1>0, <1>1 DEF StreamInv, ExtractorInv, Types, TypeOK, EventIsWhole, Flushing, StoppedIsQuiet
<1>3. ev'.pc = "flush" /\ ev'.seek = ev.seek /\ ev'.todo = ev.todo \ {t}
  BY <1>1, <1>2 DEF EventType
<1>4. \A u \in Tracks : ~Flashes(u)' /\ (Flashes(u) <=> u = t)
  BY <1>0, <1>1, <1>3 DEF Flashes
<1>5. \A u \in Tracks \ {t} : queue'[u] = queue[u] /\ sought'[u] = sought[u]
  BY <1>1, <1>2 DEF Pushed
<1>6. queue'[t] # <<>> /\ Head(queue'[t]) = Flash /\ sought'[t] = ev.seek
  <2>1. queue'[t] = Append(<<>>, Flash)
    BY <1>1, <1>2 DEF Pushed
  <2> QED BY <1>1, <1>2, <2>1
<1>7. \A u \in Tracks : Restarts(u)' <=> Restarts(u)
  <2> TAKE u \in Tracks
  <2>1. CASE u = t
    BY <1>4, <1>6, <2>1 DEF Restarts
  <2>2. CASE u # t
    BY <1>4, <1>5, <2>2 DEF Restarts
  <2> QED BY <2>1, <2>2
<1>8. \A u \in Tracks : Place(u)' = Place(u)
  <2> TAKE u \in Tracks
  <2>1. CASE u = t
    <3>1. Restarts(t)'
      BY <1>6 DEF Restarts
    <3>2. Place(t)' = sought'[t]
      BY <1>1, <1>2, <1>4, <3>1 DEF Place
    <3>3. Place(t) = ev.seek
      BY <1>2, <1>4 DEF Place
    <3> QED BY <1>6, <2>1, <3>2, <3>3
  <2>2. CASE u # t
    BY <1>1, <1>4, <1>5, <1>7, <2>2 DEF Place
  <2> QED BY <2>1, <2>2
<1>9. Goal' = Goal /\ Open' = Open /\ Unflushed' = Unflushed
  <2>1. Unflushed = ev.todo \ {t} /\ Unflushed' = ev.todo \ {t}
    BY <1>2, <1>3, <1>4 DEF Unflushed
  <2> QED BY <1>1, <1>3, <2>1 DEF Goal, Open
<1>10. Places' = Places /\ Cuts' = Cuts
  BY <1>7, <1>8, OffersKept
<1> QED BY <1>1, <1>9, <1>10 DEF Streams!streamVars

LEMMA SeekedEndsSeek ==
  ASSUME StreamInv, Seeked
  PROVE  Streams!SeekDone \/ UNCHANGED Streams!streamVars
<1>0. /\ ev.todo = {} /\ ev'.pc = "idle" /\ ev'.todo = {} /\ UNCHANGED <<queue, last, sought, active, phase>>
      /\ ev.pc = "flush" => ev.seek # NoSeek
      /\ ev.pc = "flush" \/ ev.pc = "seeked"
  BY AtType, MediaFacts DEF EventPCs, Seeked, demuxer, readers, bounds, StreamInv, ExtractorInv, EventIsWhole,
                            Flushing
<1>1. CASE ev.pc = "seeked"
  BY <1>0, <1>1, StreamsKept DEF Flushing
<1>2. CASE ev.pc = "flush"
  <2>1. \A t : ~Flashes(t) /\ ~Flashes(t)'
    BY <1>0, <1>2 DEF Flashes
  <2>2. \A t \in Tracks : Restarts(t)' <=> Restarts(t)
    BY <1>0, <2>1 DEF Restarts
  <2>3. \A t \in Tracks : Place(t)' = Place(t)
    BY <1>0, <2>1, <2>2 DEF Place
  <2>4. Places' = Places /\ Cuts' = Cuts
    BY <2>2, <2>3, OffersKept
  <2>5. Goal # NoSeek /\ Goal' = NoSeek /\ Open' = Open /\ Unflushed = {} /\ Unflushed' = {}
    BY <1>0, <1>2 DEF Goal, Open, Unflushed
  <2> QED BY <1>0, <2>4, <2>5 DEF Streams!SeekDone
<1> QED BY <1>0, <1>1, <1>2

LEMMA PushPacketIsHidden ==
  ASSUME StreamInv, PushPacket
  PROVE  UNCHANGED Streams!streamVars
<1>1. /\ ev.pc = "push" /\ ev.packet \in Packets /\ ev.todo = {} /\ ev'.pc = "more" /\ ev'.todo = {}
      /\ UNCHANGED <<last, sought, active, phase>>
      /\ queue \in [Tracks -> Seq(Packets \cup {Flash})]
  BY AtType DEF EventPCs, PushPacket, readers, bounds, StreamInv, ExtractorInv, Types, TypeOK, EventIsWhole,
                Flushing
<1>2. \A t : ~Flashes(t) /\ ~Flashes(t)'
  BY <1>1 DEF Flashes
<1>3. ASSUME NEW t \in Tracks PROVE Restarts(t)' <=> Restarts(t)
  <2>0. queue[t] \in Seq(Packets \cup {Flash}) /\ ev.packet # Flash
    BY <1>1, MediaFacts
  <2>1. CASE queue'[t] = queue[t]
    BY <1>2, <2>1 DEF Restarts
  <2>2. CASE queue'[t] = Append(queue[t], ev.packet) /\ queue[t] = <<>>
    <3>1. Head(queue'[t]) = ev.packet
      BY <1>1, <2>2
    <3> QED BY <1>2, <2>0, <2>2, <3>1 DEF Restarts
  <2>3. CASE queue'[t] = Append(queue[t], ev.packet) /\ queue[t] # <<>>
    <3>1. Head(queue'[t]) = Head(queue[t]) /\ queue'[t] # <<>>
      BY <1>1, <2>0, <2>3
    <3> QED BY <1>2, <2>3, <3>1 DEF Restarts
  <2>4. queue'[t] = queue[t] \/ queue'[t] = Append(queue[t], ev.packet)
    BY <1>1 DEF PushPacket, Pushed
  <2> QED BY <2>1, <2>2, <2>3, <2>4
<1>4. \A t \in Tracks : Place(t)' = Place(t)
  BY <1>1, <1>2, <1>3 DEF Place
<1>5. Places' = Places /\ Cuts' = Cuts
  BY <1>3, <1>4, OffersKept
<1>6. Goal' = Goal /\ Open' = Open /\ Unflushed' = Unflushed
  BY <1>1 DEF Goal, Open, Unflushed
<1> QED BY <1>1, <1>5, <1>6 DEF Streams!streamVars

LEMMA StartTrackStarts ==
  ASSUME StreamInv, NEW t \in Tracks, StartTrack(t)
  PROVE  Streams!Start(t)
<1>1. /\ phase = "running" /\ NothingRead /\ t \notin active /\ active' = active \cup {t}
      /\ sought' = [sought EXCEPT ![t] = pos] /\ UNCHANGED <<ev, queue, last, phase>>
  BY DEF StartTrack, readers, bounds
<1>2. /\ active \subseteq Tracks /\ sought \in [Tracks -> 1 .. Len(Media) + 1] /\ pos \in 1 .. Len(Media) + 1
      /\ ev.todo \subseteq Tracks
      /\ \A u \in Tracks : last[u] = 0
      /\ \A u \in active \ ev.todo : sought[u] = pos
      /\ queue[t] = <<>>
  <2>1. \A u \in active \ ev.todo : sought[u] = pos
    BY <1>1 DEF StreamInv, ExtractorInv, NothingReadYet
  <2> QED BY <1>1, <2>1 DEF StreamInv, ExtractorInv, Types, TypeOK, UnreadIsZero, UnstartedIsEmpty, NothingRead
<1>3. Flushing => ev.seek = pos /\ ev.todo \subseteq active
  BY DEF StreamInv, ExtractorInv, EventIsWhole
<1>4. ~Flashes(t)
  BY <1>1, <1>3 DEF StreamInv, ExtractorInv, EventIsWhole, Flashes, Flushing
<1>5. \A u \in Tracks : (Restarts(u)' <=> Restarts(u)) /\ (Flashes(u)' <=> Flashes(u))
  BY <1>1 DEF Restarts, Flashes
<1>6. \A u \in Tracks \ {t} : Place(u)' = Place(u)
  BY <1>1, <1>2, <1>5 DEF Place
<1>7. Place(t)' = pos
  BY <1>1, <1>2, <1>4, <1>5 DEF Place
<1>8. Places' = [Places EXCEPT ![t] = pos] /\ Cuts' = Cuts
  <2>1. Places' = [Places EXCEPT ![t] = pos]
    BY <1>6, <1>7, PlacesAre
  <2>2. Cuts' = Cuts
    <3>1. \A u \in Tracks : Restarts(u)' = Restarts(u)
      BY <1>5, Zenon DEF Restarts
    <3> QED BY <3>1, Zenon DEF Cuts
  <2> QED BY <2>1, <2>2
<1>9. \A u \in active \ Unflushed : Places[u] = pos
  <2> SUFFICES ASSUME NEW u \in active \ Unflushed PROVE Place(u) = pos
    BY <1>2 DEF Places
  <2>1. CASE Flashes(u)
    BY <1>1, <1>3, <2>1 DEF Place, Flashes, Flushing
  <2>2. CASE ~Flashes(u)
    <3>1. u \notin ev.todo
      BY <2>2 DEF Unflushed
    <3> QED BY <1>1, <1>2, <2>2, <3>1 DEF Place
  <2> QED BY <2>1, <2>2
<1>10. Goal \in {NoSeek, pos} /\ Goal' = Goal /\ Open /\ Open' = Open /\ Unflushed' = Unflushed
  BY <1>1, <1>3 DEF Goal, Flushing, Open, Unflushed, Flashes
<1> QED BY <1>1, <1>2, <1>8, <1>9, <1>10 DEF Streams!Start

LEMMA PopGets ==
  ASSUME StreamInv, NEW t \in Tracks, Pop(t), queue[t] # <<>>
  PROVE  Streams!Get(t) \/ Streams!Discontinuity(t)
<1>0. /\ phase = "running" /\ t \in active /\ queue' = [queue EXCEPT ![t] = Tail(@)]
      /\ last' = [last EXCEPT ![t] = Head(queue[t])] /\ UNCHANGED <<ev, sought, active, phase>>
  BY DEF Pop, Popped, bounds
<1>1. /\ queue \in [Tracks -> Seq(Packets \cup {Flash})] /\ queue[t] \in Seq(Packets \cup {Flash})
      /\ last \in [Tracks -> Packets \cup {0}] /\ sought[t] \in Nat /\ active \subseteq Tracks
  BY MediaFacts DEF StreamInv, ExtractorInv, Types, TypeOK
<1>2. ~Flashes(t)
  BY DEF StreamInv, ExtractorInv, EventIsWhole, Flashes
<1>3. /\ Head(queue[t]) = queue[t][1] /\ 1 \in 1 .. Len(queue[t]) /\ Head(queue[t]) \in Packets \cup {Flash}
      /\ queue'[t] = Tail(queue[t])
  <2>1. Head(queue[t]) = queue[t][1] /\ 1 \in 1 .. Len(queue[t]) /\ Head(queue[t]) \in Packets \cup {Flash}
    BY <1>1
  <2> QED BY <1>0, <1>1, <2>1
<1>4. ~Restarts(t)'
  <2> SUFFICES ASSUME Tail(queue[t]) # <<>> PROVE Head(Tail(queue[t])) # Flash
    BY <1>0, <1>2, <1>3 DEF Restarts, Flashes
  <2>1. 2 \in 2 .. Len(queue[t]) /\ Head(Tail(queue[t])) = queue[t][2]
    <3>1. /\ Tail(queue[t]) \in Seq(Packets \cup {Flash}) /\ Len(Tail(queue[t])) = Len(queue[t]) - 1
          /\ \A i \in 1 .. Len(Tail(queue[t])) : Tail(queue[t])[i] = queue[t][i + 1]
      BY <1>1, HeadTailProperties
    <3>2. Len(Tail(queue[t])) # 0
      BY <3>1, EmptySeq
    <3>3. Len(queue[t]) \in Nat
      BY <1>1
    <3>4. 1 \in 1 .. Len(Tail(queue[t])) /\ 2 \in 2 .. Len(queue[t])
      BY <3>1, <3>2, <3>3
    <3> QED BY <3>1, <3>4
  <2> QED BY <2>1 DEF StreamInv, ExtractorInv, FlashAtHead
<1>5. \A u \in Tracks \ {t} : (Restarts(u)' <=> Restarts(u)) /\ Place(u)' = Place(u)
  <2> TAKE u \in Tracks \ {t}
  <2>1. queue'[u] = queue[u] /\ last'[u] = last[u] /\ (Flashes(u)' <=> Flashes(u))
    BY <1>0, <1>1 DEF Flashes
  <2>2. Restarts(u)' <=> Restarts(u)
    BY <2>1 DEF Restarts
  <2> QED BY <1>0, <2>1, <2>2 DEF Place
<1>6. /\ Goal' = Goal /\ Unflushed' = Unflushed /\ Open /\ Open' = Open
      /\ Places' = [Places EXCEPT ![t] = Place(t)'] /\ Places[t] = Place(t)
      /\ Cuts' = [Cuts EXCEPT ![t] = FALSE] /\ (Cuts[t] <=> Restarts(t))
  <2>1. Restarts(t)' = FALSE
    BY <1>4, Zenon DEF Restarts
  <2>2. /\ Places' = [Places EXCEPT ![t] = Place(t)'] /\ Places[t] = Place(t)
        /\ Cuts' = [Cuts EXCEPT ![t] = FALSE] /\ (Cuts[t] <=> Restarts(t))
    BY <1>5, <2>1, PlacesAre, CutsAre, Zenon
  <2> QED BY <1>0, <2>2 DEF Goal, Unflushed, Flashes, Open
<1>7. CASE Head(queue[t]) = Flash
  <2>1. Restarts(t) /\ last'[t] = 0
    BY <1>0, <1>1, <1>7 DEF Restarts, Flash
  <2>2. Place(t)' = sought[t] /\ Place(t) = sought[t]
    BY <1>0, <1>2, <2>1 DEF Place, Flashes
  <2>3. Places' = Places
    BY <1>6, <2>2 DEF Places
  <2> QED BY <1>0, <1>6, <1>7, <2>1, <2>3 DEF Streams!Discontinuity, Flash
<1>8. CASE Head(queue[t]) # Flash
  <2> DEFINE p == Head(queue[t])
  <2>1. ~Restarts(t) /\ p \in Packets /\ last'[t] = p /\ p # 0
    BY <1>0, <1>1, <1>2, <1>3, <1>8, MediaFacts DEF Restarts, Flash
  <2>2. Place(t) = After(t, last[t]) /\ Place(t) \in Nat
    <3>1. Place(t) = After(t, last[t])
      BY <1>0, <1>2, <2>1 DEF Place, After, Flash
    <3>2. last[t] \in Packets \cup {0}
      BY <1>1
    <3> QED BY <1>1, <3>1, <3>2, MediaFacts DEF After
  <2>3. p = NextOf(t, Place(t))
    BY <1>0, <1>3, <1>8, <2>2 DEF StreamInv, ExtractorInv, InOrder
  <2> HIDE DEF p
  <2>4. p \in Place(t) .. Len(Media) /\ Media[p] = t /\ \A k \in Place(t) .. p - 1 : Media[k] # t
    <3>1. PICK i \in Nat : i = Place(t)
      BY <2>2
    <3>2. NextOf(t, i) \in Packets /\ p = NextOf(t, i)
      BY <2>1, <2>3, <3>1
    <3>3. /\ NextOf(t, i) \in i .. Len(Media) /\ Media[NextOf(t, i)] = t
          /\ \A k \in i .. NextOf(t, i) - 1 : Media[k] # t
      BY <3>2, NextOfFinds
    <3> QED BY <3>1, <3>2, <3>3, Zenon
  <2>5. Place(t)' = p + 1
    BY <1>0, <1>2, <1>4, <2>1 DEF Place, Flashes
  <2>6. last' = [last EXCEPT ![t] = p]
    BY <1>0 DEF p
  <2>7. Cuts' = Cuts /\ ~Cuts[t]
    <3>1. Restarts(t) = FALSE /\ Restarts(t)' = FALSE
      BY <1>4, <2>1, Zenon DEF Restarts
    <3>2. \A u \in Tracks : Restarts(u)' <=> Restarts(u)
      BY <1>5, <3>1
    <3>3. \A u \in Tracks : Restarts(u)' = Restarts(u)
      BY <3>2, Zenon DEF Restarts
    <3> QED BY <1>6, <2>1, <3>3, Zenon DEF Cuts
  <2>8. Places[t] = Place(t) /\ Places' = [Places EXCEPT ![t] = p + 1]
    BY <1>6, <2>5
  <2>9. \E q \in Places[t] .. Len(Media) :
          /\ Media[q] = t /\ \A i \in Places[t] .. q - 1 : Media[i] # t
          /\ last' = [last EXCEPT ![t] = q] /\ Places' = [Places EXCEPT ![t] = q + 1]
    BY <2>4, <2>6, <2>8, Zenon
  <2> QED BY <1>0, <1>6, <2>7, <2>9 DEF Streams!Get
<1> QED BY <1>7, <1>8

LEMMA StopJoinedCloses == ASSUME StreamInv, StopJoined PROVE Streams!Close
<1>0. /\ phase = "joining" /\ phase' = "stopped" /\ ev.pc = "idle" /\ ev.todo = {}
      /\ queue' = [t \in Tracks |-> <<>>] /\ UNCHANGED <<ev, last, active>>
  BY DEF StopJoined, readers, StreamInv, ExtractorInv, EventIsWhole, Flushing
<1>1. Places' = [t \in Tracks |-> 1]
  BY <1>0 DEF Places, Place
<1>2. Cuts' = [t \in Tracks |-> FALSE]
  <2>1. \A t \in Tracks : ~Restarts(t)'
    BY <1>0 DEF Restarts, Flashes
  <2>2. \A t \in Tracks : Restarts(t)' = FALSE
    BY <2>1, Zenon DEF Restarts
  <2> QED BY <2>2, Zenon DEF Cuts
<1>3. /\ Goal = NoSeek /\ Goal' = NoSeek /\ Unflushed = {} /\ Unflushed' = {}
      /\ Open /\ Open' = FALSE
  BY <1>0 DEF Goal, Unflushed, Open
<1> QED BY <1>0, <1>1, <1>2, <1>3 DEF Streams!Close

LEMMA StreamsStep == StreamInv /\ [Next]_vars => [Streams!Next]_(Streams!streamVars)
<1> SUFFICES ASSUME StreamInv, [Next]_vars PROVE [Streams!Next]_(Streams!streamVars)
  OBVIOUS
<1>1. CASE SeekFile
  <2>1. ev.seek \in Targets
    BY <1>1 DEF SeekFile, StreamInv, ExtractorInv, EventIsWhole
  <2> QED BY <1>1, <2>1, SeekFileSeeks DEF Streams!Next
<1>2. CASE FlushTrack \/ PushFlash \/ Seeked \/ PushPacket
  BY <1>2, FlushTrackRestarts, PushFlashIsHidden, SeekedEndsSeek, PushPacketIsHidden DEF Streams!Next
<1>3. CASE Fire \/ Begin \/ ReadFrame \/ ReachEnd \/ ReadFailed \/ ReadMore
  <2>1. /\ UNCHANGED <<queue, last, sought, active, phase>>
        /\ ev.pc \in {"idle", "begin", "read", "eof", "failed", "more"}
    BY <1>3 DEF Fire, Begin, ReadFrame, ReachEnd, ReadFailed, ReadMore, demuxer, readers, bounds
  <2>2. ~Flushing /\ ev.todo = {} /\ ev \in EventType
    BY <2>1 DEF StreamInv, ExtractorInv, Types, EventIsWhole, Flushing
  <2>3. ~Flushing' /\ ev'.todo = {}
    <3>1. CASE Fire \/ ReadFailed \/ ReadMore
      BY <3>1, AtType DEF Fire, ReadFailed, ReadMore, EventPCs, Flushing
    <3>2. CASE Begin
      BY <3>2 DEF Begin, At, Flushing
    <3>3. CASE ReadFrame \/ ReachEnd
      BY <2>2, <3>3 DEF ReadFrame, ReachEnd, EventType, Flushing
    <3> QED BY <1>3, <3>1, <3>2, <3>3
  <2> QED BY <2>1, <2>2, <2>3, StreamsKept
<1>4. ASSUME NEW t \in Tracks, StartTrack(t) PROVE [Streams!Next]_(Streams!streamVars)
  BY <1>4, StartTrackStarts DEF Streams!Next
<1>5. ASSUME NEW t \in Tracks, Pop(t), queue[t] # <<>> PROVE [Streams!Next]_(Streams!streamVars)
  BY <1>5, PopGets DEF Streams!Next
<1>6. ASSUME NEW t \in Tracks, (Pop(t) /\ queue[t] = <<>>) \/ CheckEnd(t) \/ NotifyContinueRead(t)
      PROVE  [Streams!Next]_(Streams!streamVars)
  <2>1. UNCHANGED <<queue, last, sought, active, ev, phase>>
    BY <1>6 DEF Pop, CheckEnd, NotifyContinueRead, demuxer, bounds
  <2> QED BY <2>1, StreamsKept
<1>7. CASE (\E target \in Targets : SeekTo(target)) \/ StopCancel \/ StopQueue \/ UNCHANGED vars
  <2>1. /\ UNCHANGED <<queue, last, sought, active, ev>>
        /\ (phase' = "stopped") <=> (phase = "stopped")
    BY <1>7 DEF SeekTo, StopCancel, StopQueue, demuxer, readers, vars
  <2> QED BY <2>1, StreamsKept
<1>8. CASE StopJoined
  BY <1>8, StopJoinedCloses DEF Streams!Next
<1> QED BY <1>1, <1>2, <1>3, <1>4, <1>5, <1>6, <1>7, <1>8 DEF Next, EventStep, ReaderStep

\* To the decoders the extractor is a set of packet streams that are read in
\* order and restarted together, for every file and all bounds, whatever its
\* event and the readers' calls interleave to (NBFFmpegExtractor.cpp,
\* NBFFmpegMediaTrack.cpp).
THEOREM ExtractorServesStreams == Spec => ImplementsStreams
<1>1. Init => Streams!Init
  <2> SUFFICES ASSUME Init PROVE Streams!Init
    OBVIOUS
  <2>1. /\ ev.pc = "idle" /\ ev.todo = {} /\ phase = "running"
        /\ \A t \in Tracks : queue[t] = <<>> /\ last[t] = 0 /\ sought[t] = 1
    BY AtType DEF Init, EventPCs
  <2>2. Places = [t \in Tracks |-> 1]
    BY <2>1 DEF Places, Place, Flashes
  <2>3. Cuts = [t \in Tracks |-> FALSE]
    <3>1. \A t \in Tracks : Restarts(t) = FALSE
      BY <2>1, Zenon DEF Restarts, Flashes
    <3> QED BY <3>1, Zenon DEF Cuts
  <2>4. Goal = NoSeek /\ Unflushed = {} /\ Open = TRUE
    BY <2>1 DEF Goal, Unflushed, Open
  <2> QED BY <2>2, <2>3, <2>4 DEF Streams!Init, Init
<1>2. Init => UnreadIsZero
  BY DEF Init, UnreadIsZero
<1>3. StreamInv /\ [Next]_vars => UnreadIsZero'
  BY UnreadStaysZero
<1>4. StreamInv /\ [Next]_vars => [Streams!Next]_(Streams!streamVars)
  BY StreamsStep
<1> QED BY <1>1, <1>2, <1>3, <1>4, ExtractorIsGood, PTL
       DEF Spec, StreamInv, ImplementsStreams, Streams!Spec

=============================================================================
