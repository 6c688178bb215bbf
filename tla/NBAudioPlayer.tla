----------------------------- MODULE NBAudioPlayer -----------------------------
(***************************************************************************)
(* The audio player (NBAudioPlayer): an event on a queue of its own reads  *)
(* and converts one buffer of samples, hands it to the device and posts    *)
(* itself again.                                                           *)
(*                                                                         *)
(* Every call and the handler hold the audio player's mLock throughout, so *)
(* each is one step.  The calls are functions of the audio player's state, *)
(* for NBMediaPlayer makes several of them in one step.                    *)
(***************************************************************************)
EXTENDS Naturals

CONSTANTS
  MaxBuffers,   \* MAX_AL_BUFFER_COUNT
  Orderly,      \* whether seekTo() is called before the track's discontinuity is read
  MaxChains     \* bound: audio events in the queue

ASSUME AudioAssumption ==
  MaxBuffers \in Nat /\ MaxBuffers % 2 = 0 /\ MaxBuffers > 0
  /\ Orderly \in BOOLEAN /\ MaxChains \in Nat

VARIABLES
  audio,   \* the audio player
  flash    \* a flash packet, which marks a seek, is next in the audio track

vars == <<audio, flash>>

\* Half of the buffers are filled before the device plays.
Prefill_mut == MaxBuffers + 1
Prefill     == MaxBuffers \div 2

\* The state of the device's source; "none" is no mALAudioRenderer.
Device == {"none", "initial", "playing", "paused", "stopped"}

\* mAudioPlayer = NULL, and a new one.  posted counts the items of the event in
\* the queue, id tells whether the event object has an id, without which it
\* cannot be cancelled, and firing whether one was taken out to be fired.
NoAudioPlayer ==
  [exists |-> FALSE, mQueueStart |-> FALSE, renderer |-> "none", buffers |-> 0,
   mAudioQueued |-> 0, mSeeking |-> FALSE, mFinalStatus |-> FALSE,
   mAudioEventPending |-> FALSE, posted |-> 0, id |-> FALSE, firing |-> FALSE]
NewAudioPlayer == [NoAudioPlayer EXCEPT !.exists = TRUE]

-----------------------------------------------------------------------------
(***************************************************************************)
(* The calls.                                                              *)
(***************************************************************************)

postAudioEvent(a) ==
  IF a.mAudioEventPending THEN a
  ELSE [a EXCEPT !.mAudioEventPending = TRUE, !.posted = @ + 1, !.id = TRUE]

\* An event that was taken out already cannot be cancelled, and neither can a
\* second item once the first has been taken out.
cancelAudioEvent_mut(a) == IF a.id THEN [a EXCEPT !.posted = @ - 1, !.id = FALSE] ELSE a
cancelAudioEvent(a) ==
  IF ~a.mAudioEventPending THEN a
  ELSE [a EXCEPT !.mAudioEventPending = FALSE,
                 !.posted = IF a.id THEN @ - 1 ELSE @, !.id = FALSE]

\* The converter may fail to initialise; the device is there by then.
Started(a) ==
  postAudioEvent([a EXCEPT !.renderer = "initial", !.buffers = 0, !.mQueueStart = TRUE,
                           !.mSeeking = FALSE, !.mAudioQueued = Prefill])
StartFailed(a) == [a EXCEPT !.renderer = "initial", !.buffers = 0]

\* The device that is asked to pause must be there.
Silenced(a) ==
  CASE a.renderer = "none"    -> [a EXCEPT !.renderer = "null pointer"]
    [] a.renderer = "playing" -> [a EXCEPT !.renderer = "paused"]
    [] OTHER                  -> a
Paused(a)   == Silenced(cancelAudioEvent(a))
Resumed(a)  == postAudioEvent(a)
SeekTo(a)   == postAudioEvent([a EXCEPT !.mSeeking = TRUE])
\* reachedEOS().  mFinalStatus is read although nothing sets it before the end.
ReachedEOS(a) == IF a.mFinalStatus THEN {TRUE} ELSE BOOLEAN
Stopped_mut(a) == [a EXCEPT !.renderer = "none", !.buffers = 0]
Stopped(a)  == [cancelAudioEvent(a) EXCEPT !.renderer = "none", !.buffers = 0]

-----------------------------------------------------------------------------
(***************************************************************************)
(* The handler, onAudioEvent().                                            *)
(***************************************************************************)

\* mALAudioRenderer->play(): after an underrun the buffers are given up first, and a
\* source without buffers that is told to play stops at once.
Play(a) ==
  CASE a.renderer = "stopped" -> [a EXCEPT !.renderer = "initial", !.buffers = 0]
    [] OTHER -> [a EXCEPT !.renderer = IF a.buffers = 0 THEN "stopped" ELSE "playing"]

\* What it does before it reads, when a seek is on: the device is emptied.
FlushALContext_mut(a) == a
FlushALContext(a) ==
  IF a.mSeeking
  THEN [a EXCEPT !.renderer = "initial", !.buffers = 0, !.mAudioQueued = Prefill]
  ELSE a

\* How reading may end.  No buffer is read into while all are queued.  That the
\* track was empty may be found before a flash packet comes.
ReadResults(a) ==
  IF a.buffers = MaxBuffers THEN {"full"}
  ELSE {"ok", "end", "retry"} \cup {r \in {"discontinuity"} : flash}

\* The state after reading.
AfterRead(a, result) ==
  CASE result = "ok" ->
         postAudioEvent([a EXCEPT !.buffers = @ + 1, !.mAudioQueued = IF @ > 0 THEN @ - 1 ELSE 0])
    [] result = "discontinuity" -> postAudioEvent([a EXCEPT !.mSeeking = FALSE])
    [] result = "end"           -> [a EXCEPT !.mFinalStatus = TRUE]
    [] OTHER                    -> postAudioEvent(a)

Handled(a, result) ==
  LET b == AfterRead(a, result)
  IN  IF b.mAudioQueued = 0 /\ ~b.mSeeking THEN Play(b) ELSE b

\* The queue takes the event out.
Fire(a) == [a EXCEPT !.firing = TRUE, !.posted = @ - 1, !.id = FALSE]
CanFire(a) == a.mQueueStart /\ ~a.firing /\ a.posted > 0

\* The handler starts; nothing happens when the event was cancelled meanwhile.
Begun(a) == FlushALContext([a EXCEPT !.firing = FALSE, !.mAudioEventPending = FALSE])

\* What the environment does: the device plays a buffer and in the end starves.
Drained(a) ==
  IF a.buffers > 1 THEN [a EXCEPT !.buffers = @ - 1]
  ELSE [a EXCEPT !.buffers = 0, !.renderer = "stopped"]

-----------------------------------------------------------------------------
(***************************************************************************)
(* The audio player by itself, called as a player may call it.             *)
(***************************************************************************)

Init == audio = NoAudioPlayer /\ flash = FALSE

Bounded(a) == a.posted <= MaxChains

Call(a) == audio' = a /\ Bounded(a) /\ UNCHANGED flash

\* What each call may be made on.  Without a device there is nothing to pause.
CanStart(a)  == a.exists /\ ~a.mQueueStart
CanPause(a)  == a.mQueueStart /\ a.renderer # "none"
CanSeek(a)   == a.exists /\ (a.mQueueStart => a.renderer # "none")
\* The destructor stops the queue and waits for a running handler.
CanDelete(a) ==
  /\ a.exists /\ ~a.firing /\ ~a.mAudioEventPending
  /\ a.mQueueStart => a.renderer = "none"

Create == ~audio.exists /\ Call(NewAudioPlayer)
Start  == CanStart(audio) /\ (Call(Started(audio)) \/ Call(StartFailed(audio)))
Pause  == CanPause(audio) /\ Call(Paused(audio))
Resume == CanPause(audio) /\ Call(Resumed(audio))
Seek   == /\ CanSeek(audio) /\ (Orderly => flash /\ audio.mQueueStart)
          /\ Call(SeekTo(audio))
Stop   == audio.exists /\ Call(Stopped(audio))
Delete == CanDelete(audio) /\ Call(NoAudioPlayer)

\* A seek of the extractor; a new extractor.
Flash == flash' \in (IF audio.exists THEN {TRUE} ELSE BOOLEAN) /\ UNCHANGED audio

FireAudioEvent == CanFire(audio) /\ audio' = Fire(audio) /\ UNCHANGED flash

HandleCancelled ==
  /\ audio.firing /\ ~audio.mAudioEventPending
  /\ audio' = [audio EXCEPT !.firing = FALSE] /\ UNCHANGED flash

\* The handler reads with the given result.
OnAudioEvent(result) ==
  /\ audio.firing /\ audio.mAudioEventPending
  /\ result \in ReadResults(Begun(audio))
  /\ audio' = Handled(Begun(audio), result)
  /\ flash' = (flash /\ result # "discontinuity")

Results == {"full", "ok", "discontinuity", "end", "retry"}

Drain == /\ audio.renderer = "playing"
         /\ audio' = Drained(audio) /\ UNCHANGED flash

AudioStep == FireAudioEvent \/ HandleCancelled \/ \E r \in Results : OnAudioEvent(r)

Next ==
  \/ Create \/ Start \/ Pause \/ Resume \/ Seek \/ Stop \/ Delete \/ Flash
  \/ AudioStep \/ Drain

Spec == Init /\ [][Next]_vars

\* Several calls made in one step, for a client that makes them under its lock.
OneCall(a) ==
  {b \in {NewAudioPlayer} : ~a.exists} \cup {b \in {NoAudioPlayer} : CanDelete(a)}
    \cup {b \in {Started(a), StartFailed(a)} : CanStart(a)}
    \cup {b \in {Paused(a), Resumed(a)} : CanPause(a)}
    \cup {b \in {SeekTo(a)} : CanSeek(a)} \cup {b \in {Stopped(a)} : a.exists}
Calls ==
  /\ \E b \in OneCall(audio) : \E c \in {b} \cup OneCall(b) : audio' \in {c} \cup OneCall(c)
  /\ UNCHANGED flash
Contract == Init /\ [][Next \/ Calls]_vars

\* The queue's thread runs, the device plays, and decoding gets on: as long as
\* there are buffers to fill some read fills one, and a flash packet is reached.
FairSpec ==
  /\ Spec /\ WF_vars(AudioStep) /\ WF_vars(Drain)
  /\ SF_vars(OnAudioEvent("ok")) /\ SF_vars(OnAudioEvent("discontinuity"))

-----------------------------------------------------------------------------
(***************************************************************************)
(* Properties.                                                             *)
(***************************************************************************)

TypeOK ==
  /\ audio \in
       [exists : BOOLEAN, mQueueStart : BOOLEAN, renderer : Device, buffers : 0 .. MaxBuffers,
        mAudioQueued : 0 .. MaxBuffers, mSeeking : BOOLEAN, mFinalStatus : BOOLEAN,
        mAudioEventPending : BOOLEAN, posted : Nat, id : BOOLEAN, firing : BOOLEAN]
  /\ flash \in BOOLEAN

\* A handler that has not been cancelled has a device to write to, although the
\* device is deleted while its event may be in flight.
DeviceThere == audio.firing /\ audio.mAudioEventPending => audio.renderer # "none"

\* What it does to the items of its event are calls of a queue, and what the
\* queue's thread does.
EventItems ==
  [posted |-> [e \in {"audio"} |-> audio.posted], id |-> [e \in {"audio"} |-> audio.id],
   firing |-> {e \in {"audio"} : audio.firing}]
Queue == INSTANCE PostedEvents WITH Objects <- {"audio"}, queue <- EventItems
QueueContract == Queue!ClientSpec

\* The handler finds the track empty while nothing is queued at the device.
FoundEmpty == OnAudioEvent("retry") /\ Begun(audio).buffers = 0

\* Unless it is paused, stopped or sought again, or has reached the end, the
\* audio player comes to be heard: after a start, a resume, a seek, an underrun.
\* It is not, if the handler finds the track empty again and again: it makes the
\* device play all the same, which stops at once, and the next buffer is given up
\* as after an underrun.
SoundStarts ==
  <>[][~FoundEmpty]_vars =>
    ((audio.mAudioEventPending /\ audio.mQueueStart /\ ~audio.mSeeking)
       ~> (audio.renderer = "playing" \/ ~audio.mAudioEventPending \/ audio.mSeeking))

\* A seek comes to an end, provided its discontinuity has not been read before.
SeekEnds ==
  audio.mSeeking ~> (~audio.mSeeking \/ ~audio.mAudioEventPending)

==============================================================================
