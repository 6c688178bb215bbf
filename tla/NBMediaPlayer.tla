----------------------------- MODULE NBMediaPlayer -----------------------------
(***************************************************************************)
(* A prepared player: play, pause, seek, reset, and the events of its      *)
(* queue, together with the audio player (NBAudioPlayer) and as much of    *)
(* the extractor as asks for a seek, executes it and calls back.           *)
(*                                                                         *)
(* The player's mLock (P below) and the extractor's (X) are taken in both  *)
(* orders, and the audio player's (A) between them.  A step is all that a  *)
(* thread does under P up to where it waits for X or A.                    *)
(***************************************************************************)
EXTENDS Naturals, FiniteSets

CONSTANTS
  Medias,       \* the sets of sources the player may have been prepared with
  Targets,      \* positions the application seeks to
  MaxBuffers,   \* of the audio device
  MaxCalls      \* bound: calls of the application

ASSUME PlayerAssumption ==
  /\ Medias \subseteq ((SUBSET {"video", "audio"}) \ {{}})
  /\ Targets \subseteq Nat \ {0}
  /\ MaxBuffers \in Nat /\ MaxBuffers % 2 = 0 /\ MaxBuffers > 0
  /\ MaxCalls \in Nat

VARIABLES
  mp,      \* the player's fields and the items of its events in its queue
  media,   \* the sources it was prepared with
  audio,   \* mAudioPlayer
  flash,   \* a flash packet is next in the audio track
  app,     \* what the application's thread is doing
  ev,      \* what the player's event thread is doing
  ext,     \* the extractor
  asks,    \* the audio thread, with its lock A taken, waits for X
  waits,   \* who waits for A, with P taken
  calls    \* calls made so far

locks == <<asks, waits>>
vars  == <<mp, media, audio, flash, app, ev, ext, locks, calls>>

\* It keeps to no order between its seek and that of the extractor.
Audio == INSTANCE NBAudioPlayer WITH Orderly <- FALSE, MaxChains <- MaxCalls + 1

NoSeek == 0      \* mSeekTimeUs = -1
Start0 == 1000   \* the position 0, which play() seeks to at the end

Events == {"video", "streamDone", "audioStatus"}
Flags  == {"PLAYING", "AT_EOS", "AUDIO_AT_EOS", "VIDEO_AT_EOS", "SEEK_PREVIEW",
           "AUDIO_RUNNING", "AUDIOPLAYER_STARTED"}
EOSFlags == {"AT_EOS", "AUDIO_AT_EOS", "VIDEO_AT_EOS"}

\* P is taken between two steps by an application that waits for the extractor or
\* the audio thread, and by a handler that reads an empty track; X by the
\* extractor that waits for P to call back.
PFree == app.pc \notin {"seek", "joinAudio", "joinExtractor"} /\ ev # "read" /\ waits = "none"
XFree == ext.pc # "callback"

\* A thread that calls the audio player has P, by now or since it waits for A.
HasLocks(thread) == ~asks /\ (PFree \/ waits = thread) /\ waits' = "none" /\ UNCHANGED asks

\* After reset(), and a new prepare().
Prepared ==
  [mFlags |-> {}, mSeeking |-> FALSE, mSeekNotificationSent |-> TRUE,
   mWatchForAudioEOS |-> FALSE, mVideoBuffer |-> FALSE,
   pending |-> [e \in Events |-> FALSE], posted |-> [e \in Events |-> 0],
   id |-> [e \in Events |-> FALSE]]
NewExtractor == [pc |-> "idle", target |-> NoSeek, mSeekTimeUs |-> NoSeek, mReachedEnd |-> FALSE]

Init ==
  /\ mp = Prepared /\ media \in Medias
  /\ audio = Audio!NoAudioPlayer /\ flash = FALSE
  /\ app = [pc |-> "idle", target |-> NoSeek] /\ ev = "idle"
  /\ ext = NewExtractor
  /\ asks = FALSE /\ waits = "none"
  /\ calls = 0

-----------------------------------------------------------------------------
(***************************************************************************)
(* Parts of the calls and handlers, as functions of the fields.            *)
(***************************************************************************)

Set(m, flags)   == [m EXCEPT !.mFlags = @ \cup flags]
Clear(m, flags) == [m EXCEPT !.mFlags = @ \ flags]

\* postVideoEvent_l, postStreamDoneEvent_l, postCheckAudioStatusEvent
Post(m, e) ==
  IF m.pending[e] THEN m
  ELSE [m EXCEPT !.pending[e] = TRUE, !.posted[e] = @ + 1, !.id[e] = TRUE]

\* One event of cancelPlayerEvents: an item that is in flight is not taken back, nor
\* is one whose object has lost its id because another item of it was fired.
CancelEvent_again(m, e) ==
  [m EXCEPT !.pending[e] = FALSE, !.posted[e] = @ - 1, !.id[e] = FALSE]
CancelEvent_mut(m, e) ==
  [m EXCEPT !.posted[e] = IF m.id[e] THEN @ - 1 ELSE @, !.id[e] = FALSE]
CancelEvent(m, e) ==
  [m EXCEPT !.pending[e] = FALSE, !.posted[e] = IF m.id[e] THEN @ - 1 ELSE @, !.id[e] = FALSE]

\* cancelPlayerEvents(true) and cancelPlayerEvents(false)
CancelVideoEvent(m) == CancelEvent(m, "video")
CancelPlayerEvents(m) ==
  CancelEvent(CancelEvent(CancelVideoEvent(m), "streamDone"), "audioStatus")

\* The audio player is paused when it runs.
PausedAudio_mut(m) == IF audio.exists THEN Audio!Paused(audio) ELSE audio
PausedAudio(m) == IF "AUDIO_RUNNING" \in m.mFlags THEN Audio!Paused(audio) ELSE audio

Pause_l(m) == Clear(CancelVideoEvent(m), {"AUDIO_RUNNING", "PLAYING"})

\* seekTo_l up to the call of the extractor.
SeekTo_l(m) ==
  [Clear(CancelVideoEvent(m), {"AUDIO_RUNNING"}) EXCEPT
     !.mSeeking = TRUE, !.mSeekNotificationSent = FALSE]

\* startAudioPlayer_l: what it may come to, whether it succeeds.
StartAudioPlayer_l(m, a) ==
  LET running == [Set(m, {"AUDIO_RUNNING", "AUDIOPLAYER_STARTED"}) EXCEPT
                    !.mWatchForAudioEOS = TRUE]
  IN  IF ~a.exists THEN {[mp |-> m, audio |-> a, ok |-> TRUE]}
      ELSE IF "AUDIOPLAYER_STARTED" \in m.mFlags
      THEN {[mp |-> running, audio |-> Audio!Resumed(a), ok |-> TRUE]}
      ELSE {[mp |-> running, audio |-> Audio!Started(a), ok |-> TRUE],
            [mp |-> m, audio |-> Audio!StartFailed(a), ok |-> FALSE]}

\* Video starts the audio player when it is not running.
WithAudioStarted(m, a) ==
  IF m.mFlags \cap {"AUDIO_RUNNING", "SEEK_PREVIEW"} = {} THEN StartAudioPlayer_l(m, a)
  ELSE {[mp |-> m, audio |-> a, ok |-> TRUE]}

\* finishSeekIfNecessary
FinishesSeek(m) == m.mSeeking /\ "SEEK_PREVIEW" \notin m.mFlags
SoughtPlayer(m, a) ==
  IF ~FinishesSeek(m) THEN m
  ELSE [m EXCEPT !.mSeeking = FALSE,
                 !.mWatchForAudioEOS = @ \/ a.exists,
                 !.mSeekNotificationSent = @ \/ ~a.exists]
SoughtAudio(m, a) == IF FinishesSeek(m) /\ a.exists THEN Audio!SeekTo(a) ELSE a

-----------------------------------------------------------------------------
(***************************************************************************)
(* The application.                                                        *)
(***************************************************************************)

Idle == [pc |-> "idle", target |-> NoSeek]

Call == app.pc = "idle" /\ HasLocks("app") /\ calls < MaxCalls /\ calls' = calls + 1

\* play(): at the end of the stream it goes back to the start.
PlayAgain_mut(m) == app' = Idle /\ mp' = m
PlayAgain(m) ==
  IF "AT_EOS" \in m.mFlags
  THEN app' = [pc |-> "seek", target |-> Start0] /\ mp' = SeekTo_l(m)
  ELSE app' = Idle /\ mp' = m

Play ==
  LET m == Set(Clear(mp, {"SEEK_PREVIEW"}), {"PLAYING"})
      a == IF "audio" \in media /\ ~audio.exists THEN Audio!NewAudioPlayer ELSE audio
  IN  /\ Call
      /\ IF "PLAYING" \in mp.mFlags
         THEN mp' = m /\ UNCHANGED <<audio, app>>
         ELSE IF "video" \in media
         THEN PlayAgain(Post(m, "video")) /\ audio' = a
         ELSE \E s \in StartAudioPlayer_l(m, a) :
                IF s.ok
                THEN PlayAgain(s.mp) /\ audio' =
                       IF "AT_EOS" \in s.mp.mFlags THEN Audio!Paused(s.audio) ELSE s.audio
                ELSE /\ mp' = Clear(m, {"PLAYING"}) /\ audio' = Audio!NoAudioPlayer
                     /\ UNCHANGED app
      /\ UNCHANGED <<media, flash, ev, ext>>

Pause ==
  /\ Call
  /\ mp' = Pause_l(mp) /\ audio' = PausedAudio(mp)
  /\ UNCHANGED <<media, flash, app, ev, ext>>

SeekTo ==
  /\ Call
  /\ \E t \in Targets : app' = [pc |-> "seek", target |-> t]
  /\ mp' = SeekTo_l(mp) /\ audio' = PausedAudio(mp)
  /\ UNCHANGED <<media, flash, ev, ext>>

\* notifyContinueRead and the end of seekTo post the extractor's event.
PostExtractor(x) == IF x.pc = "idle" THEN [x EXCEPT !.pc = "posted"] ELSE x

ExtractorSeekTo ==
  /\ app.pc = "seek" /\ XFree
  /\ ext' = PostExtractor([ext EXCEPT !.mSeekTimeUs = app.target])
  /\ app' = Idle
  /\ UNCHANGED <<mp, media, audio, flash, ev, locks, calls>>

\* reset(): cancels, stops the audio player, waits for its thread, stops the
\* extractor and waits for its thread, with P taken all the time.
ResetFields_mut == [CancelPlayerEvents(mp) EXCEPT !.mFlags = {}, !.mSeeking = FALSE]
ResetFields ==
  [Prepared EXCEPT !.pending = mp.pending, !.posted = mp.posted, !.id = mp.id]

Reset ==
  /\ Call
  /\ mp' = CancelPlayerEvents(mp)
  /\ audio' = IF audio.exists THEN Audio!Stopped(audio) ELSE audio
  /\ app' = [Idle EXCEPT !.pc = "joinAudio"]
  /\ UNCHANGED <<media, flash, ev, ext>>

JoinAudio ==
  /\ app.pc = "joinAudio" /\ ~audio.firing
  /\ audio' = Audio!NoAudioPlayer
  /\ app' = [app EXCEPT !.pc = "joinExtractor"]
  /\ UNCHANGED <<mp, media, flash, ev, ext, locks, calls>>

\* The extractor's event is cancelled, or has ended.  Then the fields are
\* cleared, and the next source is prepared.
JoinExtractor ==
  /\ app.pc = "joinExtractor" /\ ext.pc \in {"idle", "posted"}
  /\ ext' = NewExtractor /\ flash' = FALSE
  /\ mp' = ResetFields
  /\ media' \in Medias
  /\ app' = Idle
  /\ UNCHANGED <<audio, ev, locks, calls>>

-----------------------------------------------------------------------------
(***************************************************************************)
(* The player's events.                                                    *)
(***************************************************************************)

Fire(e) ==
  /\ ev = "idle" /\ mp.posted[e] > 0
  /\ ev' = e
  /\ mp' = [mp EXCEPT !.posted[e] = @ - 1, !.id[e] = FALSE]
  /\ UNCHANGED <<media, audio, flash, app, ext, locks, calls>>

\* A handler finds that its event was cancelled after it had been taken out.
EventCancelled ==
  /\ ev \in Events /\ ~mp.pending[ev]
  /\ ev = "audioStatus" \/ PFree
  /\ ev' = "idle"
  /\ UNCHANGED <<mp, media, audio, flash, app, ext, locks, calls>>

\* A seek makes the frame that was kept worthless.
VideoFields ==
  [mp EXCEPT !.pending["video"] = FALSE, !.mVideoBuffer = @ /\ ~mp.mSeeking]
OnVideoEvent == ev = "video" /\ PFree /\ mp.pending["video"]

\* There is a frame.  Unless it is the first after a seek it may be late, and is
\* dropped, or early, and is kept; else it is displayed.
VideoFrame ==
  /\ ev = "video" /\ HasLocks("ev") /\ mp.pending["video"]
  /\ \E s \in WithAudioStarted(VideoFields, audio) :
       IF ~s.ok
       THEN mp' = [s.mp EXCEPT !.mVideoBuffer = TRUE] /\ audio' = s.audio
       ELSE /\ audio' = SoughtAudio(s.mp, s.audio)
            /\ \E kept \in IF mp.mSeeking \/ ~audio.exists THEN {FALSE} ELSE BOOLEAN :
                 mp' = Post([SoughtPlayer(s.mp, s.audio) EXCEPT !.mVideoBuffer = kept], "video")
  /\ ev' = "idle"
  /\ UNCHANGED <<media, flash, app, ext, calls>>

\* Nothing to show: a discontinuity, an error, or a frame without a time.
VideoAgain ==
  /\ OnVideoEvent /\ ~VideoFields.mVideoBuffer
  /\ mp' = Post(VideoFields, "video")
  /\ ev' = "idle"
  /\ UNCHANGED <<media, audio, flash, app, ext, locks, calls>>

\* The track is empty: it asks the extractor, with P taken.
VideoStarves ==
  /\ OnVideoEvent /\ ~VideoFields.mVideoBuffer
  /\ mp' = VideoFields
  /\ ev' = "read"
  /\ UNCHANGED <<media, audio, flash, app, ext, locks, calls>>

\* It makes the extractor read on, or it is at the end.
ReadOn ==
  /\ ev = "read" /\ XFree /\ ~ext.mReachedEnd
  /\ ext' = PostExtractor(ext)
  /\ mp' = Post(mp, "video")
  /\ ev' = "idle"
  /\ UNCHANGED <<media, audio, flash, app, locks, calls>>

VideoEnds ==
  /\ ev = "read" /\ XFree /\ ~asks /\ ext.mReachedEnd
  /\ \E s \in WithAudioStarted(SoughtPlayer(mp, audio), SoughtAudio(mp, audio)) :
       /\ mp' = Post(Set(s.mp, {"VIDEO_AT_EOS"}), "streamDone")
       /\ audio' = s.audio
  /\ ev' = "idle"
  /\ UNCHANGED <<media, flash, app, ext, locks, calls>>

\* LOOPING is never set, and no other status than the end is posted.
StreamDoneFields_mut == mp
StreamDoneFields == [mp EXCEPT !.pending["streamDone"] = FALSE]
AllDone ==
  /\ "video" \in media => "VIDEO_AT_EOS" \in mp.mFlags
  /\ "audio" \in media => "AUDIO_AT_EOS" \in mp.mFlags

OnStreamDone ==
  /\ ev = "streamDone" /\ HasLocks("ev") /\ mp.pending["streamDone"]
  /\ IF AllDone
     THEN mp' = Set(Pause_l(StreamDoneFields), {"AT_EOS"}) /\ audio' = PausedAudio(mp)
     ELSE mp' = StreamDoneFields /\ UNCHANGED audio
  /\ ev' = "idle"
  /\ UNCHANGED <<media, flash, app, ext, calls>>

\* onCheckAudioStatus: the flag is cleared under mAudioLock, then P is taken.
CheckAudioStatus ==
  /\ ev = "audioStatus" /\ mp.pending["audioStatus"]
  /\ mp' = [mp EXCEPT !.pending["audioStatus"] = FALSE]
  /\ ev' = "status"
  /\ UNCHANGED <<media, audio, flash, app, ext, locks, calls>>

OnCheckAudioStatus ==
  /\ ev = "status" /\ HasLocks("ev")
  /\ \E end \in Audio!ReachedEOS(audio) :
       mp' = IF mp.mWatchForAudioEOS /\ end
             THEN Post([Set(mp, {"AUDIO_AT_EOS"}) EXCEPT !.mWatchForAudioEOS = FALSE],
                       "streamDone")
             ELSE mp
  /\ ev' = "idle"
  /\ UNCHANGED <<media, audio, flash, app, ext, calls>>

EventStep ==
  \/ \E e \in Events : Fire(e)
  \/ EventCancelled \/ VideoFrame \/ VideoAgain \/ VideoStarves \/ ReadOn \/ VideoEnds
  \/ OnStreamDone \/ CheckAudioStatus \/ OnCheckAudioStatus

-----------------------------------------------------------------------------
(***************************************************************************)
(* The audio thread and its device.                                        *)
(***************************************************************************)

FireAudioEvent ==
  /\ Audio!FireAudioEvent
  /\ UNCHANGED <<mp, media, app, ev, ext, locks, calls>>

AudioCancelled ==
  /\ Audio!HandleCancelled
  /\ UNCHANGED <<mp, media, app, ev, ext, locks, calls>>

\* It finds the track empty, and will ask the extractor.
AudioAsks ==
  /\ audio.firing /\ audio.mAudioEventPending /\ ~asks
  /\ "retry" \in Audio!ReadResults(Audio!Begun(audio)) /\ ~flash
  /\ asks' = TRUE
  /\ UNCHANGED <<mp, media, audio, flash, app, ev, ext, waits, calls>>

\* The extractor is made to read on, or the end is reported.
OnAudioEvent(result) ==
  /\ Audio!OnAudioEvent(result)
  /\ asks = (result \in {"end", "retry"})
  /\ CASE result = "end"   -> /\ XFree /\ ext.mReachedEnd
                              /\ mp' = Post(mp, "audioStatus") /\ UNCHANGED ext
       [] result = "retry" -> /\ XFree /\ ~ext.mReachedEnd
                              /\ ext' = PostExtractor(ext) /\ UNCHANGED mp
       [] OTHER            -> UNCHANGED <<mp, ext>>
  /\ asks' = FALSE
  /\ UNCHANGED <<media, app, ev, waits, calls>>

\* A thread that is about to call the audio player takes P and has to wait for A.
WaitForAudio(thread) ==
  /\ asks /\ PFree /\ waits' = thread
  /\ CASE thread = "app" -> app.pc = "idle" /\ calls < MaxCalls
       [] OTHER          -> ev = "status" \/ (ev \in {"video", "streamDone"} /\ mp.pending[ev])
  /\ UNCHANGED <<mp, media, audio, flash, app, ev, ext, asks, calls>>

Drain ==
  /\ Audio!Drain
  /\ UNCHANGED <<mp, media, app, ev, ext, locks, calls>>

AudioStep == FireAudioEvent \/ AudioCancelled \/ AudioAsks \/ \E r \in Audio!Results : OnAudioEvent(r)

-----------------------------------------------------------------------------
(***************************************************************************)
(* The extractor's thread.                                                 *)
(***************************************************************************)

\* Its event takes up a seek, or reads until the queues are full or the file ends.
ExtractorBegins ==
  /\ ext.pc = "posted"
  /\ IF ext.mSeekTimeUs # NoSeek
     THEN ext' = [ext EXCEPT !.pc = "seek", !.target = ext.mSeekTimeUs]
     ELSE \E pc \in {"idle", "ending"} : ext' = [ext EXCEPT !.pc = pc]
  /\ UNCHANGED <<mp, media, audio, flash, app, ev, locks, calls>>

\* The end, or an error.
ExtractorEnds ==
  /\ ext.pc = "ending"
  /\ \E end \in {TRUE, ext.mReachedEnd} :
       ext' = [ext EXCEPT !.pc = "idle", !.mReachedEnd = end]
  /\ UNCHANGED <<mp, media, audio, flash, app, ev, locks, calls>>

\* The file is positioned and the tracks are flushed, or the seek fails.
ExtractorSeeks ==
  /\ ext.pc = "seek"
  /\ \/ flash' = (flash \/ "audio" \in media) /\ ext' = [ext EXCEPT !.pc = "sought"]
     \/ UNCHANGED flash /\ ext' = [ext EXCEPT !.pc = "sought", !.mReachedEnd = TRUE]
  /\ UNCHANGED <<mp, media, audio, app, ev, locks, calls>>

\* onMediaSeeked: restarts the video event, or shows a frame when paused.
OnMediaSeeked_mut(m) ==
  IF "PLAYING" \in m.mFlags THEN Clear(m, EOSFlags)
  ELSE [Clear(m, EOSFlags) EXCEPT !.mSeekNotificationSent = TRUE]
OnMediaSeeked(m) ==
  LET c == Clear(m, EOSFlags)
  IN  IF "PLAYING" \in m.mFlags
      THEN IF "video" \in media THEN Post(c, "video") ELSE c
      ELSE IF "video" \in media
           THEN Post(Set([c EXCEPT !.mSeekNotificationSent = TRUE], {"SEEK_PREVIEW"}), "video")
           ELSE [c EXCEPT !.mSeekNotificationSent = TRUE]

\* When the seek has been replaced the new one stays where it is; else X is kept
\* until P can be had.
FinishSeek ==
  /\ ext.pc = "sought"
  /\ ext' = [ext EXCEPT !.pc = IF ext.target = ext.mSeekTimeUs THEN "callback" ELSE "idle"]
  /\ UNCHANGED <<mp, media, audio, flash, app, ev, locks, calls>>

CallsBack ==
  /\ ext.pc = "callback" /\ PFree
  /\ mp' = OnMediaSeeked(mp)
  /\ ext' = [ext EXCEPT !.pc = "idle", !.mSeekTimeUs = NoSeek]
  /\ UNCHANGED <<media, audio, flash, app, ev, locks, calls>>

ExtractorStep ==
  ExtractorBegins \/ ExtractorEnds \/ ExtractorSeeks \/ FinishSeek \/ CallsBack

-----------------------------------------------------------------------------

\* What a call does once it is made.
CallStep == ExtractorSeekTo \/ JoinAudio \/ JoinExtractor

Calls == Play \/ Pause \/ SeekTo \/ Reset

Next ==
  \/ Calls \/ CallStep \/ EventStep \/ AudioStep \/ Drain \/ ExtractorStep
  \/ \E thread \in {"app", "ev"} : WaitForAudio(thread)

Spec == Init /\ [][Next]_vars

\* The threads run, and a lock that is given back again and again is had in the
\* end.  The queue promises no event its turn: one that posts itself again with
\* a later time goes in front of those that are queued, and the event thread may
\* handle it for ever.
FairSpec ==
  /\ Spec
  /\ WF_vars(CallStep) /\ WF_vars(AudioStep) /\ WF_vars(ExtractorStep)
  /\ SF_vars(EventStep) /\ SF_vars(Calls /\ waits = "app")

-----------------------------------------------------------------------------
(***************************************************************************)
(* Properties.                                                             *)
(***************************************************************************)

TypeOK ==
  /\ mp \in [mFlags : SUBSET Flags, mSeeking : BOOLEAN, mSeekNotificationSent : BOOLEAN,
             mWatchForAudioEOS : BOOLEAN, mVideoBuffer : BOOLEAN,
             pending : [Events -> BOOLEAN], posted : [Events -> Nat], id : [Events -> BOOLEAN]]
  /\ media \in Medias
  /\ app \in [pc : {"idle", "seek", "joinAudio", "joinExtractor"},
              target : Targets \cup {NoSeek, Start0}]
  /\ ev \in Events \cup {"idle", "read", "status"}
  /\ ext \in [pc : {"idle", "posted", "ending", "seek", "sought", "callback"},
              target : Targets \cup {NoSeek, Start0},
              mSeekTimeUs : Targets \cup {NoSeek, Start0}, mReachedEnd : BOOLEAN]
  /\ asks \in BOOLEAN /\ waits \in {"none", "app", "ev"}
  /\ calls \in 0 .. MaxCalls

\* Nothing is heard unless the player is PLAYING, whichever handlers were in
\* flight when it was paused, came to the end or sought.
SoundOnlyWhilePlaying == audio.renderer = "playing" => "PLAYING" \in mp.mFlags

\* The video event goes round only while PLAYING or for the preview of a seek.
VideoOnlyWhilePlaying ==
  mp.pending["video"] => mp.mFlags \cap {"PLAYING", "SEEK_PREVIEW"} # {}

\* A seek is on its way through the extractor.
SeekUnderWay == app.pc = "seek" \/ ext.mSeekTimeUs # NoSeek

\* While PLAYING the video event goes round, unless the video is at its end, the
\* audio player could not be started, or a seek or a reset is under way.
VideoGoesOn ==
  /\ "PLAYING" \in mp.mFlags /\ "video" \in media
  /\ "VIDEO_AT_EOS" \notin mp.mFlags /\ ~SeekUnderWay /\ PFree
  /\ audio.renderer # "none" => "AUDIOPLAYER_STARTED" \in mp.mFlags
  => /\ mp.pending["video"]
     /\ mp.posted["video"] > 0 \/ ev = "video"

\* A player that is PLAYING is not at the end, or is on its way back.
PlaysFromTheStart ==
  {"PLAYING", "AT_EOS"} \subseteq mp.mFlags => SeekUnderWay

\* The handler of the audio status, which may have been waiting for P while the
\* player was reset, does not ask an audio player that is gone.
StatusHasAudio == ev = "status" /\ PFree /\ mp.mWatchForAudioEOS => audio.exists

\* The player uses the audio player as it may be used.
AudioContract == Audio!Contract

\* What the player does to the items and ids of its events are calls of a queue
\* and what its thread does, although it posts events that are queued and keeps
\* flags of its own for what is pending.
Handled ==
  CASE ev \in Events -> {ev}
    [] ev = "read"   -> {"video"}
    [] ev = "status" -> {"audioStatus"}
    [] OTHER         -> {}
EventItems == [posted |-> mp.posted, id |-> mp.id, firing |-> Handled]
Queue == INSTANCE PostedEvents WITH Objects <- Events, queue <- EventItems
QueueContract == Queue!ClientSpec

\* Threads wait for each other in a ring only where the extractor calls back with X
\* taken.  P has one owner, which has something to do, or waits for A, X or a thread;
\* A is kept by a handler that will ask and has not been cancelled; and the handler
\* a reset waits for does not ask.
POwners ==
  {o \in {"app"} : app.pc \in {"seek", "joinAudio", "joinExtractor"} \/ waits = "app"}
    \cup {o \in {"ev"} : ev = "read" \/ waits = "ev"}
LocksComeBack ==
  /\ \A o, p \in POwners : o = p
  /\ waits = "app" => app.pc = "idle" /\ calls < MaxCalls
  /\ waits = "ev"  => ev = "status" \/ (ev \in {"video", "streamDone"} /\ mp.pending[ev])
  /\ asks => /\ audio.firing /\ audio.mAudioEventPending
             /\ "retry" \in Audio!ReadResults(Audio!Begun(audio))
  /\ app.pc = "joinAudio" => ~asks /\ ~audio.mAudioEventPending

\* The video event goes before one that is posted: its next frame's time is later.
VideoOvertakes ==
  Fire("video") /\ \E e \in Events \ {"video"} : mp.posted[e] > 0

\* When everything has been played the player pauses, also the second time,
\* unless a seek comes in between, or the video, which may have started again
\* before its end was handled, overtakes the end again and again: it does so only
\* as long as its file has frames.
PausesAtTheEnd ==
  <>[][~VideoOvertakes]_vars =>
    (("PLAYING" \in mp.mFlags /\ AllDone)
       ~> ("PLAYING" \notin mp.mFlags \/ ~AllDone \/ SeekUnderWay))

(***************************************************************************)
(* What a comment of the source says and the player does not do.           *)
(***************************************************************************)

\* "In order for this new seek to be honored, we need to post one": when a video
\* goes on playing, a seek of it is completed, unless it is reset.
Resetting == app.pc \in {"joinAudio", "joinExtractor"}
SeekHonoured ==
  ("PLAYING" \in mp.mFlags /\ "video" \in media /\ SeekUnderWay) ~>
    ("PLAYING" \notin mp.mFlags \/ Resetting \/ (~mp.mSeeking /\ ~SeekUnderWay))

==============================================================================
