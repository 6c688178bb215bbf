---------------------------- MODULE NBMediaPlayer_proofs ----------------------------
(***************************************************************************)
(* Playback is what the flags say, the audio player and the queue are used *)
(* as they may be, and locks are given back, for any media, targets,       *)
(* buffers and number of calls, whichever threads wait for whose lock.     *)
(***************************************************************************)
EXTENDS NBMediaPlayer, Integers, TLAPS

-----------------------------------------------------------------------------
(***************************************************************************)
(* The inductive invariant.                                                *)
(***************************************************************************)

PlayerType ==
  [mFlags : SUBSET Flags, mSeeking : BOOLEAN, mSeekNotificationSent : BOOLEAN,
   mWatchForAudioEOS : BOOLEAN, mVideoBuffer : BOOLEAN,
   pending : [Events -> BOOLEAN], posted : [Events -> Nat], id : [Events -> BOOLEAN]]

\* As much of the audio player as matters here.
Renderer == {"none", "initial", "playing", "paused", "stopped", "null pointer"}
AudioShape ==
  [exists : BOOLEAN, mQueueStart : BOOLEAN, renderer : Renderer,
   buffers : Int, mAudioQueued : Int, mSeeking : BOOLEAN, mFinalStatus : BOOLEAN,
   mAudioEventPending : BOOLEAN, posted : Int, id : BOOLEAN, firing : BOOLEAN]

Types == TypeOK /\ audio \in AudioShape /\ flash \in BOOLEAN

\* An event has an id only when it has an item; a pending video event is coming.
IDHasItem(m) == \A e \in Events : m.id[e] => m.posted[e] > 0
VideoIsComing ==
  /\ IDHasItem(mp)
  /\ mp.pending["video"] => mp.posted["video"] > 0 \/ ev = "video"

\* P has one owner.
POwnedOnce ==
  /\ waits # "none" => app.pc = "idle" /\ ev # "read"
  /\ ev = "read" => app.pc = "idle"

\* Who works on the video has a video, which is played or previewed.
VideoIsWanted ==
  mp.pending["video"] \/ ev = "read" =>
    "video" \in media /\ mp.mFlags \cap {"PLAYING", "SEEK_PREVIEW"} # {}

Starting == audio.renderer # "none" /\ "AUDIOPLAYER_STARTED" \notin mp.mFlags

\* VideoGoesOn, of all states in which the event thread does not read.
VideoGoesRound ==
  /\ "PLAYING" \in mp.mFlags /\ "video" \in media /\ "VIDEO_AT_EOS" \notin mp.mFlags
  /\ ~SeekUnderWay /\ app.pc = "idle" /\ ev # "read" /\ ~Starting
  => mp.pending["video"]

\* It plays, or an event of its will make it play.
Sounds(a) == a.renderer = "playing" \/ (a.mQueueStart /\ a.mAudioEventPending)

StartedQueue(flags, a) ==
  (a.mQueueStart => "AUDIOPLAYER_STARTED" \in flags) /\ (a.firing => a.mQueueStart)

\* An audio player that is heard, or will be, is one that runs.
RunsBy(flags, a) ==
  (Sounds(a) => {"PLAYING", "AUDIO_RUNNING"} \subseteq flags) /\ StartedQueue(flags, a)
AudioIsRun == RunsBy(mp.mFlags, audio)

\* Only an audio player that is there is watched.
AudioIsThere ==
  /\ mp.mWatchForAudioEOS =>
       /\ audio.exists \/ app.pc = "joinExtractor"
       /\ "video" \in media \/ "AUDIOPLAYER_STARTED" \in mp.mFlags
  /\ app.pc = "joinExtractor" => audio = Audio!NoAudioPlayer

\* A reset has cancelled the video event; a seek is to some position.
CallUnderWay ==
  /\ app.pc \in {"joinAudio", "joinExtractor"} => ~mp.pending["video"]
  /\ app.pc = "seek" => app.target # NoSeek

PlayerInv ==
  /\ Types /\ VideoIsComing /\ POwnedOnce /\ VideoIsWanted /\ VideoGoesRound
  /\ AudioIsRun /\ AudioIsThere /\ CallUnderWay /\ PlaysFromTheStart

-----------------------------------------------------------------------------
(***************************************************************************)
(* What the parts of the calls and handlers do to the player's fields.     *)
(***************************************************************************)

\* The fields that matter here, besides the flags and the video event.
Same(m, n) == n.mWatchForAudioEOS = m.mWatchForAudioEOS /\ n.mSeeking = m.mSeeking

LEMMA SetIs ==
  ASSUME NEW m \in PlayerType, NEW f \in SUBSET Flags, IDHasItem(m)
  PROVE  /\ Set(m, f) \in PlayerType /\ IDHasItem(Set(m, f)) /\ Same(m, Set(m, f))
         /\ Set(m, f).mFlags = m.mFlags \cup f
         /\ Set(m, f).pending = m.pending /\ Set(m, f).posted = m.posted
BY DEF Set, PlayerType, IDHasItem, Same

LEMMA ClearIs ==
  ASSUME NEW m \in PlayerType, NEW f, IDHasItem(m)
  PROVE  /\ Clear(m, f) \in PlayerType /\ IDHasItem(Clear(m, f)) /\ Same(m, Clear(m, f))
         /\ Clear(m, f).mFlags = m.mFlags \ f
         /\ Clear(m, f).pending = m.pending /\ Clear(m, f).posted = m.posted
BY DEF Clear, PlayerType, IDHasItem, Same

LEMMA EventsAre == "video" \in Events /\ "streamDone" \in Events /\ "audioStatus" \in Events
BY DEF Events

\* Posting loses nothing, and makes the event come.
LEMMA PostIs ==
  ASSUME NEW m \in PlayerType, NEW e \in Events, IDHasItem(m)
  PROVE  /\ Post(m, e) \in PlayerType /\ IDHasItem(Post(m, e)) /\ Same(m, Post(m, e))
         /\ Post(m, e).mFlags = m.mFlags
         /\ Post(m, e).pending["video"] <=> m.pending["video"] \/ e = "video"
         /\ m.posted["video"] > 0 => Post(m, e).posted["video"] > 0
         /\ e = "video" /\ ~m.pending["video"] => Post(m, e).posted["video"] > 0
<1>1. CASE m.pending[e]
  <2>1. Post(m, e) = m BY <1>1, Zenon DEF Post
  <2> QED BY <1>1, <2>1 DEF Same
<1>2. CASE ~m.pending[e]
  <2> DEFINE p == [m.pending EXCEPT ![e] = TRUE]
             q == [m.posted EXCEPT ![e] = m.posted[e] + 1]
             i == [m.id EXCEPT ![e] = TRUE]
             n == [m EXCEPT !.pending = p, !.posted = q, !.id = i]
  <2>1. Post(m, e) = n BY <1>2 DEF Post, PlayerType
  <2>2. p \in [Events -> BOOLEAN] /\ q \in [Events -> Nat] /\ i \in [Events -> BOOLEAN]
    BY DEF PlayerType
  <2>3. p["video"] <=> m.pending["video"] \/ e = "video" BY EventsAre DEF PlayerType
  <2>4. /\ \A f \in Events : q[f] = IF f = e THEN m.posted[e] + 1 ELSE m.posted[f]
        /\ \A f \in Events : f # e => i[f] = m.id[f]
    BY DEF PlayerType
  <2>5. m.posted[e] \in Nat BY DEF PlayerType
  <2> HIDE DEF p, q, i
  <2>6. n \in PlayerType BY <2>2 DEF PlayerType
  <2>7. n.pending = p /\ n.posted = q /\ n.id = i /\ n.mFlags = m.mFlags /\ Same(m, n)
    BY DEF PlayerType, Same
  <2> HIDE DEF n
  <2>8. q[e] > 0 BY <2>4, <2>5
  <2>9. \A f \in Events : f # e => q[f] = m.posted[f] BY <2>4
  <2>10. IDHasItem(n) BY <2>4, <2>7, <2>8, <2>9, Zenon DEF IDHasItem
  <2> QED BY <2>1, <2>3, <2>6, <2>7, <2>8, <2>9, <2>10, EventsAre, Zenon
<1> QED BY <1>1, <1>2

LEMMA CancelEventIs ==
  ASSUME NEW m \in PlayerType, NEW e \in Events, IDHasItem(m)
  PROVE  LET n == CancelEvent(m, e)
         IN  /\ n \in PlayerType /\ IDHasItem(n) /\ Same(m, n) /\ n.mFlags = m.mFlags
             /\ ~n.pending[e] /\ \A f \in Events : f # e => n.pending[f] = m.pending[f]
<1> DEFINE p == [m.pending EXCEPT ![e] = FALSE]
           q == [m.posted EXCEPT ![e] = IF m.id[e] THEN m.posted[e] - 1 ELSE m.posted[e]]
           i == [m.id EXCEPT ![e] = FALSE]
           n == [m EXCEPT !.pending = p, !.posted = q, !.id = i]
<1>1. CancelEvent(m, e) = n BY DEF CancelEvent, PlayerType
<1>2. /\ p \in [Events -> BOOLEAN] /\ ~p[e] /\ \A f \in Events : f # e => p[f] = m.pending[f]
      /\ i \in [Events -> BOOLEAN] /\ ~i[e] /\ \A f \in Events : f # e => i[f] = m.id[f]
      /\ \A f \in Events : f # e => q[f] = m.posted[f]
  BY DEF PlayerType
<1>3. q \in [Events -> Nat]
  <2>1. m.posted[e] \in Nat /\ m.posted \in [Events -> Nat] BY DEF PlayerType
  <2>2. (IF m.id[e] THEN m.posted[e] - 1 ELSE m.posted[e]) \in Nat
    BY <2>1 DEF IDHasItem
  <2> QED BY <2>1, <2>2
<1> HIDE DEF p, q, i
<1>4. n \in PlayerType BY <1>2, <1>3 DEF PlayerType
<1>5. n.pending = p /\ n.posted = q /\ n.id = i /\ n.mFlags = m.mFlags /\ Same(m, n)
  BY DEF PlayerType, Same
<1> HIDE DEF n
<1>6. IDHasItem(n) BY <1>2, <1>5, Zenon DEF IDHasItem
<1> QED BY <1>1, <1>2, <1>4, <1>5, <1>6, Zenon

LEMMA CancelIs ==
  ASSUME NEW m \in PlayerType, IDHasItem(m)
  PROVE  LET n == CancelVideoEvent(m)
         IN  /\ n \in PlayerType /\ IDHasItem(n) /\ Same(m, n)
             /\ n.mFlags = m.mFlags /\ ~n.pending["video"]
BY EventsAre, CancelEventIs, Zenon DEF CancelVideoEvent

LEMMA CancelAllIs ==
  ASSUME NEW m \in PlayerType, IDHasItem(m)
  PROVE  LET n == CancelPlayerEvents(m)
         IN  /\ n \in PlayerType /\ IDHasItem(n) /\ Same(m, n)
             /\ n.mFlags = m.mFlags /\ ~n.pending["video"]
<1> DEFINE c == CancelVideoEvent(m)
           d == CancelEvent(c, "streamDone")
           n == CancelEvent(d, "audioStatus")
<1>1. /\ c \in PlayerType /\ IDHasItem(c) /\ Same(m, c)
      /\ c.mFlags = m.mFlags /\ ~c.pending["video"]
  BY CancelIs, Zenon
<1>2. CancelPlayerEvents(m) = n BY Zenon DEF CancelPlayerEvents
<1> HIDE DEF c
<1>3. "video" # "streamDone" /\ "video" # "audioStatus" OBVIOUS
<1>4. /\ d \in PlayerType /\ IDHasItem(d) /\ Same(c, d)
      /\ d.mFlags = c.mFlags /\ d.pending["video"] = c.pending["video"]
  BY <1>1, <1>3, EventsAre, CancelEventIs, Zenon
<1> HIDE DEF d
<1>5. /\ n \in PlayerType /\ IDHasItem(n) /\ Same(d, n)
      /\ n.mFlags = d.mFlags /\ n.pending["video"] = d.pending["video"]
  BY <1>3, <1>4, EventsAre, CancelEventIs, Zenon
<1> HIDE DEF n
<1> QED BY <1>1, <1>2, <1>4, <1>5, Zenon DEF Same

LEMMA FlagsAre ==
  /\ EOSFlags \in SUBSET Flags
  /\ \A f \in {"PLAYING", "AT_EOS", "AUDIO_AT_EOS", "VIDEO_AT_EOS", "SEEK_PREVIEW",
               "AUDIO_RUNNING", "AUDIOPLAYER_STARTED"} : {f} \in SUBSET Flags
  /\ {"AUDIO_RUNNING", "AUDIOPLAYER_STARTED"} \in SUBSET Flags
BY DEF Flags, EOSFlags

LEMMA PauseIs ==
  ASSUME NEW m \in PlayerType, IDHasItem(m)
  PROVE  /\ Pause_l(m) \in PlayerType /\ IDHasItem(Pause_l(m)) /\ Same(m, Pause_l(m))
         /\ Pause_l(m).mFlags = m.mFlags \ {"AUDIO_RUNNING", "PLAYING"}
         /\ ~Pause_l(m).pending["video"]
<1> DEFINE c == CancelVideoEvent(m)
<1>1. c \in PlayerType /\ IDHasItem(c) /\ Same(m, c) /\ c.mFlags = m.mFlags /\ ~c.pending["video"]
  BY CancelIs
<1> HIDE DEF c
<1> DEFINE n == Clear(c, {"AUDIO_RUNNING", "PLAYING"})
<1>2. Pause_l(m) = n BY Zenon DEF Pause_l, c
<1>3. /\ n \in PlayerType /\ IDHasItem(n) /\ Same(c, n)
      /\ n.mFlags = c.mFlags \ {"AUDIO_RUNNING", "PLAYING"} /\ n.pending = c.pending
  BY <1>1, ClearIs
<1> HIDE DEF n
<1> QED BY <1>1, <1>2, <1>3, Zenon DEF Same

LEMMA SeekToIs ==
  ASSUME NEW m \in PlayerType, IDHasItem(m)
  PROVE  LET n == SeekTo_l(m)
         IN  /\ n \in PlayerType /\ IDHasItem(n) /\ n.mWatchForAudioEOS = m.mWatchForAudioEOS
             /\ n.mFlags = m.mFlags \ {"AUDIO_RUNNING"} /\ ~n.pending["video"]
<1> DEFINE c == CancelVideoEvent(m)
           d == Clear(c, {"AUDIO_RUNNING"})
           n == [d EXCEPT !.mSeeking = TRUE, !.mSeekNotificationSent = FALSE]
<1>1. c \in PlayerType /\ IDHasItem(c) /\ Same(m, c) /\ c.mFlags = m.mFlags /\ ~c.pending["video"]
  BY CancelIs
<1> HIDE DEF c
<1>2. /\ d \in PlayerType /\ IDHasItem(d) /\ Same(c, d)
      /\ d.mFlags = c.mFlags \ {"AUDIO_RUNNING"} /\ d.pending = c.pending
  BY <1>1, ClearIs
<1>3. SeekTo_l(m) = n BY Zenon DEF SeekTo_l, c
<1> HIDE DEF d
<1>4. n \in PlayerType BY <1>2 DEF PlayerType
<1>5. /\ n.mFlags = d.mFlags /\ n.pending = d.pending /\ n.posted = d.posted
      /\ n.id = d.id /\ n.mWatchForAudioEOS = d.mWatchForAudioEOS
  BY <1>2 DEF PlayerType
<1> HIDE DEF n
<1>6. IDHasItem(n) BY <1>2, <1>5, Zenon DEF IDHasItem
<1> QED BY <1>1, <1>2, <1>3, <1>4, <1>5, <1>6, Zenon DEF Same

LEMMA SoughtIs ==
  ASSUME NEW m \in PlayerType, NEW a, a.exists \in BOOLEAN, IDHasItem(m)
  PROVE  LET n == SoughtPlayer(m, a)
         IN  /\ n \in PlayerType /\ IDHasItem(n) /\ n.mFlags = m.mFlags
             /\ n.pending = m.pending /\ n.posted = m.posted
             /\ n.mWatchForAudioEOS => m.mWatchForAudioEOS \/ a.exists
<1>1. CASE ~FinishesSeek(m)
  <2>1. SoughtPlayer(m, a) = m BY <1>1, Zenon DEF SoughtPlayer
  <2> QED BY <2>1, Zenon
<1>2. CASE FinishesSeek(m)
  <2> DEFINE n == [m EXCEPT !.mSeeking = FALSE,
                            !.mWatchForAudioEOS = m.mWatchForAudioEOS \/ a.exists,
                            !.mSeekNotificationSent = m.mSeekNotificationSent \/ ~a.exists]
  <2>1. SoughtPlayer(m, a) = n BY <1>2, Zenon DEF SoughtPlayer
  <2>2. n \in PlayerType BY DEF PlayerType
  <2>3. /\ n.mFlags = m.mFlags /\ n.pending = m.pending /\ n.posted = m.posted
        /\ n.id = m.id /\ n.mWatchForAudioEOS = (m.mWatchForAudioEOS \/ a.exists)
    BY DEF PlayerType
  <2> HIDE DEF n
  <2>4. IDHasItem(n) BY <2>3, Zenon DEF IDHasItem
  <2> QED BY <2>1, <2>2, <2>3, <2>4, Zenon
<1> QED BY <1>1, <1>2

-----------------------------------------------------------------------------
(***************************************************************************)
(* What the calls and steps of the audio player do to it.                  *)
(***************************************************************************)

\* The fields that few steps change.
Stays(a, b) ==
  b \in AudioShape /\ b.exists = a.exists /\ b.mQueueStart = a.mQueueStart /\ b.firing = a.firing

LEMMA RenderersAre ==
  /\ "none" \in Renderer /\ "initial" \in Renderer /\ "playing" \in Renderer
  /\ "paused" \in Renderer /\ "stopped" \in Renderer /\ "null pointer" \in Renderer
BY DEF Renderer

LEMMA NoAudioIs ==
  /\ Audio!NoAudioPlayer \in AudioShape /\ Audio!NewAudioPlayer \in AudioShape
  /\ Audio!NewAudioPlayer.exists /\ ~Audio!NoAudioPlayer.exists
  /\ Audio!NewAudioPlayer.renderer = "none" /\ Audio!NoAudioPlayer.renderer = "none"
  /\ ~Audio!NewAudioPlayer.mQueueStart /\ ~Audio!NoAudioPlayer.mQueueStart
  /\ ~Audio!NewAudioPlayer.firing /\ ~Audio!NoAudioPlayer.firing
  /\ Audio!NoAudioPlayer.posted = 0
<1> DEFINE a == Audio!NoAudioPlayer
           b == Audio!NewAudioPlayer
<1>1. 0 \in Int OBVIOUS
<1>2. a \in AudioShape BY <1>1, RenderersAre, Zenon DEF Audio!NoAudioPlayer, AudioShape
<1>3. b = [a EXCEPT !.exists = TRUE] BY Zenon DEF Audio!NewAudioPlayer
<1>4. /\ ~a.exists /\ a.renderer = "none" /\ ~a.mQueueStart /\ ~a.firing /\ a.posted = 0
  BY DEF Audio!NoAudioPlayer
<1> HIDE DEF a, b
<1>5. b \in AudioShape BY <1>2, <1>3 DEF AudioShape
<1>6. b.exists /\ b.renderer = a.renderer /\ b.mQueueStart = a.mQueueStart /\ b.firing = a.firing
  BY <1>2, <1>3 DEF AudioShape
<1> QED BY <1>2, <1>4, <1>5, <1>6, Zenon DEF a, b

LEMMA PostAudioIs ==
  ASSUME NEW a \in AudioShape
  PROVE  LET b == Audio!postAudioEvent(a) IN Stays(a, b) /\ b.renderer = a.renderer
<1>1. CASE a.mAudioEventPending
  <2>1. Audio!postAudioEvent(a) = a BY <1>1, Zenon DEF Audio!postAudioEvent
  <2> QED BY <2>1, Zenon DEF Stays
<1>2. CASE ~a.mAudioEventPending
  <2> DEFINE n == a.posted + 1
             b == [a EXCEPT !.mAudioEventPending = TRUE, !.posted = n, !.id = TRUE]
  <2>1. Audio!postAudioEvent(a) = b BY <1>2, Zenon DEF Audio!postAudioEvent
  <2>2. n \in Int BY DEF AudioShape
  <2> HIDE DEF n
  <2>3. b \in AudioShape BY <2>2 DEF AudioShape
  <2>4. /\ b.exists = a.exists /\ b.mQueueStart = a.mQueueStart /\ b.firing = a.firing
        /\ b.renderer = a.renderer
    BY DEF AudioShape
  <2> HIDE DEF b
  <2> QED BY <2>1, <2>3, <2>4, Zenon DEF Stays
<1> QED BY <1>1, <1>2

LEMMA CancelAudioIs ==
  ASSUME NEW a \in AudioShape
  PROVE  LET b == Audio!cancelAudioEvent(a)
         IN  Stays(a, b) /\ b.renderer = a.renderer /\ ~b.mAudioEventPending
<1>1. CASE ~a.mAudioEventPending
  <2>1. Audio!cancelAudioEvent(a) = a BY <1>1, Zenon DEF Audio!cancelAudioEvent
  <2> QED BY <1>1, <2>1, Zenon DEF Stays
<1>2. CASE a.mAudioEventPending
  <2> DEFINE n == IF a.id THEN a.posted - 1 ELSE a.posted
  <2>1. Audio!cancelAudioEvent(a) =
          [a EXCEPT !.mAudioEventPending = FALSE, !.posted = n, !.id = FALSE]
    BY <1>2, Zenon DEF Audio!cancelAudioEvent
  <2>2. n \in Int BY DEF AudioShape
  <2> HIDE DEF n
  <2> QED BY <2>1, <2>2 DEF AudioShape, Stays
<1> QED BY <1>1, <1>2

LEMMA PausedIs ==
  ASSUME NEW a \in AudioShape
  PROVE  LET b == Audio!Paused(a)
         IN  Stays(a, b) /\ ~Sounds(b) /\ (b.renderer = "none" => a.renderer = "none")
<1> DEFINE c == Audio!cancelAudioEvent(a)
           b == Audio!Silenced(c)
<1>1. Stays(a, c) /\ c.renderer = a.renderer /\ ~c.mAudioEventPending /\ c \in AudioShape
  BY CancelAudioIs, Zenon DEF Stays
<1> HIDE DEF c
<1>2. Audio!Paused(a) = b BY Zenon DEF Audio!Paused, c
<1>3. b = [c EXCEPT !.renderer = "null pointer"] \/ b = [c EXCEPT !.renderer = "paused"]
        \/ (b = c /\ c.renderer # "playing")
  BY DEF Audio!Silenced
<1>4. b \in AudioShape /\ Stays(c, b) /\ ~b.mAudioEventPending /\ b.renderer # "playing"
  BY <1>1, <1>3, RenderersAre DEF AudioShape, Stays
<1>5. b.renderer = "none" => c.renderer = "none" BY <1>1, <1>3 DEF AudioShape
<1> HIDE DEF b
<1> QED BY <1>1, <1>2, <1>4, <1>5, Zenon DEF Stays, Sounds

LEMMA StoppedIs ==
  ASSUME NEW a \in AudioShape
  PROVE  Stays(a, Audio!Stopped(a)) /\ ~Sounds(Audio!Stopped(a))
<1> DEFINE c == Audio!cancelAudioEvent(a)
           b == [c EXCEPT !.renderer = "none", !.buffers = 0]
<1>1. Stays(a, c) /\ ~c.mAudioEventPending /\ c \in AudioShape
  BY CancelAudioIs, Zenon DEF Stays
<1> HIDE DEF c
<1>2. Audio!Stopped(a) = b BY Zenon DEF Audio!Stopped, c
<1>z. 0 \in Int OBVIOUS
<1>3. b \in AudioShape BY <1>1, <1>z, RenderersAre, Zenon DEF AudioShape
<1>4. /\ b.exists = c.exists /\ b.mQueueStart = c.mQueueStart /\ b.firing = c.firing
      /\ b.mAudioEventPending = c.mAudioEventPending /\ b.renderer = "none"
      /\ b.renderer # "playing"
  BY <1>1 DEF AudioShape
<1> HIDE DEF b
<1> QED BY <1>1, <1>2, <1>3, <1>4, Zenon DEF Stays, Sounds

LEMMA PrefillIs == Audio!Prefill \in Int
BY PlayerAssumption DEF Audio!Prefill

LEMMA StartedIs ==
  ASSUME NEW a \in AudioShape
  PROVE  LET b == Audio!Started(a)
         IN  b \in AudioShape /\ b.exists = a.exists /\ b.firing = a.firing /\ b.mQueueStart
             /\ b.renderer = "initial"
<1> DEFINE c == [a EXCEPT !.renderer = "initial", !.buffers = 0, !.mQueueStart = TRUE,
                          !.mSeeking = FALSE, !.mAudioQueued = Audio!Prefill]
<1>z. 0 \in Int OBVIOUS
<1>0. c \in AudioShape BY <1>z, PrefillIs, RenderersAre, Zenon DEF AudioShape
<1>1. c.exists = a.exists /\ c.firing = a.firing /\ c.mQueueStart /\ c.renderer = "initial"
  BY DEF AudioShape
<1>2. Audio!Started(a) = Audio!postAudioEvent(c) BY Zenon DEF Audio!Started
<1> HIDE DEF c
<1> QED BY <1>0, <1>1, <1>2, PostAudioIs, Zenon DEF Stays

LEMMA StartFailedIs ==
  ASSUME NEW a \in AudioShape
  PROVE  LET b == Audio!StartFailed(a)
         IN  Stays(a, b) /\ b.renderer = "initial" /\ b.mAudioEventPending = a.mAudioEventPending
<1> DEFINE b == [a EXCEPT !.renderer = "initial", !.buffers = 0]
<1>1. 0 \in Int OBVIOUS
<1>2. Audio!StartFailed(a) = b BY Zenon DEF Audio!StartFailed
<1>3. b \in AudioShape BY <1>1, RenderersAre, Zenon DEF AudioShape
<1>4. /\ b.exists = a.exists /\ b.mQueueStart = a.mQueueStart /\ b.firing = a.firing
      /\ b.renderer = "initial" /\ b.mAudioEventPending = a.mAudioEventPending
  BY DEF AudioShape
<1> HIDE DEF b
<1> QED BY <1>2, <1>3, <1>4, Zenon DEF Stays

LEMMA SeekAudioIs ==
  ASSUME NEW a \in AudioShape
  PROVE  Stays(a, Audio!SeekTo(a)) /\ Audio!SeekTo(a).renderer = a.renderer
<1> DEFINE c == [a EXCEPT !.mSeeking = TRUE]
<1>1. c \in AudioShape /\ Stays(a, c) /\ c.renderer = a.renderer BY DEF AudioShape, Stays
<1>2. Audio!SeekTo(a) = Audio!postAudioEvent(c) BY Zenon DEF Audio!SeekTo
<1> HIDE DEF c
<1> QED BY <1>1, <1>2, PostAudioIs, Zenon DEF Stays

LEMMA FireIs ==
  ASSUME NEW a \in AudioShape
  PROVE  LET b == Audio!Fire(a)
         IN  /\ b \in AudioShape /\ b.exists = a.exists /\ b.mQueueStart = a.mQueueStart
             /\ b.renderer = a.renderer /\ b.mAudioEventPending = a.mAudioEventPending
<1> DEFINE n == a.posted - 1
           b == [a EXCEPT !.firing = TRUE, !.posted = n, !.id = FALSE]
<1>1. Audio!Fire(a) = b BY Zenon DEF Audio!Fire
<1>2. n \in Int BY DEF AudioShape
<1> HIDE DEF n
<1>3. b \in AudioShape BY <1>2 DEF AudioShape
<1>4. /\ b.exists = a.exists /\ b.mQueueStart = a.mQueueStart
      /\ b.renderer = a.renderer /\ b.mAudioEventPending = a.mAudioEventPending
  BY DEF AudioShape
<1> HIDE DEF b
<1> QED BY <1>1, <1>3, <1>4, Zenon

\* However the handler reads, it has a device afterwards if it had one.
LEMMA HandledIs ==
  ASSUME NEW a \in AudioShape, NEW r \in Audio!Results
  PROVE  LET b == Audio!Handled(Audio!Begun(a), r)
         IN  /\ b \in AudioShape /\ b.exists = a.exists /\ b.mQueueStart = a.mQueueStart
             /\ ~b.firing /\ (b.renderer = "none" => a.renderer = "none")
<1> DEFINE c == [a EXCEPT !.firing = FALSE, !.mAudioEventPending = FALSE]
           d == Audio!FlushALContext(c)
           e == Audio!AfterRead(d, r)
           b == IF e.mAudioQueued = 0 /\ ~e.mSeeking THEN Audio!Play(e) ELSE e
           Good(x) == /\ x \in AudioShape /\ x.exists = a.exists /\ x.mQueueStart = a.mQueueStart
                      /\ ~x.firing /\ (x.renderer = "none" => a.renderer = "none")
<1>z. 0 \in Int /\ 1 \in Int OBVIOUS
<1>1. Good(c) BY DEF AudioShape
<1> HIDE DEF c
<1>2. Good(d)
  <2>1. CASE ~c.mSeeking
    <3>1. d = c BY <2>1, Zenon DEF Audio!FlushALContext
    <3> QED BY <1>1, <3>1, Zenon
  <2>2. CASE c.mSeeking
    <3> DEFINE x == [c EXCEPT !.renderer = "initial", !.buffers = 0,
                              !.mAudioQueued = Audio!Prefill]
    <3>1. d = x BY <2>2, Zenon DEF Audio!FlushALContext
    <3>2. x \in AudioShape BY <1>1, <1>z, PrefillIs, RenderersAre, Zenon DEF AudioShape
    <3>3. /\ x.exists = c.exists /\ x.mQueueStart = c.mQueueStart /\ x.firing = c.firing
          /\ x.renderer # "none"
      BY <1>1 DEF AudioShape
    <3> HIDE DEF x
    <3> QED BY <1>1, <3>1, <3>2, <3>3, Zenon
  <2> QED BY <2>1, <2>2
<1> HIDE DEF d
<1>3. ASSUME NEW x \in AudioShape, Good(x) PROVE Good(Audio!postAudioEvent(x))
  BY <1>3, PostAudioIs, Zenon DEF Stays
<1>4. Good(e)
  <2>1. CASE r = "ok"
    <3> DEFINE n == d.buffers + 1
               q == IF d.mAudioQueued > 0 THEN d.mAudioQueued - 1 ELSE 0
               x == [d EXCEPT !.buffers = n, !.mAudioQueued = q]
    <3>1. e = Audio!postAudioEvent(x) BY <2>1 DEF Audio!AfterRead
    <3>2. d.buffers \in Int /\ d.mAudioQueued \in Int BY <1>2 DEF AudioShape
    <3>3. n \in Int /\ q \in Int BY <3>2
    <3> HIDE DEF n, q
    <3>4. x \in AudioShape BY <1>2, <3>3 DEF AudioShape
    <3>5. /\ x.exists = d.exists /\ x.mQueueStart = d.mQueueStart /\ x.firing = d.firing
          /\ x.renderer = d.renderer
      BY <1>2 DEF AudioShape
    <3> HIDE DEF x
    <3> QED BY <1>2, <1>3, <3>1, <3>4, <3>5, Zenon
  <2>2. CASE r = "discontinuity"
    <3> DEFINE x == [d EXCEPT !.mSeeking = FALSE]
    <3>1. e = Audio!postAudioEvent(x) BY <2>2 DEF Audio!AfterRead
    <3>2. Good(x) BY <1>2 DEF AudioShape
    <3> HIDE DEF x
    <3> QED BY <1>3, <3>1, <3>2, Zenon
  <2>3. CASE r = "end"
    <3> DEFINE x == [d EXCEPT !.mFinalStatus = TRUE]
    <3>1. e = x BY <2>3 DEF Audio!AfterRead
    <3>2. Good(x) BY <1>2 DEF AudioShape
    <3> HIDE DEF x
    <3> QED BY <3>1, <3>2, Zenon
  <2>4. CASE r \in {"full", "retry"}
    <3>1. e = Audio!postAudioEvent(d) BY <2>4 DEF Audio!AfterRead
    <3> QED BY <1>2, <1>3, <3>1, Zenon
  <2> QED BY <2>1, <2>2, <2>3, <2>4 DEF Audio!Results
<1> HIDE DEF e
<1>5. Good(Audio!Play(e))
  <2>1. CASE e.renderer = "stopped"
    <3> DEFINE x == [e EXCEPT !.renderer = "initial", !.buffers = 0]
    <3>1. Audio!Play(e) = x BY <2>1 DEF Audio!Play
    <3>2. x \in AudioShape BY <1>4, <1>z, RenderersAre, Zenon DEF AudioShape
    <3>3. /\ x.exists = e.exists /\ x.mQueueStart = e.mQueueStart /\ x.firing = e.firing
          /\ x.renderer # "none"
      BY <1>4 DEF AudioShape
    <3> HIDE DEF x
    <3> QED BY <1>4, <3>1, <3>2, <3>3, Zenon
  <2>2. CASE e.renderer # "stopped"
    <3> DEFINE x == [e EXCEPT !.renderer = IF e.buffers = 0 THEN "stopped" ELSE "playing"]
    <3>1. Audio!Play(e) = x BY <2>2 DEF Audio!Play
    <3>2. x \in AudioShape BY <1>4, RenderersAre, Zenon DEF AudioShape
    <3>3. /\ x.exists = e.exists /\ x.mQueueStart = e.mQueueStart /\ x.firing = e.firing
          /\ x.renderer # "none"
      BY <1>4 DEF AudioShape
    <3> HIDE DEF x
    <3> QED BY <1>4, <3>1, <3>2, <3>3, Zenon
  <2> QED BY <2>1, <2>2
<1>6. Audio!Handled(Audio!Begun(a), r) = b BY Zenon DEF Audio!Handled, Audio!Begun, c, d, e
<1>7. Good(b)
  <2>1. CASE e.mAudioQueued = 0 /\ ~e.mSeeking BY <1>5, <2>1, Zenon
  <2>2. CASE ~(e.mAudioQueued = 0 /\ ~e.mSeeking) BY <1>4, <2>2, Zenon
  <2> QED BY <2>1, <2>2
<1> HIDE DEF b
<1> QED BY <1>6, <1>7, Zenon

LEMMA DrainedIs ==
  ASSUME NEW a \in AudioShape, a.renderer = "playing"
  PROVE  LET b == Audio!Drained(a)
         IN  Stays(a, b) /\ b.mAudioEventPending = a.mAudioEventPending /\ b.renderer # "none"
<1>z. 0 \in Int OBVIOUS
<1>1. CASE a.buffers > 1
  <2> DEFINE n == a.buffers - 1
             b == [a EXCEPT !.buffers = n]
  <2>1. Audio!Drained(a) = b BY <1>1 DEF Audio!Drained
  <2>2. n \in Int BY DEF AudioShape
  <2> HIDE DEF n
  <2>3. b \in AudioShape BY <2>2 DEF AudioShape
  <2>4. /\ b.exists = a.exists /\ b.mQueueStart = a.mQueueStart /\ b.firing = a.firing
        /\ b.renderer = a.renderer /\ b.mAudioEventPending = a.mAudioEventPending
    BY DEF AudioShape
  <2>5. b.renderer # "none" BY <2>4
  <2> HIDE DEF b
  <2> QED BY <2>1, <2>3, <2>4, <2>5, Zenon DEF Stays
<1>2. CASE ~(a.buffers > 1)
  <2> DEFINE b == [a EXCEPT !.buffers = 0, !.renderer = "stopped"]
  <2>1. Audio!Drained(a) = b BY <1>2, Zenon DEF Audio!Drained
  <2>2. b \in AudioShape BY <1>z, RenderersAre, Zenon DEF AudioShape
  <2>3. /\ b.exists = a.exists /\ b.mQueueStart = a.mQueueStart /\ b.firing = a.firing
        /\ b.renderer # "none" /\ b.mAudioEventPending = a.mAudioEventPending
    BY DEF AudioShape
  <2> HIDE DEF b
  <2> QED BY <2>1, <2>2, <2>3, Zenon DEF Stays
<1> QED BY <1>1, <1>2

-----------------------------------------------------------------------------
(***************************************************************************)
(* Starting the audio player, which changes both.                          *)
(***************************************************************************)

\* Nothing but the flags of the audio, and what is watched, is changed.
OnlyAudio(m, n) ==
  /\ n \in PlayerType /\ IDHasItem(n) /\ n.pending = m.pending /\ n.posted = m.posted
  /\ n.mSeeking = m.mSeeking
  /\ m.mFlags \subseteq n.mFlags
  /\ n.mFlags \subseteq m.mFlags \cup {"AUDIO_RUNNING", "AUDIOPLAYER_STARTED"}

LEMMA StartIs ==
  ASSUME NEW m \in PlayerType, NEW a \in AudioShape, IDHasItem(m),
         StartedQueue(m.mFlags, a), "PLAYING" \in m.mFlags,
         a.exists \/ RunsBy(m.mFlags, a),
         NEW s \in StartAudioPlayer_l(m, a)
  PROVE  /\ OnlyAudio(m, s.mp) /\ s.audio \in AudioShape /\ s.audio.exists = a.exists
         /\ RunsBy(s.mp.mFlags, s.audio) /\ s.ok \in BOOLEAN
         /\ s.mp.mWatchForAudioEOS =>
              m.mWatchForAudioEOS \/ (a.exists /\ "AUDIOPLAYER_STARTED" \in s.mp.mFlags)
         /\ s.ok /\ a.exists => "AUDIO_RUNNING" \in s.mp.mFlags
         /\ ~s.ok => /\ s.mp = m /\ s.audio.renderer = "initial"
                     /\ "AUDIOPLAYER_STARTED" \notin m.mFlags
<1> DEFINE f == {"AUDIO_RUNNING", "AUDIOPLAYER_STARTED"}
           c == Set(m, f)
           running == [c EXCEPT !.mWatchForAudioEOS = TRUE]
<1>1. /\ c \in PlayerType /\ IDHasItem(c) /\ Same(m, c) /\ c.mFlags = m.mFlags \cup f
      /\ c.pending = m.pending /\ c.posted = m.posted
  BY SetIs, FlagsAre
<1>2. /\ running \in PlayerType /\ running.mFlags = m.mFlags \cup f
      /\ running.pending = m.pending /\ running.posted = m.posted
      /\ running.mSeeking = m.mSeeking /\ running.id = c.id
  <2> HIDE DEF c
  <2> QED BY <1>1 DEF PlayerType, Same
<1>3. OnlyAudio(m, running)
  <2>1. IDHasItem(running) BY <1>1, <1>2, Zenon DEF IDHasItem
  <2> HIDE DEF running
  <2> QED BY <1>2, <2>1 DEF OnlyAudio
<1>4. OnlyAudio(m, m) BY DEF OnlyAudio
<1>5. CASE ~a.exists
  <2>1. s = [mp |-> m, audio |-> a, ok |-> TRUE] BY <1>5 DEF StartAudioPlayer_l
  <2>2. s.mp = m /\ s.audio = a /\ s.ok = TRUE BY <2>1
  <2> QED BY <1>4, <1>5, <2>2, Zenon
<1>6. CASE a.exists /\ "AUDIOPLAYER_STARTED" \in m.mFlags
  <2> DEFINE b == Audio!Resumed(a)
  <2>1. s = [mp |-> running, audio |-> b, ok |-> TRUE] BY <1>6 DEF StartAudioPlayer_l
  <2>2. s.mp = running /\ s.audio = b /\ s.ok = TRUE BY <2>1
  <2>3. Stays(a, b) BY PostAudioIs, Zenon DEF Audio!Resumed
  <2> HIDE DEF b, running
  <2>4. {"PLAYING", "AUDIO_RUNNING", "AUDIOPLAYER_STARTED"} \subseteq running.mFlags
    BY <1>2
  <2>5. RunsBy(running.mFlags, b) BY <2>3, <2>4 DEF RunsBy, StartedQueue, Stays
  <2> QED BY <1>3, <1>6, <2>2, <2>3, <2>4, <2>5 DEF Stays
<1>7. CASE a.exists /\ "AUDIOPLAYER_STARTED" \notin m.mFlags
  <2> DEFINE b == Audio!Started(a)
             d == Audio!StartFailed(a)
  <2>1. s = [mp |-> running, audio |-> b, ok |-> TRUE] \/ s = [mp |-> m, audio |-> d, ok |-> FALSE]
    BY <1>7 DEF StartAudioPlayer_l
  <2>2. CASE s = [mp |-> running, audio |-> b, ok |-> TRUE]
    <3>2. s.mp = running /\ s.audio = b /\ s.ok = TRUE BY <2>2
    <3>3. b \in AudioShape /\ b.exists = a.exists /\ b.mQueueStart BY StartedIs
    <3> HIDE DEF b, running
    <3>4. {"PLAYING", "AUDIO_RUNNING", "AUDIOPLAYER_STARTED"} \subseteq running.mFlags
      BY <1>2
    <3>5. RunsBy(running.mFlags, b) BY <3>3, <3>4 DEF RunsBy, StartedQueue
    <3> QED BY <1>3, <1>7, <3>2, <3>3, <3>4, <3>5
  <2>3. CASE s = [mp |-> m, audio |-> d, ok |-> FALSE]
    <3>2. s.mp = m /\ s.audio = d /\ s.ok = FALSE BY <2>3
    <3>3. Stays(a, d) /\ d.renderer = "initial" BY StartFailedIs
    <3>4. ~a.mQueueStart BY <1>7 DEF StartedQueue
    <3> HIDE DEF d
    <3>5. RunsBy(m.mFlags, d) BY <3>3, <3>4 DEF RunsBy, StartedQueue, Stays, Sounds
    <3> QED BY <1>4, <1>7, <3>2, <3>3, <3>5, Zenon DEF Stays
  <2> QED BY <2>1, <2>2, <2>3
<1> QED BY <1>5, <1>6, <1>7

\* The video starts it unless it runs or a frame is only previewed.
LEMMA WithStartedIs ==
  ASSUME NEW m \in PlayerType, NEW a \in AudioShape, IDHasItem(m),
         StartedQueue(m.mFlags, a), m.mFlags \cap {"PLAYING", "SEEK_PREVIEW"} # {},
         (a.exists /\ "SEEK_PREVIEW" \notin m.mFlags) \/ RunsBy(m.mFlags, a),
         NEW s \in WithAudioStarted(m, a)
  PROVE  /\ OnlyAudio(m, s.mp) /\ s.audio \in AudioShape /\ s.audio.exists = a.exists
         /\ RunsBy(s.mp.mFlags, s.audio) /\ s.ok \in BOOLEAN
         /\ s.mp.mWatchForAudioEOS => m.mWatchForAudioEOS \/ a.exists
         /\ s.ok /\ a.exists /\ "SEEK_PREVIEW" \notin m.mFlags =>
              {"PLAYING", "AUDIO_RUNNING"} \subseteq s.mp.mFlags
         /\ ~s.ok => /\ s.mp = m /\ s.audio.renderer = "initial"
                     /\ "AUDIOPLAYER_STARTED" \notin m.mFlags
<1>1. CASE m.mFlags \cap {"AUDIO_RUNNING", "SEEK_PREVIEW"} = {}
  <2>1. s \in StartAudioPlayer_l(m, a) BY <1>1, Zenon DEF WithAudioStarted
  <2>2. "PLAYING" \in m.mFlags BY <1>1
  <2>3. a.exists \/ RunsBy(m.mFlags, a) OBVIOUS
  <2>4. "PLAYING" \in s.mp.mFlags BY <2>1, <2>2, <2>3, StartIs DEF OnlyAudio
  <2>5. s.ok /\ a.exists => {"PLAYING", "AUDIO_RUNNING"} \subseteq s.mp.mFlags
    BY <2>1, <2>2, <2>3, <2>4, StartIs
  <2> QED BY <2>1, <2>2, <2>3, <2>5, StartIs, Zenon
<1>2. CASE m.mFlags \cap {"AUDIO_RUNNING", "SEEK_PREVIEW"} # {}
  <2>1. s = [mp |-> m, audio |-> a, ok |-> TRUE] BY <1>2 DEF WithAudioStarted
  <2>2. s.mp = m /\ s.audio = a /\ s.ok = TRUE BY <2>1
  <2>3. OnlyAudio(m, m) BY DEF OnlyAudio
  <2>4. "SEEK_PREVIEW" \notin m.mFlags => {"PLAYING", "AUDIO_RUNNING"} \subseteq m.mFlags
    BY <1>2
  <2>5. RunsBy(m.mFlags, a)
    BY <2>4 DEF RunsBy
  <2> QED BY <2>2, <2>3, <2>4, <2>5, Zenon
<1> QED BY <1>1, <1>2

\* A seek is finished on an audio player that will be heard again.
LEMMA SoughtAudioIs ==
  ASSUME NEW m, NEW a \in AudioShape
  PROVE  LET b == SoughtAudio(m, a)
         IN  /\ Stays(a, b) /\ b.renderer = a.renderer
             /\ b = a \/ (a.exists /\ "SEEK_PREVIEW" \notin m.mFlags)
<1>1. CASE FinishesSeek(m) /\ a.exists
  <2>1. SoughtAudio(m, a) = Audio!SeekTo(a) BY <1>1, Zenon DEF SoughtAudio
  <2> QED BY <1>1, <2>1, SeekAudioIs, Zenon DEF FinishesSeek
<1>2. CASE ~(FinishesSeek(m) /\ a.exists)
  <2>1. SoughtAudio(m, a) = a BY <1>2, Zenon DEF SoughtAudio
  <2> QED BY <2>1, Zenon DEF Stays
<1> QED BY <1>1, <1>2

-----------------------------------------------------------------------------
(***************************************************************************)
(* Every step keeps the invariant.                                         *)
(***************************************************************************)

LEMMA Facts ==
  ASSUME PlayerInv
  PROVE  /\ mp \in PlayerType /\ IDHasItem(mp) /\ audio \in AudioShape /\ flash \in BOOLEAN
         /\ media \in Medias /\ RunsBy(mp.mFlags, audio)
         /\ app.pc \in {"idle", "seek", "joinAudio", "joinExtractor"}
         /\ ev \in Events \cup {"idle", "read", "status"}
         /\ asks \in BOOLEAN /\ waits \in {"none", "app", "ev"}
         /\ calls \in 0 .. MaxCalls
BY DEF PlayerInv, Types, TypeOK, PlayerType, VideoIsComing, AudioIsRun

\* Steps of the extractor without P.
LEMMA ExtractorKeeps ==
  ASSUME PlayerInv, ExtractorBegins \/ ExtractorEnds \/ ExtractorSeeks \/ FinishSeek
  PROVE  PlayerInv'
<1>1. /\ UNCHANGED <<mp, media, audio, app, ev, asks, waits, calls>>
      /\ ext'.mSeekTimeUs = ext.mSeekTimeUs
  <2>1. ext \in [pc : {"idle", "posted", "ending", "seek", "sought", "callback"},
                target : Targets \cup {NoSeek, Start0},
                mSeekTimeUs : Targets \cup {NoSeek, Start0}, mReachedEnd : BOOLEAN]
    BY DEF PlayerInv, Types, TypeOK
  <2> QED BY <2>1 DEF ExtractorBegins, ExtractorEnds, ExtractorSeeks, FinishSeek, locks
<1>2. Types /\ TypeOK BY DEF PlayerInv, Types
<1>3. /\ ext' \in [pc : {"idle", "posted", "ending", "seek", "sought", "callback"},
                   target : Targets \cup {NoSeek, Start0},
                   mSeekTimeUs : Targets \cup {NoSeek, Start0}, mReachedEnd : BOOLEAN]
      /\ flash' \in BOOLEAN
  <2>1. CASE ExtractorBegins BY <1>2, <2>1 DEF ExtractorBegins, Types, TypeOK
  <2>2. CASE ExtractorEnds BY <1>2, <2>2 DEF ExtractorEnds, Types, TypeOK
  <2>3. CASE ExtractorSeeks BY <1>2, <2>3 DEF ExtractorSeeks, Types, TypeOK
  <2>4. CASE FinishSeek BY <1>2, <2>4 DEF FinishSeek, Types, TypeOK
  <2> QED BY <2>1, <2>2, <2>3, <2>4
<1>4. Types' BY <1>1, <1>2, <1>3 DEF Types, TypeOK
<1> QED
  BY <1>1, <1>4 DEF PlayerInv, VideoIsComing, POwnedOnce, VideoIsWanted, VideoGoesRound, Starting,
                    SeekUnderWay, AudioIsRun, AudioIsThere, CallUnderWay, PlaysFromTheStart

LEMMA FireKeeps ==
  ASSUME PlayerInv, NEW e \in Events, Fire(e)
  PROVE  PlayerInv'
<1> DEFINE p == [mp.posted EXCEPT ![e] = mp.posted[e] - 1]
           i == [mp.id EXCEPT ![e] = FALSE]
<1>1. /\ ev = "idle" /\ mp.posted[e] > 0 /\ ev' = e
      /\ mp' = [mp EXCEPT !.posted = p, !.id = i]
      /\ UNCHANGED <<media, audio, flash, app, ext, asks, waits, calls>>
  BY Facts DEF Fire, locks, PlayerType
<1>2. mp \in PlayerType /\ IDHasItem(mp) BY Facts
<1>3. /\ p \in [Events -> Nat] /\ i \in [Events -> BOOLEAN] /\ ~i[e]
      /\ \A f \in Events : f # e => p[f] = mp.posted[f] /\ i[f] = mp.id[f]
  BY <1>1, <1>2 DEF PlayerType
<1> HIDE DEF p, i
<1>4. /\ mp' \in PlayerType /\ mp'.mFlags = mp.mFlags /\ mp'.pending = mp.pending
      /\ mp'.mWatchForAudioEOS = mp.mWatchForAudioEOS /\ mp'.posted = p /\ mp'.id = i
  BY <1>1, <1>2, <1>3 DEF PlayerType
<1>5. Types' BY <1>1, <1>4 DEF PlayerInv, Types, TypeOK, PlayerType
<1>6. VideoIsComing'
  <2>1. IDHasItem(mp') BY <1>2, <1>3, <1>4, Zenon DEF IDHasItem
  <2>2. mp.pending["video"] => mp'.posted["video"] > 0 \/ ev' = "video"
    BY <1>1, <1>3, <1>4, EventsAre, Zenon DEF PlayerInv, VideoIsComing
  <2> QED BY <1>4, <2>1, <2>2, Zenon DEF VideoIsComing
<1> QED
  BY <1>1, <1>4, <1>5, <1>6, EventsAre
  DEF Events, PlayerInv, POwnedOnce, VideoIsWanted, VideoGoesRound, Starting, SeekUnderWay,
      AudioIsRun, AudioIsThere, CallUnderWay, PlaysFromTheStart

LEMMA WaitKeeps ==
  ASSUME PlayerInv, NEW thread \in {"app", "ev"}, WaitForAudio(thread)
  PROVE  PlayerInv'
<1>1. /\ app.pc \notin {"seek", "joinAudio", "joinExtractor"} /\ ev # "read" /\ waits' = thread
      /\ UNCHANGED <<mp, media, audio, flash, app, ev, ext, asks, calls>>
  BY DEF WaitForAudio, PFree
<1>2. app.pc = "idle" BY <1>1, Facts
<1>3. Types' BY <1>1 DEF PlayerInv, Types, TypeOK
<1> QED
  BY <1>1, <1>2, <1>3
  DEF PlayerInv, VideoIsComing, POwnedOnce, VideoIsWanted, VideoGoesRound, Starting, SeekUnderWay,
      AudioIsRun, AudioIsThere, CallUnderWay, PlaysFromTheStart

\* The audio thread posts to the player without its lock, and to the extractor.
LEMMA PostExtractorIs ==
  ASSUME PlayerInv
  PROVE  LET x == PostExtractor(ext)
         IN  x.mSeekTimeUs = ext.mSeekTimeUs
             /\ x \in [pc : {"idle", "posted", "ending", "seek", "sought", "callback"},
                       target : Targets \cup {NoSeek, Start0},
                       mSeekTimeUs : Targets \cup {NoSeek, Start0}, mReachedEnd : BOOLEAN]
BY DEF PostExtractor, PlayerInv, Types, TypeOK

LEMMA AudioKeeps ==
  ASSUME PlayerInv, AudioStep \/ Drain
  PROVE  PlayerInv'
<1>0. /\ mp \in PlayerType /\ audio \in AudioShape /\ IDHasItem(mp) /\ RunsBy(mp.mFlags, audio)
      /\ flash \in BOOLEAN
  BY Facts
<1> DEFINE Rest ==
             /\ UNCHANGED <<media, app, ev, waits, calls>> /\ ext'.mSeekTimeUs = ext.mSeekTimeUs
             /\ mp'.mFlags = mp.mFlags /\ (mp'.pending["video"] <=> mp.pending["video"])
             /\ mp'.mWatchForAudioEOS = mp.mWatchForAudioEOS /\ IDHasItem(mp')
             /\ mp.posted["video"] > 0 => mp'.posted["video"] > 0
             /\ audio'.exists = audio.exists /\ audio'.mQueueStart = audio.mQueueStart
             /\ audio'.renderer = "none" => audio.renderer = "none"
             /\ RunsBy(mp'.mFlags, audio')
             /\ app.pc = "joinExtractor" => audio' = audio
             /\ Types'
<1>1. Rest => PlayerInv'
  <2> SUFFICES ASSUME Rest PROVE PlayerInv' OBVIOUS
  <2> USE DEF PlayerInv, POwnedOnce
  <2>1. VideoIsComing' BY DEF VideoIsComing
  <2>2. VideoIsWanted' BY DEF VideoIsWanted
  <2>3. VideoGoesRound' BY DEF VideoGoesRound, Starting, SeekUnderWay
  <2>4. AudioIsRun' BY DEF AudioIsRun
  <2>5. AudioIsThere' BY DEF AudioIsThere
  <2>6. CallUnderWay' BY DEF CallUnderWay
  <2>7. PlaysFromTheStart' BY DEF PlaysFromTheStart, SeekUnderWay
  <2> QED BY <2>1, <2>2, <2>3, <2>4, <2>5, <2>6, <2>7
<1>z. app.pc = "joinExtractor" =>
        /\ audio.posted = 0 /\ ~audio.firing /\ audio.renderer = "none"
  BY NoAudioIs DEF PlayerInv, AudioIsThere
<1>2. CASE FireAudioEvent
  <2>1. /\ UNCHANGED <<mp, media, app, ev, ext, asks, waits, calls, flash>>
        /\ audio' = Audio!Fire(audio) /\ audio.mQueueStart /\ audio.posted > 0
    BY <1>2 DEF FireAudioEvent, Audio!FireAudioEvent, Audio!CanFire, locks
  <2>2. /\ audio' \in AudioShape /\ audio'.exists = audio.exists
        /\ audio'.mQueueStart = audio.mQueueStart /\ audio'.renderer = audio.renderer
        /\ audio'.mAudioEventPending = audio.mAudioEventPending
    BY <1>0, <2>1, FireIs
  <2>3. RunsBy(mp'.mFlags, audio') BY <1>0, <2>1, <2>2 DEF RunsBy, StartedQueue, Sounds
  <2>4. Types' BY <2>1, <2>2 DEF PlayerInv, Types, TypeOK
  <2> QED BY <1>0, <1>1, <1>z, <2>1, <2>2, <2>3, <2>4
<1>3. CASE AudioCancelled
  <2>1. /\ UNCHANGED <<mp, media, app, ev, ext, asks, waits, calls, flash>>
        /\ audio' = [audio EXCEPT !.firing = FALSE] /\ audio.firing
    BY <1>3 DEF AudioCancelled, Audio!HandleCancelled, locks
  <2>2. /\ audio' \in AudioShape /\ audio'.exists = audio.exists /\ ~audio'.firing
        /\ audio'.mQueueStart = audio.mQueueStart /\ audio'.renderer = audio.renderer
        /\ audio'.mAudioEventPending = audio.mAudioEventPending
    BY <1>0, <2>1 DEF AudioShape
  <2>3. RunsBy(mp'.mFlags, audio') BY <1>0, <2>1, <2>2 DEF RunsBy, StartedQueue, Sounds
  <2>4. Types' BY <2>1, <2>2 DEF PlayerInv, Types, TypeOK
  <2> QED BY <1>0, <1>1, <1>z, <2>1, <2>2, <2>3, <2>4
<1>4. CASE Drain
  <2>1. /\ UNCHANGED <<mp, media, app, ev, ext, asks, waits, calls, flash>>
        /\ audio' = Audio!Drained(audio) /\ audio.renderer = "playing"
    BY <1>4 DEF Drain, Audio!Drain, locks
  <2>2. /\ Stays(audio, audio') /\ audio'.renderer # "none"
        /\ audio'.mAudioEventPending = audio.mAudioEventPending
    BY <1>0, <2>1, DrainedIs
  <2>3. RunsBy(mp'.mFlags, audio') BY <1>0, <2>1, <2>2 DEF RunsBy, StartedQueue, Sounds, Stays
  <2>4. Types' BY <2>1, <2>2 DEF PlayerInv, Types, TypeOK, Stays
  <2> QED BY <1>0, <1>1, <1>z, <2>1, <2>2, <2>3, <2>4 DEF Stays
<1>5. CASE AudioAsks
  <2>1. /\ UNCHANGED <<mp, media, audio, flash, app, ev, ext, waits, calls>> /\ asks' = TRUE
    BY <1>5 DEF AudioAsks
  <2>2. Types' BY <2>1 DEF PlayerInv, Types, TypeOK
  <2> QED BY <1>0, <1>1, <2>1, <2>2
<1>6. ASSUME NEW r \in Audio!Results, OnAudioEvent(r) PROVE PlayerInv'
  <2>1. /\ audio.firing /\ audio.mAudioEventPending
        /\ audio' = Audio!Handled(Audio!Begun(audio), r)
        /\ flash' = (flash /\ r # "discontinuity")
        /\ UNCHANGED <<media, app, ev, waits, calls>> /\ asks' = FALSE
    BY <1>6, Zenon DEF OnAudioEvent, Audio!OnAudioEvent
  <2>2. mp' \in {mp, Post(mp, "audioStatus")} /\ ext' \in {ext, PostExtractor(ext)}
    BY <1>6 DEF OnAudioEvent
  <2>3. /\ audio' \in AudioShape /\ audio'.exists = audio.exists
        /\ audio'.mQueueStart = audio.mQueueStart /\ ~audio'.firing
        /\ audio'.renderer = "none" => audio.renderer = "none"
    BY <1>0, <2>1, HandledIs
  <2>4. /\ mp' \in PlayerType /\ IDHasItem(mp') /\ mp'.mFlags = mp.mFlags
        /\ (mp'.pending["video"] <=> mp.pending["video"])
        /\ mp'.mWatchForAudioEOS = mp.mWatchForAudioEOS
        /\ mp.posted["video"] > 0 => mp'.posted["video"] > 0
    BY <1>0, <2>2, PostIs, EventsAre DEF Same
  <2>5. RunsBy(mp'.mFlags, audio')
    <3>1. audio.mQueueStart /\ {"PLAYING", "AUDIO_RUNNING"} \subseteq mp.mFlags
      BY <1>0, <2>1 DEF RunsBy, StartedQueue, Sounds
    <3> QED BY <1>0, <2>3, <2>4, <3>1 DEF RunsBy, StartedQueue
  <2>6. ext'.mSeekTimeUs = ext.mSeekTimeUs BY <2>2, PostExtractorIs
  <2>7. Types'
    BY <1>0, <2>1, <2>2, <2>3, <2>4, PostExtractorIs DEF PlayerInv, Types, TypeOK, PlayerType
  <2> QED BY <1>1, <1>z, <2>1, <2>3, <2>4, <2>5, <2>6, <2>7
<1> QED BY <1>2, <1>3, <1>4, <1>5, <1>6 DEF AudioStep

-----------------------------------------------------------------------------
(***************************************************************************)
(* The handlers of the player's events.                                    *)
(***************************************************************************)

\* With P nobody else has it.
LEMMA LocksAre ==
  ASSUME PlayerInv, NEW thread, HasLocks(thread)
  PROVE  /\ waits' = "none" /\ asks' = asks /\ asks' \in BOOLEAN
         /\ thread \in {"app", "ev"} => app.pc = "idle" /\ ev # "read"
<1>1. waits' = "none" /\ asks' = asks /\ (PFree \/ waits = thread) BY DEF HasLocks
<1>2. PFree => app.pc = "idle" /\ ev # "read" BY Facts DEF PFree
<1> QED BY <1>1, <1>2, Facts DEF PlayerInv, POwnedOnce

LEMMA VideoFieldsAre ==
  ASSUME PlayerInv
  PROVE  LET m == VideoFields
         IN  /\ m \in PlayerType /\ IDHasItem(m) /\ Same(mp, m) /\ m.mFlags = mp.mFlags
             /\ ~m.pending["video"] /\ m.posted = mp.posted
<1> DEFINE p == [mp.pending EXCEPT !["video"] = FALSE]
           m == [mp EXCEPT !.pending = p, !.mVideoBuffer = mp.mVideoBuffer /\ ~mp.mSeeking]
<1>1. mp \in PlayerType /\ IDHasItem(mp) BY Facts
<1>2. VideoFields = m BY <1>1 DEF VideoFields, PlayerType
<1>3. p \in [Events -> BOOLEAN] /\ ~p["video"] BY <1>1, EventsAre DEF PlayerType
<1> HIDE DEF p
<1>4. m \in PlayerType BY <1>1, <1>3 DEF PlayerType
<1>5. /\ m.pending = p /\ m.posted = mp.posted /\ m.id = mp.id
      /\ m.mFlags = mp.mFlags /\ Same(mp, m)
  BY <1>1 DEF PlayerType, Same
<1> HIDE DEF m
<1> QED BY <1>1, <1>2, <1>3, <1>4, <1>5, Zenon DEF IDHasItem

LEMMA CancelledKeeps ==
  ASSUME PlayerInv, EventCancelled
  PROVE  PlayerInv'
<1>1. /\ ev \in Events /\ ~mp.pending[ev] /\ ev' = "idle"
      /\ UNCHANGED <<mp, media, audio, flash, app, ext, asks, waits, calls>>
  BY DEF EventCancelled, locks
<1>2. Types' BY <1>1 DEF PlayerInv, Types, TypeOK
<1> QED
  BY <1>1, <1>2
  DEF Events, PlayerInv, VideoIsComing, POwnedOnce, VideoIsWanted, VideoGoesRound, Starting,
      SeekUnderWay, AudioIsRun, AudioIsThere, CallUnderWay, PlaysFromTheStart

LEMMA VideoAgainKeeps ==
  ASSUME PlayerInv, VideoAgain
  PROVE  PlayerInv'
<1> DEFINE m == VideoFields
<1>1. /\ ev = "video" /\ mp.pending["video"] /\ ev' = "idle" /\ mp' = Post(m, "video")
      /\ app.pc \notin {"seek", "joinAudio", "joinExtractor"}
      /\ UNCHANGED <<media, audio, flash, app, ext, asks, waits, calls>>
  BY DEF VideoAgain, OnVideoEvent, PFree, locks
<1>2. /\ m \in PlayerType /\ IDHasItem(m) /\ Same(mp, m) /\ m.mFlags = mp.mFlags
      /\ ~m.pending["video"]
  BY VideoFieldsAre
<1> HIDE DEF m
<1>3. /\ mp' \in PlayerType /\ IDHasItem(mp') /\ Same(mp, mp') /\ mp'.mFlags = mp.mFlags
      /\ mp'.pending["video"] /\ mp'.posted["video"] > 0
  BY <1>1, <1>2, PostIs, EventsAre DEF Same
<1>4. Types' BY <1>1, <1>3 DEF PlayerInv, Types, TypeOK, PlayerType
<1> QED
  BY <1>1, <1>3, <1>4
  DEF Same, PlayerInv, VideoIsComing, POwnedOnce, VideoIsWanted, VideoGoesRound,
      AudioIsRun, AudioIsThere, CallUnderWay, PlaysFromTheStart, SeekUnderWay

LEMMA VideoStarvesKeeps ==
  ASSUME PlayerInv, VideoStarves
  PROVE  PlayerInv'
<1>1. /\ ev = "video" /\ mp.pending["video"] /\ ev' = "read" /\ mp' = VideoFields
      /\ app.pc \notin {"seek", "joinAudio", "joinExtractor"} /\ waits = "none"
      /\ UNCHANGED <<media, audio, flash, app, ext, asks, waits, calls>>
  BY DEF VideoStarves, OnVideoEvent, PFree, locks
<1>2. /\ mp' \in PlayerType /\ IDHasItem(mp') /\ Same(mp, mp') /\ mp'.mFlags = mp.mFlags
      /\ ~mp'.pending["video"]
  BY <1>1, VideoFieldsAre
<1>3. app.pc = "idle" BY <1>1, Facts
<1>4. Types' BY <1>1, <1>2 DEF PlayerInv, Types, TypeOK, PlayerType
<1> QED
  BY <1>1, <1>2, <1>3, <1>4
  DEF Same, PlayerInv, VideoIsComing, POwnedOnce, VideoIsWanted, VideoGoesRound,
      AudioIsRun, AudioIsThere, CallUnderWay, PlaysFromTheStart, SeekUnderWay

LEMMA ReadOnKeeps ==
  ASSUME PlayerInv, ReadOn
  PROVE  PlayerInv'
<1>1. /\ ev = "read" /\ ev' = "idle" /\ mp' = Post(mp, "video") /\ ext' = PostExtractor(ext)
      /\ UNCHANGED <<media, audio, flash, app, asks, waits, calls>>
  BY DEF ReadOn, locks
<1>2. mp \in PlayerType /\ IDHasItem(mp) /\ (mp.pending["video"] => mp.posted["video"] > 0)
  BY <1>1, Facts DEF PlayerInv, VideoIsComing
<1>3. /\ mp' \in PlayerType /\ IDHasItem(mp') /\ Same(mp, mp') /\ mp'.mFlags = mp.mFlags
      /\ mp'.pending["video"] /\ mp'.posted["video"] > 0
  BY <1>1, <1>2, PostIs, EventsAre
<1>4. Types' /\ ext'.mSeekTimeUs = ext.mSeekTimeUs
  BY <1>1, <1>3, PostExtractorIs DEF PlayerInv, Types, TypeOK, PlayerType
<1> QED
  BY <1>1, <1>3, <1>4
  DEF Same, PlayerInv, VideoIsComing, POwnedOnce, VideoIsWanted, VideoGoesRound,
      AudioIsRun, AudioIsThere, CallUnderWay, PlaysFromTheStart, SeekUnderWay

LEMMA VideoEndsKeeps ==
  ASSUME PlayerInv, VideoEnds
  PROVE  PlayerInv'
<1> DEFINE m == SoughtPlayer(mp, audio)
           a == SoughtAudio(mp, audio)
<1>1. PICK s \in WithAudioStarted(m, a) :
        mp' = Post(Set(s.mp, {"VIDEO_AT_EOS"}), "streamDone") /\ audio' = s.audio
  BY Zenon DEF VideoEnds
<1>2. /\ ev = "read" /\ ev' = "idle"
      /\ UNCHANGED <<media, flash, app, ext, asks, waits, calls>>
  BY DEF VideoEnds, locks
<1>3. /\ mp \in PlayerType /\ IDHasItem(mp) /\ audio \in AudioShape
      /\ RunsBy(mp.mFlags, audio) /\ audio.exists \in BOOLEAN
      /\ mp.pending["video"] => mp.posted["video"] > 0
  BY <1>2, Facts DEF PlayerInv, VideoIsComing, AudioShape
<1>4. /\ m \in PlayerType /\ IDHasItem(m) /\ m.mFlags = mp.mFlags
      /\ m.pending = mp.pending /\ m.posted = mp.posted
      /\ m.mWatchForAudioEOS => mp.mWatchForAudioEOS \/ audio.exists
  BY <1>3, SoughtIs
<1>5. /\ Stays(audio, a) /\ a.renderer = audio.renderer
      /\ a = audio \/ (audio.exists /\ "SEEK_PREVIEW" \notin mp.mFlags)
  BY <1>3, SoughtAudioIs
<1>6. /\ a \in AudioShape /\ a.exists = audio.exists /\ StartedQueue(m.mFlags, a)
      /\ m.mFlags \cap {"PLAYING", "SEEK_PREVIEW"} # {}
      /\ (a.exists /\ "SEEK_PREVIEW" \notin m.mFlags) \/ RunsBy(m.mFlags, a)
      /\ "video" \in media
  BY <1>2, <1>3, <1>4, <1>5 DEF Stays, RunsBy, StartedQueue, PlayerInv, VideoIsWanted
<1> HIDE DEF m, a
<1>7. /\ OnlyAudio(m, s.mp) /\ s.audio \in AudioShape /\ s.audio.exists = a.exists
      /\ RunsBy(s.mp.mFlags, s.audio)
      /\ s.mp.mWatchForAudioEOS => m.mWatchForAudioEOS \/ a.exists
  BY <1>4, <1>6, WithStartedIs
<1> DEFINE n == Set(s.mp, {"VIDEO_AT_EOS"})
<1>8. /\ n \in PlayerType /\ IDHasItem(n) /\ Same(s.mp, n)
      /\ n.mFlags = s.mp.mFlags \cup {"VIDEO_AT_EOS"}
      /\ n.pending = s.mp.pending /\ n.posted = s.mp.posted
  BY <1>7, SetIs, FlagsAre DEF OnlyAudio
<1>9. mp' = Post(n, "streamDone") BY <1>1
<1> HIDE DEF n
<1>10. /\ mp' \in PlayerType /\ IDHasItem(mp') /\ Same(n, mp') /\ mp'.mFlags = n.mFlags
       /\ (mp'.pending["video"] <=> n.pending["video"])
       /\ n.posted["video"] > 0 => mp'.posted["video"] > 0
  <2>1. "streamDone" \in Events /\ "streamDone" # "video" BY EventsAre
  <2>2. LET q == Post(n, "streamDone")
        IN  /\ q \in PlayerType /\ IDHasItem(q) /\ Same(n, q) /\ q.mFlags = n.mFlags
            /\ (q.pending["video"] <=> n.pending["video"])
            /\ n.posted["video"] > 0 => q.posted["video"] > 0
    BY <1>8, <2>1, PostIs, Zenon
  <2> QED BY <1>9, <2>2, Zenon
<1>11. /\ mp'.mFlags \subseteq mp.mFlags \cup
            {"AUDIO_RUNNING", "AUDIOPLAYER_STARTED", "VIDEO_AT_EOS"}
       /\ mp.mFlags \cup {"VIDEO_AT_EOS"} \subseteq mp'.mFlags
       /\ (mp'.pending["video"] <=> mp.pending["video"])
       /\ mp.posted["video"] > 0 => mp'.posted["video"] > 0
       /\ mp'.mWatchForAudioEOS => mp.mWatchForAudioEOS \/ audio'.exists
       /\ audio'.exists = audio.exists
  BY <1>1, <1>4, <1>6, <1>7, <1>8, <1>10 DEF OnlyAudio, Same
<1>12. RunsBy(mp'.mFlags, audio')
  BY <1>1, <1>7, <1>8, <1>10 DEF RunsBy, StartedQueue
<1>13. Types' BY <1>1, <1>2, <1>7, <1>10 DEF PlayerInv, Types, TypeOK, PlayerType
<1>14. app.pc = "idle" BY <1>2 DEF PlayerInv, POwnedOnce
<1>15. VideoIsComing' BY <1>3, <1>10, <1>11 DEF VideoIsComing
<1>16. POwnedOnce' /\ CallUnderWay' BY <1>2, <1>14 DEF PlayerInv, POwnedOnce, CallUnderWay
<1>17. VideoIsWanted' BY <1>2, <1>6, <1>4, <1>11 DEF VideoIsWanted
<1>18. VideoGoesRound' BY <1>11 DEF VideoGoesRound
<1>19. AudioIsRun' BY <1>12 DEF AudioIsRun
<1>20. AudioIsThere' BY <1>2, <1>6, <1>11, <1>14 DEF PlayerInv, AudioIsThere
<1>21. PlaysFromTheStart' BY <1>2, <1>11 DEF PlayerInv, PlaysFromTheStart, SeekUnderWay
<1> QED
  BY <1>13, <1>15, <1>16, <1>17, <1>18, <1>19, <1>20, <1>21 DEF PlayerInv

LEMMA VideoFrameKeeps ==
  ASSUME PlayerInv, VideoFrame
  PROVE  PlayerInv'
<1> DEFINE m == VideoFields
<1>1. PICK s \in WithAudioStarted(m, audio) :
        IF ~s.ok
        THEN mp' = [s.mp EXCEPT !.mVideoBuffer = TRUE] /\ audio' = s.audio
        ELSE /\ audio' = SoughtAudio(s.mp, s.audio)
             /\ \E kept \in IF mp.mSeeking \/ ~audio.exists THEN {FALSE} ELSE BOOLEAN :
                  mp' = Post([SoughtPlayer(s.mp, s.audio) EXCEPT !.mVideoBuffer = kept], "video")
  BY Zenon DEF VideoFrame
<1>2. /\ ev = "video" /\ mp.pending["video"] /\ ev' = "idle" /\ HasLocks("ev")
      /\ UNCHANGED <<media, flash, app, ext, calls>>
  BY DEF VideoFrame
<1>3. /\ mp \in PlayerType /\ IDHasItem(mp) /\ audio \in AudioShape /\ RunsBy(mp.mFlags, audio)
      /\ StartedQueue(mp.mFlags, audio)
  BY Facts DEF RunsBy
<1>4. /\ m \in PlayerType /\ IDHasItem(m) /\ Same(mp, m) /\ m.mFlags = mp.mFlags
      /\ ~m.pending["video"]
  BY VideoFieldsAre
<1>5. mp.mFlags \cap {"PLAYING", "SEEK_PREVIEW"} # {} /\ "video" \in media
  BY <1>2 DEF PlayerInv, VideoIsWanted
<1> HIDE DEF m
<1>6. /\ OnlyAudio(m, s.mp) /\ s.audio \in AudioShape /\ s.audio.exists = audio.exists
      /\ RunsBy(s.mp.mFlags, s.audio) /\ s.ok \in BOOLEAN
      /\ s.mp.mWatchForAudioEOS => m.mWatchForAudioEOS \/ audio.exists
      /\ s.ok /\ audio.exists /\ "SEEK_PREVIEW" \notin m.mFlags =>
           {"PLAYING", "AUDIO_RUNNING"} \subseteq s.mp.mFlags
      /\ ~s.ok => /\ s.mp = m /\ s.audio.renderer = "initial"
                  /\ "AUDIOPLAYER_STARTED" \notin m.mFlags
  BY <1>3, <1>4, <1>5, WithStartedIs
<1>7. waits' = "none" /\ asks' \in BOOLEAN /\ app.pc = "idle" BY <1>2, LocksAre
<1> DEFINE Good ==
      /\ mp' \in PlayerType /\ IDHasItem(mp') /\ mp'.mFlags = s.mp.mFlags
      /\ mp'.mWatchForAudioEOS => s.mp.mWatchForAudioEOS \/ audio.exists
      /\ audio' \in AudioShape /\ audio'.exists = audio.exists /\ RunsBy(mp'.mFlags, audio')
      /\ \/ mp'.pending["video"] /\ mp'.posted["video"] > 0
         \/ /\ ~mp'.pending["video"] /\ audio'.renderer = "initial"
            /\ "AUDIOPLAYER_STARTED" \notin mp'.mFlags
<1>8. ASSUME ~s.ok PROVE Good
  <2>1. mp' = [m EXCEPT !.mVideoBuffer = TRUE] /\ audio' = s.audio BY <1>1, <1>6, <1>8
  <2>2. /\ mp' \in PlayerType /\ mp'.mFlags = m.mFlags /\ mp'.pending = m.pending
        /\ mp'.posted = m.posted /\ mp'.id = m.id
        /\ mp'.mWatchForAudioEOS = m.mWatchForAudioEOS
    BY <1>4, <2>1 DEF PlayerType
  <2>3. IDHasItem(mp') BY <1>4, <2>2, Zenon DEF IDHasItem
  <2>4. Good BY <1>4, <1>6, <1>8, <2>1, <2>2, <2>3, Zenon
  <2> QED BY <2>4
<1>9. ASSUME s.ok PROVE Good
  <2> DEFINE x == SoughtPlayer(s.mp, s.audio)
             b == SoughtAudio(s.mp, s.audio)
  <2>1. audio' = b BY <1>1, <1>9
  <2>2. PICK kept \in BOOLEAN : mp' = Post([x EXCEPT !.mVideoBuffer = kept], "video")
    BY <1>1, <1>9
  <2>3. /\ s.mp \in PlayerType /\ IDHasItem(s.mp) /\ s.mp.pending = m.pending
        /\ m.mFlags \subseteq s.mp.mFlags
    BY <1>6 DEF OnlyAudio
  <2>4. /\ x \in PlayerType /\ IDHasItem(x) /\ x.mFlags = s.mp.mFlags
        /\ x.pending = s.mp.pending
        /\ x.mWatchForAudioEOS => s.mp.mWatchForAudioEOS \/ s.audio.exists
    <3>1. s.audio.exists \in BOOLEAN BY <1>6 DEF AudioShape
    <3> QED BY <2>3, <3>1, SoughtIs
  <2>5. /\ Stays(s.audio, b) /\ b.renderer = s.audio.renderer
        /\ b = s.audio \/ (s.audio.exists /\ "SEEK_PREVIEW" \notin s.mp.mFlags)
    BY <1>6, SoughtAudioIs
  <2> HIDE DEF x, b
  <2> DEFINE y == [x EXCEPT !.mVideoBuffer = kept]
  <2>6. /\ y \in PlayerType /\ y.mFlags = x.mFlags /\ y.pending = x.pending
        /\ y.posted = x.posted /\ y.id = x.id
        /\ y.mWatchForAudioEOS = x.mWatchForAudioEOS
    BY <2>4 DEF PlayerType
  <2>7. IDHasItem(y) /\ ~y.pending["video"] /\ mp' = Post(y, "video")
    BY <1>4, <2>2, <2>3, <2>4, <2>6, Zenon DEF IDHasItem
  <2> HIDE DEF y
  <2>8. /\ mp' \in PlayerType /\ IDHasItem(mp') /\ Same(y, mp') /\ mp'.mFlags = y.mFlags
        /\ mp'.pending["video"] /\ mp'.posted["video"] > 0
    <3>1. LET q == Post(y, "video")
          IN  /\ q \in PlayerType /\ IDHasItem(q) /\ Same(y, q) /\ q.mFlags = y.mFlags
              /\ q.pending["video"] /\ q.posted["video"] > 0
      BY <2>6, <2>7, EventsAre, PostIs, Zenon
    <3> QED BY <2>7, <3>1, Zenon
  <2>9. RunsBy(s.mp.mFlags, b)
    <3>1. CASE b = s.audio BY <1>6, <3>1, Zenon
    <3>2. CASE s.audio.exists /\ "SEEK_PREVIEW" \notin s.mp.mFlags
      <4>1. {"PLAYING", "AUDIO_RUNNING"} \subseteq s.mp.mFlags BY <1>6, <1>9, <2>3, <3>2
      <4> QED BY <1>6, <2>5, <4>1 DEF RunsBy, StartedQueue, Stays
    <3> QED BY <2>5, <3>1, <3>2
  <2>10. Good
    BY <1>6, <2>1, <2>4, <2>5, <2>6, <2>8, <2>9, Zenon DEF Same, Stays
  <2> QED BY <2>10
<1>10. Good BY <1>6, <1>8, <1>9
<1>11. Types' BY <1>2, <1>7, <1>10 DEF PlayerInv, Types, TypeOK, PlayerType
<1>12. VideoIsComing' BY <1>10 DEF VideoIsComing
<1>13. POwnedOnce' /\ CallUnderWay' BY <1>2, <1>7 DEF PlayerInv, POwnedOnce, CallUnderWay
<1>14. m.mFlags \subseteq mp'.mFlags /\ mp'.mFlags \subseteq
         m.mFlags \cup {"AUDIO_RUNNING", "AUDIOPLAYER_STARTED"}
  BY <1>6, <1>10 DEF OnlyAudio
<1>15. VideoIsWanted' BY <1>2, <1>4, <1>5, <1>14 DEF VideoIsWanted
<1>16. VideoGoesRound' BY <1>10 DEF VideoGoesRound, Starting
<1>17. AudioIsRun' BY <1>10 DEF AudioIsRun
<1>18. AudioIsThere' BY <1>2, <1>4, <1>5, <1>6, <1>7, <1>10 DEF Same, PlayerInv, AudioIsThere
<1>19. PlaysFromTheStart'
  BY <1>2, <1>4, <1>14 DEF PlayerInv, PlaysFromTheStart, SeekUnderWay
<1> QED
  BY <1>11, <1>12, <1>13, <1>15, <1>16, <1>17, <1>18, <1>19 DEF PlayerInv

\* Pausing the audio player when it runs silences it; else it is silent.
LEMMA PausedAudioIs ==
  ASSUME PlayerInv, NEW m, m.mFlags = mp.mFlags
  PROVE  /\ Stays(audio, PausedAudio(m)) /\ ~Sounds(PausedAudio(m))
         /\ PausedAudio(m).renderer = "none" => audio.renderer = "none"
<1>1. audio \in AudioShape /\ RunsBy(mp.mFlags, audio) BY Facts
<1>2. CASE "AUDIO_RUNNING" \in m.mFlags
  <2>1. PausedAudio(m) = Audio!Paused(audio) BY <1>2, Zenon DEF PausedAudio
  <2> QED BY <1>1, <2>1, PausedIs, Zenon
<1>3. CASE "AUDIO_RUNNING" \notin m.mFlags
  <2>1. PausedAudio(m) = audio BY <1>3, Zenon DEF PausedAudio
  <2>2. ~Sounds(audio) BY <1>1, <1>3 DEF RunsBy
  <2> QED BY <1>1, <2>1, <2>2, Zenon DEF Stays
<1> QED BY <1>2, <1>3

LEMMA StreamDoneKeeps ==
  ASSUME PlayerInv, OnStreamDone
  PROVE  PlayerInv'
<1> DEFINE p == [mp.pending EXCEPT !["streamDone"] = FALSE]
           m == [mp EXCEPT !.pending = p]
           c == Pause_l(m)
           n == Set(c, {"AT_EOS"})
<1>1. /\ ev = "streamDone" /\ ev' = "idle" /\ HasLocks("ev")
      /\ UNCHANGED <<media, flash, app, ext, calls>>
  BY DEF OnStreamDone
<1>2. mp \in PlayerType /\ IDHasItem(mp) /\ audio \in AudioShape /\ RunsBy(mp.mFlags, audio)
  BY Facts
<1>3. waits' = "none" /\ asks' \in BOOLEAN /\ app.pc = "idle" BY <1>1, LocksAre
<1>4. StreamDoneFields = m BY <1>2 DEF StreamDoneFields, PlayerType
<1>5. p \in [Events -> BOOLEAN] /\ p["video"] = mp.pending["video"]
  BY <1>2, EventsAre DEF PlayerType
<1> HIDE DEF p
<1>6. /\ m \in PlayerType /\ m.mFlags = mp.mFlags /\ m.pending = p /\ m.posted = mp.posted
      /\ m.id = mp.id /\ m.mWatchForAudioEOS = mp.mWatchForAudioEOS
  BY <1>2, <1>5 DEF PlayerType
<1>7. IDHasItem(m) BY <1>2, <1>6, Zenon DEF IDHasItem
<1>8. \/ mp' = n /\ audio' = PausedAudio(mp)
      \/ mp' = m /\ audio' = audio
  BY <1>4, Zenon DEF OnStreamDone
<1> HIDE DEF m
<1>9. CASE mp' = n /\ audio' = PausedAudio(mp)
  <2>1. /\ c \in PlayerType /\ IDHasItem(c) /\ Same(m, c) /\ ~c.pending["video"]
        /\ c.mFlags = m.mFlags \ {"AUDIO_RUNNING", "PLAYING"}
    BY <1>6, <1>7, PauseIs, Zenon
  <2> HIDE DEF c
  <2>2. /\ n \in PlayerType /\ IDHasItem(n) /\ Same(c, n) /\ n.pending = c.pending
        /\ n.mFlags = c.mFlags \cup {"AT_EOS"}
    BY <2>1, SetIs, FlagsAre
  <2> HIDE DEF n
  <2>3. Stays(audio, audio') /\ ~Sounds(audio') BY <1>9, PausedAudioIs
  <2>4. RunsBy(mp'.mFlags, audio')
    BY <1>2, <1>6, <1>9, <2>1, <2>2, <2>3 DEF RunsBy, StartedQueue, Stays
  <2>5. Types'
    BY <1>1, <1>3, <1>9, <2>2, <2>3 DEF PlayerInv, Types, TypeOK, PlayerType, Stays
  <2>6. mp'.mFlags = (mp.mFlags \ {"AUDIO_RUNNING", "PLAYING"}) \cup {"AT_EOS"}
    BY <1>6, <1>9, <2>1, <2>2
  <2>7. /\ ~mp'.pending["video"] /\ IDHasItem(mp')
        /\ mp'.mWatchForAudioEOS = mp.mWatchForAudioEOS /\ audio'.exists = audio.exists
    BY <1>6, <1>9, <2>1, <2>2, <2>3 DEF Same, Stays
  <2>8. "PLAYING" \notin mp'.mFlags BY <2>6
  <2> QED
    BY <1>1, <1>3, <2>4, <2>5, <2>6, <2>7, <2>8
    DEF PlayerInv, VideoIsComing, POwnedOnce, VideoIsWanted, VideoGoesRound, AudioIsRun,
        AudioIsThere, CallUnderWay, PlaysFromTheStart
<1>10. CASE mp' = m /\ audio' = audio
  <2>1. Types' BY <1>1, <1>2, <1>3, <1>6, <1>10 DEF PlayerInv, Types, TypeOK, PlayerType
  <2> QED
    BY <1>1, <1>3, <1>5, <1>6, <1>7, <1>10, <2>1
    DEF PlayerInv, VideoIsComing, POwnedOnce, VideoIsWanted, VideoGoesRound, AudioIsRun,
        AudioIsThere, CallUnderWay, PlaysFromTheStart, Starting, SeekUnderWay
<1> QED BY <1>8, <1>9, <1>10

LEMMA StatusKeeps ==
  ASSUME PlayerInv, CheckAudioStatus \/ OnCheckAudioStatus
  PROVE  PlayerInv'
<1>1. mp \in PlayerType /\ IDHasItem(mp) BY Facts
<1> DEFINE Rest ==
             /\ ev \in {"audioStatus", "status"} /\ ev' \in {"idle", "status"}
             /\ waits' \in {"none", waits} /\ asks' \in BOOLEAN
             /\ UNCHANGED <<media, audio, flash, app, ext, calls>>
             /\ mp' \in PlayerType /\ IDHasItem(mp')
             /\ mp'.mFlags \in {mp.mFlags, mp.mFlags \cup {"AUDIO_AT_EOS"}}
             /\ (mp'.pending["video"] <=> mp.pending["video"])
             /\ mp.posted["video"] > 0 => mp'.posted["video"] > 0
             /\ mp'.mWatchForAudioEOS => mp.mWatchForAudioEOS
<1>2. ASSUME CheckAudioStatus PROVE Rest
  <2> DEFINE p == [mp.pending EXCEPT !["audioStatus"] = FALSE]
  <2>1. /\ ev = "audioStatus" /\ ev' = "status" /\ mp' = [mp EXCEPT !.pending = p]
        /\ UNCHANGED <<media, audio, flash, app, ext, asks, waits, calls>>
    BY <1>1, <1>2 DEF CheckAudioStatus, locks, PlayerType
  <2>2. p \in [Events -> BOOLEAN] /\ p["video"] = mp.pending["video"]
    BY <1>1, EventsAre DEF PlayerType
  <2> HIDE DEF p
  <2>3. /\ mp' \in PlayerType /\ mp'.mFlags = mp.mFlags /\ mp'.pending = p
        /\ mp'.posted = mp.posted /\ mp'.id = mp.id
        /\ mp'.mWatchForAudioEOS = mp.mWatchForAudioEOS
    BY <1>1, <2>1, <2>2 DEF PlayerType
  <2>4. IDHasItem(mp') BY <1>1, <2>3, Zenon DEF IDHasItem
  <2>5. Rest BY <2>1, <2>2, <2>3, <2>4, Facts
  <2> QED BY <2>5
<1>3. ASSUME OnCheckAudioStatus PROVE Rest
  <2> DEFINE c == Set(mp, {"AUDIO_AT_EOS"})
             n == [c EXCEPT !.mWatchForAudioEOS = FALSE]
  <2>1. /\ ev = "status" /\ ev' = "idle" /\ HasLocks("ev")
        /\ UNCHANGED <<media, audio, flash, app, ext, calls>>
        /\ mp' = Post(n, "streamDone") \/ mp' = mp
    BY <1>3 DEF OnCheckAudioStatus
  <2>2. waits' = "none" /\ asks' \in BOOLEAN BY <2>1, LocksAre
  <2>3. /\ c \in PlayerType /\ IDHasItem(c) /\ c.mFlags = mp.mFlags \cup {"AUDIO_AT_EOS"}
        /\ c.pending = mp.pending /\ c.posted = mp.posted
    BY <1>1, SetIs, FlagsAre
  <2> HIDE DEF c
  <2>4. /\ n \in PlayerType /\ n.mFlags = c.mFlags /\ n.pending = c.pending
        /\ n.posted = c.posted /\ n.id = c.id /\ ~n.mWatchForAudioEOS
    BY <2>3 DEF PlayerType
  <2> HIDE DEF n
  <2>5. IDHasItem(n) BY <2>3, <2>4, Zenon DEF IDHasItem
  <2>6. LET q == Post(n, "streamDone")
        IN  /\ q \in PlayerType /\ IDHasItem(q) /\ Same(n, q) /\ q.mFlags = n.mFlags
            /\ (q.pending["video"] <=> n.pending["video"])
            /\ n.posted["video"] > 0 => q.posted["video"] > 0
    <3>1. "streamDone" \in Events /\ "streamDone" # "video" BY EventsAre
    <3> QED BY <2>4, <2>5, <3>1, PostIs, Zenon
  <2>7. CASE mp' = Post(n, "streamDone")
    <3>1. /\ mp' \in PlayerType /\ IDHasItem(mp') /\ mp'.mFlags = n.mFlags
          /\ (mp'.pending["video"] <=> n.pending["video"])
          /\ n.posted["video"] > 0 => mp'.posted["video"] > 0
          /\ ~mp'.mWatchForAudioEOS
      BY <2>4, <2>6, <2>7, Zenon DEF Same
    <3>2. Rest BY <2>1, <2>2, <2>3, <2>4, <3>1
    <3> QED BY <3>2
  <2>8. CASE mp' = mp
    <3>1. Rest BY <1>1, <2>1, <2>2, <2>8
    <3> QED BY <3>1
  <2> QED BY <2>1, <2>7, <2>8
<1>4. Rest BY <1>2, <1>3
<1> HIDE DEF Rest
<1>5. Types' BY <1>4, Facts DEF Rest, PlayerInv, Types, TypeOK, PlayerType
<1>6. VideoIsComing' /\ VideoIsWanted' /\ CallUnderWay'
  BY <1>4 DEF Rest, PlayerInv, VideoIsComing, VideoIsWanted, CallUnderWay
<1>7. POwnedOnce' BY <1>4 DEF Rest, PlayerInv, POwnedOnce
<1>8. VideoGoesRound' /\ PlaysFromTheStart'
  BY <1>4 DEF Rest, PlayerInv, VideoGoesRound, Starting, SeekUnderWay, PlaysFromTheStart
<1>9. AudioIsRun' /\ AudioIsThere'
  BY <1>4 DEF Rest, PlayerInv, AudioIsRun, RunsBy, StartedQueue, AudioIsThere
<1> QED BY <1>5, <1>6, <1>7, <1>8, <1>9 DEF PlayerInv

-----------------------------------------------------------------------------
(***************************************************************************)
(* The calls of the application, and the callback of the extractor.        *)
(***************************************************************************)

LEMMA CallIs ==
  ASSUME PlayerInv, Call
  PROVE  /\ waits' = "none" /\ asks' \in BOOLEAN /\ app.pc = "idle" /\ ev # "read"
         /\ calls' \in 0 .. MaxCalls
<1>1. HasLocks("app") /\ calls < MaxCalls /\ calls' = calls + 1 BY DEF Call
<1>2. calls' \in 0 .. MaxCalls BY <1>1, Facts, PlayerAssumption
<1> QED BY <1>1, <1>2, LocksAre

LEMMA PauseKeeps ==
  ASSUME PlayerInv, Pause
  PROVE  PlayerInv'
<1>1. /\ Call /\ mp' = Pause_l(mp) /\ audio' = PausedAudio(mp)
      /\ UNCHANGED <<media, flash, app, ev, ext>>
  BY DEF Pause
<1>2. /\ waits' = "none" /\ asks' \in BOOLEAN /\ app.pc = "idle" /\ ev # "read"
      /\ calls' \in 0 .. MaxCalls
  BY <1>1, CallIs
<1>3. /\ mp' \in PlayerType /\ IDHasItem(mp') /\ Same(mp, mp')
      /\ mp'.mFlags = mp.mFlags \ {"AUDIO_RUNNING", "PLAYING"} /\ ~mp'.pending["video"]
  BY <1>1, Facts, PauseIs
<1>4. Stays(audio, audio') /\ ~Sounds(audio') BY <1>1, PausedAudioIs
<1>5. RunsBy(mp'.mFlags, audio')
  BY <1>3, <1>4, Facts DEF RunsBy, StartedQueue, Stays
<1>6. Types' BY <1>1, <1>2, <1>3, <1>4 DEF PlayerInv, Types, TypeOK, PlayerType, Stays
<1>7. "PLAYING" \notin mp'.mFlags BY <1>3
<1> QED
  BY <1>1, <1>2, <1>3, <1>4, <1>5, <1>6, <1>7
  DEF Same, Stays, PlayerInv, VideoIsComing, POwnedOnce, VideoIsWanted, VideoGoesRound,
      AudioIsRun, AudioIsThere, CallUnderWay, PlaysFromTheStart

LEMMA SeekKeeps ==
  ASSUME PlayerInv, SeekTo
  PROVE  PlayerInv'
<1>1. PICK t \in Targets : app' = [pc |-> "seek", target |-> t] BY DEF SeekTo
<1>2. /\ Call /\ mp' = SeekTo_l(mp) /\ audio' = PausedAudio(mp)
      /\ UNCHANGED <<media, flash, ev, ext>>
  BY DEF SeekTo
<1>3. /\ waits' = "none" /\ asks' \in BOOLEAN /\ app.pc = "idle" /\ ev # "read"
      /\ calls' \in 0 .. MaxCalls
  BY <1>2, CallIs
<1>4. /\ mp' \in PlayerType /\ IDHasItem(mp') /\ mp'.mWatchForAudioEOS = mp.mWatchForAudioEOS
      /\ mp'.mFlags = mp.mFlags \ {"AUDIO_RUNNING"} /\ ~mp'.pending["video"]
  BY <1>2, Facts, SeekToIs
<1>5. Stays(audio, audio') /\ ~Sounds(audio') BY <1>2, PausedAudioIs
<1>6. RunsBy(mp'.mFlags, audio')
  BY <1>4, <1>5, Facts DEF RunsBy, StartedQueue, Stays
<1>7. app'.pc = "seek" /\ app'.target = t /\ t # NoSeek BY <1>1, PlayerAssumption DEF NoSeek
<1>8. app' \in [pc : {"idle", "seek", "joinAudio", "joinExtractor"},
                target : Targets \cup {NoSeek, Start0}]
  BY <1>1
<1>9. Types' BY <1>2, <1>3, <1>4, <1>5, <1>8 DEF PlayerInv, Types, TypeOK, PlayerType, Stays
<1> QED
  BY <1>2, <1>3, <1>4, <1>5, <1>6, <1>7, <1>9
  DEF Stays, PlayerInv, VideoIsComing, POwnedOnce, VideoIsWanted, VideoGoesRound, SeekUnderWay,
      AudioIsRun, AudioIsThere, CallUnderWay, PlaysFromTheStart

LEMMA ResetKeeps ==
  ASSUME PlayerInv, Reset
  PROVE  PlayerInv'
<1>1. /\ Call /\ mp' = CancelPlayerEvents(mp)
      /\ audio' = IF audio.exists THEN Audio!Stopped(audio) ELSE audio
      /\ app' = [Idle EXCEPT !.pc = "joinAudio"]
      /\ UNCHANGED <<media, flash, ev, ext>>
  BY DEF Reset
<1>2. /\ waits' = "none" /\ asks' \in BOOLEAN /\ app.pc = "idle" /\ ev # "read"
      /\ calls' \in 0 .. MaxCalls
  BY <1>1, CallIs
<1>3. /\ mp' \in PlayerType /\ IDHasItem(mp') /\ Same(mp, mp') /\ mp'.mFlags = mp.mFlags
      /\ ~mp'.pending["video"]
  BY <1>1, Facts, CancelAllIs
<1>4. audio \in AudioShape /\ RunsBy(mp.mFlags, audio) BY Facts
<1>5. Stays(audio, audio') /\ RunsBy(mp'.mFlags, audio')
  <2>1. CASE audio.exists
    <3>1. Stays(audio, audio') /\ ~Sounds(audio') BY <1>1, <1>4, <2>1, StoppedIs
    <3> QED BY <1>3, <1>4, <3>1 DEF RunsBy, StartedQueue, Stays
  <2>2. CASE ~audio.exists
    <3>1. audio' = audio BY <1>1, <2>2
    <3> QED BY <1>3, <1>4, <3>1 DEF Stays
  <2> QED BY <2>1, <2>2
<1>6. /\ app'.pc = "joinAudio"
      /\ app' \in [pc : {"idle", "seek", "joinAudio", "joinExtractor"},
                   target : Targets \cup {NoSeek, Start0}]
  BY <1>1 DEF Idle
<1>7. Types' BY <1>1, <1>2, <1>3, <1>5, <1>6 DEF PlayerInv, Types, TypeOK, PlayerType, Stays
<1>8. PlaysFromTheStart'
  BY <1>1, <1>2, <1>3, <1>6 DEF PlayerInv, PlaysFromTheStart, SeekUnderWay
<1> QED
  BY <1>1, <1>2, <1>3, <1>5, <1>6, <1>7, <1>8
  DEF Same, Stays, PlayerInv, VideoIsComing, POwnedOnce, VideoIsWanted, VideoGoesRound,
      AudioIsRun, AudioIsThere, CallUnderWay

LEMMA ExtractorSeekKeeps ==
  ASSUME PlayerInv, ExtractorSeekTo
  PROVE  PlayerInv'
<1>1. /\ app.pc = "seek" /\ app' = Idle
      /\ ext' = PostExtractor([ext EXCEPT !.mSeekTimeUs = app.target])
      /\ UNCHANGED <<mp, media, audio, flash, ev, asks, waits, calls>>
  BY DEF ExtractorSeekTo, locks
<1>2. app.target # NoSeek /\ app.target \in Targets \cup {NoSeek, Start0}
  BY <1>1 DEF PlayerInv, CallUnderWay, Types, TypeOK
<1>3. /\ ext'.mSeekTimeUs = app.target
      /\ ext' \in [pc : {"idle", "posted", "ending", "seek", "sought", "callback"},
                   target : Targets \cup {NoSeek, Start0},
                   mSeekTimeUs : Targets \cup {NoSeek, Start0}, mReachedEnd : BOOLEAN]
  BY <1>1, <1>2 DEF PostExtractor, PlayerInv, Types, TypeOK
<1>4. /\ app'.pc = "idle"
      /\ app' \in [pc : {"idle", "seek", "joinAudio", "joinExtractor"},
                   target : Targets \cup {NoSeek, Start0}]
  BY <1>1 DEF Idle
<1>5. Types' BY <1>1, <1>3, <1>4 DEF PlayerInv, Types, TypeOK
<1>6. SeekUnderWay' BY <1>2, <1>3 DEF SeekUnderWay
<1> QED
  BY <1>1, <1>4, <1>5, <1>6
  DEF PlayerInv, VideoIsComing, POwnedOnce, VideoIsWanted, VideoGoesRound, AudioIsRun,
      AudioIsThere, CallUnderWay, PlaysFromTheStart

LEMMA JoinAudioKeeps ==
  ASSUME PlayerInv, JoinAudio
  PROVE  PlayerInv'
<1>1. /\ app.pc = "joinAudio" /\ audio' = Audio!NoAudioPlayer
      /\ app' = [app EXCEPT !.pc = "joinExtractor"]
      /\ UNCHANGED <<mp, media, flash, ev, ext, asks, waits, calls>>
  BY DEF JoinAudio, locks
<1>2. /\ app'.pc = "joinExtractor" /\ app'.target = app.target
      /\ app' \in [pc : {"idle", "seek", "joinAudio", "joinExtractor"},
                   target : Targets \cup {NoSeek, Start0}]
  BY <1>1 DEF PlayerInv, Types, TypeOK
<1>3. RunsBy(mp'.mFlags, audio') /\ audio' \in AudioShape
  BY <1>1, NoAudioIs DEF RunsBy, StartedQueue, Sounds
<1>4. Types' BY <1>1, <1>2, <1>3 DEF PlayerInv, Types, TypeOK
<1> QED
  BY <1>1, <1>2, <1>3, <1>4
  DEF PlayerInv, VideoIsComing, POwnedOnce, VideoIsWanted, VideoGoesRound, AudioIsRun,
      AudioIsThere, CallUnderWay, PlaysFromTheStart, SeekUnderWay

LEMMA JoinExtractorKeeps ==
  ASSUME PlayerInv, JoinExtractor
  PROVE  PlayerInv'
<1>1. /\ app.pc = "joinExtractor" /\ ext' = NewExtractor /\ flash' = FALSE
      /\ mp' = ResetFields /\ media' \in Medias /\ app' = Idle
      /\ UNCHANGED <<audio, ev, asks, waits, calls>>
  BY DEF JoinExtractor, locks
<1>2. mp \in PlayerType /\ IDHasItem(mp) /\ audio \in AudioShape BY Facts
<1>3. /\ mp' \in PlayerType /\ mp'.mFlags = {} /\ mp'.pending = mp.pending
      /\ mp'.posted = mp.posted /\ mp'.id = mp.id /\ ~mp'.mWatchForAudioEOS
  <2> DEFINE p == mp.pending
             q == mp.posted
             i == mp.id
  <2>1. mp' = [mFlags |-> {}, mSeeking |-> FALSE, mSeekNotificationSent |-> TRUE,
               mWatchForAudioEOS |-> FALSE, mVideoBuffer |-> FALSE,
               pending |-> p, posted |-> q, id |-> i]
    BY <1>1 DEF ResetFields, Prepared
  <2>2. p \in [Events -> BOOLEAN] /\ q \in [Events -> Nat] /\ i \in [Events -> BOOLEAN]
    BY <1>2 DEF PlayerType
  <2> HIDE DEF p, q, i
  <2>3. mp' \in PlayerType BY <2>1, <2>2 DEF PlayerType
  <2>4. /\ mp'.mFlags = {} /\ mp'.pending = p /\ mp'.posted = q /\ mp'.id = i
        /\ ~mp'.mWatchForAudioEOS
    BY <2>1
  <2> QED BY <2>3, <2>4 DEF p, q, i
<1>4. IDHasItem(mp') BY <1>2, <1>3, Zenon DEF IDHasItem
<1>5. /\ audio = Audio!NoAudioPlayer /\ ~mp.pending["video"] /\ ev # "read" /\ waits = "none"
  BY <1>1, Facts DEF PlayerInv, AudioIsThere, CallUnderWay, POwnedOnce
<1>6. RunsBy(mp'.mFlags, audio')
  BY <1>1, <1>5, NoAudioIs DEF RunsBy, StartedQueue, Sounds
<1>7. /\ app'.pc = "idle"
      /\ app' \in [pc : {"idle", "seek", "joinAudio", "joinExtractor"},
                   target : Targets \cup {NoSeek, Start0}]
  BY <1>1 DEF Idle
<1>8. ext' \in [pc : {"idle", "posted", "ending", "seek", "sought", "callback"},
                target : Targets \cup {NoSeek, Start0},
                mSeekTimeUs : Targets \cup {NoSeek, Start0}, mReachedEnd : BOOLEAN]
  BY <1>1 DEF NewExtractor
<1>9. Types' BY <1>1, <1>2, <1>3, <1>7, <1>8 DEF PlayerInv, Types, TypeOK, PlayerType
<1>10. "PLAYING" \notin mp'.mFlags BY <1>3
<1> QED
  BY <1>1, <1>3, <1>4, <1>5, <1>6, <1>7, <1>9, <1>10
  DEF PlayerInv, VideoIsComing, POwnedOnce, VideoIsWanted, VideoGoesRound, AudioIsRun,
      AudioIsThere, CallUnderWay, PlaysFromTheStart

LEMMA CallsBackKeeps ==
  ASSUME PlayerInv, CallsBack
  PROVE  PlayerInv'
<1> DEFINE c == Clear(mp, EOSFlags)
           d == [c EXCEPT !.mSeekNotificationSent = TRUE]
           f == Set(d, {"SEEK_PREVIEW"})
           Like(m, flags) == /\ m \in PlayerType /\ IDHasItem(m) /\ m.mFlags = flags
                             /\ m.mWatchForAudioEOS = mp.mWatchForAudioEOS
                             /\ m.pending = mp.pending /\ m.posted = mp.posted
           Posted(m) == /\ mp' \in PlayerType /\ IDHasItem(mp') /\ mp'.mFlags = m.mFlags
                        /\ mp'.mWatchForAudioEOS = mp.mWatchForAudioEOS
                        /\ mp'.pending["video"]
                        /\ mp'.posted["video"] > 0 \/ ev = "video"
           g == mp.mFlags \ EOSFlags
<1>1. /\ app.pc \notin {"seek", "joinAudio", "joinExtractor"} /\ mp' = OnMediaSeeked(mp)
      /\ ext' = [ext EXCEPT !.pc = "idle", !.mSeekTimeUs = NoSeek]
      /\ ev # "read" /\ waits = "none"
      /\ UNCHANGED <<media, audio, flash, app, ev, asks, waits, calls>>
  BY DEF CallsBack, PFree, locks
<1>2. /\ mp \in PlayerType /\ IDHasItem(mp) /\ RunsBy(mp.mFlags, audio)
      /\ mp.pending["video"] => mp.posted["video"] > 0 \/ ev = "video"
  BY Facts DEF PlayerInv, VideoIsComing
<1>3. Like(c, g) BY <1>2, ClearIs DEF Same
<1> HIDE DEF c
<1>4. Like(d, g)
  <2>1. /\ d \in PlayerType /\ d.mFlags = c.mFlags /\ d.pending = c.pending
        /\ d.posted = c.posted /\ d.id = c.id
        /\ d.mWatchForAudioEOS = c.mWatchForAudioEOS
    BY <1>3 DEF PlayerType
  <2>2. IDHasItem(d) BY <1>3, <2>1, Zenon DEF IDHasItem
  <2> HIDE DEF d
  <2> QED BY <1>3, <2>1, <2>2, Zenon
<1> HIDE DEF d
<1>5. Like(f, g \cup {"SEEK_PREVIEW"}) BY <1>4, SetIs, FlagsAre DEF Same
<1> HIDE DEF f
<1>6. ASSUME NEW m, Like(m, m.mFlags), mp' = Post(m, "video") PROVE Posted(m)
  <2>1. LET q == Post(m, "video")
        IN  /\ q \in PlayerType /\ IDHasItem(q) /\ Same(m, q) /\ q.mFlags = m.mFlags
            /\ q.pending["video"]
            /\ m.posted["video"] > 0 => q.posted["video"] > 0
            /\ ~m.pending["video"] => q.posted["video"] > 0
    BY <1>6, EventsAre, PostIs, Zenon
  <2>2. /\ mp' \in PlayerType /\ IDHasItem(mp') /\ mp'.mFlags = m.mFlags
        /\ mp'.mWatchForAudioEOS = mp.mWatchForAudioEOS /\ mp'.pending["video"]
        /\ m.posted["video"] > 0 => mp'.posted["video"] > 0
        /\ ~m.pending["video"] => mp'.posted["video"] > 0
    BY <1>6, <2>1, Zenon DEF Same
  <2> QED BY <1>2, <1>6, <2>2, Zenon
<1>7. \/ "PLAYING" \in g /\ "video" \in media /\ mp' = Post(c, "video")
      \/ "PLAYING" \in g /\ "video" \notin media /\ mp' = c
      \/ "PLAYING" \notin g /\ "video" \in media /\ mp' = Post(f, "video")
      \/ "PLAYING" \notin g /\ "video" \notin media /\ mp' = d
  BY <1>1, <1>3 DEF OnMediaSeeked, EOSFlags, c, d, f
<1> DEFINE Done ==
      /\ mp' \in PlayerType /\ IDHasItem(mp')
      /\ g \subseteq mp'.mFlags /\ mp'.mFlags \subseteq g \cup {"SEEK_PREVIEW"}
      /\ mp'.mWatchForAudioEOS = mp.mWatchForAudioEOS
      /\ \/ /\ mp'.pending["video"] /\ (mp'.posted["video"] > 0 \/ ev = "video")
            /\ "video" \in media /\ mp'.mFlags \cap {"PLAYING", "SEEK_PREVIEW"} # {}
         \/ /\ mp'.pending = mp.pending /\ mp'.posted = mp.posted /\ mp'.mFlags = g
            /\ "video" \notin media
<1> HIDE DEF g
<1>8. Done
  <2>1. CASE "PLAYING" \in g /\ "video" \in media /\ mp' = Post(c, "video")
    <3>1. Posted(c) BY <1>3, <1>6, <2>1
    <3> QED BY <1>3, <2>1, <3>1
  <2>2. CASE "PLAYING" \in g /\ "video" \notin media /\ mp' = c
    BY <1>3, <2>2
  <2>3. CASE "PLAYING" \notin g /\ "video" \in media /\ mp' = Post(f, "video")
    <3>1. Posted(f) BY <1>5, <1>6, <2>3
    <3> QED BY <1>5, <2>3, <3>1
  <2>4. CASE "PLAYING" \notin g /\ "video" \notin media /\ mp' = d
    BY <1>4, <2>4
  <2> QED BY <1>7, <2>1, <2>2, <2>3, <2>4
<1>9. ext' \in [pc : {"idle", "posted", "ending", "seek", "sought", "callback"},
                target : Targets \cup {NoSeek, Start0},
                mSeekTimeUs : Targets \cup {NoSeek, Start0}, mReachedEnd : BOOLEAN]
  BY <1>1 DEF PlayerInv, Types, TypeOK
<1>10. Types' BY <1>1, <1>8, <1>9 DEF PlayerInv, Types, TypeOK, PlayerType
<1>11. "AT_EOS" \notin mp'.mFlags BY <1>8 DEF g, EOSFlags
<1>12. RunsBy(mp'.mFlags, audio')
  <2>1. \A x \in {"PLAYING", "AUDIO_RUNNING", "AUDIOPLAYER_STARTED"} :
          x \in mp.mFlags => x \in mp'.mFlags
    BY <1>8 DEF g, EOSFlags
  <2> HIDE DEF Done
  <2> QED BY <1>1, <1>2, <2>1 DEF RunsBy, StartedQueue
<1>13. VideoIsComing' BY <1>1, <1>2, <1>8 DEF VideoIsComing
<1>14. POwnedOnce' BY <1>1 DEF POwnedOnce
<1>15. VideoIsWanted' BY <1>1, <1>8 DEF PlayerInv, VideoIsWanted
<1>16. VideoGoesRound' BY <1>1, <1>8 DEF VideoGoesRound
<1>17. AudioIsRun' BY <1>12 DEF AudioIsRun
<1>18. AudioIsThere'
  <2>1. "AUDIOPLAYER_STARTED" \in mp.mFlags => "AUDIOPLAYER_STARTED" \in mp'.mFlags
    BY <1>8 DEF g, EOSFlags
  <2> QED BY <1>1, <1>8, <2>1 DEF PlayerInv, AudioIsThere
<1>19. CallUnderWay' BY <1>1 DEF CallUnderWay
<1>20. PlaysFromTheStart' BY <1>11 DEF PlaysFromTheStart
<1> QED
  BY <1>10, <1>13, <1>14, <1>15, <1>16, <1>17, <1>18, <1>19, <1>20 DEF PlayerInv

\* At the end of the stream play() goes back to the start.
LEMMA PlayAgainIs ==
  ASSUME PlayerInv, NEW m \in PlayerType, IDHasItem(m), app.pc = "idle", PlayAgain(m)
  PROVE  /\ mp' \in PlayerType /\ IDHasItem(mp')
         /\ mp'.mWatchForAudioEOS = m.mWatchForAudioEOS
         /\ app' \in [pc : {"idle", "seek", "joinAudio", "joinExtractor"},
                      target : Targets \cup {NoSeek, Start0}]
         /\ \/ /\ "AT_EOS" \in m.mFlags /\ app'.pc = "seek" /\ app'.target # NoSeek
               /\ mp'.mFlags = m.mFlags \ {"AUDIO_RUNNING"} /\ ~mp'.pending["video"]
            \/ "AT_EOS" \notin m.mFlags /\ app'.pc = "idle" /\ mp' = m
<1>1. CASE "AT_EOS" \in m.mFlags
  <2>1. app' = [pc |-> "seek", target |-> Start0] /\ mp' = SeekTo_l(m)
    BY <1>1 DEF PlayAgain
  <2>2. /\ app'.pc = "seek" /\ app'.target = Start0 /\ Start0 # NoSeek
        /\ app' \in [pc : {"idle", "seek", "joinAudio", "joinExtractor"},
                     target : Targets \cup {NoSeek, Start0}]
    BY <2>1 DEF Start0, NoSeek
  <2>3. /\ mp' \in PlayerType /\ IDHasItem(mp')
        /\ mp'.mWatchForAudioEOS = m.mWatchForAudioEOS
        /\ mp'.mFlags = m.mFlags \ {"AUDIO_RUNNING"} /\ ~mp'.pending["video"]
    BY <2>1, SeekToIs
  <2> QED BY <1>1, <2>2, <2>3
<1>2. CASE "AT_EOS" \notin m.mFlags
  <2>1. app' = Idle /\ mp' = m BY <1>2 DEF PlayAgain
  <2>2. /\ app'.pc = "idle"
        /\ app' \in [pc : {"idle", "seek", "joinAudio", "joinExtractor"},
                     target : Targets \cup {NoSeek, Start0}]
    BY <2>1 DEF Idle
  <2> QED BY <1>2, <2>1, <2>2
<1> QED BY <1>1, <1>2

LEMMA PlayKeeps ==
  ASSUME PlayerInv, Play
  PROVE  PlayerInv'
<1> DEFINE c == Clear(mp, {"SEEK_PREVIEW"})
           m == Set(c, {"PLAYING"})
           a == IF "audio" \in media /\ ~audio.exists THEN Audio!NewAudioPlayer ELSE audio
           fl == (mp.mFlags \ {"SEEK_PREVIEW"}) \cup {"PLAYING"}
<1>1. Call /\ UNCHANGED <<media, flash, ev, ext>> BY DEF Play
<1>2. /\ waits' = "none" /\ asks' \in BOOLEAN /\ app.pc = "idle" /\ ev # "read"
      /\ calls' \in 0 .. MaxCalls
  BY <1>1, CallIs
<1>3. /\ mp \in PlayerType /\ IDHasItem(mp) /\ audio \in AudioShape /\ RunsBy(mp.mFlags, audio)
      /\ media \in Medias
      /\ mp.pending["video"] => mp.posted["video"] > 0 \/ ev = "video"
  BY Facts DEF PlayerInv, VideoIsComing
<1>4. /\ c \in PlayerType /\ IDHasItem(c) /\ Same(mp, c) /\ c.pending = mp.pending
      /\ c.posted = mp.posted /\ c.mFlags = mp.mFlags \ {"SEEK_PREVIEW"}
  BY <1>3, ClearIs
<1> HIDE DEF c
<1>5. /\ m \in PlayerType /\ IDHasItem(m) /\ Same(mp, m) /\ m.pending = mp.pending
      /\ m.posted = mp.posted /\ m.mFlags = fl
  BY <1>4, SetIs, FlagsAre DEF Same
<1>6. \/ "PLAYING" \in mp.mFlags /\ mp' = m /\ UNCHANGED <<audio, app>>
      \/ /\ "PLAYING" \notin mp.mFlags /\ "video" \in media
         /\ PlayAgain(Post(m, "video")) /\ audio' = a
      \/ /\ "PLAYING" \notin mp.mFlags /\ "video" \notin media
         /\ \E s \in StartAudioPlayer_l(m, a) :
              IF s.ok
              THEN PlayAgain(s.mp) /\ audio' =
                     IF "AT_EOS" \in s.mp.mFlags THEN Audio!Paused(s.audio) ELSE s.audio
              ELSE /\ mp' = Clear(m, {"PLAYING"}) /\ audio' = Audio!NoAudioPlayer
                   /\ UNCHANGED app
  BY Zenon DEF Play, c
<1>7. /\ a \in AudioShape /\ RunsBy(mp.mFlags, a) /\ ("audio" \in media => a.exists)
      /\ audio.exists => a.exists
  <2>1. CASE "audio" \in media /\ ~audio.exists
    <3>1. a = Audio!NewAudioPlayer BY <2>1
    <3> QED BY <2>1, <3>1, NoAudioIs DEF RunsBy, StartedQueue, Sounds
  <2>2. CASE ~("audio" \in media /\ ~audio.exists)
    <3>1. a = audio BY <2>2
    <3>2. "audio" \in media => audio.exists BY <1>3, <2>2 DEF AudioShape
    <3> QED BY <1>3, <3>1, <3>2
  <2> QED BY <2>1, <2>2
<1> HIDE DEF m, a
<1>8. CASE "PLAYING" \in mp.mFlags /\ mp' = m /\ UNCHANGED <<audio, app>>
  <2>1. fl \subseteq mp.mFlags /\ mp.mFlags \subseteq fl \cup {"SEEK_PREVIEW"} BY <1>8
  <2>2. RunsBy(mp'.mFlags, audio') BY <1>3, <1>5, <1>8 DEF RunsBy, StartedQueue
  <2>3. Types' BY <1>1, <1>2, <1>3, <1>5, <1>8 DEF PlayerInv, Types, TypeOK, PlayerType
  <2>4. VideoIsWanted' BY <1>1, <1>2, <1>5, <1>8 DEF PlayerInv, VideoIsWanted
  <2>5. VideoGoesRound'
    BY <1>1, <1>2, <1>5, <1>8 DEF PlayerInv, VideoGoesRound, Starting, SeekUnderWay
  <2>6. PlaysFromTheStart'
    BY <1>1, <1>2, <1>5, <1>8 DEF PlayerInv, PlaysFromTheStart, SeekUnderWay
  <2> QED
    BY <1>1, <1>2, <1>3, <1>5, <1>8, <2>2, <2>3, <2>4, <2>5, <2>6
    DEF Same, PlayerInv, VideoIsComing, POwnedOnce, AudioIsRun, AudioIsThere, CallUnderWay
<1>9. CASE /\ "PLAYING" \notin mp.mFlags /\ "video" \in media
           /\ PlayAgain(Post(m, "video")) /\ audio' = a
  <2> DEFINE n == Post(m, "video")
  <2>1. /\ n \in PlayerType /\ IDHasItem(n) /\ Same(m, n) /\ n.mFlags = fl
        /\ n.pending["video"]
        /\ m.posted["video"] > 0 => n.posted["video"] > 0
        /\ ~m.pending["video"] => n.posted["video"] > 0
    <3>1. n.mFlags = m.mFlags BY <1>5, EventsAre, PostIs, Zenon
    <3> QED BY <1>5, <3>1, EventsAre, PostIs, Zenon
  <2>2. n.posted["video"] > 0 \/ ev = "video" BY <1>3, <1>5, <2>1
  <2>3. PlayAgain(n) BY <1>9
  <2> HIDE DEF n
  <2>4. /\ mp' \in PlayerType /\ IDHasItem(mp')
        /\ mp'.mWatchForAudioEOS = n.mWatchForAudioEOS
        /\ app' \in [pc : {"idle", "seek", "joinAudio", "joinExtractor"},
                     target : Targets \cup {NoSeek, Start0}]
        /\ \/ /\ "AT_EOS" \in n.mFlags /\ app'.pc = "seek" /\ app'.target # NoSeek
              /\ mp'.mFlags = n.mFlags \ {"AUDIO_RUNNING"} /\ ~mp'.pending["video"]
           \/ "AT_EOS" \notin n.mFlags /\ app'.pc = "idle" /\ mp' = n
    BY <1>2, <2>1, <2>3, PlayAgainIs
  <2>5. Types' BY <1>1, <1>2, <1>7, <1>9, <2>4 DEF PlayerInv, Types, TypeOK, PlayerType
  <2>6. ~Sounds(audio') /\ StartedQueue(mp.mFlags, audio') BY <1>7, <1>9 DEF RunsBy
  <2>7. "AUDIOPLAYER_STARTED" \in mp.mFlags => "AUDIOPLAYER_STARTED" \in mp'.mFlags
    BY <2>1, <2>4
  <2>8. RunsBy(mp'.mFlags, audio') BY <2>6, <2>7 DEF RunsBy, StartedQueue
  <2>9. VideoIsComing' BY <1>1, <2>2, <2>4 DEF VideoIsComing
  <2>10. VideoIsWanted' BY <1>1, <1>2, <1>9, <2>1, <2>4 DEF VideoIsWanted
  <2>11. VideoGoesRound' BY <2>1, <2>4 DEF VideoGoesRound
  <2>12. AudioIsThere' BY <1>1, <1>2, <1>5, <1>7, <1>9, <2>1, <2>4 DEF Same, PlayerInv, AudioIsThere
  <2>13. PlaysFromTheStart' BY <2>1, <2>4 DEF PlaysFromTheStart, SeekUnderWay
  <2>14. POwnedOnce' /\ CallUnderWay' BY <1>1, <1>2, <2>4 DEF POwnedOnce, CallUnderWay
  <2> QED
    BY <2>5, <2>8, <2>9, <2>10, <2>11, <2>12, <2>13, <2>14 DEF PlayerInv, AudioIsRun
<1>10. CASE /\ "PLAYING" \notin mp.mFlags /\ "video" \notin media
            /\ \E s \in StartAudioPlayer_l(m, a) :
                 IF s.ok
                 THEN PlayAgain(s.mp) /\ audio' =
                        IF "AT_EOS" \in s.mp.mFlags THEN Audio!Paused(s.audio) ELSE s.audio
                 ELSE /\ mp' = Clear(m, {"PLAYING"}) /\ audio' = Audio!NoAudioPlayer
                      /\ UNCHANGED app
  <2>1. PICK s \in StartAudioPlayer_l(m, a) :
          IF s.ok
          THEN PlayAgain(s.mp) /\ audio' =
                 IF "AT_EOS" \in s.mp.mFlags THEN Audio!Paused(s.audio) ELSE s.audio
          ELSE /\ mp' = Clear(m, {"PLAYING"}) /\ audio' = Audio!NoAudioPlayer
               /\ UNCHANGED app
    BY <1>10
  <2>2. a.exists
    <3>1. media \subseteq {"video", "audio"} /\ media # {} BY <1>3, PlayerAssumption
    <3>2. "audio" \in media BY <1>10, <3>1
    <3> QED BY <1>7, <3>2
  <2>3. ~mp.pending["video"] BY <1>10 DEF PlayerInv, VideoIsWanted
  <2>4. StartedQueue(m.mFlags, a) BY <1>5, <1>7 DEF RunsBy, StartedQueue
  <2>5. /\ OnlyAudio(m, s.mp) /\ s.audio \in AudioShape /\ s.audio.exists
        /\ RunsBy(s.mp.mFlags, s.audio) /\ s.ok \in BOOLEAN
        /\ s.mp.mWatchForAudioEOS =>
             m.mWatchForAudioEOS \/ "AUDIOPLAYER_STARTED" \in s.mp.mFlags
        /\ ~s.ok => "AUDIOPLAYER_STARTED" \notin m.mFlags
    <3>1. "PLAYING" \in m.mFlags BY <1>5
    <3> QED BY <1>5, <1>7, <2>2, <2>4, <3>1, StartIs
  <2>6. mp.mWatchForAudioEOS => "AUDIOPLAYER_STARTED" \in mp.mFlags
    BY <1>10 DEF PlayerInv, AudioIsThere
  <2>7. CASE s.ok
    <3>1. PlayAgain(s.mp) /\ audio' =
            IF "AT_EOS" \in s.mp.mFlags THEN Audio!Paused(s.audio) ELSE s.audio
      BY <2>1, <2>7
    <3>2. /\ mp' \in PlayerType /\ IDHasItem(mp')
          /\ mp'.mWatchForAudioEOS = s.mp.mWatchForAudioEOS
          /\ app' \in [pc : {"idle", "seek", "joinAudio", "joinExtractor"},
                       target : Targets \cup {NoSeek, Start0}]
          /\ \/ /\ "AT_EOS" \in s.mp.mFlags /\ app'.pc = "seek" /\ app'.target # NoSeek
                /\ mp'.mFlags = s.mp.mFlags \ {"AUDIO_RUNNING"} /\ ~mp'.pending["video"]
             \/ "AT_EOS" \notin s.mp.mFlags /\ app'.pc = "idle" /\ mp' = s.mp
      BY <1>2, <2>5, <3>1, PlayAgainIs DEF OnlyAudio
    <3>3. ~mp'.pending["video"] BY <1>5, <2>3, <2>5, <3>2 DEF OnlyAudio
    <3>4. fl \subseteq s.mp.mFlags BY <1>5, <2>5 DEF OnlyAudio
    <3>5. "AUDIOPLAYER_STARTED" \in s.mp.mFlags => "AUDIOPLAYER_STARTED" \in mp'.mFlags
      BY <3>2
    <3>6. audio' \in AudioShape /\ audio'.exists /\ RunsBy(mp'.mFlags, audio')
      <4>1. CASE "AT_EOS" \in s.mp.mFlags
        <5>1. Stays(s.audio, audio') /\ ~Sounds(audio') BY <2>5, <3>1, <4>1, PausedIs
        <5> QED BY <2>5, <3>5, <5>1 DEF RunsBy, StartedQueue, Stays
      <4>2. CASE "AT_EOS" \notin s.mp.mFlags BY <2>5, <3>1, <3>2, <4>2
      <4> QED BY <4>1, <4>2
    <3>7. Types' BY <1>1, <1>2, <3>2, <3>6 DEF PlayerInv, Types, TypeOK, PlayerType
    <3>8. mp'.mWatchForAudioEOS => "AUDIOPLAYER_STARTED" \in mp'.mFlags
      BY <1>5, <2>5, <2>6, <3>2, <3>4, <3>5 DEF Same
    <3>9. PlaysFromTheStart' BY <3>2 DEF PlaysFromTheStart, SeekUnderWay
    <3> QED
      BY <1>1, <1>2, <1>10, <3>2, <3>3, <3>6, <3>7, <3>8, <3>9
      DEF PlayerInv, VideoIsComing, POwnedOnce, VideoIsWanted, VideoGoesRound, AudioIsRun,
          AudioIsThere, CallUnderWay
  <2>8. CASE ~s.ok
    <3>1. mp' = Clear(m, {"PLAYING"}) /\ audio' = Audio!NoAudioPlayer /\ UNCHANGED app
      BY <2>1, <2>8
    <3>2. /\ mp' \in PlayerType /\ IDHasItem(mp') /\ Same(m, mp') /\ mp'.pending = m.pending
          /\ mp'.mFlags = m.mFlags \ {"PLAYING"}
      BY <1>5, <3>1, ClearIs
    <3>3. audio' \in AudioShape /\ RunsBy(mp'.mFlags, audio')
      BY <3>1, NoAudioIs DEF RunsBy, StartedQueue, Sounds
    <3>4. ~mp'.mWatchForAudioEOS BY <1>5, <2>5, <2>6, <2>8, <3>2 DEF Same, PlayerType
    <3>5. "PLAYING" \notin mp'.mFlags /\ ~mp'.pending["video"] BY <1>5, <2>3, <3>2
    <3>6. Types' BY <1>1, <1>2, <3>1, <3>2, <3>3 DEF PlayerInv, Types, TypeOK, PlayerType
    <3> QED
      BY <1>1, <1>2, <3>1, <3>2, <3>3, <3>4, <3>5, <3>6
      DEF PlayerInv, VideoIsComing, POwnedOnce, VideoIsWanted, VideoGoesRound, AudioIsRun,
          AudioIsThere, CallUnderWay, PlaysFromTheStart
  <2> QED BY <2>5, <2>7, <2>8
<1> QED BY <1>6, <1>8, <1>9, <1>10

-----------------------------------------------------------------------------
(***************************************************************************)
(* The theorems.                                                           *)
(***************************************************************************)

LEMMA InitGood == Init => PlayerInv
<1> SUFFICES ASSUME Init PROVE PlayerInv OBVIOUS
<1>1. /\ mp = Prepared /\ media \in Medias /\ audio = Audio!NoAudioPlayer /\ flash = FALSE
      /\ app = [pc |-> "idle", target |-> NoSeek] /\ ev = "idle" /\ ext = NewExtractor
      /\ asks = FALSE /\ waits = "none" /\ calls = 0
  BY DEF Init
<1>2. /\ mp \in PlayerType /\ mp.mFlags = {} /\ ~mp.pending["video"] /\ IDHasItem(mp)
      /\ ~mp.mWatchForAudioEOS
  <2> DEFINE p == [e \in Events |-> FALSE]
             q == [e \in Events |-> 0]
             i == [e \in Events |-> FALSE]
  <2>1. mp = [mFlags |-> {}, mSeeking |-> FALSE, mSeekNotificationSent |-> TRUE,
              mWatchForAudioEOS |-> FALSE, mVideoBuffer |-> FALSE,
              pending |-> p, posted |-> q, id |-> i]
    BY <1>1, Zenon DEF Prepared
  <2>2. /\ p \in [Events -> BOOLEAN] /\ q \in [Events -> Nat] /\ i \in [Events -> BOOLEAN]
        /\ ~p["video"] /\ \A e \in Events : ~i[e]
    BY EventsAre
  <2> HIDE DEF p, q, i
  <2>3. mp \in PlayerType BY <2>1, <2>2 DEF PlayerType
  <2>4. IDHasItem(mp) BY <2>1, <2>2 DEF IDHasItem
  <2> QED BY <2>1, <2>2, <2>3, <2>4
<1>3. RunsBy(mp.mFlags, audio) /\ audio \in AudioShape
  BY <1>1, NoAudioIs DEF RunsBy, StartedQueue, Sounds
<1>4. Types
  <2>1. app \in [pc : {"idle", "seek", "joinAudio", "joinExtractor"},
                 target : Targets \cup {NoSeek, Start0}]
    BY <1>1
  <2>2. ext \in [pc : {"idle", "posted", "ending", "seek", "sought", "callback"},
                 target : Targets \cup {NoSeek, Start0},
                 mSeekTimeUs : Targets \cup {NoSeek, Start0}, mReachedEnd : BOOLEAN]
    BY <1>1 DEF NewExtractor
  <2>3. calls \in 0 .. MaxCalls BY <1>1, PlayerAssumption
  <2> QED BY <1>1, <1>2, <1>3, <2>1, <2>2, <2>3 DEF Types, TypeOK, PlayerType
<1> QED
  BY <1>1, <1>2, <1>3, <1>4
  DEF PlayerInv, VideoIsComing, POwnedOnce, VideoIsWanted, VideoGoesRound, AudioIsRun,
      AudioIsThere, CallUnderWay, PlaysFromTheStart

LEMMA StepKeepsPlayerInv == PlayerInv /\ [Next]_vars => PlayerInv'
<1> SUFFICES ASSUME PlayerInv, [Next]_vars PROVE PlayerInv' OBVIOUS
<1>1. CASE Calls BY <1>1, PlayKeeps, PauseKeeps, SeekKeeps, ResetKeeps DEF Calls
<1>2. CASE CallStep
  BY <1>2, ExtractorSeekKeeps, JoinAudioKeeps, JoinExtractorKeeps DEF CallStep
<1>3. CASE EventStep
  BY <1>3, FireKeeps, CancelledKeeps, VideoFrameKeeps, VideoAgainKeeps, VideoStarvesKeeps,
     ReadOnKeeps, VideoEndsKeeps, StreamDoneKeeps, StatusKeeps
  DEF EventStep
<1>4. CASE AudioStep \/ Drain BY <1>4, AudioKeeps
<1>5. CASE ExtractorStep BY <1>5, ExtractorKeeps, CallsBackKeeps DEF ExtractorStep
<1>6. ASSUME NEW thread \in {"app", "ev"}, WaitForAudio(thread) PROVE PlayerInv'
  BY <1>6, WaitKeeps
<1>7. CASE UNCHANGED vars
  BY <1>7
  DEF vars, locks, PlayerInv, Types, TypeOK, VideoIsComing, POwnedOnce, VideoIsWanted,
      VideoGoesRound, Starting, AudioIsRun, AudioIsThere, CallUnderWay, PlaysFromTheStart,
      SeekUnderWay
<1> QED BY <1>1, <1>2, <1>3, <1>4, <1>5, <1>6, <1>7 DEF Next

\* The invariant holds, for all media, targets, buffers and numbers of calls.
THEOREM PlayerIsGood == Spec => []PlayerInv
<1>1. Init => PlayerInv BY InitGood
<1>2. PlayerInv /\ [Next]_vars => PlayerInv' BY StepKeepsPlayerInv
<1> QED BY <1>1, <1>2, PTL DEF Spec

\* Types of the player's fields, its threads and their waiting.
THEOREM PlayerTypeCorrect == Spec => []TypeOK
<1>1. PlayerInv => TypeOK BY DEF PlayerInv, Types
<1> QED BY <1>1, PlayerIsGood, PTL

\* What is in flight when the player is paused, sought, reset or at its end never
\* makes the device play again (NBAudioPlayer::onAudioEvent, pause_l).
THEOREM SilentUnlessPlaying == Spec => []SoundOnlyWhilePlaying
<1>1. PlayerInv => SoundOnlyWhilePlaying
  BY DEF PlayerInv, AudioIsRun, RunsBy, Sounds, SoundOnlyWhilePlaying
<1> QED BY <1>1, PlayerIsGood, PTL

\* The video event of a player that neither plays nor previews is not pending
\* (postVideoEvent_l, onMediaSeeked).
THEOREM VideoUnlessPaused == Spec => []VideoOnlyWhilePlaying
<1>1. PlayerInv => VideoOnlyWhilePlaying
  BY DEF PlayerInv, VideoIsWanted, VideoOnlyWhilePlaying
<1> QED BY <1>1, PlayerIsGood, PTL

\* No handler, callback or call loses the event that makes the video go on
\* (onVideoEvent, onMediaSeeked, play_l).
THEOREM VideoIsNotLost == Spec => []VideoGoesOn
<1>1. PlayerInv => VideoGoesOn
  <2> SUFFICES ASSUME PlayerInv, "PLAYING" \in mp.mFlags, "video" \in media,
                      "VIDEO_AT_EOS" \notin mp.mFlags, ~SeekUnderWay, PFree,
                      audio.renderer # "none" => "AUDIOPLAYER_STARTED" \in mp.mFlags
               PROVE  mp.pending["video"] /\ (mp.posted["video"] > 0 \/ ev = "video")
    BY DEF VideoGoesOn
  <2>1. app.pc = "idle" /\ ev # "read" BY Facts DEF PFree
  <2>2. mp.pending["video"] BY <2>1 DEF PlayerInv, VideoGoesRound, Starting
  <2> QED BY <2>2 DEF PlayerInv, VideoIsComing
<1> QED BY <1>1, PlayerIsGood, PTL

\* A player at the end that is told to play goes back (play_l, AT_EOS).
THEOREM PlayGoesBack == Spec => []PlaysFromTheStart
<1>1. PlayerInv => PlaysFromTheStart BY DEF PlayerInv
<1> QED BY <1>1, PlayerIsGood, PTL

\* onCheckAudioStatus, which may wait for the lock while the player is reset, does
\* not use an audio player that has been deleted.
THEOREM StatusAsksWhatLives == Spec => []StatusHasAudio
<1>1. PlayerInv => StatusHasAudio
  BY DEF PlayerInv, AudioIsThere, StatusHasAudio, PFree
<1> QED BY <1>1, PlayerIsGood, PTL

-----------------------------------------------------------------------------
(***************************************************************************)
(* The player uses the audio player as it may be used: each step makes     *)
(* calls that are allowed, or is one of the audio player's own.            *)
(***************************************************************************)

\* What the player relies on when it calls the audio player, unless it resets.
Usable(flags, a) ==
  /\ ~a.exists => a = Audio!NoAudioPlayer
  /\ a.mQueueStart => a.renderer # "none"
  /\ "AUDIOPLAYER_STARTED" \in flags => a.exists /\ a.mQueueStart
  /\ "AUDIO_RUNNING" \in flags => "AUDIOPLAYER_STARTED" \in flags

\* Without a video nothing is posted to a queue that has not been started.
PostedOnlyStarted(a) == "video" \notin media /\ a.mAudioEventPending => a.mQueueStart

\* A reset has stopped it first.
AudioIsUsable ==
  /\ app.pc \in {"idle", "seek"} => Usable(mp.mFlags, audio)
  /\ app.pc = "joinAudio" =>
       /\ ~audio.exists => audio = Audio!NoAudioPlayer
       /\ ~audio.mAudioEventPending /\ audio.renderer = "none"
  /\ PostedOnlyStarted(audio)

ContractStep == [Audio!Next \/ Audio!Calls]_<<audio, flash>>

LEMMA CallsAre ==
  ASSUME NEW a
  PROVE  /\ ~a.exists => Audio!NewAudioPlayer \in Audio!OneCall(a)
         /\ Audio!CanDelete(a) => Audio!NoAudioPlayer \in Audio!OneCall(a)
         /\ Audio!CanStart(a) => /\ Audio!Started(a) \in Audio!OneCall(a)
                                 /\ Audio!StartFailed(a) \in Audio!OneCall(a)
         /\ Audio!CanPause(a) => /\ Audio!Paused(a) \in Audio!OneCall(a)
                                 /\ Audio!Resumed(a) \in Audio!OneCall(a)
         /\ Audio!CanSeek(a) => Audio!SeekTo(a) \in Audio!OneCall(a)
         /\ a.exists => Audio!Stopped(a) \in Audio!OneCall(a)
BY Zenon DEF Audio!OneCall

MayCall(a) == {a} \cup Audio!OneCall(a)

\* Up to three calls in a step.
LEMMA CallsInAStep ==
  ASSUME UNCHANGED flash, NEW b \in MayCall(audio), NEW c \in MayCall(b), audio' \in MayCall(c)
  PROVE  ContractStep
<1>1. CASE audio' = audio BY <1>1 DEF ContractStep
<1>2. CASE audio' # audio
  <2>1. \E x \in Audio!OneCall(audio) : \E y \in MayCall(x) : audio' \in MayCall(y)
    <3>1. CASE b # audio
      <4>1. b \in Audio!OneCall(audio) BY <3>1 DEF MayCall
      <4> QED BY <4>1
    <3>2. CASE b = audio /\ c # audio
      <4>1. c \in Audio!OneCall(audio) /\ c \in MayCall(c) BY <3>2 DEF MayCall
      <4> QED BY <4>1
    <3>3. CASE b = audio /\ c = audio
      <4>1. audio' \in Audio!OneCall(audio) /\ audio' \in MayCall(audio')
        BY <1>2, <3>3 DEF MayCall
      <4> QED BY <4>1
    <3> QED BY <3>1, <3>2, <3>3
  <2>2. Audio!Calls BY <2>1, Zenon DEF Audio!Calls, MayCall
  <2> QED BY <2>2 DEF ContractStep
<1> QED BY <1>1, <1>2

LEMMA StayCalls == ASSUME NEW a PROVE a \in MayCall(a)
BY DEF MayCall

LEMMA StartCalls ==
  ASSUME NEW m \in PlayerType, NEW a \in AudioShape, IDHasItem(m), Usable(m.mFlags, a),
         StartedQueue(m.mFlags, a), NEW s \in StartAudioPlayer_l(m, a)
  PROVE  /\ s.audio \in MayCall(a) /\ Usable(s.mp.mFlags, s.audio) /\ s.audio \in AudioShape
         /\ PostedOnlyStarted(a) => PostedOnlyStarted(s.audio)
         /\ ~s.ok => /\ s.audio.exists /\ ~s.audio.mQueueStart /\ s.audio.firing = a.firing
                     /\ s.audio.mAudioEventPending = a.mAudioEventPending
<1> DEFINE f == {"AUDIO_RUNNING", "AUDIOPLAYER_STARTED"}
           c == Set(m, f)
           running == [c EXCEPT !.mWatchForAudioEOS = TRUE]
<1>1. c \in PlayerType /\ c.mFlags = m.mFlags \cup f BY SetIs, FlagsAre
<1>2. running.mFlags = m.mFlags \cup f
  <2> HIDE DEF c
  <2> QED BY <1>1 DEF PlayerType
<1>3. CASE ~a.exists
  <2>1. s = [mp |-> m, audio |-> a, ok |-> TRUE] BY <1>3 DEF StartAudioPlayer_l
  <2>2. s.mp = m /\ s.audio = a /\ s.ok = TRUE BY <2>1
  <2> QED BY <2>2, StayCalls, Zenon
<1>4. CASE a.exists /\ "AUDIOPLAYER_STARTED" \in m.mFlags
  <2> DEFINE b == Audio!Resumed(a)
  <2>1. s = [mp |-> running, audio |-> b, ok |-> TRUE] BY <1>4 DEF StartAudioPlayer_l
  <2>2. s.mp = running /\ s.audio = b /\ s.ok = TRUE BY <2>1
  <2>3. Stays(a, b) /\ b.renderer = a.renderer BY PostAudioIs, Zenon DEF Audio!Resumed
  <2>4. Audio!CanPause(a) /\ a.mQueueStart BY <1>4 DEF Usable, Audio!CanPause
  <2>5. b \in MayCall(a) BY <2>4, CallsAre, Zenon DEF MayCall
  <2> HIDE DEF b, running
  <2>6. Usable(running.mFlags, b) BY <1>2, <1>4, <2>3, <2>4 DEF Usable, Stays
  <2> QED BY <2>2, <2>3, <2>4, <2>5, <2>6, Zenon DEF Stays, PostedOnlyStarted
<1>5. CASE a.exists /\ "AUDIOPLAYER_STARTED" \notin m.mFlags
  <2> DEFINE b == Audio!Started(a)
             d == Audio!StartFailed(a)
  <2>1. s = [mp |-> running, audio |-> b, ok |-> TRUE] \/ s = [mp |-> m, audio |-> d, ok |-> FALSE]
    BY <1>5 DEF StartAudioPlayer_l
  <2>2. ~a.mQueueStart BY <1>5 DEF StartedQueue
  <2>3. Audio!CanStart(a) BY <1>5, <2>2 DEF Audio!CanStart
  <2>4. b \in MayCall(a) /\ d \in MayCall(a) BY <2>3, CallsAre, Zenon DEF MayCall
  <2>5. CASE s = [mp |-> running, audio |-> b, ok |-> TRUE]
    <3>1. s.mp = running /\ s.audio = b /\ s.ok = TRUE BY <2>5
    <3>2. b \in AudioShape /\ b.exists = a.exists /\ b.mQueueStart /\ b.renderer # "none"
      BY StartedIs
    <3> HIDE DEF b, running
    <3>3. Usable(running.mFlags, b) BY <1>2, <1>5, <3>2 DEF Usable
    <3> QED BY <2>4, <3>1, <3>2, <3>3, Zenon DEF PostedOnlyStarted
  <2>6. CASE s = [mp |-> m, audio |-> d, ok |-> FALSE]
    <3>1. s.mp = m /\ s.audio = d /\ s.ok = FALSE BY <2>6
    <3>2. /\ Stays(a, d) /\ d.renderer # "none" /\ d.mAudioEventPending = a.mAudioEventPending
      BY StartFailedIs
    <3> HIDE DEF d
    <3>3. Usable(m.mFlags, d) BY <1>5, <3>2 DEF Usable, Stays
    <3> QED BY <1>5, <2>2, <2>4, <3>1, <3>2, <3>3, Zenon DEF Stays, PostedOnlyStarted
  <2> QED BY <2>1, <2>5, <2>6
<1> QED BY <1>3, <1>4, <1>5

LEMMA StartedTypeIs ==
  ASSUME NEW m \in PlayerType, NEW a, IDHasItem(m), NEW s \in StartAudioPlayer_l(m, a)
  PROVE  s.mp \in PlayerType /\ IDHasItem(s.mp)
<1> DEFINE c == Set(m, {"AUDIO_RUNNING", "AUDIOPLAYER_STARTED"})
           running == [c EXCEPT !.mWatchForAudioEOS = TRUE]
<1>1. c \in PlayerType /\ IDHasItem(c) BY SetIs, FlagsAre
<1>2. \E x, b : s = [mp |-> m, audio |-> x, ok |-> b] \/ s = [mp |-> running, audio |-> x, ok |-> b]
  BY Zenon DEF StartAudioPlayer_l
<1> HIDE DEF c, running
<1>5. s.mp = m \/ s.mp = running BY <1>2
<1> USE DEF running
<1>3. running \in PlayerType /\ running.id = c.id /\ running.posted = c.posted
  BY <1>1 DEF PlayerType
<1>4. IDHasItem(running) BY <1>1, <1>3, Zenon DEF IDHasItem
<1> QED BY <1>3, <1>4, <1>5

LEMMA SoughtCalls ==
  ASSUME NEW m, NEW flags, NEW a \in AudioShape, Usable(flags, a)
  PROVE  LET b == SoughtAudio(m, a)
         IN  b \in MayCall(a) /\ Usable(flags, b)
<1> DEFINE b == SoughtAudio(m, a)
<1>1. Stays(a, b) /\ b.renderer = a.renderer BY SoughtAudioIs
<1>2. CASE FinishesSeek(m) /\ a.exists
  <2>1. b = Audio!SeekTo(a) BY <1>2, Zenon DEF SoughtAudio
  <2>2. Audio!CanSeek(a) BY <1>2 DEF Usable, Audio!CanSeek
  <2>3. b \in MayCall(a) BY <2>1, <2>2, CallsAre, Zenon DEF MayCall
  <2>4. Usable(flags, b)
    <3> HIDE DEF b
    <3> QED BY <1>1, <1>2 DEF Usable, Stays
  <2> QED BY <2>3, <2>4, Zenon
<1>3. CASE ~(FinishesSeek(m) /\ a.exists)
  <2>1. b = a BY <1>3, Zenon DEF SoughtAudio
  <2> QED BY <2>1, StayCalls, Zenon
<1> QED BY <1>2, <1>3

\* Pausing keeps what the calls rely on, for flags of which it may clear the audio's.
LEMMA PausedCalls ==
  ASSUME NEW flags, NEW f, NEW a \in AudioShape, Usable(flags, a), a.exists, a.mQueueStart,
         "AUDIOPLAYER_STARTED" \in f <=> "AUDIOPLAYER_STARTED" \in flags,
         "AUDIO_RUNNING" \in f => "AUDIO_RUNNING" \in flags
  PROVE  LET b == Audio!Paused(a)
         IN  b \in MayCall(a) /\ Usable(f, b) /\ PostedOnlyStarted(b)
<1> DEFINE b == Audio!Paused(a)
<1>1. Audio!CanPause(a) BY DEF Usable, Audio!CanPause
<1>2. b \in MayCall(a) BY <1>1, CallsAre, Zenon DEF MayCall
<1>3. Stays(a, b) /\ (b.renderer = "none" => a.renderer = "none") BY PausedIs
<1> HIDE DEF b
<1>4. Usable(f, b) BY <1>3 DEF Usable, Stays
<1>5. PostedOnlyStarted(b) BY <1>3 DEF PostedOnlyStarted, Stays
<1> QED BY <1>2, <1>4, <1>5 DEF b

LEMMA PausedAudioCalls ==
  ASSUME NEW m, NEW f, audio \in AudioShape, Usable(m.mFlags, audio), PostedOnlyStarted(audio),
         "AUDIOPLAYER_STARTED" \in f <=> "AUDIOPLAYER_STARTED" \in m.mFlags,
         "AUDIO_RUNNING" \notin f
  PROVE  LET b == PausedAudio(m)
         IN  b \in MayCall(audio) /\ Usable(f, b) /\ PostedOnlyStarted(b)
<1>1. CASE "AUDIO_RUNNING" \in m.mFlags
  <2>1. PausedAudio(m) = Audio!Paused(audio) BY <1>1, Zenon DEF PausedAudio
  <2>2. audio.exists /\ audio.mQueueStart BY <1>1 DEF Usable
  <2> QED BY <2>1, <2>2, PausedCalls, Zenon
<1>2. CASE "AUDIO_RUNNING" \notin m.mFlags
  <2>1. PausedAudio(m) = audio BY <1>2, Zenon DEF PausedAudio
  <2>2. Usable(f, audio) BY DEF Usable
  <2> QED BY <2>1, <2>2, StayCalls, Zenon
<1> QED BY <1>1, <1>2

\* Steps that leave the audio player, and its flags, alone.
LEMMA QuietKeepsContract ==
  ASSUME PlayerInv, AudioIsUsable, UNCHANGED <<media, audio>>,
         flash' = flash \/ (flash' = TRUE /\ flash \in BOOLEAN),
         app'.pc = app.pc \/ {app.pc, app'.pc} \subseteq {"idle", "seek"},
         "AUDIOPLAYER_STARTED" \in mp'.mFlags <=> "AUDIOPLAYER_STARTED" \in mp.mFlags,
         "AUDIO_RUNNING" \in mp'.mFlags => "AUDIO_RUNNING" \in mp.mFlags
  PROVE  AudioIsUsable' /\ ContractStep
<1>1. AudioIsUsable' BY DEF AudioIsUsable, Usable, PostedOnlyStarted
<1>2. ContractStep
  <2>1. CASE flash' = flash BY <2>1 DEF ContractStep
  <2>2. CASE flash' = TRUE
    <3>1. Audio!Flash BY <2>2 DEF Audio!Flash
    <3> QED BY <3>1 DEF ContractStep, Audio!Next
  <2> QED BY <2>1, <2>2
<1> QED BY <1>1, <1>2

LEMMA EventFlagsAre ==
  ASSUME PlayerInv,
         \/ \E e \in Events : Fire(e)
         \/ EventCancelled \/ VideoAgain \/ VideoStarves \/ ReadOn
         \/ CheckAudioStatus \/ OnCheckAudioStatus
  PROVE  /\ UNCHANGED <<media, audio, flash, app>>
         /\ mp'.mFlags \in {mp.mFlags, mp.mFlags \cup {"AUDIO_AT_EOS"}}
<1>1. mp \in PlayerType /\ IDHasItem(mp) BY Facts
<1>2. ASSUME NEW e \in Events, Fire(e)
      PROVE UNCHANGED <<media, audio, flash, app>> /\ mp'.mFlags = mp.mFlags
  BY <1>1, <1>2 DEF Fire, PlayerType
<1>3. ASSUME EventCancelled
      PROVE UNCHANGED <<media, audio, flash, app>> /\ mp'.mFlags = mp.mFlags
  BY <1>3 DEF EventCancelled
<1>4. ASSUME VideoAgain \/ VideoStarves
      PROVE UNCHANGED <<media, audio, flash, app>> /\ mp'.mFlags = mp.mFlags
  <2> DEFINE m == VideoFields
  <2>1. /\ UNCHANGED <<media, audio, flash, app>>
        /\ mp' = Post(m, "video") \/ mp' = m
    BY <1>4, Zenon DEF VideoAgain, VideoStarves
  <2>2. m \in PlayerType /\ IDHasItem(m) /\ m.mFlags = mp.mFlags BY VideoFieldsAre
  <2> HIDE DEF m
  <2>3. Post(m, "video").mFlags = m.mFlags BY <2>2, EventsAre, PostIs, Zenon
  <2> QED BY <2>1, <2>2, <2>3
<1>5. ASSUME ReadOn
      PROVE UNCHANGED <<media, audio, flash, app>> /\ mp'.mFlags = mp.mFlags
  <2>1. Post(mp, "video").mFlags = mp.mFlags BY <1>1, EventsAre, PostIs, Zenon
  <2> QED BY <1>5, <2>1 DEF ReadOn
<1>6. ASSUME CheckAudioStatus
      PROVE UNCHANGED <<media, audio, flash, app>> /\ mp'.mFlags = mp.mFlags
  BY <1>1, <1>6 DEF CheckAudioStatus, PlayerType
<1>7. ASSUME OnCheckAudioStatus
      PROVE /\ UNCHANGED <<media, audio, flash, app>>
            /\ mp'.mFlags \in {mp.mFlags, mp.mFlags \cup {"AUDIO_AT_EOS"}}
  <2> DEFINE c == Set(mp, {"AUDIO_AT_EOS"})
             n == [c EXCEPT !.mWatchForAudioEOS = FALSE]
  <2>1. /\ UNCHANGED <<media, audio, flash, app>>
        /\ mp' = Post(n, "streamDone") \/ mp' = mp
    BY <1>7 DEF OnCheckAudioStatus
  <2>2. c \in PlayerType /\ c.mFlags = mp.mFlags \cup {"AUDIO_AT_EOS"} /\ IDHasItem(c)
    BY <1>1, SetIs, FlagsAre
  <2> HIDE DEF c
  <2>3. /\ n \in PlayerType /\ n.mFlags = c.mFlags /\ n.id = c.id
        /\ n.posted = c.posted
    BY <2>2 DEF PlayerType
  <2>4. IDHasItem(n) BY <2>2, <2>3, Zenon DEF IDHasItem
  <2> HIDE DEF n
  <2>5. Post(n, "streamDone").mFlags = n.mFlags BY <2>3, <2>4, EventsAre, PostIs, Zenon
  <2> QED BY <2>1, <2>2, <2>3, <2>5
<1> QED BY <1>2, <1>3, <1>4, <1>5, <1>6, <1>7

LEMMA AudioKeepsContract ==
  ASSUME PlayerInv, AudioIsUsable, AudioStep \/ Drain
  PROVE  AudioIsUsable' /\ ContractStep
<1>1. /\ mp \in PlayerType /\ audio \in AudioShape /\ IDHasItem(mp) /\ RunsBy(mp.mFlags, audio)
  BY Facts
<1>2. ASSUME FireAudioEvent \/ AudioCancelled \/ Drain
             \/ \E r \in Audio!Results : OnAudioEvent(r)
      PROVE  AudioIsUsable' /\ ContractStep
  <2>1. Audio!Next
    BY <1>2, Zenon DEF FireAudioEvent, AudioCancelled, Drain, OnAudioEvent, Audio!Next, Audio!AudioStep
  <2>2. /\ UNCHANGED <<media, app>>
        /\ mp' = mp \/ mp' = Post(mp, "audioStatus")
    BY <1>2 DEF FireAudioEvent, AudioCancelled, Drain, OnAudioEvent
  <2>3. mp'.mFlags = mp.mFlags
    <3>1. Post(mp, "audioStatus").mFlags = mp.mFlags BY <1>1, EventsAre, PostIs, Zenon
    <3> QED BY <2>2, <3>1
  <2>4. /\ audio'.exists = audio.exists /\ audio'.mQueueStart = audio.mQueueStart
        /\ audio'.renderer = "none" => audio.renderer = "none"
        /\ audio.mQueueStart
        /\ ~audio.mAudioEventPending /\ audio.renderer = "none" =>
             ~audio'.mAudioEventPending /\ audio'.renderer = "none"
    <3>1. CASE FireAudioEvent
      <4>1. audio' = Audio!Fire(audio) /\ audio.mQueueStart
        BY <3>1 DEF FireAudioEvent, Audio!FireAudioEvent, Audio!CanFire
      <4> QED BY <1>1, <4>1, FireIs
    <3>2. CASE AudioCancelled
      <4>1. audio' = [audio EXCEPT !.firing = FALSE] /\ audio.firing
        BY <3>2 DEF AudioCancelled, Audio!HandleCancelled
      <4>2. audio.mQueueStart BY <1>1, <4>1 DEF RunsBy, StartedQueue
      <4> QED BY <1>1, <4>1, <4>2 DEF AudioShape
    <3>3. CASE Drain
      <4>1. audio' = Audio!Drained(audio) /\ audio.renderer = "playing"
        BY <3>3 DEF Drain, Audio!Drain
      <4>2. /\ Stays(audio, audio') /\ audio'.renderer # "none" BY <1>1, <4>1, DrainedIs
      <4>3. audio.mQueueStart
        <5>1. {"PLAYING", "AUDIO_RUNNING"} \subseteq mp.mFlags BY <1>1, <4>1 DEF RunsBy, Sounds
        <5>2. app.pc # "joinAudio" BY <4>1 DEF AudioIsUsable
        <5>3. app.pc # "joinExtractor" BY <4>1, NoAudioIs DEF PlayerInv, AudioIsThere
        <5> QED BY <5>1, <5>2, <5>3, Facts DEF AudioIsUsable, Usable
      <4> QED BY <4>1, <4>2, <4>3 DEF Stays
    <3>4. ASSUME NEW r \in Audio!Results, OnAudioEvent(r)
          PROVE  /\ audio'.exists = audio.exists /\ audio'.mQueueStart = audio.mQueueStart
                 /\ audio'.renderer = "none" => audio.renderer = "none"
                 /\ audio.mQueueStart /\ audio.mAudioEventPending
      <4>1. /\ audio.firing /\ audio.mAudioEventPending
            /\ audio' = Audio!Handled(Audio!Begun(audio), r)
        BY <3>4, Zenon DEF OnAudioEvent, Audio!OnAudioEvent
      <4>2. audio.mQueueStart BY <1>1, <4>1 DEF RunsBy, StartedQueue
      <4> QED BY <1>1, <4>1, <4>2, HandledIs
    <3> QED BY <1>2, <3>1, <3>2, <3>3, <3>4
  <2>5. audio.exists
    <3>1. ~audio.exists => audio = Audio!NoAudioPlayer
      BY Facts DEF PlayerInv, AudioIsThere, AudioIsUsable, Usable
    <3> QED BY <1>1, <2>4, <3>1, NoAudioIs DEF AudioShape
  <2>6. AudioIsUsable' BY <2>2, <2>3, <2>4, <2>5 DEF AudioIsUsable, Usable, PostedOnlyStarted
  <2> QED BY <2>1, <2>6 DEF ContractStep
<1>3. CASE AudioAsks
  <2>1. UNCHANGED <<mp, media, audio, flash, app>> BY <1>3 DEF AudioAsks
  <2> QED BY <2>1, QuietKeepsContract
<1> QED BY <1>2, <1>3 DEF AudioStep

\* The handlers that call the audio player.
LEMMA HandlersKeepContract ==
  ASSUME PlayerInv, AudioIsUsable, VideoFrame \/ VideoEnds \/ OnStreamDone
  PROVE  AudioIsUsable' /\ ContractStep
<1>1. /\ mp \in PlayerType /\ IDHasItem(mp) /\ audio \in AudioShape /\ RunsBy(mp.mFlags, audio)
      /\ StartedQueue(mp.mFlags, audio) /\ audio.exists \in BOOLEAN
  BY Facts DEF RunsBy, AudioShape
<1>2. UNCHANGED <<media, flash, app>> BY DEF VideoFrame, VideoEnds, OnStreamDone
<1>3. app.pc = "idle"
  <2>1. VideoEnds => ev = "read" BY DEF VideoEnds
  <2>2. VideoFrame \/ OnStreamDone => HasLocks("ev") BY DEF VideoFrame, OnStreamDone
  <2> QED BY <2>1, <2>2, LocksAre DEF PlayerInv, POwnedOnce
<1>4. Usable(mp.mFlags, audio) /\ PostedOnlyStarted(audio) BY <1>3 DEF AudioIsUsable
<1>5. ASSUME Usable(mp'.mFlags, audio'), PostedOnlyStarted(audio') PROVE AudioIsUsable'
  BY <1>2, <1>3, <1>5 DEF AudioIsUsable, PostedOnlyStarted
<1>6. CASE VideoFrame
  <2> DEFINE m == VideoFields
  <2>1. PICK s \in WithAudioStarted(m, audio) :
          IF ~s.ok
          THEN mp' = [s.mp EXCEPT !.mVideoBuffer = TRUE] /\ audio' = s.audio
          ELSE /\ audio' = SoughtAudio(s.mp, s.audio)
               /\ \E kept \in IF mp.mSeeking \/ ~audio.exists THEN {FALSE} ELSE BOOLEAN :
                    mp' = Post([SoughtPlayer(s.mp, s.audio) EXCEPT !.mVideoBuffer = kept], "video")
    BY <1>6, Zenon DEF VideoFrame
  <2>2. m \in PlayerType /\ IDHasItem(m) /\ m.mFlags = mp.mFlags BY VideoFieldsAre
  <2>3. mp.mFlags \cap {"PLAYING", "SEEK_PREVIEW"} # {} /\ "video" \in media
    BY <1>6 DEF VideoFrame, PlayerInv, VideoIsWanted
  <2> HIDE DEF m
  <2>4. /\ s.mp \in PlayerType /\ IDHasItem(s.mp) /\ s.audio \in AudioShape
        /\ s.ok \in BOOLEAN
    BY <1>1, <2>2, <2>3, WithStartedIs DEF OnlyAudio
  <2>5. s.audio \in MayCall(audio) /\ Usable(s.mp.mFlags, s.audio)
    <3>1. CASE s \in StartAudioPlayer_l(m, audio) BY <1>1, <1>4, <2>2, <3>1, StartCalls
    <3>2. CASE s = [mp |-> m, audio |-> audio, ok |-> TRUE]
      <4>1. s.mp = m /\ s.audio = audio BY <3>2
      <4> QED BY <1>4, <2>2, <4>1, StayCalls
    <3> QED BY <3>1, <3>2 DEF WithAudioStarted
  <2>6. PostedOnlyStarted(audio') BY <2>3 DEF PostedOnlyStarted
  <2>7. CASE ~s.ok
    <3>1. mp'.mFlags = s.mp.mFlags /\ audio' = s.audio BY <2>1, <2>4, <2>7 DEF PlayerType
    <3> QED BY <1>2, <1>5, <2>5, <2>6, <3>1, StayCalls, CallsInAStep
  <2>8. CASE s.ok
    <3> DEFINE x == SoughtPlayer(s.mp, s.audio)
               b == SoughtAudio(s.mp, s.audio)
    <3>1. audio' = b BY <2>1, <2>8
    <3>2. PICK kept \in BOOLEAN : mp' = Post([x EXCEPT !.mVideoBuffer = kept], "video")
      BY <2>1, <2>8
    <3>3. x \in PlayerType /\ IDHasItem(x) /\ x.mFlags = s.mp.mFlags
      <4>1. s.audio.exists \in BOOLEAN BY <2>4 DEF AudioShape
      <4> QED BY <2>4, <4>1, SoughtIs
    <3>4. b \in MayCall(s.audio) /\ Usable(s.mp.mFlags, b) BY <2>4, <2>5, SoughtCalls
    <3> HIDE DEF x, b
    <3> DEFINE y == [x EXCEPT !.mVideoBuffer = kept]
    <3>5. /\ y \in PlayerType /\ y.mFlags = x.mFlags /\ y.posted = x.posted
          /\ y.id = x.id
      BY <3>3 DEF PlayerType
    <3>6. IDHasItem(y) /\ mp' = Post(y, "video") BY <3>2, <3>3, <3>5, Zenon DEF IDHasItem
    <3> HIDE DEF y
    <3>7. Post(y, "video").mFlags = y.mFlags BY <3>5, <3>6, EventsAre, PostIs, Zenon
    <3>8. mp'.mFlags = s.mp.mFlags BY <3>3, <3>5, <3>6, <3>7
    <3>9. AudioIsUsable' BY <1>5, <2>6, <3>1, <3>4, <3>8
    <3>10. ContractStep BY <1>2, <2>5, <3>1, <3>4, StayCalls, CallsInAStep
    <3> QED BY <3>9, <3>10
  <2> QED BY <2>4, <2>7, <2>8
<1>7. CASE VideoEnds
  <2> DEFINE m == SoughtPlayer(mp, audio)
             a == SoughtAudio(mp, audio)
  <2>1. PICK s \in WithAudioStarted(m, a) :
          mp' = Post(Set(s.mp, {"VIDEO_AT_EOS"}), "streamDone") /\ audio' = s.audio
    BY <1>7, Zenon DEF VideoEnds
  <2>2. m \in PlayerType /\ IDHasItem(m) /\ m.mFlags = mp.mFlags BY <1>1, SoughtIs
  <2>3. Stays(audio, a) BY <1>1, SoughtAudioIs
  <2>4. a \in MayCall(audio) /\ Usable(mp.mFlags, a) BY <1>1, <1>4, SoughtCalls
  <2>5. "video" \in media BY <1>7 DEF VideoEnds, PlayerInv, VideoIsWanted
  <2> HIDE DEF m, a
  <2>6. a \in AudioShape /\ StartedQueue(m.mFlags, a)
    BY <1>1, <2>2, <2>3 DEF Stays, StartedQueue
  <2>7. /\ s.audio \in MayCall(a) /\ Usable(s.mp.mFlags, s.audio)
        /\ s.mp \in PlayerType /\ IDHasItem(s.mp)
    <3>1. CASE s \in StartAudioPlayer_l(m, a)
      <4>1. s.audio \in MayCall(a) /\ Usable(s.mp.mFlags, s.audio)
        BY <2>2, <2>4, <2>6, <3>1, StartCalls
      <4>2. s.mp \in PlayerType /\ IDHasItem(s.mp) BY <2>2, <3>1, StartedTypeIs
      <4> QED BY <4>1, <4>2
    <3>2. CASE s = [mp |-> m, audio |-> a, ok |-> TRUE]
      <4>1. s.mp = m /\ s.audio = a BY <3>2
      <4> QED BY <2>2, <2>4, <4>1, StayCalls
    <3> QED BY <3>1, <3>2 DEF WithAudioStarted
  <2> DEFINE n == Set(s.mp, {"VIDEO_AT_EOS"})
  <2>8. n \in PlayerType /\ IDHasItem(n) /\ n.mFlags = s.mp.mFlags \cup {"VIDEO_AT_EOS"}
    BY <2>7, SetIs, FlagsAre
  <2>9. mp' = Post(n, "streamDone") BY <2>1
  <2> HIDE DEF n
  <2>10. Post(n, "streamDone").mFlags = n.mFlags BY <2>8, EventsAre, PostIs, Zenon
  <2>11. mp'.mFlags = s.mp.mFlags \cup {"VIDEO_AT_EOS"} BY <2>8, <2>9, <2>10
  <2>12. Usable(mp'.mFlags, audio') BY <2>1, <2>7, <2>11 DEF Usable
  <2>13. PostedOnlyStarted(audio') BY <2>5 DEF PostedOnlyStarted
  <2>14. ContractStep BY <1>2, <2>1, <2>4, <2>7, StayCalls, CallsInAStep
  <2> QED BY <1>5, <2>12, <2>13, <2>14
<1>8. CASE OnStreamDone
  <2> DEFINE p == [mp.pending EXCEPT !["streamDone"] = FALSE]
             m == [mp EXCEPT !.pending = p]
             c == Pause_l(m)
             n == Set(c, {"AT_EOS"})
  <2>1. StreamDoneFields = m BY <1>1 DEF StreamDoneFields, PlayerType
  <2>2. p \in [Events -> BOOLEAN] BY <1>1 DEF PlayerType
  <2> HIDE DEF p
  <2>3. m \in PlayerType /\ m.mFlags = mp.mFlags /\ m.posted = mp.posted /\ m.id = mp.id
    BY <1>1, <2>2 DEF PlayerType
  <2>4. IDHasItem(m) BY <1>1, <2>3, Zenon DEF IDHasItem
  <2>5. (mp' = n /\ audio' = PausedAudio(mp)) \/ (mp' = m /\ audio' = audio)
    BY <1>8, <2>1, Zenon DEF OnStreamDone
  <2> HIDE DEF m
  <2>6. CASE mp' = n /\ audio' = PausedAudio(mp)
    <3>1. c \in PlayerType /\ IDHasItem(c) /\ c.mFlags = m.mFlags \ {"AUDIO_RUNNING", "PLAYING"}
      BY <2>3, <2>4, PauseIs, Zenon
    <3> HIDE DEF c
    <3>2. n.mFlags = c.mFlags \cup {"AT_EOS"} BY <3>1, SetIs, FlagsAre
    <3>3. /\ "AUDIO_RUNNING" \notin mp'.mFlags
          /\ "AUDIOPLAYER_STARTED" \in mp'.mFlags <=> "AUDIOPLAYER_STARTED" \in mp.mFlags
      BY <2>3, <2>6, <3>1, <3>2
    <3>4. /\ audio' \in MayCall(audio) /\ Usable(mp'.mFlags, audio')
          /\ PostedOnlyStarted(audio')
      BY <1>1, <1>4, <2>6, <3>3, PausedAudioCalls
    <3> QED BY <1>2, <1>5, <3>4, StayCalls, CallsInAStep
  <2>7. CASE mp' = m /\ audio' = audio
    BY <1>2, <2>3, <2>7, QuietKeepsContract
  <2> QED BY <2>5, <2>6, <2>7
<1> QED BY <1>6, <1>7, <1>8

\* The calls of the application.
LEMMA PauseKeepsContract ==
  ASSUME PlayerInv, AudioIsUsable, Pause \/ SeekTo
  PROVE  AudioIsUsable' /\ ContractStep
<1>1. mp \in PlayerType /\ IDHasItem(mp) /\ audio \in AudioShape BY Facts
<1>2. /\ UNCHANGED <<media, flash>> /\ audio' = PausedAudio(mp) /\ app.pc = "idle"
      /\ app' = app \/ app'.pc = "seek"
  BY DEF Pause, SeekTo, Call
<1>3. mp'.mFlags \in {mp.mFlags \ {"AUDIO_RUNNING", "PLAYING"}, mp.mFlags \ {"AUDIO_RUNNING"}}
  <2>1. Pause_l(mp).mFlags = mp.mFlags \ {"AUDIO_RUNNING", "PLAYING"} BY <1>1, PauseIs
  <2>2. SeekTo_l(mp).mFlags = mp.mFlags \ {"AUDIO_RUNNING"} BY <1>1, SeekToIs
  <2> QED BY <2>1, <2>2 DEF Pause, SeekTo
<1>4. /\ "AUDIO_RUNNING" \notin mp'.mFlags
      /\ "AUDIOPLAYER_STARTED" \in mp'.mFlags <=> "AUDIOPLAYER_STARTED" \in mp.mFlags
  BY <1>3
<1>5. Usable(mp.mFlags, audio) /\ PostedOnlyStarted(audio) BY <1>2 DEF AudioIsUsable
<1>6. /\ audio' \in MayCall(audio) /\ Usable(mp'.mFlags, audio')
      /\ PostedOnlyStarted(audio')
  BY <1>1, <1>2, <1>4, <1>5, PausedAudioCalls
<1>7. AudioIsUsable' BY <1>2, <1>6 DEF AudioIsUsable, PostedOnlyStarted
<1> QED BY <1>2, <1>6, <1>7, StayCalls, CallsInAStep

LEMMA ResetKeepsContract ==
  ASSUME PlayerInv, AudioIsUsable, Reset
  PROVE  AudioIsUsable' /\ ContractStep
<1>1. /\ UNCHANGED <<media, flash>> /\ app.pc = "idle" /\ app' = [Idle EXCEPT !.pc = "joinAudio"]
      /\ audio' = IF audio.exists THEN Audio!Stopped(audio) ELSE audio
  BY DEF Reset, Call
<1>2. app'.pc = "joinAudio" BY <1>1 DEF Idle
<1>3. audio \in AudioShape /\ (~audio.exists => audio = Audio!NoAudioPlayer)
  BY <1>1, Facts DEF AudioIsUsable, Usable
<1>4. /\ audio' \in MayCall(audio) /\ (~audio'.exists => audio' = Audio!NoAudioPlayer)
      /\ ~audio'.mAudioEventPending /\ audio'.renderer = "none"
  <2>1. CASE audio.exists
    <3> DEFINE b == Audio!Stopped(audio)
               c == Audio!cancelAudioEvent(audio)
    <3>1. audio' = b /\ b \in MayCall(audio) BY <1>1, <2>1, CallsAre DEF MayCall
    <3>2. Stays(audio, c) /\ ~c.mAudioEventPending BY <1>3, CancelAudioIs
    <3>3. b = [c EXCEPT !.renderer = "none", !.buffers = 0] BY Zenon DEF Audio!Stopped
    <3> HIDE DEF c
    <3>4. b.exists /\ ~b.mAudioEventPending /\ b.renderer = "none"
      <4> HIDE DEF b
      <4> QED BY <2>1, <3>2, <3>3 DEF Stays, AudioShape
    <3> QED BY <3>1, <3>4
  <2>2. CASE ~audio.exists
    <3>1. audio' = Audio!NoAudioPlayer /\ audio' = audio BY <1>1, <1>3, <2>2
    <3>2. ~Audio!NoAudioPlayer.mAudioEventPending BY DEF Audio!NoAudioPlayer
    <3>3. audio' \in MayCall(audio) BY <3>1, StayCalls
    <3> QED BY <3>1, <3>2, <3>3, NoAudioIs
  <2> QED BY <2>1, <2>2
<1>5. AudioIsUsable' BY <1>2, <1>4 DEF AudioIsUsable, PostedOnlyStarted
<1> QED BY <1>1, <1>4, <1>5, StayCalls, CallsInAStep

LEMMA JoinKeepsContract ==
  ASSUME PlayerInv, AudioIsUsable, JoinAudio \/ JoinExtractor
  PROVE  AudioIsUsable' /\ ContractStep
<1>1. /\ ~Audio!NoAudioPlayer.mAudioEventPending /\ ~Audio!NoAudioPlayer.mQueueStart
  BY DEF Audio!NoAudioPlayer
<1>2. ASSUME JoinAudio PROVE AudioIsUsable' /\ ContractStep
  <2>1. /\ app.pc = "joinAudio" /\ ~audio.firing /\ audio' = Audio!NoAudioPlayer
        /\ app' = [app EXCEPT !.pc = "joinExtractor"] /\ UNCHANGED flash
    BY <1>2 DEF JoinAudio
  <2>2. app'.pc = "joinExtractor" BY <2>1 DEF PlayerInv, Types, TypeOK
  <2>3. AudioIsUsable' BY <1>1, <2>1, <2>2 DEF AudioIsUsable, PostedOnlyStarted
  <2>4. audio' \in MayCall(audio)
    <3>1. CASE audio.exists
      <4>1. Audio!CanDelete(audio) BY <2>1, <3>1 DEF AudioIsUsable, Audio!CanDelete
      <4> QED BY <2>1, <4>1, CallsAre DEF MayCall
    <3>2. CASE ~audio.exists
      <4>1. audio' = audio BY <2>1, <3>2 DEF AudioIsUsable
      <4> QED BY <4>1, StayCalls
    <3> QED BY <3>1, <3>2
  <2> QED BY <2>1, <2>3, <2>4, StayCalls, CallsInAStep
<1>3. ASSUME JoinExtractor PROVE AudioIsUsable' /\ ContractStep
  <2>1. /\ app.pc = "joinExtractor" /\ app' = Idle /\ flash' = FALSE /\ mp' = ResetFields
        /\ UNCHANGED audio
    BY <1>3 DEF JoinExtractor
  <2>2. audio = Audio!NoAudioPlayer BY <2>1 DEF PlayerInv, AudioIsThere
  <2>3. mp'.mFlags = {} BY <2>1 DEF ResetFields, Prepared
  <2>4. Usable(mp'.mFlags, audio') BY <1>1, <2>1, <2>2, <2>3 DEF Usable
  <2>5. AudioIsUsable'
    BY <1>1, <2>1, <2>2, <2>4 DEF AudioIsUsable, PostedOnlyStarted, Idle
  <2>6. Audio!Flash BY <2>1, <2>2, NoAudioIs DEF Audio!Flash
  <2> QED BY <2>5, <2>6 DEF ContractStep, Audio!Next
<1> QED BY <1>2, <1>3

LEMMA CallbackKeepsContract ==
  ASSUME PlayerInv, AudioIsUsable, CallsBack
  PROVE  AudioIsUsable' /\ ContractStep
<1> DEFINE c == Clear(mp, EOSFlags)
           d == [c EXCEPT !.mSeekNotificationSent = TRUE]
           f == Set(d, {"SEEK_PREVIEW"})
<1>1. mp \in PlayerType /\ IDHasItem(mp) BY Facts
<1>2. c \in PlayerType /\ IDHasItem(c) /\ c.mFlags = mp.mFlags \ EOSFlags BY <1>1, ClearIs
<1>3. mp' \in {Post(c, "video"), c, Post(f, "video"), d} /\ UNCHANGED <<media, audio, flash, app>>
  BY DEF CallsBack, OnMediaSeeked
<1> HIDE DEF c
<1>4. d \in PlayerType /\ d.mFlags = c.mFlags /\ d.posted = c.posted /\ d.id = c.id
  BY <1>2 DEF PlayerType
<1>5. IDHasItem(d) BY <1>2, <1>4, Zenon DEF IDHasItem
<1> HIDE DEF d
<1>6. f \in PlayerType /\ IDHasItem(f) /\ f.mFlags = d.mFlags \cup {"SEEK_PREVIEW"}
  BY <1>4, <1>5, SetIs, FlagsAre
<1> HIDE DEF f
<1>7. Post(c, "video").mFlags = c.mFlags BY <1>2, EventsAre, PostIs, Zenon
<1>8. Post(f, "video").mFlags = f.mFlags BY <1>6, EventsAre, PostIs, Zenon
<1>9. mp'.mFlags \in {mp.mFlags \ EOSFlags, (mp.mFlags \ EOSFlags) \cup {"SEEK_PREVIEW"}}
  BY <1>2, <1>3, <1>4, <1>6, <1>7, <1>8
<1>10. /\ "AUDIOPLAYER_STARTED" \in mp'.mFlags <=> "AUDIOPLAYER_STARTED" \in mp.mFlags
       /\ "AUDIO_RUNNING" \in mp'.mFlags <=> "AUDIO_RUNNING" \in mp.mFlags
  BY <1>9 DEF EOSFlags
<1> QED BY <1>3, <1>10, QuietKeepsContract

\* What it does to the flags of the audio: it may pause what it has started.
LEMMA PlayKeepsContract ==
  ASSUME PlayerInv, AudioIsUsable, Play
  PROVE  AudioIsUsable' /\ ContractStep
<1> DEFINE c == Clear(mp, {"SEEK_PREVIEW"})
           m == Set(c, {"PLAYING"})
           a == IF "audio" \in media /\ ~audio.exists THEN Audio!NewAudioPlayer ELSE audio
           fl == (mp.mFlags \ {"SEEK_PREVIEW"}) \cup {"PLAYING"}
<1>1. UNCHANGED <<media, flash>> /\ app.pc = "idle" BY DEF Play, Call
<1>2. /\ mp \in PlayerType /\ IDHasItem(mp) /\ audio \in AudioShape /\ RunsBy(mp.mFlags, audio)
      /\ media \in Medias
  BY Facts
<1>3. c \in PlayerType /\ IDHasItem(c) /\ c.mFlags = mp.mFlags \ {"SEEK_PREVIEW"}
  BY <1>2, ClearIs
<1> HIDE DEF c
<1>4. m \in PlayerType /\ IDHasItem(m) /\ m.mFlags = fl BY <1>3, SetIs, FlagsAre
<1>5. \/ "PLAYING" \in mp.mFlags /\ mp' = m /\ UNCHANGED <<audio, app>>
      \/ /\ "PLAYING" \notin mp.mFlags /\ "video" \in media
         /\ PlayAgain(Post(m, "video")) /\ audio' = a
      \/ /\ "PLAYING" \notin mp.mFlags /\ "video" \notin media
         /\ \E s \in StartAudioPlayer_l(m, a) :
              IF s.ok
              THEN PlayAgain(s.mp) /\ audio' =
                     IF "AT_EOS" \in s.mp.mFlags THEN Audio!Paused(s.audio) ELSE s.audio
              ELSE /\ mp' = Clear(m, {"PLAYING"}) /\ audio' = Audio!NoAudioPlayer
                   /\ UNCHANGED app
  BY Zenon DEF Play, c
<1>6. Usable(mp.mFlags, audio) /\ PostedOnlyStarted(audio) BY <1>1 DEF AudioIsUsable
<1>7. /\ "AUDIOPLAYER_STARTED" \in fl <=> "AUDIOPLAYER_STARTED" \in mp.mFlags
      /\ "AUDIO_RUNNING" \in fl <=> "AUDIO_RUNNING" \in mp.mFlags
      /\ "PLAYING" \in fl
  OBVIOUS
<1>8. /\ a \in AudioShape /\ a \in MayCall(audio) /\ Usable(fl, a) /\ PostedOnlyStarted(a)
      /\ RunsBy(mp.mFlags, a) /\ ("audio" \in media => a.exists)
  <2>1. CASE "audio" \in media /\ ~audio.exists
    <3>1. a = Audio!NewAudioPlayer BY <2>1
    <3>2. a \in MayCall(audio) BY <2>1, <3>1, CallsAre DEF MayCall
    <3>3. Usable(fl, a) BY <1>6, <1>7, <2>1, <3>1, NoAudioIs DEF Usable
    <3>4. ~Audio!NewAudioPlayer.mAudioEventPending
      BY DEF Audio!NewAudioPlayer, Audio!NoAudioPlayer
    <3>5. RunsBy(mp.mFlags, a) BY <3>1, NoAudioIs DEF RunsBy, StartedQueue, Sounds
    <3> QED BY <3>1, <3>2, <3>3, <3>4, <3>5, NoAudioIs DEF PostedOnlyStarted
  <2>2. CASE ~("audio" \in media /\ ~audio.exists)
    <3>1. a = audio BY <2>2
    <3>2. Usable(fl, a) BY <1>6, <1>7, <3>1 DEF Usable
    <3>3. "audio" \in media => a.exists BY <1>2, <2>2, <3>1 DEF AudioShape
    <3> QED BY <1>2, <1>6, <3>1, <3>2, <3>3, StayCalls
  <2> QED BY <2>1, <2>2
<1> HIDE DEF m, a, fl
<1>9. CASE "PLAYING" \in mp.mFlags /\ mp' = m /\ UNCHANGED <<audio, app>>
  BY <1>1, <1>4, <1>7, <1>9, QuietKeepsContract
<1>10. CASE /\ "PLAYING" \notin mp.mFlags /\ "video" \in media
            /\ PlayAgain(Post(m, "video")) /\ audio' = a
  <2> DEFINE n == Post(m, "video")
  <2>1. n \in PlayerType /\ IDHasItem(n) BY <1>4, EventsAre, PostIs, Zenon
  <2>2. n.mFlags = m.mFlags BY <1>4, EventsAre, PostIs, Zenon
  <2>3. PlayAgain(n) BY <1>10
  <2> HIDE DEF n
  <2>4. /\ mp'.mFlags \in {fl, fl \ {"AUDIO_RUNNING"}} /\ app'.pc \in {"idle", "seek"}
    BY <1>1, <1>4, <2>1, <2>2, <2>3, PlayAgainIs
  <2>5. Usable(mp'.mFlags, audio') BY <1>8, <1>10, <2>4 DEF Usable
  <2>6. AudioIsUsable' BY <1>1, <1>8, <1>10, <2>4, <2>5 DEF AudioIsUsable, PostedOnlyStarted
  <2> QED BY <1>1, <1>8, <1>10, <2>6, StayCalls, CallsInAStep
<1>11. CASE /\ "PLAYING" \notin mp.mFlags /\ "video" \notin media
            /\ \E s \in StartAudioPlayer_l(m, a) :
                 IF s.ok
                 THEN PlayAgain(s.mp) /\ audio' =
                        IF "AT_EOS" \in s.mp.mFlags THEN Audio!Paused(s.audio) ELSE s.audio
                 ELSE /\ mp' = Clear(m, {"PLAYING"}) /\ audio' = Audio!NoAudioPlayer
                      /\ UNCHANGED app
  <2>1. PICK s \in StartAudioPlayer_l(m, a) :
          IF s.ok
          THEN PlayAgain(s.mp) /\ audio' =
                 IF "AT_EOS" \in s.mp.mFlags THEN Audio!Paused(s.audio) ELSE s.audio
          ELSE /\ mp' = Clear(m, {"PLAYING"}) /\ audio' = Audio!NoAudioPlayer
               /\ UNCHANGED app
    BY <1>11
  <2>2. a.exists
    <3>1. media \subseteq {"video", "audio"} /\ media # {} BY <1>2, PlayerAssumption
    <3>2. "audio" \in media BY <1>11, <3>1
    <3> QED BY <1>8, <3>2
  <2>3. StartedQueue(m.mFlags, a) BY <1>4, <1>7, <1>8 DEF RunsBy, StartedQueue
  <2>4. /\ s.audio \in MayCall(a) /\ Usable(s.mp.mFlags, s.audio) /\ s.audio \in AudioShape
        /\ PostedOnlyStarted(s.audio)
        /\ ~s.ok => /\ s.audio.exists /\ ~s.audio.mQueueStart /\ s.audio.firing = a.firing
                    /\ s.audio.mAudioEventPending = a.mAudioEventPending
    BY <1>4, <1>8, <2>3, StartCalls
  <2>5. /\ s.ok => "AUDIO_RUNNING" \in s.mp.mFlags
        /\ ~s.ok => s.mp = m /\ "AUDIOPLAYER_STARTED" \notin m.mFlags
        /\ s.ok \in BOOLEAN
    BY <1>4, <1>7, <1>8, <2>2, <2>3, StartIs
  <2>6. s.mp \in PlayerType /\ IDHasItem(s.mp) BY <1>4, StartedTypeIs
  <2>7. CASE s.ok
    <3>1. PlayAgain(s.mp) /\ audio' =
            IF "AT_EOS" \in s.mp.mFlags THEN Audio!Paused(s.audio) ELSE s.audio
      BY <2>1, <2>7
    <3>2. \/ /\ "AT_EOS" \in s.mp.mFlags /\ app'.pc = "seek"
             /\ mp'.mFlags = s.mp.mFlags \ {"AUDIO_RUNNING"}
          \/ "AT_EOS" \notin s.mp.mFlags /\ app'.pc = "idle" /\ mp' = s.mp
      BY <1>1, <2>6, <3>1, PlayAgainIs
    <3>3. /\ audio' \in MayCall(s.audio) /\ Usable(mp'.mFlags, audio')
          /\ PostedOnlyStarted(audio')
      <4>1. CASE "AT_EOS" \in s.mp.mFlags
        <5>1. audio' = Audio!Paused(s.audio) BY <3>1, <4>1
        <5>2. s.audio.exists /\ s.audio.mQueueStart BY <2>4, <2>5, <2>7 DEF Usable
        <5>3. /\ "AUDIOPLAYER_STARTED" \in mp'.mFlags <=> "AUDIOPLAYER_STARTED" \in s.mp.mFlags
              /\ "AUDIO_RUNNING" \notin mp'.mFlags
          BY <3>2, <4>1
        <5> QED BY <2>4, <5>1, <5>2, <5>3, PausedCalls, Zenon
      <4>2. CASE "AT_EOS" \notin s.mp.mFlags
        <5>1. audio' = s.audio /\ mp' = s.mp BY <3>1, <3>2, <4>2
        <5> QED BY <2>4, <5>1, StayCalls
      <4> QED BY <4>1, <4>2
    <3>4. AudioIsUsable' BY <1>1, <3>2, <3>3 DEF AudioIsUsable, PostedOnlyStarted
    <3> QED BY <1>1, <1>8, <2>4, <3>3, <3>4, CallsInAStep
  <2>8. CASE ~s.ok
    <3>1. mp' = Clear(m, {"PLAYING"}) /\ audio' = Audio!NoAudioPlayer /\ UNCHANGED app
      BY <2>1, <2>8
    <3>2. mp'.mFlags = m.mFlags \ {"PLAYING"} BY <1>4, <3>1, ClearIs
    <3>3. ~s.audio.firing /\ ~s.audio.mAudioEventPending
      BY <1>11, <2>3, <2>4, <2>5, <2>8 DEF StartedQueue, PostedOnlyStarted
    <3>4. Audio!CanDelete(s.audio) BY <2>4, <2>8, <3>3 DEF Audio!CanDelete
    <3>5. audio' \in MayCall(s.audio) BY <3>1, <3>4, CallsAre DEF MayCall
    <3>6. "AUDIO_RUNNING" \notin mp'.mFlags /\ "AUDIOPLAYER_STARTED" \notin mp'.mFlags
      BY <2>4, <2>5, <2>8, <3>2 DEF Usable
    <3>7. Usable(mp'.mFlags, audio') BY <3>1, <3>6, NoAudioIs DEF Usable
    <3>8. ~Audio!NoAudioPlayer.mAudioEventPending BY DEF Audio!NoAudioPlayer
    <3>9. AudioIsUsable' BY <1>1, <3>1, <3>7, <3>8 DEF AudioIsUsable, PostedOnlyStarted
    <3> QED BY <1>1, <1>8, <2>4, <3>5, <3>9, CallsInAStep
  <2> QED BY <2>5, <2>7, <2>8
<1> QED BY <1>5, <1>9, <1>10, <1>11

LEMMA ContractKept == PlayerInv /\ AudioIsUsable /\ [Next]_vars => AudioIsUsable' /\ ContractStep
<1> SUFFICES ASSUME PlayerInv, AudioIsUsable, [Next]_vars
             PROVE  AudioIsUsable' /\ ContractStep
  OBVIOUS
<1>1. CASE Calls
  BY <1>1, PlayKeepsContract, PauseKeepsContract, ResetKeepsContract DEF Calls
<1>2. CASE ExtractorSeekTo
  <2>1. /\ UNCHANGED <<mp, media, audio, flash>> /\ app.pc = "seek" /\ app'.pc = "idle"
    BY <1>2 DEF ExtractorSeekTo, Idle
  <2> QED BY <2>1, QuietKeepsContract
<1>3. CASE JoinAudio \/ JoinExtractor BY <1>3, JoinKeepsContract
<1>4. CASE VideoFrame \/ VideoEnds \/ OnStreamDone BY <1>4, HandlersKeepContract
<1>5. ASSUME \/ \E e \in Events : Fire(e)
             \/ EventCancelled \/ VideoAgain \/ VideoStarves \/ ReadOn
             \/ CheckAudioStatus \/ OnCheckAudioStatus
      PROVE  AudioIsUsable' /\ ContractStep
  <2>1. /\ UNCHANGED <<media, audio, flash, app>>
        /\ mp'.mFlags \in {mp.mFlags, mp.mFlags \cup {"AUDIO_AT_EOS"}}
    BY <1>5, EventFlagsAre, Zenon
  <2> QED BY <2>1, QuietKeepsContract
<1>6. CASE AudioStep \/ Drain BY <1>6, AudioKeepsContract
<1>7. CASE CallsBack BY <1>7, CallbackKeepsContract
<1>8. CASE ExtractorBegins \/ ExtractorEnds \/ ExtractorSeeks \/ FinishSeek
  <2>1. UNCHANGED <<mp, media, audio, app>>
    BY <1>8 DEF ExtractorBegins, ExtractorEnds, ExtractorSeeks, FinishSeek
  <2>2. flash' = flash \/ (flash' = TRUE /\ flash \in BOOLEAN)
    BY <1>8, Facts DEF ExtractorBegins, ExtractorEnds, ExtractorSeeks, FinishSeek
  <2> QED BY <2>1, <2>2, QuietKeepsContract
<1>9. ASSUME NEW thread \in {"app", "ev"}, WaitForAudio(thread)
      PROVE  AudioIsUsable' /\ ContractStep
  BY <1>9, QuietKeepsContract DEF WaitForAudio
<1>10. CASE UNCHANGED vars BY <1>10, QuietKeepsContract DEF vars
<1> QED
  BY <1>1, <1>2, <1>3, <1>4, <1>5, <1>6, <1>7, <1>8, <1>9, <1>10
  DEF Next, CallStep, EventStep, ExtractorStep

\* The player calls the audio player only as NBAudioPlayer allows: it starts it
\* once, pauses what has a device, and deletes it when its thread is done.
THEOREM PlayerKeepsContract == Spec => AudioContract
<1>1. Init => AudioIsUsable /\ Audio!Init
  <2> SUFFICES ASSUME Init PROVE AudioIsUsable /\ Audio!Init OBVIOUS
  <2>1. /\ mp = Prepared /\ audio = Audio!NoAudioPlayer /\ flash = FALSE
        /\ app = [pc |-> "idle", target |-> NoSeek]
    BY DEF Init
  <2>2. mp.mFlags = {} /\ ~audio.mAudioEventPending /\ ~audio.mQueueStart /\ app.pc = "idle"
    BY <2>1 DEF Prepared, Audio!NoAudioPlayer
  <2> QED BY <2>1, <2>2 DEF AudioIsUsable, Usable, PostedOnlyStarted, Audio!Init
<1>2. PlayerInv /\ AudioIsUsable /\ [Next]_vars => AudioIsUsable' /\ ContractStep
  BY ContractKept
<1>3. ContractStep => [Audio!Next \/ Audio!Calls]_Audio!vars BY DEF ContractStep, Audio!vars
<1> QED BY <1>1, <1>2, <1>3, PlayerIsGood, PTL DEF Spec, AudioContract, Audio!Contract

-----------------------------------------------------------------------------
(***************************************************************************)
(* The audio player in the player's hands: what holds of it for every      *)
(* client that keeps to its contract.                                      *)
(***************************************************************************)

Alone == INSTANCE NBAudioPlayer_proofs WITH Orderly <- FALSE, MaxChains <- MaxCalls + 1

\* The audio player whose theorems are used is the one the player calls.
LEMMA TheSameStart == Audio!Init => Alone!Init
BY DEF Audio!Init, Alone!Init, Audio!NoAudioPlayer, Alone!NoAudioPlayer

LEMMA TheSameSteps ==
  [Audio!Next \/ Audio!Calls]_Audio!vars => [Alone!Next \/ Alone!Calls]_Alone!vars
BY DEF Audio!Next, Alone!Next, Audio!vars, Alone!vars,
       Audio!Calls, Alone!Calls, Audio!OneCall, Alone!OneCall,
       Audio!Create, Alone!Create, Audio!Start, Alone!Start, Audio!Pause, Alone!Pause,
       Audio!Resume, Alone!Resume, Audio!Seek, Alone!Seek, Audio!Stop, Alone!Stop,
       Audio!Delete, Alone!Delete, Audio!Flash, Alone!Flash, Audio!Call, Alone!Call,
       Audio!Bounded, Alone!Bounded, Audio!CanStart, Alone!CanStart,
       Audio!CanPause, Alone!CanPause, Audio!CanSeek, Alone!CanSeek,
       Audio!CanDelete, Alone!CanDelete, Audio!NoAudioPlayer, Alone!NoAudioPlayer,
       Audio!NewAudioPlayer, Alone!NewAudioPlayer,
       Audio!postAudioEvent, Alone!postAudioEvent,
       Audio!cancelAudioEvent, Alone!cancelAudioEvent, Audio!Prefill, Alone!Prefill,
       Audio!Started, Alone!Started, Audio!StartFailed, Alone!StartFailed,
       Audio!Silenced, Alone!Silenced, Audio!Paused, Alone!Paused,
       Audio!Resumed, Alone!Resumed, Audio!SeekTo, Alone!SeekTo,
       Audio!Stopped, Alone!Stopped, Audio!AudioStep, Alone!AudioStep,
       Audio!CanFire, Alone!CanFire, Audio!Fire, Alone!Fire,
       Audio!FireAudioEvent, Alone!FireAudioEvent,
       Audio!HandleCancelled, Alone!HandleCancelled,
       Audio!OnAudioEvent, Alone!OnAudioEvent, Audio!Results, Alone!Results,
       Audio!ReadResults, Alone!ReadResults, Audio!Begun, Alone!Begun,
       Audio!FlushALContext, Alone!FlushALContext, Audio!AfterRead, Alone!AfterRead,
       Audio!Handled, Alone!Handled, Audio!Play, Alone!Play,
       Audio!Drain, Alone!Drain, Audio!Drained, Alone!Drained

LEMMA PlayerIsClient == Spec => Alone!Contract
BY PlayerKeepsContract, TheSameStart, TheSameSteps, PTL
   DEF AudioContract, Audio!Contract, Alone!Contract

LEMMA BufferAssumption == Alone!AudioAssumption
BY PlayerAssumption DEF Alone!AudioAssumption

\* Whatever the threads do, the audio player is what it is meant to be: it never
\* pauses a device that is not there (the renderer would be none of Device), queues
\* no more buffers than the device has and cancels no item that is not queued.
THEOREM PlayerMeetsAudioPlayer == Spec => []Audio!TypeOK
<1>1. Alone!TypeOK => Audio!TypeOK
  BY DEF Alone!TypeOK, Audio!TypeOK, Alone!Device, Audio!Device
<1> QED BY <1>1, PlayerIsClient, BufferAssumption, Alone!AudioTypeCorrect, PTL

\* The audio thread has a device to write to unless its event was cancelled, although
\* reset() stops the audio player while the handler may be on its way.
THEOREM PlayerLeavesDevice == Spec => []Audio!DeviceThere
<1>1. Alone!DeviceThere => Audio!DeviceThere BY DEF Alone!DeviceThere, Audio!DeviceThere
<1> QED BY <1>1, PlayerIsClient, BufferAssumption, Alone!ClientHasDevice, PTL

\* As much of it as the locks need.
BuffersFit ==
  audio.buffers \in 0 .. MaxBuffers /\ (audio.mAudioEventPending => audio.exists)

LEMMA PlayerKeepsBuffers == Spec => []BuffersFit
<1>1. Alone!AudioInv => BuffersFit
  BY DEF Alone!AudioInv, Alone!AudioOK, Alone!AudioType, Alone!PendingHasDevice, BuffersFit
<1> QED BY <1>1, PlayerIsClient, BufferAssumption, Alone!AudioInvariant, PTL

-----------------------------------------------------------------------------
(***************************************************************************)
(* Who waits for which lock.                                               *)
(***************************************************************************)

AppWaits == waits = "app" => app.pc = "idle" /\ calls < MaxCalls
EvWaits ==
  waits = "ev" => ev = "status" \/ (ev \in {"video", "streamDone"} /\ mp.pending[ev])
CanAsk(a) ==
  a.firing /\ a.mAudioEventPending /\ "retry" \in Audio!ReadResults(Audio!Begun(a))
AsksRightly == asks => CanAsk(audio)
JoinIsNotAsked == app.pc = "joinAudio" => ~asks /\ ~audio.mAudioEventPending

LocksInv == AppWaits /\ EvWaits /\ AsksRightly /\ JoinIsNotAsked

\* P has no owner, or the thread that has waited with it goes on.
LEMMA HadLocks ==
  ASSUME POwnedOnce, NEW t \in {"app", "ev"}, HasLocks(t)
  PROVE  waits' = "none" /\ ~asks /\ ~asks' /\ app.pc \notin {"joinAudio", "joinExtractor"}
BY DEF HasLocks, POwnedOnce, PFree

\* A handler that may ask still may when the device has played a buffer.
LEMMA DrainedCanAsk ==
  ASSUME NEW a \in AudioShape, a.buffers \in 0 .. MaxBuffers, CanAsk(a)
  PROVE  CanAsk(Audio!Drained(a))
<1> DEFINE b == Audio!Drained(a)
<1>0. MaxBuffers \in Nat /\ MaxBuffers > 0 BY PlayerAssumption
<1>1. ASSUME NEW x \in AudioShape
      PROVE  "retry" \in Audio!ReadResults(Audio!Begun(x)) <=> x.mSeeking \/ x.buffers # MaxBuffers
  <2> DEFINE c == [x EXCEPT !.firing = FALSE, !.mAudioEventPending = FALSE]
             d == [c EXCEPT !.renderer = "initial", !.buffers = 0, !.mAudioQueued = Audio!Prefill]
  <2>1. Audio!Begun(x) = IF c.mSeeking THEN d ELSE c
    BY Zenon DEF Audio!Begun, Audio!FlushALContext
  <2>2. c.mSeeking = x.mSeeking /\ c.buffers = x.buffers /\ d.buffers = 0
    BY <1>1 DEF AudioShape
  <2>3. x.mSeeking \in BOOLEAN BY <1>1 DEF AudioShape
  <2> HIDE DEF c, d
  <2>4. (Audio!Begun(x).buffers # MaxBuffers) <=> x.mSeeking \/ x.buffers # MaxBuffers
    BY <1>0, <2>1, <2>2, <2>3
  <2>5. "retry" \in Audio!ReadResults(Audio!Begun(x)) <=> Audio!Begun(x).buffers # MaxBuffers
    BY DEF Audio!ReadResults
  <2> QED BY <2>4, <2>5
<1>2. /\ b \in AudioShape /\ b.firing = a.firing /\ b.mSeeking = a.mSeeking
      /\ b.mAudioEventPending = a.mAudioEventPending
      /\ b.buffers = a.buffers - 1 \/ b.buffers = 0
  <2>z. 0 \in Int OBVIOUS
  <2>1. CASE a.buffers > 1
    <3> DEFINE n == a.buffers - 1
    <3>1. b = [a EXCEPT !.buffers = n] BY <2>1 DEF Audio!Drained
    <3>2. n \in Int BY DEF AudioShape
    <3> HIDE DEF n, b
    <3>3. /\ b \in AudioShape /\ b.firing = a.firing /\ b.mSeeking = a.mSeeking
          /\ b.mAudioEventPending = a.mAudioEventPending /\ b.buffers = n
      BY <3>1, <3>2 DEF AudioShape
    <3> QED BY <3>3 DEF n
  <2>2. CASE ~(a.buffers > 1)
    <3>1. b = [a EXCEPT !.buffers = 0, !.renderer = "stopped"]
      BY <2>2, Zenon DEF Audio!Drained
    <3> HIDE DEF b
    <3>2. b \in AudioShape BY <2>z, <3>1, RenderersAre, Zenon DEF AudioShape
    <3>3. /\ b.firing = a.firing /\ b.mSeeking = a.mSeeking
          /\ b.mAudioEventPending = a.mAudioEventPending /\ b.buffers = 0
      BY <3>1 DEF AudioShape
    <3> QED BY <3>2, <3>3
  <2> QED BY <2>1, <2>2
<1>3. b.mSeeking \/ b.buffers # MaxBuffers
  <2> HIDE DEF b
  <2>1. a.mSeeking \/ a.buffers # MaxBuffers BY <1>1 DEF CanAsk
  <2> QED BY <1>0, <1>2, <2>1
<1> QED BY <1>1, <1>2, <1>3 DEF CanAsk

LEMMA StoppedIsCancelled ==
  ASSUME NEW a \in AudioShape
  PROVE  ~Audio!Stopped(a).mAudioEventPending
<1> DEFINE c == Audio!cancelAudioEvent(a)
<1>1. c \in AudioShape /\ ~c.mAudioEventPending BY CancelAudioIs, Zenon DEF Stays
<1> HIDE DEF c
<1>2. Audio!Stopped(a) = [c EXCEPT !.renderer = "none", !.buffers = 0]
  BY Zenon DEF Audio!Stopped, c
<1> QED BY <1>1, <1>2 DEF AudioShape

LEMMA CallsKeepLocks ==
  ASSUME PlayerInv, BuffersFit, LocksInv, Calls
  PROVE  LocksInv'
<1>0. POwnedOnce /\ app.pc = "idle" BY DEF PlayerInv, Calls, Play, Pause, SeekTo, Reset, Call
<1>1. waits' = "none" /\ ~asks'
  BY <1>0, HadLocks DEF Calls, Play, Pause, SeekTo, Reset, Call
<1>2. JoinIsNotAsked'
  <2>1. CASE Reset
    <3>1. audio' = IF audio.exists THEN Audio!Stopped(audio) ELSE audio BY <2>1 DEF Reset
    <3>2. ~audio'.mAudioEventPending
      BY <3>1, Facts, StoppedIsCancelled, Zenon DEF BuffersFit
    <3> QED BY <1>1, <3>2 DEF JoinIsNotAsked
  <2>2. CASE Pause BY <1>0, <2>2 DEF Pause, JoinIsNotAsked
  <2>3. CASE SeekTo BY <2>3 DEF SeekTo, JoinIsNotAsked
  <2>4. CASE Play
    <3>1. app' = app \/ \E m : PlayAgain(m) BY <2>4, Zenon DEF Play
    <3>2. app'.pc # "joinAudio" BY <1>0, <3>1 DEF PlayAgain, Idle
    <3> QED BY <3>2 DEF JoinIsNotAsked
  <2> QED BY <2>1, <2>2, <2>3, <2>4 DEF Calls
<1> QED BY <1>1, <1>2 DEF LocksInv, AppWaits, EvWaits, AsksRightly

LEMMA CallStepKeepsLocks ==
  ASSUME PlayerInv, LocksInv, CallStep
  PROVE  LocksInv'
<1>0. POwnedOnce BY DEF PlayerInv
<1>1. waits = "none" BY <1>0, Facts DEF POwnedOnce, CallStep, ExtractorSeekTo, JoinAudio, JoinExtractor
<1>2. waits' = "none" /\ asks' = asks
  BY <1>1 DEF CallStep, ExtractorSeekTo, JoinAudio, JoinExtractor, locks
<1>3. AsksRightly'
  <2>1. CASE JoinAudio
    BY <1>2, <2>1 DEF JoinAudio, LocksInv, JoinIsNotAsked, AsksRightly
  <2>2. CASE ExtractorSeekTo \/ JoinExtractor
    <3>1. audio' = audio /\ flash' \in {flash, FALSE}
      BY <2>2 DEF ExtractorSeekTo, JoinExtractor
    <3> QED BY <1>2, <3>1 DEF LocksInv, AsksRightly, CanAsk, Audio!ReadResults, Audio!Begun,
                              Audio!FlushALContext
  <2> QED BY <2>1, <2>2 DEF CallStep
<1>4. app'.pc # "joinAudio"
  <2>1. CASE JoinAudio
    <3>1. app \in [pc : {"idle", "seek", "joinAudio", "joinExtractor"},
                   target : Targets \cup {NoSeek, Start0}]
      BY DEF PlayerInv, Types, TypeOK
    <3> QED BY <2>1, <3>1 DEF JoinAudio
  <2>2. CASE ExtractorSeekTo \/ JoinExtractor BY <2>2 DEF ExtractorSeekTo, JoinExtractor, Idle
  <2> QED BY <2>1, <2>2 DEF CallStep
<1> QED BY <1>2, <1>3, <1>4 DEF LocksInv, AppWaits, EvWaits, JoinIsNotAsked

\* Handlers that have had to wait, or call the audio player.
LEMMA HandlersKeepLocks ==
  ASSUME PlayerInv, LocksInv, VideoFrame \/ OnStreamDone \/ OnCheckAudioStatus \/ VideoEnds
  PROVE  LocksInv'
<1>0. POwnedOnce BY DEF PlayerInv
<1>1. waits' = "none" /\ ~asks' /\ app.pc # "joinAudio" /\ app' = app
  <2>1. CASE VideoEnds BY <1>0, <2>1, Facts DEF VideoEnds, POwnedOnce, locks
  <2>2. CASE VideoFrame BY <1>0, <2>2, HadLocks DEF VideoFrame
  <2>3. CASE OnStreamDone BY <1>0, <2>3, HadLocks DEF OnStreamDone
  <2>4. CASE OnCheckAudioStatus BY <1>0, <2>4, HadLocks DEF OnCheckAudioStatus
  <2> QED BY <2>1, <2>2, <2>3, <2>4
<1> QED BY <1>1 DEF LocksInv, AppWaits, EvWaits, AsksRightly, JoinIsNotAsked

\* The other handlers, the extractor and who begins to wait: the audio is let be.
LEMMA QuietKeepsLocks ==
  ASSUME PlayerInv, LocksInv,
         \/ \E e \in Events : Fire(e)
         \/ EventCancelled \/ VideoAgain \/ VideoStarves \/ ReadOn \/ CheckAudioStatus
         \/ ExtractorStep
         \/ \E t \in {"app", "ev"} : WaitForAudio(t)
  PROVE  LocksInv'
<1>0. POwnedOnce /\ LocksInv BY DEF PlayerInv
<1>1. audio' = audio /\ asks' = asks /\ app' = app /\ calls' = calls
  BY DEF Fire, EventCancelled, VideoAgain, VideoStarves, ReadOn, CheckAudioStatus,
         ExtractorStep, ExtractorBegins, ExtractorEnds, ExtractorSeeks, FinishSeek, CallsBack,
         WaitForAudio, locks
<1>2. AsksRightly' /\ JoinIsNotAsked'
  BY <1>1 DEF LocksInv, AsksRightly, JoinIsNotAsked, CanAsk, Audio!ReadResults, Audio!Begun,
              Audio!FlushALContext
<1>3. AppWaits' /\ EvWaits'
  <2>1. CASE \E t \in {"app", "ev"} : WaitForAudio(t)
    <3>1. PICK t \in {"app", "ev"} : WaitForAudio(t) BY <2>1
    <3>2. mp' = mp /\ ev' = ev /\ waits' = t BY <3>1 DEF WaitForAudio
    <3> QED BY <1>1, <3>1, <3>2 DEF WaitForAudio, AppWaits, EvWaits
  <2>2. CASE waits # "ev" /\ waits' = waits
    BY <1>0, <1>1, <2>2 DEF LocksInv, AppWaits, EvWaits
  <2>3. CASE \E e \in Events : Fire(e)
    <3>1. ev = "idle" /\ waits' = waits BY <2>3 DEF Fire, locks
    <3> QED BY <1>0, <2>2, <3>1 DEF LocksInv, EvWaits
  <2>4. CASE CheckAudioStatus \/ EventCancelled
    <3>1. waits' = waits BY <2>4 DEF CheckAudioStatus, EventCancelled, locks
    <3>2. ev = "audioStatus" \/ waits = "none"
      BY <2>4 DEF CheckAudioStatus, EventCancelled, PFree
    <3> QED BY <1>0, <2>2, <3>1, <3>2 DEF LocksInv, EvWaits
  <2>5. CASE VideoAgain \/ VideoStarves \/ ReadOn \/ CallsBack
    <3>1. waits' = waits BY <2>5 DEF VideoAgain, VideoStarves, ReadOn, CallsBack, locks
    <3>2. waits = "none"
      BY <1>0, <2>5, Facts DEF VideoAgain, VideoStarves, OnVideoEvent, ReadOn, CallsBack, PFree,
                               POwnedOnce
    <3> QED BY <2>2, <3>1, <3>2
  <2>6. CASE ExtractorBegins \/ ExtractorEnds \/ ExtractorSeeks \/ FinishSeek
    <3>1. mp' = mp /\ ev' = ev /\ waits' = waits
      BY <2>6 DEF ExtractorBegins, ExtractorEnds, ExtractorSeeks, FinishSeek, locks
    <3> QED BY <1>0, <1>1, <3>1 DEF LocksInv, AppWaits, EvWaits
  <2> QED BY <2>1, <2>3, <2>4, <2>5, <2>6 DEF ExtractorStep
<1> QED BY <1>2, <1>3 DEF LocksInv

LEMMA AudioKeepsLocks ==
  ASSUME PlayerInv, BuffersFit, LocksInv, AudioStep \/ Drain
  PROVE  LocksInv'
<1>0. AppWaits /\ EvWaits /\ AsksRightly /\ JoinIsNotAsked /\ audio \in AudioShape
  BY Facts DEF LocksInv
<1>1. /\ app' = app /\ calls' = calls /\ ev' = ev /\ waits' = waits
      /\ mp' = mp \/ mp' = Post(mp, "audioStatus")
  <2>1. CASE \E r \in Audio!Results : OnAudioEvent(r)
    BY <2>1 DEF OnAudioEvent
  <2>2. CASE FireAudioEvent \/ AudioCancelled \/ AudioAsks \/ Drain
    BY <2>2 DEF FireAudioEvent, AudioCancelled, AudioAsks, Drain, locks
  <2> QED BY <2>1, <2>2 DEF AudioStep
<1>2. AppWaits' BY <1>0, <1>1 DEF AppWaits
<1>3. EvWaits'
  <2>1. ASSUME NEW e \in {"video", "streamDone"}, mp.pending[e] PROVE mp'.pending[e]
    <3>1. CASE mp' = mp BY <2>1, <3>1
    <3>2. CASE mp' = Post(mp, "audioStatus")
      BY <2>1, <3>2, Facts DEF Post, PlayerType, Events
    <3> QED BY <1>1, <3>1, <3>2
  <2> QED BY <1>0, <1>1, <2>1 DEF EvWaits
<1>4. AsksRightly' /\ JoinIsNotAsked'
  <2>1. CASE FireAudioEvent
    <3>1. audio' = Audio!Fire(audio) /\ ~audio.firing /\ asks' = asks
      BY <2>1 DEF FireAudioEvent, Audio!FireAudioEvent, Audio!CanFire, locks
    <3>2. audio'.mAudioEventPending = audio.mAudioEventPending BY <1>0, <3>1, FireIs
    <3> QED BY <1>0, <1>1, <3>1, <3>2, Zenon DEF AsksRightly, CanAsk, JoinIsNotAsked
  <2>2. CASE AudioCancelled
    <3>1. audio' = [audio EXCEPT !.firing = FALSE] /\ ~audio.mAudioEventPending /\ asks' = asks
      BY <2>2 DEF AudioCancelled, Audio!HandleCancelled, locks
    <3>2. ~audio'.mAudioEventPending BY <1>0, <3>1 DEF AudioShape
    <3> QED BY <1>0, <1>1, <3>1, <3>2, Zenon DEF AsksRightly, CanAsk, JoinIsNotAsked
  <2>3. CASE AudioAsks
    <3>1. audio' = audio /\ flash' = flash /\ CanAsk(audio) BY <2>3 DEF AudioAsks, CanAsk
    <3> QED BY <1>0, <1>1, <3>1
        DEF AsksRightly, CanAsk, JoinIsNotAsked, Audio!ReadResults, Audio!Begun,
            Audio!FlushALContext
  <2>4. CASE \E r \in Audio!Results : OnAudioEvent(r)
    <3>1. ~asks' /\ audio.mAudioEventPending BY <2>4 DEF OnAudioEvent, Audio!OnAudioEvent
    <3> QED BY <1>0, <1>1, <3>1 DEF AsksRightly, JoinIsNotAsked
  <2>5. CASE Drain
    <3>1. /\ audio' = Audio!Drained(audio) /\ audio.renderer = "playing"
          /\ flash' = flash /\ asks' = asks
      BY <2>5 DEF Drain, Audio!Drain, locks
    <3>2. audio'.mAudioEventPending = audio.mAudioEventPending BY <1>0, <3>1, DrainedIs
    <3>3. asks => CanAsk(Audio!Drained(audio))
      BY <1>0, DrainedCanAsk DEF AsksRightly, BuffersFit
    <3>4. AsksRightly'
      BY <3>1, <3>3 DEF AsksRightly, CanAsk, Audio!ReadResults
    <3> QED BY <1>0, <1>1, <3>1, <3>2, <3>4 DEF JoinIsNotAsked
  <2> QED BY <2>1, <2>2, <2>3, <2>4, <2>5 DEF AudioStep
<1> QED BY <1>2, <1>3, <1>4 DEF LocksInv

LEMMA StepKeepsLocks == PlayerInv /\ BuffersFit /\ LocksInv /\ [Next]_vars => LocksInv'
<1> SUFFICES ASSUME PlayerInv, BuffersFit, LocksInv, [Next]_vars PROVE LocksInv'
  OBVIOUS
<1>1. CASE Calls BY <1>1, CallsKeepLocks
<1>2. CASE CallStep BY <1>2, CallStepKeepsLocks
<1>3. CASE EventStep BY <1>3, HandlersKeepLocks, QuietKeepsLocks DEF EventStep
<1>4. CASE AudioStep \/ Drain BY <1>4, AudioKeepsLocks
<1>5. CASE ExtractorStep BY <1>5, QuietKeepsLocks
<1>6. CASE \E t \in {"app", "ev"} : WaitForAudio(t) BY <1>6, QuietKeepsLocks
<1>7. CASE UNCHANGED vars
  BY <1>7 DEF vars, locks, LocksInv, AppWaits, EvWaits, AsksRightly, CanAsk, JoinIsNotAsked,
              Audio!ReadResults, Audio!Begun, Audio!FlushALContext
<1> QED BY <1>1, <1>2, <1>3, <1>4, <1>5, <1>6, <1>7 DEF Next

\* Whoever has a lock has something to do, or waits for a lock whose owner has: only
\* the extractor, which calls back with its lock taken, closes a ring.
THEOREM LocksAreGivenBack == Spec => []LocksComeBack
<1>1. Init => LocksInv
  BY DEF Init, Audio!NoAudioPlayer, LocksInv, AppWaits, EvWaits, AsksRightly, JoinIsNotAsked
<1>2. PlayerInv /\ LocksInv => LocksComeBack
  <2> SUFFICES ASSUME PlayerInv, LocksInv PROVE LocksComeBack OBVIOUS
  <2>1. \A o, p \in POwners : o = p
    BY Facts DEF PlayerInv, POwnedOnce, POwners
  <2> QED BY <2>1 DEF LocksInv, AppWaits, EvWaits, AsksRightly, CanAsk, JoinIsNotAsked,
                     LocksComeBack
<1> QED BY <1>1, <1>2, StepKeepsLocks, PlayerIsGood, PlayerKeepsBuffers, PTL DEF Spec

-----------------------------------------------------------------------------
(***************************************************************************)
(* What the calls and handlers do to the items of the events.              *)
(***************************************************************************)

\* One operation of the queue, or none.
QueueMay(q, r) == r \in {q} \cup Queue!After(q)
ItemsOf(m, F) == Queue!QueueOf(m.posted, m.id, F)
KeepsItems(m, n) == n \in PlayerType /\ n.posted = m.posted /\ n.id = m.id

LEMMA MayStay == \A q : QueueMay(q, q)
BY DEF QueueMay

LEMMA PostMay ==
  ASSUME NEW m \in PlayerType, NEW e \in Events, NEW F
  PROVE  QueueMay(ItemsOf(m, F), ItemsOf(Post(m, e), F))
<1>1. CASE m.pending[e]
  <2>1. Post(m, e) = m BY <1>1, Zenon DEF Post
  <2> QED BY <2>1, MayStay
<1>2. CASE ~m.pending[e]
  <2> DEFINE n == [m EXCEPT !.pending[e] = TRUE, !.posted[e] = @ + 1, !.id[e] = TRUE]
             p == [m.posted EXCEPT ![e] = @ + 1]
             i == [m.id EXCEPT ![e] = TRUE]
  <2>1. Post(m, e) = n BY <1>2, Zenon DEF Post
  <2>2. n.posted = p /\ n.id = i BY DEF PlayerType
  <2> HIDE DEF n
  <2>3. ItemsOf(n, F) = Queue!Posted(ItemsOf(m, F), e)
    BY <2>2, Zenon DEF ItemsOf, Queue!Posted, Queue!QueueOf
  <2> QED BY <2>1, <2>3 DEF QueueMay, Queue!After
<1> QED BY <1>1, <1>2

\* Items are taken back only from where there are some.
LEMMA CancelMay ==
  ASSUME NEW m \in PlayerType, NEW e \in Events, NEW F, IDHasItem(m)
  PROVE  QueueMay(ItemsOf(m, F), ItemsOf(CancelEvent(m, e), F))
<1> DEFINE n == CancelEvent(m, e)
           q == ItemsOf(m, F)
<1>1. CASE m.id[e]
  <2>1. n.posted = [m.posted EXCEPT ![e] = @ - 1] /\ n.id = [m.id EXCEPT ![e] = FALSE]
    BY <1>1 DEF CancelEvent, PlayerType
  <2> HIDE DEF n
  <2>2. ItemsOf(n, F) = Queue!Taken(q, e)
    BY <2>1, Zenon DEF ItemsOf, Queue!Taken, Queue!Out, Queue!QueueOf
  <2>3. q.posted[e] > 0 /\ q.id[e] BY <1>1 DEF IDHasItem, ItemsOf, Queue!QueueOf
  <2> HIDE DEF q
  <2> QED BY <2>2, <2>3 DEF QueueMay, Queue!After, n, q
<1>2. CASE ~m.id[e]
  <2>1. n.posted = m.posted /\ n.id = m.id BY <1>2 DEF CancelEvent, PlayerType
  <2> HIDE DEF n
  <2>2. ItemsOf(n, F) = q BY <2>1, Zenon DEF ItemsOf
  <2> QED BY <2>2, MayStay, Zenon DEF n
<1> QED BY <1>1, <1>2

LEMMA FireMay ==
  ASSUME NEW m \in PlayerType, NEW e \in Events, m.posted[e] > 0
  PROVE  QueueMay(ItemsOf(m, {}),
                  ItemsOf([m EXCEPT !.posted[e] = @ - 1, !.id[e] = FALSE], {e}))
<1> DEFINE n == [m EXCEPT !.posted[e] = @ - 1, !.id[e] = FALSE]
           q == ItemsOf(m, {})
<1>1. n.posted = [m.posted EXCEPT ![e] = @ - 1] /\ n.id = [m.id EXCEPT ![e] = FALSE]
  BY DEF PlayerType
<1> HIDE DEF n
<1>2. ItemsOf(n, {e}) = Queue!Fired(q, e)
  BY <1>1, Zenon DEF ItemsOf, Queue!Fired, Queue!Out, Queue!QueueOf
<1>3. q.posted[e] > 0 /\ q.firing = {} BY DEF ItemsOf, Queue!QueueOf
<1> HIDE DEF q
<1> QED BY <1>2, <1>3 DEF QueueMay, Queue!After, n, q

LEMMA HandledMay ==
  ASSUME NEW m, NEW n, KeepsItems(m, n), NEW F
  PROVE  QueueMay(ItemsOf(m, F), ItemsOf(n, F)) /\ QueueMay(ItemsOf(m, F), ItemsOf(n, {}))
<1>1. ItemsOf(n, F) = ItemsOf(m, F) BY DEF KeepsItems, ItemsOf
<1>2. ItemsOf(n, {}) = Queue!Handled(ItemsOf(m, F))
  BY DEF KeepsItems, ItemsOf, Queue!Handled, Queue!QueueOf
<1> QED BY <1>1, <1>2 DEF QueueMay, Queue!After

\* The flags and what is watched are nothing to the queue.
LEMMA FlagsKeepItems ==
  ASSUME NEW m \in PlayerType, NEW f, NEW g \in SUBSET Flags
  PROVE  KeepsItems(m, Clear(m, f)) /\ KeepsItems(m, Set(m, g))
BY DEF Clear, Set, PlayerType, KeepsItems

LEMMA StartKeepsItems ==
  ASSUME NEW m \in PlayerType, NEW a, NEW s \in WithAudioStarted(m, a) \cup StartAudioPlayer_l(m, a)
  PROVE  KeepsItems(m, s.mp)
<1> DEFINE c == Set(m, {"AUDIO_RUNNING", "AUDIOPLAYER_STARTED"})
           n == [c EXCEPT !.mWatchForAudioEOS = TRUE]
<1>1. s.mp = m \/ s.mp = n
  <2> DEFINE As(o, b, ok) == [mp |-> o, audio |-> b, ok |-> ok]
  <2>1. \/ s = As(m, a, TRUE) \/ s = As(n, Audio!Resumed(a), TRUE)
        \/ s = As(n, Audio!Started(a), TRUE) \/ s = As(m, Audio!StartFailed(a), FALSE)
    <3>1. CASE ~a.exists BY <3>1 DEF WithAudioStarted, StartAudioPlayer_l
    <3>2. CASE a.exists /\ "AUDIOPLAYER_STARTED" \in m.mFlags
      BY <3>2 DEF WithAudioStarted, StartAudioPlayer_l
    <3>3. CASE a.exists /\ "AUDIOPLAYER_STARTED" \notin m.mFlags
      BY <3>3 DEF WithAudioStarted, StartAudioPlayer_l
    <3> QED BY <3>1, <3>2, <3>3
  <2> HIDE DEF n
  <2>2. \A o, b, ok : As(o, b, ok).mp = o OBVIOUS
  <2> QED BY <2>1, <2>2
<1>2. KeepsItems(m, c) BY FlagsAre, FlagsKeepItems
<1> HIDE DEF c
<1>3. KeepsItems(m, n) BY <1>2 DEF KeepsItems, PlayerType
<1>4. KeepsItems(m, m) BY DEF KeepsItems
<1> HIDE DEF n
<1> QED BY <1>1, <1>3, <1>4, Zenon

LEMMA StartedShape ==
  ASSUME NEW m, NEW a \in AudioShape, NEW s \in WithAudioStarted(m, a)
  PROVE  s.audio \in AudioShape
<1>1. s.audio \in {a, Audio!Resumed(a), Audio!Started(a), Audio!StartFailed(a)}
  <2>1. CASE m.mFlags \cap {"AUDIO_RUNNING", "SEEK_PREVIEW"} = {}
    BY <2>1 DEF WithAudioStarted, StartAudioPlayer_l
  <2>2. CASE m.mFlags \cap {"AUDIO_RUNNING", "SEEK_PREVIEW"} # {}
    BY <2>2 DEF WithAudioStarted
  <2> QED BY <2>1, <2>2
<1>2. /\ Audio!Resumed(a) \in AudioShape /\ Audio!Started(a) \in AudioShape
      /\ Audio!StartFailed(a) \in AudioShape
  BY PostAudioIs, StartedIs, StartFailedIs, Zenon DEF Audio!Resumed, Stays
<1> QED BY <1>1, <1>2

LEMMA SoughtKeepsItems ==
  ASSUME NEW m \in PlayerType, NEW a \in AudioShape
  PROVE  KeepsItems(m, SoughtPlayer(m, a))
<1>1. CASE ~FinishesSeek(m)
  <2>1. SoughtPlayer(m, a) = m BY <1>1, Zenon DEF SoughtPlayer
  <2> QED BY <2>1 DEF KeepsItems
<1>2. CASE FinishesSeek(m)
  <2> DEFINE n == [m EXCEPT !.mSeeking = FALSE,
                            !.mWatchForAudioEOS = m.mWatchForAudioEOS \/ a.exists,
                            !.mSeekNotificationSent = m.mSeekNotificationSent \/ ~a.exists]
  <2>1. SoughtPlayer(m, a) = n BY <1>2, Zenon DEF SoughtPlayer
  <2>2. KeepsItems(m, n) BY DEF PlayerType, KeepsItems, AudioShape
  <2> QED BY <2>1, <2>2, Zenon
<1> QED BY <1>1, <1>2

LEMMA Kept ==
  ASSUME NEW m, NEW n, NEW o, KeepsItems(m, n)
  PROVE  /\ KeepsItems(n, o) => KeepsItems(m, o)
         /\ IDHasItem(m) => IDHasItem(n)
         /\ \A F : ItemsOf(n, F) = ItemsOf(m, F)
BY DEF KeepsItems, IDHasItem, ItemsOf

\* pause_l() and seekTo_l() take the video event back, at most.
LEMMA PauseMay ==
  ASSUME NEW m \in PlayerType, IDHasItem(m), NEW F
  PROVE  /\ QueueMay(ItemsOf(m, F), ItemsOf(Pause_l(m), F))
         /\ QueueMay(ItemsOf(m, F), ItemsOf(SeekTo_l(m), F))
<1> DEFINE c == CancelVideoEvent(m)
           d == Clear(c, {"AUDIO_RUNNING"})
           n == [d EXCEPT !.mSeeking = TRUE, !.mSeekNotificationSent = FALSE]
           p == Clear(c, {"AUDIO_RUNNING", "PLAYING"})
<1>1. c \in PlayerType BY CancelIs, Zenon
<1>2. QueueMay(ItemsOf(m, F), ItemsOf(c, F))
  BY CancelMay, EventsAre, Zenon DEF CancelVideoEvent
<1> HIDE DEF c
<1>3. Pause_l(m) = p /\ SeekTo_l(m) = n BY Zenon DEF Pause_l, SeekTo_l, c
<1>4. KeepsItems(c, d) /\ KeepsItems(c, p) BY <1>1, FlagsKeepItems, Zenon
<1> HIDE DEF d, p
<1>5. KeepsItems(d, n) BY <1>4 DEF KeepsItems, PlayerType
<1> HIDE DEF n
<1>6. ItemsOf(p, F) = ItemsOf(c, F) /\ ItemsOf(n, F) = ItemsOf(c, F)
  BY <1>4, <1>5, Kept, Zenon
<1> QED BY <1>2, <1>3, <1>6, Zenon

-----------------------------------------------------------------------------
(***************************************************************************)
(* Every step of the player is a few operations of the queue.              *)
(***************************************************************************)

HandledBy(e) ==
  CASE e \in Events -> {e}
    [] e = "read"   -> {"video"}
    [] e = "status" -> {"audioStatus"}
    [] OTHER        -> {}

LEMMA HandledIsOf ==
  /\ HandledBy("idle") = {} /\ HandledBy("read") = {"video"}
  /\ HandledBy("status") = {"audioStatus"} /\ \A e \in Events : HandledBy(e) = {e}
BY DEF HandledBy, Events

\* The queue, before and after a step.
LEMMA ItemsNow ==
  EventItems = ItemsOf(mp, HandledBy(ev)) /\ EventItems' = ItemsOf(mp', HandledBy(ev'))
BY DEF EventItems, ItemsOf, Queue!QueueOf, Handled, HandledBy

LEMMA ThreeOperations ==
  ASSUME NEW q, NEW r, QueueMay(ItemsOf(mp, HandledBy(ev)), q), QueueMay(q, r),
         QueueMay(r, ItemsOf(mp', HandledBy(ev')))
  PROVE  Queue!Calls
BY ItemsNow, Zenon DEF QueueMay, Queue!Calls

LEMMA OneOperation ==
  ASSUME QueueMay(ItemsOf(mp, HandledBy(ev)), ItemsOf(mp', HandledBy(ev')))
  PROVE  Queue!Calls
BY MayStay, ThreeOperations, Zenon

\* A handler ends, with an event posted or none.
LEMMA HandlerEnds ==
  ASSUME ev' = "idle", NEW n, KeepsItems(mp, n),
         mp' = n \/ \E e \in Events : mp' = Post(n, e)
  PROVE  Queue!Calls
<1>1. QueueMay(ItemsOf(mp, HandledBy(ev)), ItemsOf(n, {})) BY HandledMay, Zenon
<1>2. n \in PlayerType BY DEF KeepsItems
<1>3. QueueMay(ItemsOf(n, {}), ItemsOf(mp', {})) BY <1>2, PostMay, MayStay, Zenon
<1>4. HandledBy(ev') = {} BY HandledIsOf
<1> QED BY <1>1, <1>3, <1>4, MayStay, ThreeOperations, Zenon

\* A call, whatever thread handles what; one event posted and the video cancelled.
LEMMA CallOperates ==
  ASSUME mp \in PlayerType, IDHasItem(mp), ev' = ev, NEW n, KeepsItems(mp, n),
         NEW o, o = n \/ \E e \in Events : o = Post(n, e),
         mp' = o \/ mp' = Pause_l(o) \/ mp' = SeekTo_l(o)
  PROVE  Queue!Calls
<1> DEFINE F == HandledBy(ev)
<1> HIDE DEF F
<1>1. n \in PlayerType /\ IDHasItem(n) BY Kept, Zenon DEF KeepsItems
<1>2. QueueMay(ItemsOf(mp, F), ItemsOf(n, F)) BY HandledMay, Zenon
<1>3. QueueMay(ItemsOf(n, F), ItemsOf(o, F)) /\ o \in PlayerType /\ IDHasItem(o)
  BY <1>1, PostMay, PostIs, MayStay, Zenon
<1>4. QueueMay(ItemsOf(o, F), ItemsOf(mp', F)) BY <1>3, PauseMay, MayStay, Zenon
<1>5. HandledBy(ev') = F BY DEF F
<1> QED BY <1>2, <1>3, <1>4, <1>5, ThreeOperations, Zenon DEF F

LEMMA CallsAreOperations ==
  ASSUME PlayerInv, Calls
  PROVE  Queue!Calls
<1>0. mp \in PlayerType /\ IDHasItem(mp) BY Facts
<1>1. KeepsItems(mp, mp) BY <1>0 DEF KeepsItems
<1>2. CASE Pause BY <1>0, <1>1, <1>2, CallOperates, Zenon DEF Pause
<1>3. CASE SeekTo BY <1>0, <1>1, <1>3, CallOperates, Zenon DEF SeekTo
<1>4. CASE Reset
  <2> DEFINE F == HandledBy(ev)
             c == CancelVideoEvent(mp)
             d == CancelEvent(c, "streamDone")
             n == CancelEvent(d, "audioStatus")
  <2>1. mp' = n /\ HandledBy(ev') = F BY <1>4, Zenon DEF Reset, CancelPlayerEvents
  <2> HIDE DEF F
  <2>2. QueueMay(ItemsOf(mp, F), ItemsOf(c, F)) /\ c \in PlayerType /\ IDHasItem(c)
    BY <1>0, CancelMay, CancelEventIs, EventsAre, Zenon DEF CancelVideoEvent
  <2> HIDE DEF c
  <2>3. QueueMay(ItemsOf(c, F), ItemsOf(d, F)) /\ d \in PlayerType /\ IDHasItem(d)
    BY <2>2, CancelMay, CancelEventIs, EventsAre, Zenon
  <2> HIDE DEF d
  <2>4. QueueMay(ItemsOf(d, F), ItemsOf(n, F)) BY <2>3, CancelMay, EventsAre, Zenon
  <2> HIDE DEF n
  <2> QED BY <2>1, <2>2, <2>3, <2>4, ThreeOperations, Zenon DEF F
<1>5. CASE Play
  <2> DEFINE c == Clear(mp, {"SEEK_PREVIEW"})
             m == Set(c, {"PLAYING"})
             a == IF "audio" \in media /\ ~audio.exists THEN Audio!NewAudioPlayer ELSE audio
  <2>1. KeepsItems(mp, c) BY <1>0, FlagsKeepItems, Zenon
  <2>2. {"PLAYING"} \in SUBSET Flags BY FlagsAre
  <2>3. KeepsItems(c, m) BY <2>1, <2>2, FlagsKeepItems, Zenon DEF KeepsItems
  <2> HIDE DEF c
  <2>4. KeepsItems(mp, m) /\ m \in PlayerType BY <2>1, <2>3, Kept, Zenon DEF KeepsItems
  <2>5. ev' = ev BY <1>5 DEF Play
  <2>6. ASSUME NEW o, PlayAgain(o) PROVE mp' = o \/ mp' = SeekTo_l(o)
    BY <2>6 DEF PlayAgain
  <2>7. \/ mp' = m \/ PlayAgain(Post(m, "video"))
        \/ \E s \in StartAudioPlayer_l(m, a) : PlayAgain(s.mp)
        \/ mp' = Clear(m, {"PLAYING"})
    BY <1>5, Zenon DEF Play, m, c, a
  <2> HIDE DEF m, a
  <2>8. CASE mp' = m BY <1>0, <2>4, <2>5, <2>8, CallOperates, Zenon
  <2>9. CASE PlayAgain(Post(m, "video"))
    <3> DEFINE o == Post(m, "video")
    <3>1. \E e \in Events : o = Post(m, e) BY EventsAre, Zenon
    <3> HIDE DEF o
    <3>2. mp' = o \/ mp' = SeekTo_l(o) BY <2>6, <2>9, Zenon DEF o
    <3> QED BY <1>0, <2>4, <2>5, <3>1, <3>2, CallOperates, Zenon
  <2>10. CASE \E s \in StartAudioPlayer_l(m, a) : PlayAgain(s.mp)
    <3>1. PICK s \in StartAudioPlayer_l(m, a) : PlayAgain(s.mp) BY <2>10, Zenon
    <3>2. s \in WithAudioStarted(m, a) \cup StartAudioPlayer_l(m, a) BY <3>1
    <3>3. KeepsItems(m, s.mp) BY <2>4, <3>2, StartKeepsItems, Zenon
    <3>4. KeepsItems(mp, s.mp) BY <2>4, <3>3, Kept, Zenon
    <3> QED BY <1>0, <2>5, <2>6, <3>1, <3>4, CallOperates, Zenon
  <2>11. CASE mp' = Clear(m, {"PLAYING"})
    <3>1. KeepsItems(m, mp') BY <2>4, <2>11, FlagsKeepItems, Zenon
    <3>2. KeepsItems(mp, mp') BY <2>4, <3>1, Kept, Zenon
    <3> QED BY <1>0, <2>5, <3>2, CallOperates, Zenon
  <2> QED BY <2>7, <2>8, <2>9, <2>10, <2>11
<1> QED BY <1>2, <1>3, <1>4, <1>5 DEF Calls

LEMMA VideoFieldsKeepItems ==
  ASSUME mp \in PlayerType
  PROVE  KeepsItems(mp, VideoFields)
BY DEF KeepsItems, VideoFields, PlayerType

LEMMA HandlersAreOperations ==
  ASSUME PlayerInv, EventStep
  PROVE  [Queue!Calls]_EventItems
<1>0. mp \in PlayerType /\ IDHasItem(mp) /\ audio \in AudioShape BY Facts
<1>a. KeepsItems(mp, mp) /\ KeepsItems(mp, VideoFields) /\ VideoFields \in PlayerType
  BY <1>0, VideoFieldsKeepItems DEF KeepsItems
<1>1. ASSUME NEW e \in Events, Fire(e) PROVE Queue!Calls
  <2>1. /\ mp' = [mp EXCEPT !.posted[e] = @ - 1, !.id[e] = FALSE]
        /\ mp.posted[e] > 0 /\ ev = "idle" /\ ev' = e
    BY <1>1 DEF Fire
  <2>2. HandledBy(ev) = {} /\ HandledBy(ev') = {e} BY <2>1, HandledIsOf
  <2>3. QueueMay(ItemsOf(mp, {}), ItemsOf(mp', {e})) BY <1>0, <2>1, FireMay
  <2> QED BY <2>2, <2>3, OneOperation, Zenon
<1>2. CASE EventCancelled
  BY <1>a, <1>2, HandlerEnds, Zenon DEF EventCancelled
<1>3. CASE VideoFrame
  <2>1. PICK s \in WithAudioStarted(VideoFields, audio) :
          IF ~s.ok
          THEN mp' = [s.mp EXCEPT !.mVideoBuffer = TRUE]
          ELSE \E kept \in BOOLEAN :
                 mp' = Post([SoughtPlayer(s.mp, s.audio) EXCEPT !.mVideoBuffer = kept], "video")
    BY <1>3 DEF VideoFrame
  <2>2. s \in WithAudioStarted(VideoFields, audio) \cup StartAudioPlayer_l(VideoFields, audio)
    BY <2>1
  <2>3. KeepsItems(VideoFields, s.mp) BY <1>a, <2>2, StartKeepsItems, Zenon
  <2>4. KeepsItems(mp, s.mp) BY <1>a, <2>3, Kept, Zenon
  <2>5. ev' = "idle" BY <1>3 DEF VideoFrame
  <2>6. CASE ~s.ok
    <3> DEFINE n == [s.mp EXCEPT !.mVideoBuffer = TRUE]
    <3>1. KeepsItems(s.mp, n) BY <2>4 DEF KeepsItems, PlayerType
    <3>2. mp' = n BY <2>1, <2>6
    <3> HIDE DEF n
    <3>3. KeepsItems(mp, n) BY <2>4, <3>1, Kept, Zenon
    <3> QED BY <2>5, <3>2, <3>3, HandlerEnds, Zenon
  <2>7. CASE s.ok
    <3>1. PICK kept \in BOOLEAN :
            mp' = Post([SoughtPlayer(s.mp, s.audio) EXCEPT !.mVideoBuffer = kept], "video")
      BY <2>1, <2>7, Zenon
    <3> DEFINE b == s.audio
               c == SoughtPlayer(s.mp, b)
               n == [c EXCEPT !.mVideoBuffer = kept]
    <3>2. s.audio \in AudioShape BY <1>0, <1>a, <2>1, StartedShape
    <3>3. KeepsItems(s.mp, c) BY <2>4, <3>2, SoughtKeepsItems, Zenon DEF KeepsItems
    <3> HIDE DEF c
    <3>4. KeepsItems(c, n) BY <3>3 DEF KeepsItems, PlayerType
    <3>5. mp' = Post(n, "video") BY <3>1, Zenon DEF c
    <3> HIDE DEF n
    <3>6. KeepsItems(mp, n) BY <2>4, <3>3, <3>4, Kept, Zenon
    <3> QED BY <2>5, <3>5, <3>6, HandlerEnds, EventsAre, Zenon
  <2> QED BY <2>6, <2>7
<1>4. CASE VideoAgain
  BY <1>a, <1>4, HandlerEnds, EventsAre, Zenon DEF VideoAgain
<1>5. CASE VideoStarves
  <2>1. mp' = VideoFields /\ ev = "video" /\ ev' = "read"
    BY <1>5 DEF VideoStarves, OnVideoEvent
  <2>2. HandledBy(ev) = {"video"} /\ HandledBy(ev') = {"video"} BY <2>1, HandledIsOf, EventsAre
  <2> QED BY <1>a, <2>1, <2>2, HandledMay, OneOperation, Zenon
<1>6. CASE ReadOn BY <1>a, <1>6, HandlerEnds, EventsAre, Zenon DEF ReadOn
<1>7. CASE VideoEnds
  <2> DEFINE c == SoughtPlayer(mp, audio)
             b == SoughtAudio(mp, audio)
  <2>1. PICK s \in WithAudioStarted(c, b) : mp' = Post(Set(s.mp, {"VIDEO_AT_EOS"}), "streamDone")
    BY <1>7 DEF VideoEnds
  <2>2. KeepsItems(mp, c) BY <1>0, SoughtKeepsItems
  <2> HIDE DEF b, c
  <2>3. s \in WithAudioStarted(c, b) \cup StartAudioPlayer_l(c, b) BY <2>1
  <2>4. KeepsItems(c, s.mp) BY <2>2, <2>3, StartKeepsItems, Zenon DEF KeepsItems
  <2>5. {"VIDEO_AT_EOS"} \in SUBSET Flags BY FlagsAre
  <2>6. KeepsItems(s.mp, Set(s.mp, {"VIDEO_AT_EOS"}))
    BY <2>4, <2>5, FlagsKeepItems, Zenon DEF KeepsItems
  <2>7. KeepsItems(mp, Set(s.mp, {"VIDEO_AT_EOS"})) BY <2>2, <2>4, <2>6, Kept, Zenon
  <2>8. ev' = "idle" BY <1>7 DEF VideoEnds
  <2> QED BY <2>1, <2>7, <2>8, HandlerEnds, EventsAre, Zenon
<1>8. CASE OnStreamDone
  <2> DEFINE c == StreamDoneFields
             d == Pause_l(c)
  <2>1. KeepsItems(mp, c) BY <1>0 DEF KeepsItems, StreamDoneFields, PlayerType
  <2>2. ev' = "idle" /\ (mp' = c \/ mp' = Set(d, {"AT_EOS"})) BY <1>8 DEF OnStreamDone
  <2> HIDE DEF c
  <2>3. CASE mp' = c BY <2>1, <2>2, <2>3, HandlerEnds, Zenon
  <2>4. CASE mp' = Set(d, {"AT_EOS"})
    <3>1. QueueMay(ItemsOf(mp, HandledBy(ev)), ItemsOf(c, {})) BY <2>1, HandledMay, Zenon
    <3>2. c \in PlayerType /\ IDHasItem(c) BY <1>0, <2>1, Kept, Zenon DEF KeepsItems
    <3>3. QueueMay(ItemsOf(c, {}), ItemsOf(d, {})) /\ d \in PlayerType
      BY <3>2, PauseMay, PauseIs, Zenon
    <3>4. {"AT_EOS"} \in SUBSET Flags BY FlagsAre
    <3> HIDE DEF d
    <3>5. KeepsItems(d, mp') BY <2>4, <3>3, <3>4, FlagsKeepItems, Zenon
    <3>6. QueueMay(ItemsOf(d, {}), ItemsOf(mp', {})) BY <3>5, HandledMay, Zenon
    <3>7. HandledBy(ev') = {} BY <2>2, HandledIsOf
    <3> QED BY <3>1, <3>3, <3>6, <3>7, ThreeOperations, Zenon
  <2> QED BY <2>2, <2>3, <2>4
<1>9. CASE CheckAudioStatus
  <2>1. KeepsItems(mp, mp') BY <1>0, <1>9 DEF CheckAudioStatus, KeepsItems, PlayerType
  <2>2. ev = "audioStatus" /\ ev' = "status" BY <1>9 DEF CheckAudioStatus
  <2>3. HandledBy(ev) = {"audioStatus"} /\ HandledBy(ev') = {"audioStatus"}
    BY <2>2, HandledIsOf, EventsAre
  <2> QED BY <2>1, <2>3, HandledMay, OneOperation, Zenon
<1>10. CASE OnCheckAudioStatus
  <2> DEFINE c == Set(mp, {"AUDIO_AT_EOS"})
             n == [c EXCEPT !.mWatchForAudioEOS = FALSE]
  <2>1. {"AUDIO_AT_EOS"} \in SUBSET Flags BY FlagsAre
  <2>2. KeepsItems(mp, c) BY <1>0, <2>1, FlagsKeepItems, Zenon
  <2>3. ev' = "idle" /\ (mp' = mp \/ mp' = Post(n, "streamDone"))
    BY <1>10 DEF OnCheckAudioStatus
  <2> HIDE DEF c
  <2>4. KeepsItems(c, n) BY <2>2 DEF KeepsItems, PlayerType
  <2> HIDE DEF n
  <2>5. KeepsItems(mp, n) BY <2>2, <2>4, Kept, Zenon
  <2> QED BY <1>a, <2>3, <2>5, HandlerEnds, EventsAre, Zenon
<1> QED BY <1>1, <1>2, <1>3, <1>4, <1>5, <1>6, <1>7, <1>8, <1>9, <1>10 DEF EventStep

\* The extractor calls back: a video is played on or previewed.
LEMMA CallbackIsOperation ==
  ASSUME PlayerInv, CallsBack
  PROVE  Queue!Calls
<1> DEFINE c == Clear(mp, EOSFlags)
           s == [c EXCEPT !.mSeekNotificationSent = TRUE]
           p == Set(s, {"SEEK_PREVIEW"})
<1>0. mp \in PlayerType /\ IDHasItem(mp) BY Facts
<1>1. KeepsItems(mp, c) BY <1>0, FlagsKeepItems, Zenon
<1>2. mp' \in {c, s, Post(c, "video"), Post(p, "video")} /\ ev' = ev
  BY <1>0 DEF CallsBack, OnMediaSeeked
<1> HIDE DEF c
<1>3. KeepsItems(c, s) BY <1>1 DEF KeepsItems, PlayerType
<1> HIDE DEF s
<1>4. {"SEEK_PREVIEW"} \in SUBSET Flags BY FlagsAre
<1>5. KeepsItems(s, p) BY <1>3, <1>4, FlagsKeepItems, Zenon DEF KeepsItems
<1> HIDE DEF p
<1>6. KeepsItems(mp, s) /\ KeepsItems(mp, p) BY <1>1, <1>3, <1>5, Kept, Zenon
<1>7. PICK n \in {c, s, p} : mp' = n \/ mp' = Post(n, "video") BY <1>2
<1>8. KeepsItems(mp, n) BY <1>1, <1>6, <1>7
<1> QED BY <1>0, <1>2, <1>7, <1>8, CallOperates, EventsAre, Zenon

LEMMA StepOperates == PlayerInv /\ [Next]_vars => [Queue!Calls]_EventItems
<1> SUFFICES ASSUME PlayerInv, [Next]_vars PROVE [Queue!Calls]_EventItems
  OBVIOUS
<1>0. mp \in PlayerType BY Facts
<1>a. ASSUME mp' = mp \/ KeepsItems(mp, mp'), ev' = ev PROVE EventItems' = EventItems
  <2>1. ItemsOf(mp', HandledBy(ev)) = ItemsOf(mp, HandledBy(ev)) BY <1>a, Kept, Zenon
  <2> QED BY <1>a, <2>1, ItemsNow, Zenon
<1>1. CASE Calls BY <1>1, CallsAreOperations
<1>2. CASE CallStep
  <2>1. CASE ExtractorSeekTo \/ JoinAudio BY <1>a, <2>1 DEF ExtractorSeekTo, JoinAudio
  <2>2. CASE JoinExtractor
    <3>1. mp' = ResetFields /\ ev' = ev BY <2>2 DEF JoinExtractor
    <3>2. ResetFields.posted = mp.posted /\ ResetFields.id = mp.id
      BY DEF ResetFields, Prepared
    <3>3. EventItems' = EventItems BY <3>1, <3>2, ItemsNow DEF ItemsOf
    <3> QED BY <3>3
  <2> QED BY <1>2, <2>1, <2>2 DEF CallStep
<1>3. CASE EventStep BY <1>3, HandlersAreOperations
<1>4. CASE \E r \in Audio!Results : OnAudioEvent(r)
  <2>1. ev' = ev /\ (mp' = mp \/ mp' = Post(mp, "audioStatus")) BY <1>4 DEF OnAudioEvent
  <2>2. QueueMay(ItemsOf(mp, HandledBy(ev)), ItemsOf(mp', HandledBy(ev')))
    BY <1>0, <2>1, PostMay, MayStay, EventsAre, Zenon
  <2> QED BY <2>2, OneOperation, Zenon
<1>5. CASE FireAudioEvent \/ AudioCancelled \/ AudioAsks \/ Drain
  BY <1>a, <1>5 DEF FireAudioEvent, AudioCancelled, AudioAsks, Drain
<1>6. CASE ExtractorStep
  <2>1. CASE ExtractorBegins \/ ExtractorEnds \/ ExtractorSeeks \/ FinishSeek
    BY <1>a, <2>1 DEF ExtractorBegins, ExtractorEnds, ExtractorSeeks, FinishSeek
  <2> QED BY <1>6, <2>1, CallbackIsOperation DEF ExtractorStep
<1>7. CASE \E t \in {"app", "ev"} : WaitForAudio(t) BY <1>a, <1>7 DEF WaitForAudio
<1>8. CASE UNCHANGED vars BY <1>a, <1>8 DEF vars
<1> QED BY <1>1, <1>2, <1>3, <1>4, <1>5, <1>6, <1>7, <1>8 DEF Next, AudioStep

\* Although the player posts events that are queued, takes flags of its own for
\* the queue's and cancels before it resets, it does to the items of its events only
\* what a queue allows: no handler runs while another does, no event is fired that
\* was not posted, and none is taken back that was not there.
THEOREM PlayerKeepsQueueContract == Spec => QueueContract
<1>1. Init => Queue!Init
  <2> SUFFICES ASSUME Init PROVE Queue!Init OBVIOUS
  <2>1. mp = Prepared /\ HandledBy(ev) = {} BY HandledIsOf DEF Init
  <2>2. EventItems = ItemsOf(Prepared, {}) BY <2>1, ItemsNow, Zenon
  <2> QED BY <2>2 DEF Queue!Init, Queue!EmptyQueue, Queue!QueueOf, ItemsOf, Prepared
<1> QED BY <1>1, StepOperates, PlayerIsGood, PTL DEF Spec, QueueContract, Queue!ClientSpec

===============================================================================
