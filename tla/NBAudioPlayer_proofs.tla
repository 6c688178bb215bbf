-------------------------- MODULE NBAudioPlayer_proofs --------------------------
(***************************************************************************)
(* The audio player's types, that a handler has its device, and what is    *)
(* asked of the queue, for any number of buffers and of items, and for any *)
(* client that keeps to the contract.                                      *)
(***************************************************************************)
EXTENDS NBAudioPlayer, TLAPS

-----------------------------------------------------------------------------
(***************************************************************************)
(* The invariant, of a state a of the audio player.                        *)
(***************************************************************************)

AudioType ==
  [exists : BOOLEAN, mQueueStart : BOOLEAN, renderer : Device, buffers : 0 .. MaxBuffers,
   mAudioQueued : 0 .. MaxBuffers, mSeeking : BOOLEAN, mFinalStatus : BOOLEAN,
   mAudioEventPending : BOOLEAN, posted : Nat, id : BOOLEAN, firing : BOOLEAN]

\* An object that has an id has an item.
ItemsAreCounted(a) == a.id => a.posted > 0

\* Only a started queue fires, and it is not given an event without a device.
PendingHasDevice(a) ==
  /\ a.mQueueStart \/ a.mAudioEventPending => a.exists
  /\ a.firing => a.mQueueStart
  /\ a.mQueueStart /\ a.mAudioEventPending => a.renderer # "none"

AudioOK(a) == a \in AudioType /\ ItemsAreCounted(a) /\ PendingHasDevice(a)

AudioInv == AudioOK(audio) /\ flash \in BOOLEAN

-----------------------------------------------------------------------------
(***************************************************************************)
(* The parts the calls and the handler are made of.                        *)
(***************************************************************************)

LEMMA PrefillBound == Prefill \in 0 .. MaxBuffers
BY AudioAssumption DEF Prefill

\* The types of the fields that matter to the invariant.
LEMMA Fields ==
  ASSUME NEW a \in AudioType
  PROVE  /\ a.posted \in Nat
         /\ a.buffers \in 0 .. MaxBuffers /\ a.mAudioQueued \in 0 .. MaxBuffers
         /\ a.renderer \in Device
BY AudioAssumption DEF AudioType

LEMMA NoItemIsOK ==
  AudioOK(NoAudioPlayer) /\ AudioOK(NewAudioPlayer)
<1>1. NoAudioPlayer \in AudioType /\ NewAudioPlayer \in AudioType
  <2>1. 0 \in 0 .. MaxBuffers /\ 0 \in Nat BY AudioAssumption
  <2>2. "none" \in Device BY DEF Device
  <2>3. NoAudioPlayer \in AudioType BY <2>1, <2>2, Zenon DEF NoAudioPlayer, AudioType
  <2>4. NewAudioPlayer \in AudioType BY <2>3 DEF NewAudioPlayer, AudioType
  <2> QED BY <2>3, <2>4
<1>2. ItemsAreCounted(NoAudioPlayer) /\ ItemsAreCounted(NewAudioPlayer)
  BY DEF ItemsAreCounted, NoAudioPlayer, NewAudioPlayer
<1>3. PendingHasDevice(NoAudioPlayer) /\ PendingHasDevice(NewAudioPlayer)
  BY DEF PendingHasDevice, NoAudioPlayer, NewAudioPlayer
<1> QED BY <1>1, <1>2, <1>3 DEF AudioOK

\* Cancelling takes back no more than there is.
LEMMA CancelKeeps ==
  ASSUME NEW a, AudioOK(a)
  PROVE  /\ AudioOK(cancelAudioEvent(a)) /\ ~cancelAudioEvent(a).mAudioEventPending
         /\ cancelAudioEvent(a).renderer = a.renderer
<1>0. a \in AudioType /\ ItemsAreCounted(a) /\ PendingHasDevice(a) BY DEF AudioOK
<1>a. a.posted \in Nat BY <1>0, Fields
<1>1. CASE ~a.mAudioEventPending
  <2>1. cancelAudioEvent(a) = a BY <1>1, Zenon DEF cancelAudioEvent
  <2> QED BY <1>1, <2>1, Zenon
<1>2. CASE a.mAudioEventPending
  <2> DEFINE n == IF a.id THEN a.posted - 1 ELSE a.posted
             b == [a EXCEPT !.mAudioEventPending = FALSE, !.posted = n, !.id = FALSE]
  <2>1. cancelAudioEvent(a) = b BY <1>2, Zenon DEF cancelAudioEvent
  <2>2. n \in Nat
    <3>1. CASE a.id BY <1>0, <1>a, <3>1 DEF ItemsAreCounted
    <3>2. CASE ~a.id BY <1>a, <3>2
    <3> QED BY <3>1, <3>2
  <2>4. b \in AudioType
    <3> HIDE DEF n
    <3> QED BY <1>0, <2>2 DEF AudioType
  <2>5. /\ b.mAudioEventPending = FALSE /\ b.posted = n /\ b.id = FALSE
        /\ b.firing = a.firing /\ b.mQueueStart = a.mQueueStart /\ b.renderer = a.renderer
        /\ b.exists = a.exists
    <3> HIDE DEF n
    <3> QED BY <1>0, Zenon DEF AudioType
  <2> HIDE DEF n, b
  <2>6. ItemsAreCounted(b) BY <2>5, Zenon DEF ItemsAreCounted
  <2>7. PendingHasDevice(b) BY <1>0, <2>5, Zenon DEF PendingHasDevice
  <2> QED BY <2>1, <2>4, <2>5, <2>6, <2>7, Zenon DEF AudioOK
<1> QED BY <1>1, <1>2

\* Posting is safe where a handler may run: with a device, or before the start.
LEMMA PostKeeps ==
  ASSUME NEW a, AudioOK(a), a.exists, a.mQueueStart => a.renderer # "none"
  PROVE  AudioOK(postAudioEvent(a))
<1>0. a \in AudioType /\ ItemsAreCounted(a) /\ PendingHasDevice(a) BY DEF AudioOK
<1>1. CASE a.mAudioEventPending
  BY <1>1, Zenon DEF postAudioEvent
<1>2. CASE ~a.mAudioEventPending
  <2> DEFINE n == a.posted + 1
             b == [a EXCEPT !.mAudioEventPending = TRUE, !.posted = n, !.id = TRUE]
  <2>1. postAudioEvent(a) = b BY <1>2, Zenon DEF postAudioEvent
  <2>2. n \in Nat /\ n > 0 BY <1>0, Fields
  <2> HIDE DEF n
  <2>3. b \in AudioType BY <1>0, <2>2 DEF AudioType
  <2>4. /\ b.posted = n /\ b.firing = a.firing /\ b.mQueueStart = a.mQueueStart
        /\ b.renderer = a.renderer /\ b.exists = a.exists
    BY <1>0, Zenon DEF AudioType
  <2> HIDE DEF b
  <2>5. ItemsAreCounted(b) BY <2>1, <2>2, <2>4, Zenon DEF ItemsAreCounted
  <2>6. PendingHasDevice(b) BY <1>0, <2>4, Zenon DEF PendingHasDevice
  <2> QED BY <2>1, <2>3, <2>5, <2>6, Zenon DEF AudioOK
<1> QED BY <1>1, <1>2

\* The device and what is read may change where the items do not.
LEMMA SameItems ==
  ASSUME NEW a, AudioOK(a), NEW b \in AudioType,
         b.posted = a.posted, b.id = a.id, b.firing = a.firing,
         b.mQueueStart = a.mQueueStart, b.mAudioEventPending = a.mAudioEventPending,
         b.exists = a.exists,
         b.renderer = a.renderer \/ b.renderer # "none" \/ ~a.mAudioEventPending
  PROVE  AudioOK(b)
BY Zenon DEF AudioOK, ItemsAreCounted, PendingHasDevice

-----------------------------------------------------------------------------
(***************************************************************************)
(* The calls.                                                              *)
(***************************************************************************)

LEMMA StartKeeps ==
  ASSUME NEW a, AudioOK(a), CanStart(a)
  PROVE  AudioOK(Started(a)) /\ AudioOK(StartFailed(a))
<1>0. a \in AudioType /\ ItemsAreCounted(a) /\ PendingHasDevice(a) BY DEF AudioOK
<1>a. "initial" \in Device /\ 0 \in 0 .. MaxBuffers BY AudioAssumption DEF Device
<1>1. AudioOK(Started(a))
  <2> DEFINE b == [a EXCEPT !.renderer = "initial", !.buffers = 0, !.mQueueStart = TRUE,
                            !.mSeeking = FALSE, !.mAudioQueued = Prefill]
  <2>1. Started(a) = postAudioEvent(b) BY Zenon DEF Started
  <2>2. b \in AudioType BY <1>0, <1>a, PrefillBound DEF AudioType
  <2>3. /\ b.posted = a.posted /\ b.id = a.id /\ b.firing = a.firing
        /\ b.renderer = "initial" /\ b.exists = a.exists
    BY <1>0, Zenon DEF AudioType
  <2>4. a.exists /\ ~a.firing BY <1>0, Zenon DEF CanStart, PendingHasDevice
  <2> HIDE DEF b
  <2>5. ItemsAreCounted(b) BY <1>0, <2>3, Zenon DEF ItemsAreCounted
  <2>6. PendingHasDevice(b) BY <2>3, <2>4 DEF PendingHasDevice
  <2>7. AudioOK(b) BY <2>2, <2>5, <2>6 DEF AudioOK
  <2>8. b.exists /\ (b.mQueueStart => b.renderer # "none") BY <2>3, <2>4
  <2> QED BY <2>1, <2>7, <2>8, PostKeeps, Zenon
<1>2. AudioOK(StartFailed(a))
  <2> DEFINE b == [a EXCEPT !.renderer = "initial", !.buffers = 0]
  <2>1. StartFailed(a) = b BY Zenon DEF StartFailed
  <2>2. b \in AudioType BY <1>0, <1>a DEF AudioType
  <2>3. /\ b.posted = a.posted /\ b.id = a.id /\ b.firing = a.firing
        /\ b.mQueueStart = a.mQueueStart /\ b.mAudioEventPending = a.mAudioEventPending
        /\ b.exists = a.exists /\ b.renderer # "none"
    BY <1>0, Zenon DEF AudioType
  <2> HIDE DEF b
  <2> QED BY <2>1, <2>2, <2>3, SameItems, Zenon
<1> QED BY <1>1, <1>2

LEMMA PauseKeeps ==
  ASSUME NEW a, AudioOK(a), CanPause(a)
  PROVE  AudioOK(Paused(a))
<1> DEFINE b == cancelAudioEvent(a)
           c == [b EXCEPT !.renderer = "paused"]
<1>1. AudioOK(b) /\ b.renderer # "none" BY CancelKeeps DEF CanPause
<1>2. b \in AudioType BY <1>1 DEF AudioOK
<1> HIDE DEF b
<1>3. c \in AudioType BY <1>2 DEF AudioType, Device
<1>4. /\ c.posted = b.posted /\ c.id = b.id /\ c.firing = b.firing
      /\ c.mQueueStart = b.mQueueStart /\ c.mAudioEventPending = b.mAudioEventPending
      /\ c.exists = b.exists /\ c.renderer # "none"
  BY <1>2, Zenon DEF AudioType
<1>5. AudioOK(c)
  <2> HIDE DEF c
  <2> QED BY <1>1, <1>3, <1>4, SameItems, Zenon
<1>6. Silenced(b) = IF b.renderer = "playing" THEN c ELSE b
  BY <1>1 DEF Silenced
<1>7. AudioOK(Silenced(b)) BY <1>1, <1>5, <1>6, Zenon
<1> QED BY <1>7, Zenon DEF Paused, b

LEMMA SeekKeeps ==
  ASSUME NEW a, AudioOK(a), CanSeek(a)
  PROVE  AudioOK(SeekTo(a))
<1>0. a \in AudioType BY DEF AudioOK
<1> DEFINE b == [a EXCEPT !.mSeeking = TRUE]
<1>1. SeekTo(a) = postAudioEvent(b) BY Zenon DEF SeekTo
<1>2. b \in AudioType BY <1>0 DEF AudioType
<1>3. /\ b.posted = a.posted /\ b.id = a.id /\ b.firing = a.firing
      /\ b.mQueueStart = a.mQueueStart /\ b.mAudioEventPending = a.mAudioEventPending
      /\ b.exists = a.exists /\ b.renderer = a.renderer
  BY <1>0, Zenon DEF AudioType
<1> HIDE DEF b
<1>4. AudioOK(b) BY <1>2, <1>3, SameItems, Zenon
<1>5. b.exists /\ (b.mQueueStart => b.renderer # "none") BY <1>3, Zenon DEF CanSeek
<1> QED BY <1>1, <1>4, <1>5, PostKeeps, Zenon

LEMMA StopKeeps ==
  ASSUME NEW a, AudioOK(a)
  PROVE  AudioOK(Stopped(a))
<1> DEFINE b == cancelAudioEvent(a)
           c == [b EXCEPT !.renderer = "none", !.buffers = 0]
<1>1. AudioOK(b) /\ ~b.mAudioEventPending BY CancelKeeps
<1>2. b \in AudioType BY <1>1 DEF AudioOK
<1>3. Stopped(a) = c BY Zenon DEF Stopped
<1> HIDE DEF b
<1>4. c \in AudioType
  <2>1. "none" \in Device /\ 0 \in 0 .. MaxBuffers BY AudioAssumption DEF Device
  <2> QED BY <1>2, <2>1 DEF AudioType
<1>5. /\ c.posted = b.posted /\ c.id = b.id /\ c.firing = b.firing
      /\ c.mQueueStart = b.mQueueStart /\ c.mAudioEventPending = b.mAudioEventPending
      /\ c.exists = b.exists
  BY <1>2, Zenon DEF AudioType
<1> HIDE DEF c
<1> QED BY <1>1, <1>3, <1>4, <1>5, SameItems, Zenon

-----------------------------------------------------------------------------
(***************************************************************************)
(* The queue's thread and the device.                                      *)
(***************************************************************************)

LEMMA FireKeeps ==
  ASSUME NEW a, AudioOK(a), CanFire(a)
  PROVE  AudioOK(Fire(a))
<1>0. a \in AudioType /\ PendingHasDevice(a) BY DEF AudioOK
<1> DEFINE n == a.posted - 1
           b == [a EXCEPT !.firing = TRUE, !.posted = n, !.id = FALSE]
<1>1. Fire(a) = b BY Zenon DEF Fire
<1>2. n \in Nat BY <1>0, Fields DEF CanFire
<1> HIDE DEF n
<1>3. b \in AudioType BY <1>0, <1>2 DEF AudioType
<1>4. /\ b.posted = n /\ b.id = FALSE /\ b.mQueueStart = a.mQueueStart
      /\ b.mAudioEventPending = a.mAudioEventPending /\ b.renderer = a.renderer
      /\ b.exists = a.exists
  BY <1>0, Zenon DEF AudioType
<1> HIDE DEF b
<1>5. ItemsAreCounted(b) BY <1>2, <1>4, Zenon DEF ItemsAreCounted
<1>6. PendingHasDevice(b) BY <1>0, <1>4, Zenon DEF PendingHasDevice, CanFire
<1> QED BY <1>1, <1>3, <1>5, <1>6, Zenon DEF AudioOK

LEMMA CancelledKeeps ==
  ASSUME NEW a, AudioOK(a)
  PROVE  AudioOK([a EXCEPT !.firing = FALSE])
<1>0. a \in AudioType /\ ItemsAreCounted(a) /\ PendingHasDevice(a) BY DEF AudioOK
<1> DEFINE b == [a EXCEPT !.firing = FALSE]
<1>1. b \in AudioType BY <1>0 DEF AudioType
<1>2. /\ b.posted = a.posted /\ b.id = a.id /\ b.firing = FALSE
      /\ b.mQueueStart = a.mQueueStart /\ b.mAudioEventPending = a.mAudioEventPending
      /\ b.exists = a.exists /\ b.renderer = a.renderer
  BY <1>0, Zenon DEF AudioType
<1> HIDE DEF b
<1>3. ItemsAreCounted(b) /\ PendingHasDevice(b)
  BY <1>0, <1>2, Zenon DEF ItemsAreCounted, PendingHasDevice
<1>4. AudioOK(b) BY <1>1, <1>3 DEF AudioOK
<1> QED BY <1>4 DEF b

LEMMA DrainKeeps ==
  ASSUME NEW a, AudioOK(a), a.renderer = "playing"
  PROVE  AudioOK(Drained(a))
<1>0. a \in AudioType BY DEF AudioOK
<1>1. CASE a.buffers > 1
  <2> DEFINE n == a.buffers - 1
             b == [a EXCEPT !.buffers = n]
  <2>1. Drained(a) = b BY <1>1, Zenon DEF Drained
  <2>2. n \in 0 .. MaxBuffers BY <1>0, <1>1, Fields, AudioAssumption
  <2> HIDE DEF n
  <2>3. b \in AudioType BY <1>0, <2>2 DEF AudioType
  <2>4. /\ b.posted = a.posted /\ b.id = a.id /\ b.firing = a.firing
        /\ b.mQueueStart = a.mQueueStart /\ b.mAudioEventPending = a.mAudioEventPending
        /\ b.exists = a.exists /\ b.renderer = a.renderer
    BY <1>0, Zenon DEF AudioType
  <2> HIDE DEF b
  <2> QED BY <2>1, <2>3, <2>4, SameItems, Zenon
<1>2. CASE ~(a.buffers > 1)
  <2> DEFINE b == [a EXCEPT !.buffers = 0, !.renderer = "stopped"]
  <2>1. Drained(a) = b BY <1>2, Zenon DEF Drained
  <2>2. "stopped" \in Device /\ 0 \in 0 .. MaxBuffers BY AudioAssumption DEF Device
  <2>3. b \in AudioType BY <1>0, <2>2 DEF AudioType
  <2>4. /\ b.posted = a.posted /\ b.id = a.id /\ b.firing = a.firing
        /\ b.mQueueStart = a.mQueueStart /\ b.mAudioEventPending = a.mAudioEventPending
        /\ b.exists = a.exists /\ b.renderer # "none"
    BY <1>0, Zenon DEF AudioType
  <2> HIDE DEF b
  <2> QED BY <2>1, <2>3, <2>4, SameItems, Zenon
<1> QED BY <1>1, <1>2

\* What a handler runs on: a device.
Ready(a) == AudioOK(a) /\ a.exists /\ a.renderer # "none" /\ ~a.firing

LEMMA ReadySame ==
  ASSUME NEW a, Ready(a), NEW b \in AudioType,
         b.posted = a.posted, b.id = a.id, b.firing = a.firing,
         b.mQueueStart = a.mQueueStart, b.mAudioEventPending = a.mAudioEventPending,
         b.exists = a.exists,
         b.renderer # "none"
  PROVE  Ready(b)
BY SameItems, Zenon DEF Ready

LEMMA BegunReady ==
  ASSUME NEW a, AudioOK(a), a.firing, a.mAudioEventPending
  PROVE  Ready(Begun(a))
<1>0. a \in AudioType /\ ItemsAreCounted(a) /\ PendingHasDevice(a) BY DEF AudioOK
<1> DEFINE b == [a EXCEPT !.firing = FALSE, !.mAudioEventPending = FALSE]
           c == [b EXCEPT !.renderer = "initial", !.buffers = 0, !.mAudioQueued = Prefill]
<1>1. Begun(a) = IF b.mSeeking THEN c ELSE b BY Zenon DEF Begun, FlushALContext
<1>2. b \in AudioType BY <1>0 DEF AudioType
<1>3. /\ b.posted = a.posted /\ b.id = a.id /\ b.firing = FALSE
      /\ b.mQueueStart = a.mQueueStart /\ b.mAudioEventPending = FALSE
      /\ b.renderer = a.renderer /\ b.exists = a.exists
  BY <1>0, Zenon DEF AudioType
<1>4. Ready(b)
  <2> HIDE DEF b
  <2>1. ItemsAreCounted(b) /\ PendingHasDevice(b)
    BY <1>0, <1>3, Zenon DEF ItemsAreCounted, PendingHasDevice
  <2>2. a.exists /\ a.renderer # "none" BY <1>0, Zenon DEF PendingHasDevice
  <2> QED BY <1>2, <1>3, <2>1, <2>2, Zenon DEF Ready, AudioOK
<1> HIDE DEF b
<1>5. c \in AudioType
  <2>1. "initial" \in Device /\ 0 \in 0 .. MaxBuffers BY AudioAssumption DEF Device
  <2> QED BY <1>2, <2>1, PrefillBound DEF AudioType
<1>6. /\ c.posted = b.posted /\ c.id = b.id /\ c.firing = b.firing
      /\ c.mQueueStart = b.mQueueStart /\ c.mAudioEventPending = b.mAudioEventPending
      /\ c.exists = b.exists /\ c.renderer # "none"
  BY <1>2, Zenon DEF AudioType
<1>7. Ready(c)
  <2> HIDE DEF c
  <2> QED BY <1>4, <1>5, <1>6, ReadySame, Zenon
<1> QED BY <1>1, <1>4, <1>7, Zenon

\* Posting from the handler: the device stays.
LEMMA ReadyPosts ==
  ASSUME NEW a, Ready(a)
  PROVE  AudioOK(postAudioEvent(a)) /\ postAudioEvent(a).renderer # "none"
<1>1. AudioOK(postAudioEvent(a)) BY PostKeeps, Zenon DEF Ready
<1>2. postAudioEvent(a).renderer = a.renderer
  BY Zenon DEF Ready, AudioOK, AudioType, postAudioEvent
<1> QED BY <1>1, <1>2 DEF Ready

LEMMA AfterReadKeeps ==
  ASSUME NEW a, Ready(a), NEW result \in ReadResults(a)
  PROVE  AudioOK(AfterRead(a, result)) /\ AfterRead(a, result).renderer # "none"
<1>0. a \in AudioType BY DEF Ready, AudioOK
<1>1. CASE result = "ok"
  <2> DEFINE n == a.buffers + 1
             q == IF a.mAudioQueued > 0 THEN a.mAudioQueued - 1 ELSE 0
             b == [a EXCEPT !.buffers = n, !.mAudioQueued = q]
  <2>1. AfterRead(a, result) = postAudioEvent(b) BY <1>1 DEF AfterRead
  <2>2. a.buffers # MaxBuffers BY <1>1 DEF ReadResults
  <2>3. n \in 0 .. MaxBuffers /\ q \in 0 .. MaxBuffers
    BY <1>0, <2>2, Fields, AudioAssumption
  <2> HIDE DEF n, q
  <2>4. b \in AudioType BY <1>0, <2>3 DEF AudioType
  <2>5. /\ b.posted = a.posted /\ b.id = a.id /\ b.firing = a.firing
        /\ b.mQueueStart = a.mQueueStart /\ b.mAudioEventPending = a.mAudioEventPending
        /\ b.exists = a.exists /\ b.renderer = a.renderer
    BY <1>0, Zenon DEF AudioType
  <2> HIDE DEF b
  <2>6. Ready(b) BY <2>4, <2>5, ReadySame, Zenon DEF Ready
  <2> QED BY <2>1, <2>6, ReadyPosts, Zenon
<1>2. CASE result = "discontinuity"
  <2> DEFINE b == [a EXCEPT !.mSeeking = FALSE]
  <2>1. AfterRead(a, result) = postAudioEvent(b) BY <1>2 DEF AfterRead
  <2>2. b \in AudioType BY <1>0 DEF AudioType
  <2>3. /\ b.posted = a.posted /\ b.id = a.id /\ b.firing = a.firing
        /\ b.mQueueStart = a.mQueueStart /\ b.mAudioEventPending = a.mAudioEventPending
        /\ b.exists = a.exists /\ b.renderer = a.renderer
    BY <1>0, Zenon DEF AudioType
  <2> HIDE DEF b
  <2>4. Ready(b) BY <2>2, <2>3, ReadySame, Zenon DEF Ready
  <2> QED BY <2>1, <2>4, ReadyPosts, Zenon
<1>3. CASE result = "end"
  <2> DEFINE b == [a EXCEPT !.mFinalStatus = TRUE]
  <2>1. AfterRead(a, result) = b BY <1>3 DEF AfterRead
  <2>2. b \in AudioType BY <1>0 DEF AudioType
  <2>3. /\ b.posted = a.posted /\ b.id = a.id /\ b.firing = a.firing
        /\ b.mQueueStart = a.mQueueStart /\ b.mAudioEventPending = a.mAudioEventPending
        /\ b.exists = a.exists /\ b.renderer = a.renderer
    BY <1>0, Zenon DEF AudioType
  <2> HIDE DEF b
  <2> QED BY <2>1, <2>2, <2>3, ReadySame, Zenon DEF Ready
<1>4. CASE result \notin {"ok", "discontinuity", "end"}
  <2>1. AfterRead(a, result) = postAudioEvent(a) BY <1>4 DEF AfterRead
  <2> QED BY <2>1, ReadyPosts, Zenon
<1> QED BY <1>1, <1>2, <1>3, <1>4

LEMMA PlayKeeps ==
  ASSUME NEW a, AudioOK(a), a.renderer # "none"
  PROVE  AudioOK(Play(a))
<1>0. a \in AudioType BY DEF AudioOK
<1> DEFINE b == [a EXCEPT !.renderer = "initial", !.buffers = 0]
           c == [a EXCEPT !.renderer = IF a.buffers = 0 THEN "stopped" ELSE "playing"]
<1>1. Play(a) = IF a.renderer = "stopped" THEN b ELSE c BY DEF Play
<1>2. b \in AudioType /\ c \in AudioType
  <2>1. "initial" \in Device /\ "playing" \in Device /\ "stopped" \in Device
        /\ 0 \in 0 .. MaxBuffers
    BY AudioAssumption DEF Device
  <2> QED BY <1>0, <2>1 DEF AudioType
<1>3. /\ b.posted = a.posted /\ b.id = a.id /\ b.firing = a.firing
      /\ b.mQueueStart = a.mQueueStart /\ b.mAudioEventPending = a.mAudioEventPending
      /\ b.exists = a.exists /\ b.renderer # "none"
  BY <1>0, Zenon DEF AudioType
<1>4. /\ c.posted = a.posted /\ c.id = a.id /\ c.firing = a.firing
      /\ c.mQueueStart = a.mQueueStart /\ c.mAudioEventPending = a.mAudioEventPending
      /\ c.exists = a.exists /\ c.renderer # "none"
  BY <1>0, Zenon DEF AudioType
<1> HIDE DEF b, c
<1>5. AudioOK(b) BY <1>2, <1>3, SameItems, Zenon
<1>6. AudioOK(c) BY <1>2, <1>4, SameItems, Zenon
<1> QED BY <1>1, <1>5, <1>6, Zenon

LEMMA HandlerKeeps ==
  ASSUME NEW a, AudioOK(a), a.firing, a.mAudioEventPending,
         NEW result \in ReadResults(Begun(a))
  PROVE  AudioOK(Handled(Begun(a), result))
<1> DEFINE b == AfterRead(Begun(a), result)
<1>1. AudioOK(b) /\ b.renderer # "none" BY BegunReady, AfterReadKeeps, Zenon
<1>2. Handled(Begun(a), result) = IF b.mAudioQueued = 0 /\ ~b.mSeeking THEN Play(b) ELSE b
  BY Zenon DEF Handled
<1> HIDE DEF b
<1> QED BY <1>1, <1>2, PlayKeeps, Zenon

-----------------------------------------------------------------------------
(***************************************************************************)
(* The invariant, of the audio player in the hands of a client.            *)
(***************************************************************************)

LEMMA ResumeKeeps ==
  ASSUME NEW a, AudioOK(a), CanPause(a)
  PROVE  AudioOK(Resumed(a))
<1>1. a.exists /\ (a.mQueueStart => a.renderer # "none")
  BY DEF CanPause, AudioOK, PendingHasDevice
<1> QED BY <1>1, PostKeeps, Zenon DEF Resumed

LEMMA CallKeeps ==
  ASSUME NEW a, AudioOK(a), NEW b \in OneCall(a)
  PROVE  AudioOK(b)
<1>1. CASE b \in {NewAudioPlayer, NoAudioPlayer} BY <1>1, NoItemIsOK
<1>2. CASE CanStart(a) /\ b \in {Started(a), StartFailed(a)} BY <1>2, StartKeeps
<1>3. CASE CanPause(a) /\ b \in {Paused(a), Resumed(a)} BY <1>3, PauseKeeps, ResumeKeeps
<1>4. CASE CanSeek(a) /\ b = SeekTo(a) BY <1>4, SeekKeeps
<1>5. CASE b = Stopped(a) BY <1>5, StopKeeps
<1> QED BY <1>1, <1>2, <1>3, <1>4, <1>5 DEF OneCall

LEMMA AudioInvInit == Init => AudioInv
BY NoItemIsOK DEF Init, AudioInv

LEMMA AudioInvNext ==
  AudioInv /\ [Next \/ Calls]_vars => AudioInv'
<1> SUFFICES ASSUME AudioInv, [Next \/ Calls]_vars PROVE AudioInv'
  OBVIOUS
<1>0. AudioOK(audio) /\ flash \in BOOLEAN BY DEF AudioInv
<1>1. CASE Create BY <1>0, <1>1, NoItemIsOK DEF Create, Call, AudioInv
<1>2. CASE Start
  BY <1>0, <1>2, StartKeeps, Zenon DEF Start, Call, AudioInv
<1>3. CASE Pause BY <1>0, <1>3, PauseKeeps, Zenon DEF Pause, Call, AudioInv
<1>4. CASE Resume BY <1>0, <1>4, ResumeKeeps, Zenon DEF Resume, Call, AudioInv
<1>5. CASE Seek BY <1>0, <1>5, SeekKeeps, Zenon DEF Seek, Call, AudioInv
<1>6. CASE Stop BY <1>0, <1>6, StopKeeps, Zenon DEF Stop, Call, AudioInv
<1>7. CASE Delete BY <1>0, <1>7, NoItemIsOK DEF Delete, Call, AudioInv
<1>8. CASE Flash BY <1>0, <1>8 DEF Flash, AudioInv
<1>9. CASE AudioStep
  <2>1. CASE FireAudioEvent
    BY <1>0, <2>1, FireKeeps, Zenon DEF FireAudioEvent, AudioInv
  <2>2. CASE HandleCancelled
    BY <1>0, <2>2, CancelledKeeps, Zenon DEF HandleCancelled, AudioInv
  <2>3. ASSUME NEW r \in Results, OnAudioEvent(r) PROVE AudioInv'
    <3>1. AudioOK(audio') BY <1>0, <2>3, HandlerKeeps, Zenon DEF OnAudioEvent
    <3>2. flash' \in BOOLEAN BY <1>0, <2>3 DEF OnAudioEvent
    <3> QED BY <3>1, <3>2 DEF AudioInv
  <2> QED BY <1>9, <2>1, <2>2, <2>3 DEF AudioStep
<1>10. CASE Drain BY <1>0, <1>10, DrainKeeps, Zenon DEF Drain, AudioInv
<1>11. CASE Calls
  <2>1. PICK b \in OneCall(audio) : \E c \in {b} \cup OneCall(b) : audio' \in {c} \cup OneCall(c)
    BY <1>11, Zenon DEF Calls
  <2>2. PICK c \in {b} \cup OneCall(b) : audio' \in {c} \cup OneCall(c) BY <2>1, Zenon
  <2>3. AudioOK(b) BY <1>0, <2>1, CallKeeps, Zenon
  <2>4. AudioOK(c) BY <2>2, <2>3, CallKeeps
  <2>5. AudioOK(audio') BY <2>2, <2>4, CallKeeps
  <2> QED BY <1>0, <1>11, <2>5 DEF Calls, AudioInv
<1>12. CASE UNCHANGED vars BY <1>0, <1>12 DEF vars, AudioInv
<1> QED
  BY <1>1, <1>2, <1>3, <1>4, <1>5, <1>6, <1>7, <1>8, <1>9, <1>10, <1>11, <1>12 DEF Next

LEMMA AudioInvariant == Contract => []AudioInv
BY AudioInvInit, AudioInvNext, PTL DEF Contract

\* The audio player by itself is in the hands of such a client.
LEMMA AloneIsContract == Spec => Contract
<1>1. [Next]_vars => [Next \/ Calls]_vars OBVIOUS
<1> QED BY <1>1, PTL DEF Spec, Contract

-----------------------------------------------------------------------------
(***************************************************************************)
(* What each call and step does to the items of the event.                 *)
(***************************************************************************)

Items(a) ==
  Queue!QueueOf([e \in {"audio"} |-> a.posted], [e \in {"audio"} |-> a.id],
                {e \in {"audio"} : a.firing})
\* One operation of the queue, or none.
QueueMay(q, r) == r \in {q} \cup Queue!After(q)
SameItem(a, b) == b.posted = a.posted /\ b.id = a.id /\ b.firing = a.firing

LEMMA NoOperation == ASSUME NEW a, NEW b, SameItem(a, b) PROVE Items(b) = Items(a)
BY DEF SameItem, Items

LEMMA Operates ==
  ASSUME NEW a \in AudioType, NEW b \in AudioType
  PROVE  /\ b.posted = a.posted + 1 /\ b.id /\ b.firing = a.firing =>
              QueueMay(Items(a), Items(b))
         /\ a.id /\ a.posted > 0 /\ b.posted = a.posted - 1 /\ ~b.id /\ b.firing = a.firing =>
              QueueMay(Items(a), Items(b))
         /\ ~a.firing /\ a.posted > 0 /\ b.posted = a.posted - 1 /\ ~b.id /\ b.firing =>
              QueueMay(Items(a), Items(b))
         /\ b.posted = a.posted /\ b.id = a.id /\ ~b.firing => QueueMay(Items(a), Items(b))
         /\ ~a.firing /\ b.posted = 0 /\ ~b.id /\ ~b.firing => QueueMay(Items(a), Items(b))
<1> DEFINE q == Items(a)
           P == [e \in {"audio"} |-> a.posted]
           I == [e \in {"audio"} |-> a.id]
           F == {e \in {"audio"} : a.firing}
<1>0. /\ q.posted = P /\ q.id = I /\ q.firing = F /\ "audio" \in {"audio"}
      /\ P["audio"] = a.posted /\ I["audio"] = a.id
      /\ a.id \in BOOLEAN /\ b.id \in BOOLEAN
  BY DEF Items, Queue!QueueOf, AudioType
<1>1. ASSUME b.posted = a.posted + 1, b.id, b.firing = a.firing PROVE QueueMay(q, Items(b))
  <2>1. [P EXCEPT !["audio"] = P["audio"] + 1] = [e \in {"audio"} |-> b.posted] BY <1>1
  <2>2. [I EXCEPT !["audio"] = TRUE] = [e \in {"audio"} |-> b.id] BY <1>0, <1>1
  <2>3. Items(b) = Queue!Posted(q, "audio")
    BY <1>0, <1>1, <2>1, <2>2, Zenon DEF Items, Queue!Posted
  <2> HIDE DEF q
  <2> QED BY <2>3 DEF QueueMay, Queue!After
<1>a. ASSUME b.posted = a.posted - 1, ~b.id
      PROVE  /\ [P EXCEPT !["audio"] = P["audio"] - 1] = [e \in {"audio"} |-> b.posted]
             /\ [I EXCEPT !["audio"] = FALSE] = [e \in {"audio"} |-> b.id]
  <2>1. [P EXCEPT !["audio"] = P["audio"] - 1] = [e \in {"audio"} |-> b.posted] BY <1>a
  <2>2. [I EXCEPT !["audio"] = FALSE] = [e \in {"audio"} |-> b.id] BY <1>0, <1>a
  <2> QED BY <2>1, <2>2
<1>2. ASSUME a.id, a.posted > 0, b.posted = a.posted - 1, ~b.id, b.firing = a.firing
      PROVE  QueueMay(q, Items(b))
  <2>1. Items(b) = Queue!Taken(q, "audio")
    BY <1>0, <1>2, <1>a, Zenon DEF Items, Queue!Taken, Queue!Out
  <2>2. q.posted["audio"] > 0 /\ q.id["audio"] BY <1>0, <1>2
  <2> HIDE DEF q
  <2> QED BY <2>1, <2>2 DEF QueueMay, Queue!After
<1>3. ASSUME ~a.firing, a.posted > 0, b.posted = a.posted - 1, ~b.id, b.firing
      PROVE  QueueMay(q, Items(b))
  <2>1. {e \in {"audio"} : b.firing} = {"audio"} BY <1>3
  <2>2. Items(b) = Queue!Fired(q, "audio")
    BY <1>0, <1>3, <1>a, <2>1, Zenon DEF Items, Queue!Fired, Queue!Out
  <2>3. q.posted["audio"] > 0 /\ q.firing = {} BY <1>0, <1>3
  <2> HIDE DEF q
  <2> QED BY <2>2, <2>3 DEF QueueMay, Queue!After
<1>4. ASSUME b.posted = a.posted, b.id = a.id, ~b.firing PROVE QueueMay(q, Items(b))
  <2>1. {e \in {"audio"} : b.firing} = {} BY <1>4
  <2>2. Items(b) = Queue!Handled(q)
    BY <1>0, <1>4, <2>1, Zenon DEF Items, Queue!Handled
  <2> HIDE DEF q
  <2> QED BY <2>2 DEF QueueMay, Queue!After
<1>5. ASSUME ~a.firing, b.posted = 0, ~b.id, ~b.firing PROVE QueueMay(q, Items(b))
  <2>1. {e \in {"audio"} : b.firing} = {} /\ F = {} BY <1>5
  <2>2. [e \in {"audio"} |-> b.id] = [e \in {"audio"} |-> FALSE] BY <1>0, <1>5
  <2>3. Items(b) = Queue!EmptyQueue
    BY <1>5, <2>1, <2>2, Zenon DEF Items, Queue!EmptyQueue
  <2>4. q.firing = {} BY <1>0, <2>1
  <2> HIDE DEF q
  <2> QED BY <2>3, <2>4 DEF QueueMay, Queue!After
<1> HIDE DEF q
<1> QED BY <1>1, <1>2, <1>3, <1>4, <1>5 DEF q

LEMMA PostMay ==
  ASSUME NEW a \in AudioType, NEW c \in AudioType, SameItem(a, c),
         postAudioEvent(c) \in AudioType
  PROVE  QueueMay(Items(a), Items(postAudioEvent(c)))
<1>1. CASE c.mAudioEventPending
  <2>1. postAudioEvent(c) = c BY <1>1, Zenon DEF postAudioEvent
  <2>2. Items(c) = Items(a) BY NoOperation
  <2> QED BY <2>1, <2>2 DEF QueueMay
<1>2. CASE ~c.mAudioEventPending
  <2> DEFINE n == c.posted + 1
             b == [c EXCEPT !.mAudioEventPending = TRUE, !.posted = n, !.id = TRUE]
  <2>1. postAudioEvent(c) = b BY <1>2, Zenon DEF postAudioEvent
  <2> HIDE DEF n
  <2>2. b.posted = n /\ b.id = TRUE /\ b.firing = c.firing BY Zenon DEF AudioType
  <2> HIDE DEF b
  <2>3. b.posted = a.posted + 1 /\ b.id /\ b.firing = a.firing
    BY <2>2, Zenon DEF n, SameItem
  <2> QED BY <2>1, <2>3, Operates, Zenon
<1> QED BY <1>1, <1>2

LEMMA CancelMay ==
  ASSUME NEW a, AudioOK(a)
  PROVE  QueueMay(Items(a), Items(cancelAudioEvent(a)))
<1>0. a \in AudioType /\ ItemsAreCounted(a) /\ cancelAudioEvent(a) \in AudioType
  BY CancelKeeps DEF AudioOK
<1>1. CASE ~a.mAudioEventPending
  <2>1. cancelAudioEvent(a) = a BY <1>1, Zenon DEF cancelAudioEvent
  <2> QED BY <2>1 DEF QueueMay
<1>2. CASE a.mAudioEventPending
  <2> DEFINE n == IF a.id THEN a.posted - 1 ELSE a.posted
             b == [a EXCEPT !.mAudioEventPending = FALSE, !.posted = n, !.id = FALSE]
  <2>1. cancelAudioEvent(a) = b BY <1>2, Zenon DEF cancelAudioEvent
  <2> HIDE DEF n
  <2>2. b.posted = n /\ b.id = FALSE /\ b.firing = a.firing
    BY <1>0, Zenon DEF AudioType
  <2> HIDE DEF b
  <2>3. CASE a.id
    <3>1. n = a.posted - 1 BY <2>3 DEF n
    <3>2. a.posted > 0 BY <1>0, <2>3, Zenon DEF ItemsAreCounted
    <3>3. b.posted = a.posted - 1 /\ ~b.id BY <2>2, <3>1, Zenon
    <3> QED BY <1>0, <2>1, <2>2, <2>3, <3>2, <3>3, Operates, Zenon
  <2>4. CASE ~a.id
    <3>1. n = a.posted BY <2>4 DEF n
    <3>2. SameItem(a, b)
      <4>1. a.id = FALSE BY <1>0, <2>4 DEF AudioType
      <4> QED BY <2>2, <3>1, <4>1, Zenon DEF SameItem
    <3>3. Items(b) = Items(a) BY <3>2, NoOperation, Zenon
    <3> QED BY <2>1, <3>3 DEF QueueMay
  <2> QED BY <2>3, <2>4
<1> QED BY <1>1, <1>2

\* What is done to the device is nothing to the queue.
LEMMA SilencedItem ==
  ASSUME NEW a \in AudioType
  PROVE  SameItem(a, Silenced(a))
<1>1. \/ Silenced(a) = [a EXCEPT !.renderer = "null pointer"]
      \/ Silenced(a) = [a EXCEPT !.renderer = "paused"] \/ Silenced(a) = a
  BY DEF Silenced
<1> QED BY <1>1 DEF SameItem, AudioType

LEMMA CallMay ==
  ASSUME NEW a, AudioOK(a), NEW b \in OneCall(a)
  PROVE  QueueMay(Items(a), Items(b))
<1>0. a \in AudioType /\ PendingHasDevice(a) /\ b \in AudioType BY CallKeeps DEF AudioOK
<1>1. CASE ~a.firing /\ b \in {NewAudioPlayer, NoAudioPlayer}
  <2>1. b.posted = 0 /\ ~b.id /\ ~b.firing BY <1>1 DEF NewAudioPlayer, NoAudioPlayer
  <2> QED BY <1>0, <1>1, <2>1, Operates, Zenon
<1>2. CASE b = Started(a)
  <2> DEFINE c == [a EXCEPT !.renderer = "initial", !.buffers = 0, !.mQueueStart = TRUE,
                            !.mSeeking = FALSE, !.mAudioQueued = Prefill]
  <2>1. b = postAudioEvent(c) BY <1>2, Zenon DEF Started
  <2>2. c \in AudioType
    <3>1. "initial" \in Device /\ 0 \in 0 .. MaxBuffers BY AudioAssumption DEF Device
    <3> QED BY <1>0, <3>1, PrefillBound DEF AudioType
  <2>3. SameItem(a, c) BY <1>0, Zenon DEF AudioType, SameItem
  <2> HIDE DEF c
  <2> QED BY <1>0, <2>1, <2>2, <2>3, PostMay, Zenon
<1>3. CASE b = StartFailed(a)
  <2>1. SameItem(a, b) BY <1>0, <1>3, Zenon DEF StartFailed, AudioType, SameItem
  <2>2. Items(b) = Items(a) BY <2>1, NoOperation, Zenon
  <2> QED BY <2>2 DEF QueueMay
<1>4. CASE b = Paused(a)
  <2> DEFINE c == cancelAudioEvent(a)
  <2>1. c \in AudioType BY CancelKeeps DEF AudioOK
  <2>2. SameItem(c, b) BY <1>4, <2>1, SilencedItem, Zenon DEF Paused
  <2>3. Items(b) = Items(c) BY <2>2, NoOperation, Zenon
  <2> QED BY <2>3, CancelMay, Zenon
<1>5. CASE b = Resumed(a)
  <2>1. SameItem(a, a) BY DEF SameItem
  <2> QED BY <1>0, <1>5, <2>1, PostMay, Zenon DEF Resumed
<1>6. CASE b = SeekTo(a)
  <2> DEFINE c == [a EXCEPT !.mSeeking = TRUE]
  <2>1. b = postAudioEvent(c) BY <1>6, Zenon DEF SeekTo
  <2>2. c \in AudioType BY <1>0 DEF AudioType
  <2>3. SameItem(a, c) BY <1>0, Zenon DEF AudioType, SameItem
  <2> HIDE DEF c
  <2> QED BY <1>0, <2>1, <2>2, <2>3, PostMay, Zenon
<1>7. CASE b = Stopped(a)
  <2> DEFINE c == cancelAudioEvent(a)
  <2>1. c \in AudioType BY CancelKeeps DEF AudioOK
  <2> HIDE DEF c
  <2>2. b = [c EXCEPT !.renderer = "none", !.buffers = 0] BY <1>7, Zenon DEF Stopped, c
  <2>3. SameItem(c, b) BY <2>1, <2>2, Zenon DEF AudioType, SameItem
  <2>4. Items(b) = Items(c) BY <2>3, NoOperation, Zenon
  <2> QED BY <2>4, CancelMay, Zenon DEF c
<1>8. ~a.exists => ~a.firing BY <1>0 DEF PendingHasDevice
<1> QED BY <1>1, <1>2, <1>3, <1>4, <1>5, <1>6, <1>7, <1>8 DEF OneCall, CanDelete

\* The handler has its event taken off its hands, and posts it at most once.
LEMMA HandlerMay ==
  ASSUME NEW a, AudioOK(a), a.firing, a.mAudioEventPending,
         NEW result \in ReadResults(Begun(a))
  PROVE  /\ QueueMay(Items(a), Items(Begun(a)))
         /\ QueueMay(Items(Begun(a)), Items(Handled(Begun(a), result)))
<1>0. a \in AudioType BY DEF AudioOK
<1> DEFINE d == Begun(a)
           e == AfterRead(d, result)
           b == Handled(d, result)
<1>1. Ready(d) /\ d \in AudioType BY BegunReady DEF Ready, AudioOK
<1>2. AudioOK(e) /\ e \in AudioType BY <1>1, AfterReadKeeps, Zenon DEF AudioOK
<1>3. QueueMay(Items(a), Items(d))
  <2> DEFINE c == [a EXCEPT !.firing = FALSE, !.mAudioEventPending = FALSE]
  <2>1. \/ d = c
        \/ d = [c EXCEPT !.renderer = "initial", !.buffers = 0, !.mAudioQueued = Prefill]
    BY DEF Begun, FlushALContext
  <2>2. c \in AudioType /\ c.posted = a.posted /\ c.id = a.id /\ c.firing = FALSE
    BY <1>0 DEF AudioType
  <2> HIDE DEF c, d
  <2>3. d.posted = a.posted /\ d.id = a.id /\ ~d.firing BY <2>1, <2>2 DEF AudioType
  <2> QED BY <1>0, <1>1, <2>3, Operates, Zenon
<1> HIDE DEF d
<1>4. QueueMay(Items(d), Items(e))
  <2>1. CASE result = "ok"
    <3> DEFINE n == d.buffers + 1
               q == IF d.mAudioQueued > 0 THEN d.mAudioQueued - 1 ELSE 0
               c == [d EXCEPT !.buffers = n, !.mAudioQueued = q]
    <3>1. e = postAudioEvent(c) BY <2>1 DEF AfterRead
    <3>2. d.buffers # MaxBuffers BY <2>1 DEF ReadResults, d
    <3>3. n \in 0 .. MaxBuffers /\ q \in 0 .. MaxBuffers
      BY <1>1, <3>2, Fields, AudioAssumption
    <3> HIDE DEF n, q
    <3>4. c \in AudioType BY <1>1, <3>3 DEF AudioType
    <3>5. SameItem(d, c) BY <1>1, Zenon DEF AudioType, SameItem
    <3> HIDE DEF c, e
    <3> QED BY <1>1, <1>2, <3>1, <3>4, <3>5, PostMay, Zenon
  <2>2. CASE result = "discontinuity"
    <3> DEFINE c == [d EXCEPT !.mSeeking = FALSE]
    <3>1. e = postAudioEvent(c) BY <2>2 DEF AfterRead
    <3>2. c \in AudioType BY <1>1 DEF AudioType
    <3>3. SameItem(d, c) BY <1>1, Zenon DEF AudioType, SameItem
    <3> HIDE DEF c, e
    <3> QED BY <1>1, <1>2, <3>1, <3>2, <3>3, PostMay, Zenon
  <2>3. CASE result = "end"
    <3>1. e = [d EXCEPT !.mFinalStatus = TRUE] BY <2>3 DEF AfterRead
    <3>2. SameItem(d, e) BY <1>1, <3>1, Zenon DEF AudioType, SameItem
    <3>3. Items(e) = Items(d) BY <3>2, NoOperation, Zenon
    <3> QED BY <3>3 DEF QueueMay
  <2>4. CASE result \notin {"ok", "discontinuity", "end"}
    <3>1. e = postAudioEvent(d) BY <2>4 DEF AfterRead
    <3>2. SameItem(d, d) BY DEF SameItem
    <3> HIDE DEF e
    <3> QED BY <1>1, <1>2, <3>1, <3>2, PostMay, Zenon
  <2> QED BY <2>1, <2>2, <2>3, <2>4
<1> HIDE DEF e
<1>5. Items(b) = Items(e)
  <2>1. \/ b = e \/ b = [e EXCEPT !.renderer = "initial", !.buffers = 0]
        \/ b = [e EXCEPT !.renderer = IF e.buffers = 0 THEN "stopped" ELSE "playing"]
    BY DEF e, Handled, Play
  <2> HIDE DEF b
  <2>2. SameItem(e, b) BY <1>2, <2>1 DEF SameItem, AudioType
  <2> QED BY <2>2, NoOperation, Zenon
<1> QED BY <1>3, <1>4, <1>5, Zenon DEF d

LEMMA DrainItem ==
  ASSUME NEW a \in AudioType
  PROVE  SameItem(a, Drained(a))
<1>1. \/ Drained(a) = [a EXCEPT !.buffers = a.buffers - 1]
      \/ Drained(a) = [a EXCEPT !.buffers = 0, !.renderer = "stopped"]
  BY DEF Drained
<1> QED BY <1>1 DEF SameItem, AudioType

LEMMA StepMay ==
  AudioInv /\ [Next \/ Calls]_vars => [Queue!Calls]_EventItems
<1> SUFFICES ASSUME AudioInv, [Next \/ Calls]_vars
             PROVE  Queue!Calls \/ UNCHANGED EventItems
  OBVIOUS
<1>0. AudioOK(audio) /\ audio \in AudioType BY DEF AudioInv, AudioOK
<1>a. EventItems = Items(audio) /\ EventItems' = Items(audio')
  BY DEF EventItems, Items, Queue!QueueOf
<1>b. ASSUME NEW q, NEW r, QueueMay(Items(audio), q), QueueMay(q, r), QueueMay(r, Items(audio'))
      PROVE  Queue!Calls
  BY <1>a, <1>b, Zenon DEF Queue!Calls, QueueMay
<1>c. \A q : QueueMay(q, q) BY DEF QueueMay
<1>d. ASSUME QueueMay(Items(audio), Items(audio')) PROVE Queue!Calls
  BY <1>b, <1>c, <1>d, Zenon
<1>1. CASE \E b \in OneCall(audio) : audio' = b
  BY <1>0, <1>1, <1>d, CallMay, Zenon
<1>2. CASE Create \/ Start \/ Pause \/ Resume \/ Seek \/ Stop \/ Delete
  <2>1. audio' \in OneCall(audio)
    BY <1>2 DEF Create, Start, Pause, Resume, Seek, Stop, Delete, Call, OneCall
  <2> QED BY <1>1, <2>1, Zenon
<1>3. CASE Flash BY <1>3, <1>a DEF Flash
<1>4. CASE FireAudioEvent
  <2> DEFINE b == [audio EXCEPT !.firing = TRUE, !.posted = audio.posted - 1, !.id = FALSE]
  <2>1. audio' = b BY <1>4, Zenon DEF FireAudioEvent, Fire
  <2>2. ~audio.firing /\ audio.posted > 0 BY <1>4 DEF FireAudioEvent, CanFire
  <2>3. b.posted = audio.posted - 1 /\ b.id = FALSE /\ b.firing = TRUE
    BY <1>0, Zenon DEF AudioType
  <2>4. b \in AudioType
    <3>1. audio.posted - 1 \in Nat BY <1>0, <2>2, Fields
    <3> QED BY <1>0, <3>1 DEF AudioType
  <2> HIDE DEF b
  <2> QED BY <1>0, <1>d, <2>1, <2>2, <2>3, <2>4, Operates, Zenon
<1>5. CASE HandleCancelled
  <2> DEFINE b == [audio EXCEPT !.firing = FALSE]
  <2>1. audio' = b BY <1>5 DEF HandleCancelled
  <2>2. b \in AudioType /\ b.posted = audio.posted /\ b.id = audio.id /\ ~b.firing
    BY <1>0 DEF AudioType
  <2> HIDE DEF b
  <2> QED BY <1>0, <1>d, <2>1, <2>2, Operates, Zenon
<1>6. ASSUME NEW r \in Results, OnAudioEvent(r) PROVE Queue!Calls
  <2> DEFINE q == Items(Begun(audio))
  <2>1. QueueMay(Items(audio), q) /\ QueueMay(q, Items(audio'))
    BY <1>0, <1>6, HandlerMay, Zenon DEF OnAudioEvent
  <2> HIDE DEF q
  <2> QED BY <1>b, <1>c, <2>1, Zenon
<1>7. CASE Drain
  <2>1. SameItem(audio, audio') BY <1>0, <1>7, DrainItem, Zenon DEF Drain
  <2> QED BY <1>a, <2>1, NoOperation, Zenon
<1>8. CASE Calls
  <2>1. PICK b \in OneCall(audio) : \E c \in {b} \cup OneCall(b) : audio' \in {c} \cup OneCall(c)
    BY <1>8, Zenon DEF Calls
  <2>2. PICK c \in {b} \cup OneCall(b) : audio' \in {c} \cup OneCall(c) BY <2>1, Zenon
  <2>3. AudioOK(b) BY <1>0, <2>1, CallKeeps, Zenon
  <2>4. AudioOK(c) BY <2>2, <2>3, CallKeeps
  <2>5. QueueMay(Items(audio), Items(b)) BY <1>0, <2>1, CallMay, Zenon
  <2>6. QueueMay(Items(b), Items(c)) BY <1>c, <2>2, <2>3, CallMay
  <2>7. QueueMay(Items(c), Items(audio')) BY <1>c, <2>2, <2>4, CallMay
  <2> QED BY <1>b, <2>5, <2>6, <2>7, Zenon
<1>9. CASE UNCHANGED vars BY <1>9, <1>a DEF vars
<1> QED BY <1>2, <1>3, <1>4, <1>5, <1>6, <1>7, <1>8, <1>9 DEF Next, AudioStep

-----------------------------------------------------------------------------
(***************************************************************************)
(* The theorems, for any client that keeps to the contract: it may make    *)
(* several calls in a step, and post any number of items.                  *)
(***************************************************************************)

\* Every field of the audio player keeps its type: no more items are cancelled
\* than are there, and no more buffers queued than the device has.
THEOREM AudioTypeCorrect == Contract => []TypeOK
<1>1. AudioInv => TypeOK BY Zenon DEF AudioInv, AudioOK, AudioType, TypeOK
<1> QED BY <1>1, AudioInvariant, PTL

\* A handler that has not been cancelled has a device to write to, although
\* stop() deletes the device while the event of the handler may be in flight.
THEOREM ClientHasDevice == Contract => []DeviceThere
<1>1. AudioInv => DeviceThere
  BY Zenon DEF AudioInv, AudioOK, PendingHasDevice, DeviceThere
<1> QED BY <1>1, AudioInvariant, PTL

\* The same of the audio player by itself, as the run checks it.
THEOREM AudioDeviceThere == Spec => []DeviceThere
BY ClientHasDevice, AloneIsContract, PTL

\* All that it does to the items of its event is what a queue allows: although its
\* flag of a pending event outlives the item, it takes none back that is not there.
THEOREM AudioKeepsQueueContract == Contract => QueueContract
<1>1. Init => Queue!Init
  <2> SUFFICES ASSUME Init PROVE Queue!Init OBVIOUS
  <2>1. audio.posted = 0 /\ audio.id = FALSE /\ audio.firing = FALSE
    BY DEF Init, NoAudioPlayer
  <2>2. {e \in {"audio"} : audio.firing} = {} BY <2>1
  <2> QED BY <2>1, <2>2 DEF Queue!Init, Queue!EmptyQueue, Queue!QueueOf, EventItems
<1> QED BY <1>1, AudioInvariant, StepMay, PTL DEF Contract, QueueContract, Queue!ClientSpec

=================================================================================
