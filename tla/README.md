# A TLA+ model of NBMediaPlayer

NBMediaPlayer (`src/NBMediaPlayer`) is a C++ media player: an application calls
`NBMediaPlayer`, which prepares a data source, demultiplexes it with FFmpeg on a
thread of its own, decodes and shows video on a second thread and plays audio on
a third. Network sources are filled by a download engine with its own event
loop. The repository has no documentation of the player beyond its comments, so
everything below is taken from the code.

Paths are relative to `src/NBMediaPlayer/`.

## 1. Inventory

| component | state | operations | interacts with |
|---|---|---|---|
| **Timed event queue** `NBTimedEventQueue` | list of (event, due time), next id, `mRunning`, `mStopped`, the id inside every event object | `start`, `stop(flush)`, `postEvent`, `postEventToBack`, `postEventWithDelay`, `postTimedEvent`, `cancelEvent`; the event thread | one instance each in the player, the audio player and the extractor; handlers run without the queue's lock and post and cancel again |
| **Demultiplexer** `NBFFmpegExtractor`, **tracks** `NBFFmpegMediaTrack`, **packet queues** `NBBufferQueue` | `mSeekTimeUs`, `mReachedEnd`, `mExtractorEventPending`, one packet queue per stream, the position in the file | `onExtractorEvent` (read one packet or seek), `seekTo`, `notifyContinueRead`, `start`, `stop`; a track's `start`, `read` | its event queue; the decoders read tracks; `onMediaSeeked` calls back the player with the extractor's lock held |
| **Player** `NBMediaPlayer` | `mFlags` (PREPARING, PREPARED, PLAYING, ...), five pending flags, seek state, sources and players it owns | `prepareAsync`, `play`, `pause`, `seekTo`, `reset`, event handlers `onPrepareAsyncEvent`, `onVideoEvent`, `onStreamDone`, `onCheckAudioStatus`, `onBufferingUpdate`, callback `onMediaSeeked` | everything |
| **Audio player** `NBAudioPlayer` | `mQueueStart`, the OpenAL source, `mAudioQueued`, `mSeeking`, `mFinalStatus`, pending flag | `start`, `pause`, `resume`, `seekTo`, `stop`, `onAudioEvent` | audio decoder (track), renderer, player |
| **Clock manager** `NBClockManager` | real-time anchors per clock | set and read clocks | player, audio player |
| **Download engine loop** `DELooper` | command list, loop thread | synchronous and asynchronous commands, timers, `start`, `stop` | tasks, network, data source |
| **Download tasks** `DEBaseTask`, `DECurlTask`, `DECurlHttpTask`, `DEDownloadEngine` | segments, retry counts, blocks wanted | `start`, `stop`, `seek`, `read`, timer, completion and error callbacks | loop, network, buffers |
| **Network layer** `DENetwork` | libcurl multi handle, sockets, timer | add and remove transfers, completions | loop, tasks |
| **Download buffers** `DEMemDataManager`, `DELRUCache` | free, downloaded and written buffer indices | `write`, `read`, `acquireBuffer`, `releaseBuffer`, `purgeBuffers` | tasks |
| **Data sources** `NBBeastSource`, `NBFFmpegSource` | task id, read position | `initCheck`, `readAt`, `interrupt` | extractor, download engine |
| **Decoders**, **renderers**, **foundation containers**, **logging**, **platform bindings** | | | libraries and operating system |

FFmpeg itself is vendored under `src/datasource/ffmpeg`; its calls are modelled
from how the extractor uses them.

### What is hard in it, and what makes each part correct

* **Event queue.** Two condition variables, waits cut into ten-second pieces, ids
  that are read without the lock and become stale. Correct: an event fires at
  most once, not before its time, not after a successful cancel; no wake-up is
  lost; `stop` returns.
* **Demultiplexer.** One event reposts itself, with the lock released around the
  library calls, while readers and `seekTo` look at the pending flag to decide
  whether to post; `stop` cancels an event that may be in flight. Correct: one
  event at a time; every reader gets the packets of its track in order between
  two discontinuities; reading ahead is bounded; nobody starves; a seek is
  executed.
* **Player.** Handlers on its event thread, calls of the application and the
  callback of the extractor share `mLock`, which some paths take twice or in
  opposite orders; the prepare event outlives the reset that cancels it; events
  posted before a seek are handled after it. Correct: no deadlock; each prepare
  is answered once; a seek is honoured and answered once; nothing of a reset
  source is touched.
* **Audio player.** The end of a stream stops the event chain; the status is
  never cleared. Correct: after a seek the chain runs again.
* **Download engine.** Synchronous commands and the stop of the loop; a seek
  purges buffers that transfers still write to; eviction under reading. Correct:
  every command is answered; a buffer index is in one place; a block that is
  reported as downloaded holds the data of its position; a segment that is launched
  finds its buffers, also if libcurl calls back meanwhile.

The hazards, with their lines and the properties that cover them, are in
`PROJECT.json`.

## 2. Plan

| | module | composes | abstract specification | runs and bounds | theorems |
|---|---|---|---|---|---|
| done | `NBTimedEventQueue` | | `EventPool`; `PostedEvents` for clients that post again | two events, three ids, clock 0..3 | whatever is posted: types, no lost wake-up, head not overslept, items counted; of clients that do not post again: ids agree, never early, cancel, refinement |
| done | `NBFFmpegExtractor` (with tracks and packet queues) | | `PacketStreams`, `PostedEvents` | two tracks, three packets, two seeks, one error, stop | `TypeOK`, `OneEventAtATime`, `TracksAgree`, `FlashAtHead`, `ReadAheadBounded`, `ReadsInOrder`, refinement, `PostedEvents` kept |
| done | `NBPlayerPrepare`: `prepareAsync`, `onPrepareAsyncEvent`, `finishAsyncPrepare_l`, `abortPrepare`, `reset_l`, the destructor | event ownership of the player's queue | `PlayerLifecycle`, `PostedEvents` | application thread, event thread, three prepares | types, one prepare event, who owns what, a prepared player is whole, quiet after a reset, refinement, `PostedEvents` kept |
| done | `NBAudioPlayer` with the state of the OpenAL source | | the client's calls, one step each or several (`Contract`) | four buffers | for any client: types with the count of items, a handler has its device, `PostedEvents` kept |
| done | `NBMediaPlayer`: play, pause, seek, reset, video, stream-done and audio-status events | `NBAudioPlayer`; of the extractor its lock, seek and callback | `Contract` of the audio player, `PostedEvents` | three calls, three media | types, silence and no video unless playing, the video event is not lost, back to the start, the watched audio player is there, no ring of locks through the audio player, both contracts kept, what the audio player is proved to keep in it |
| done | `DELooper`, with the entry points of the engine | | `CommandServer`: commands are executed once, in order, before their calls return | two data sources, five commands | type and loop invariant, no command forgotten, every wait has its reason, refinement, for sources that create and delete the engine alone |
| done | `DEMemDataManager` with `DELRUCache` | | | | by way of `DETask` |
| done | `DETask`: segments, retries, seek, timer, `NBBeastSource` | `DEMemDataManager` | `BlockCache`: a partial map from blocks to data, of limited size, with the blocks read last | five blocks, four buffers, two segments, one seek, two failures | partition of the buffers, intact blocks, buffers suffice, no empty range, refinement, if no transfer ends inside a call of libcurl |
| left | the player on the streams of `PacketStreams`, and from the phases of `PlayerLifecycle` | | | | refinement |
| left | the clocks, timers and I/O watchers of the loop, hardware decoders | player, loop | | | |

The order is that of use: every thread of the player runs on the event queue,
everything it plays comes out of the demultiplexer, and the player's own
handlers are the place where the two meet. Each new component gets one run for
its safety and liveness together where the state space allows; a run that shows
a disagreement with a comment is kept for those that matter to a user of the
player.

## 3. The event queue

`NBTimedEventQueue.tla`. A step is one critical section of `mLock` or one step
taken without it. `mQueue` is the list, head first; `eventID` is the `mEventID`
inside every event object. Each item also records the id its post returned
(`id`), which the code does not keep: it tells two posts of one object apart.
`thread` is the event thread: `top` of the outer loop, asleep in
`waitNotEmpty` or `waitHead` (with the id it read, the end of the wait and
whether the wait was cut), `fire` while the handler runs, `exited`. `signalled`
holds the condition variables whose wake-up is under way; a signal is lost when
nobody waits, and a woken thread may be overtaken by any other step before it
has the lock again.

| action | code |
|---|---|
| `Post` (with `PostTimedEvent`, `Insert`, `PostSignals`) | the four posts, `NBTimedEventQueue.cpp:71-113` |
| `CancelEvent` (with `Matches`, `CancelSignals`) | `:115-172` |
| `Start`, `StopCall`, `StopJoined` | `:23-69` |
| `ThreadTop`, `WakeNotEmpty`, `WakeHead`, `HeadTimeout` (with `ExamineHead`, `RemoveAndFire`) | `threadEntry` `:226-328` |
| `FireDone` | the handler returns; `StopEvent::fire` sets `mStopped` |
| `Tick` | `getRealTimeUs` moves on |

A handler's own posts and cancels are the clients' actions: they take the same
lock. Reserved times are ordered as in the code (`INT64_MIN`, `INT64_MIN + 1`,
clock values, `INT64_MAX`). A spurious return of a wait only repeats the test
that follows it and is not modelled. `runEvent` and `cancelEvents` with another
predicate are called by nobody.

`Repost` says whether a client may post an object that is still queued. With
`Repost = FALSE`, the discipline the pending flags of the clients are there
for, the queue is correct, and this is what the run assumes.
`NBMediaPlayer::onMediaSeeked` breaks it: the second post overwrites the
id in the event object, so that a cancel takes out one item only and the
other one still fires, against `NBTimedEventQueue.h:78`. The audio player and
the player, which live with it, model both items (sections 6 and 7).

The queue has two promises. `EventPool.tla` is the one to clients that keep the
discipline: a set of pending posts, of which each is handed out once, not before
its time, or cancelled by its id, or discarded; `ImplementsPool` states that the
queue implements it, with `pending <- {items}`, `firing <- thread.item`.
`PostedEvents.tla` is the one to any client: it counts the items of each object
and says whether the object has an id to cancel one by, which it loses with the
first item taken out. `CountsItems` states that the queue implements it, which is
proved (`QueueCountsItems`, section 10); and the audio player, the player, the prepare
event and the extractor are proved, and the player also checked, to make of their
items and ids only what it allows (`QueueContract`). So what these count by hand
is what the queue does.

| run | shows |
|---|---|
| `queue` | the inductive invariant `QueueInv`, `NoLostWakeup`, `HeadNotOverslept`, `CancelTakesItsPost`, `ImplementsPool`; `EveryPostResolved` and `StopReturns` with fairness |

`EveryPostResolved` and `StopReturns` have a premise, and need it. `list_add`
(`:108`) puts a post that is due after every queued item in FRONT of the list, and
any other one behind the first item due later. So an event that posts itself again
with a later time whenever it fires, as `onVideoEvent` does
(`NBMediaPlayer.cpp:953`), overtakes what is queued, and what is overtaken each
time is never reached: an earlier event, or the StopEvent, for which `stop()`, called by
the destructor of a playing player (`NBMediaPlayer.cpp:151`), then waits as long
as the video has frames. The properties are said of an item that is not overtaken
(`Overtaken`) again and again. In the run ids are finitely many, so that no item is
overtaken for ever and the premise is true of all its behaviours: what the run
shows is that nothing else keeps an item in the queue or a caller in `stop()`, and
the premise says what that means for the code.

`postEventWithDelay` reads the clock (`:84`) before it takes the lock (`:89`), so a
post may carry a time that has passed: `Post` takes any time of the clock.

Bounds: two event objects and three ids let an event be posted, cancelled and
posted again while another one is waited for, or the stop event come on top;
the safety properties are proved for any number. Clock 0..3 with waits of at
most 2 gives immediate, short and cut waits. Deadlock checking is off because a
queue that is never started, whose ids and clock are used up, has nothing to do.

Fairness (`FairSpec`): the event thread is scheduled, time passes, and a join
whose thread has ended returns. Nothing is assumed of clients. Weak fairness of
the thread's steps is enough, since a step that is enabled stays enabled until
the thread takes it or a client's step replaces it by another one of the thread.

The order of the list has a root of its own: `list_add(&item->list, pos)`
(`NBTimedEventQueue.cpp:108`) inserts behind the first later item, where
`list_add_tail` would insert before it. So a front event goes behind the head
(`NBTimedEventQueue.h:65` promises the front),
the StopEvent of `stop(false)` does too (`:72` speaks of "the absolute head of
the queue"), and an event whose time has passed waits for the head. Changing that alone would make posts
into a non-empty queue change its head, and these do not signal
`mQueueHeadChangedCondition` (`:104`): `HeadNotOverslept` would fail.

## 4. The demultiplexer

`NBFFmpegExtractor.tla`, with the tracks' `read` and the packet queues, whose
operations are single critical sections. `posted` counts extractor events in
the event queue, which is used through what section 3 establishes: a post is
fired once, unless it is cancelled. The extractor posts at the front and stops
its queue with `stop(true)`, whose stop event is due at once: from the call on,
posted events no longer fire (`Enqueue`). `ev` is the event being fired; its
`pc` names the place, with the lock released, between two critical sections.

| `ev.pc` | code of `onExtractorEvent` |
|---|---|
| `begin` | `NBFFmpegExtractor.cpp:395-432`, read the seek, or return if all queues are full |
| `seek` | `:437-440` `avformat_seek_file` |
| `flush`, `flash` | `:445-462` each active track: flush its queue, then push the flash packet |
| `seeked` | `:465-478` |
| `read` | `:480-486` `av_read_frame` |
| `eof`, `failed` | `:487-507` |
| `push` | `:511-572` |
| `more` | `:574-581` |

`reader[t]` is where the reader of track t is inside `NBFFmpegMediaTrack::read`:
`empty` after it popped nothing, `wants` after it found that the end is not
reached. A file is a sequence of streams (`Media`); packet i belongs to
`Media[i]`, a seek target is a packet number. `last` and `sought` are history:
the packet a reader got last, and where its queue was last restarted. Pushes to
a queue the reader finds full are not blocked: the extractor has no such wait.
The pending flag and queue contents are read as the code reads them; the
unlocked `getCount` reads one integer and is modelled by its current value.

The environment: `av_read_frame` returns the next packet, the end, or an error
(at most `MaxErrors` of them, or any number once `stop` has interrupted the
source); a seek succeeds or fails. Tracks are started before anything is read,
as `onPrepareAsyncEvent` does. `stop` is called when the readers have been
stopped, as `reset_l` does.

| run | shows |
|---|---|
| `extractor` | `OneEventAtATime`, `FlashAtHead`, `TracksAgree`, `ReadAheadBounded`, `ImplementsStreams`; `ReaderServed` with fairness |
| `extractor_SeekExecuted` | a seek that arrives while an end of file (or another seek) is being handled is never executed |

`PacketStreams.tla` says what the decoders may rely on, without the queues, the
event and the file's position: each track is a stream that is read in order and
without gaps (`Get`) until its reader is told of a discontinuity
(`Discontinuity`), and a seek makes all started tracks go on from one place
(`Seek`, `Restart` of each, `SeekDone`; a track started late begins where the
others are). `ImplementsStreams` states that the extractor implements it:

| `PacketStreams` | extractor |
|---|---|
| `at[t]` | behind the last packet read (`last`), or where the track was restarted (`sought`) if it has none since or the discontinuity is still to come |
| `cut[t]` | the flash packet heads the queue, or the queue has been flushed and it is about to be pushed |
| `goal`, `left` | the place of the seek, and the active tracks that the event has not flushed yet |
| `open` | `stop` has not emptied the queues |

So a track restarts when its queue is flushed, not when the flash packet is
pushed: between these two critical sections its reader finds an empty queue.
Reading ahead, the end of the file, errors and failed seeks are stutters: nothing
of them is seen by the readers. After `stop` the promise ends. That the `end` a
reader is told is the end of its stream is no part of it, as the next
paragraph says.

`mReachedEnd` is not cleared by a seek: after a seek back from the end a reader
whose queue is empty for a moment is told of the end. No comment promises
anything else, so it is kept in the model and stated here only.

Bounds: three packets on two tracks and `MIN_FRAMES` 1 (25 in the code), so that
one queue is full, or fuller, while the other is empty; two seeks, forwards and
backwards, so that one can arrive while the other is executed; one failed read
or seek. Deadlock checking is off:
after `stop` nothing happens, and that is intended.

Fairness (`FairSpec`): the event thread runs, and every decoder goes on
reading, as `onVideoEvent` and `onAudioEvent` do by posting themselves again.
`ReaderServed` needs the readers' fairness: a queue that is empty is refilled
because its reader asks, and the extractor stops only when all queues are full.

What `ReadAheadBounded` assumes is worth knowing: every stream has a queue and
is read. `AllFull` compares the number of full queues with the number of all
streams, so that with one unsupported or inactive stream it is never true and
the whole file is read into memory.

## 5. Prepare and reset

`NBPlayerPrepare.tla` has two threads. `ev` is the prepare event being fired:
its `pc` is a place of `onPrepareAsyncEvent`, each with the lock released, and
`flags` the value `modifyFlags` read where it runs without the lock. `app` is
the application's thread inside `reset_l`, which `reset`, `stop`,
`setDataSource` and the destructor share; while it is at one of `Holding` it has
`mLock`. `field` holds the player's pointers and `live` the objects there are;
an object is named by the field it was made for and the prepare that made it,
so that a leak, a second deletion and a player of mixed parts can be told.

| `ev.pc` | code of `NBMediaPlayer.cpp` |
|---|---|
| `begin` | `:401-412`, locked: cancelled already, or no address |
| `create`, `open`, `sniff` | `finishSetDataSource_l` `:207-234`: `CreateFromURI`, `initCheck`, `sniffMedia` |
| `destroy`, `forget` | the failures of `:228-234` and `:239-245` |
| `connectRead`, `connectWrite` | `:237` `modifyFlags` without the lock |
| `tracks` | `setDataSource_l(extractor)` `:268-388` |
| `video`, `audio` | `:422-439`, creating and starting the decoders |
| `failed` | `abortPrepare` with the lock |
| `abortRead`, `abortWrite`, `abortFree` | `abortPrepare` without it, `:426` |
| `finish`, `notify`, `finish2` | `finishAsyncPrepare_l` `:721-754` |

| `app.pc` | code |
|---|---|
| `mark` | `:1401-1406` sets PREPARE_CANCELLED, interrupts the source |
| `connected`, `relock` | `:1408-1412` calls `finishAsyncPrepare_l`, which locks `mLock` a second time |
| `test`, `sleep`, `waiting`, `woken` | the loop on `mPreparedCondition` `:1415-1417`; between `test` and `sleep` an unlocked broadcast is lost |
| `free` | `:1419-1522` |
| `join` | the destructor's `mQueue.stop()`; what is behind the queue's head is thrown away (`BeforeStop`) |

External: whether a source opens, a container is recognised, which tracks it has
and whether a decoder starts are free choices, whether the source was
interrupted or not. Playback after PREPARED is the next module's; of the audio
tracks only the first place of `mAudioTracks` is kept, the only one the code
reads.

| run | shows |
|---|---|
| `prepare_safety` | with `reset()` called while the event is not running or has not taken the lock: `NoDanglingEvent`, `PreparedIsWhole`, `OwnsWhatLives`, `ImplementsLifecycle`, `PrepareEnds`, `ResetReturns` |
| `prepare_InterruptIsSafe` | `:1409` "we can safely interrupt that": the thread locks `mLock` twice |

`PlayerLifecycle.tla` is what the application relies on. `phase` is read off the
flags and `ready` (blank, preparing, prepared, failed), `told` is the message of
this prepare, `quiet` that no event is queued or running and no object is alive.
A prepare succeeds or fails once; success is told after it, once; failure before
or with it, or never, since `abortPrepare` sends MEDIA_ERROR only if there is a data
source (`:758`), and there is none after half of the failures, against
`NBMediaPlayer.h:41`; a reset ends in a blank, quiet player (`QuietAfterReset`), never in the middle of a prepare, and, if the prepare
succeeded, only after the application has been told, so that it cannot hear of
the old source later. The single steps of opening, of `abortPrepare` and of the
waiting reset are stutters.

`ResetWindow` limits what the passing runs say: they do not show that
a reset is safe at any moment, since in this code it is not. Called later than
`begin`, it locks `mLock` twice when the source is connected; its wait may begin
after the unlocked abort has broadcast; between `notify` and `finish2` it does
not wait at all, and `finish2` then deletes the prepare event of the next
`prepareAsync`; and while the source is opened, the audio track index it clears
first is counted up again by the handler. Widening `ResetWindow` shows each of
them as a violation. That `ResetReturns` holds for the destructor, which stops
the queue before it resets, depends on the StopEvent not going to the head of
the queue (section 3): with the order its comment promises, a queued prepare
event would be thrown away and the destructor wait for ever. That is the mutant
`BeforeStop_mut`.

`:183` says "return imediately if not reset", and refuses what still has flags:
after a failed prepare these are 0 while the old source, extractor and tracks
are still there, and another `prepareAsync` overwrites the pointers to them. In
the runs the application resets before it prepares again.

A container without audio is not among `MCContents`: `initAudioDecoder` runs for
it all the same (`:431` tests `mAudioTrackIndex >= 0`) and reads
`mAudioTracks[-1]`.

Bounds: three prepares are one that fails, one that succeeds and one after a
reset. Deadlock checking is off: when its prepares are used up, or the player is
deleted, nothing is left to do. Fairness: both threads run, and opening a source
ends (it has a time limit); nothing is assumed of the application.

## 6. The audio player

`NBAudioPlayer.tla`. Every call and the handler hold the audio player's `mLock`
from beginning to end, so each is one step. The state is one record `audio`, and
the calls are functions of it (`Started`, `Paused`, `Resumed`, `SeekTo`,
`Stopped`; the handler is `Begun` and `Handled`), because the player makes
several of them in one critical section of its own. `renderer` is the state of
the OpenAL source, `none` while `mALAudioRenderer` is NULL; `posted` counts the
items of the one event object in the queue, `id` says whether the object still
has an id to cancel it by (section 3): after pausing and resuming while the
handler is starting, two chains of events run, and only one can be cancelled.
`flash` tells whether a discontinuity is next in the track.

The actions follow `NBAudioPlayer.cpp:97-194` and `onAudioEvent` `:318-381`; the
device is external: while it plays it uses up one buffer after the other, and
starves (`Drain`); told to play without a buffer it stops at once (`Play`). How a read ends is a free choice.

| run | shows |
|---|---|
| `audio` | `DeviceThere`, and with fairness `SoundStarts`, `SeekEnds` |

`SoundStarts` has a premise: the handler does not find the track empty again and
again while nothing is queued at the device (`FoundEmpty`). It calls `play()` all the same
once the first half of the buffers has been filled (`NBAudioPlayer.cpp:378`), the device stops at once, and
the next `play()`, behind the next buffer, takes it for an underrun and gives the
buffer up (`NBALAudioRenderer.cpp:291`).

`SeekEnds` is checked with `Orderly`: `seekTo` is called before the track's
discontinuity is read. If it comes later, `mSeeking` waits for one that never
comes, and the device, emptied over and over (`:327`), is never played. The
player does not keep to this order: `finishSeekIfNecessary` runs when the video
event has its first frame, while the audio thread goes on reading
(`NBMediaPlayer.cpp:598`).

Bounds: four buffers fill in two steps and run dry in four; two items of the
event. Fairness: the queue's thread runs, the device plays, and decoding gets
on: a read that can fill a buffer does not fail for ever. Deadlock is checked.

`Contract` is what a client of the audio player may do to it: at most three of
its calls in one step, each where it is allowed (`CanStart`, `CanPause`,
`CanSeek`, `CanDelete`). `QueueContract` is the other side: what the audio player
may do to its queue. Both are used in section 10.

## 7. Playback

`NBMediaPlayer.tla` takes a player from PREPARED on. Locks: P is the player's
`mLock`, A the audio player's, X the extractor's. A step is what a thread does
under P up to a place where it waits for A or X:

| state | who | code of `NBMediaPlayer.cpp` |
|---|---|---|
| `app.pc = "seek"` | the application, with P, before X | `:1216` |
| `app.pc = "joinAudio"`, `"joinExtractor"` | the application, with P, in `reset_l` | `:1423`, `:1476` |
| `ev = "read"` | the event thread, with P, before X | `:801`, `NBFFmpegMediaTrack.cpp:105` |
| `waits` | either, with P, before A | any call of `mAudioPlayer` |
| `asks` | the audio thread, with A, before X | `NBFFmpegMediaTrack.cpp:105` |
| `ext.pc = "callback"` | the extractor, with X, before P | `NBFFmpegExtractor.cpp:471` |

`mp` holds the fields and, for each event, its pending flag, the number of its
items in the queue (`posted`) and whether the object has an id (`id`, section 3). `ext` is
as much of the extractor as matters here: its event, the seek it was asked for
(`mSeekTimeUs`) and the one it executes (`target`), and `mReachedEnd`. Reading
packets is a choice between going on, stopping with full queues, and the end.

| action | code |
|---|---|
| `Play`, `Pause`, `SeekTo`, `Reset` with `ExtractorSeekTo`, `JoinAudio`, `JoinExtractor` | `:1118-1278`, `:1419-1522` |
| `VideoFrame`, `VideoAgain`, `VideoStarves`, `ReadOn`, `VideoEnds` | `onVideoEvent` `:770-954` |
| `OnStreamDone` | `:965-1014` |
| `CheckAudioStatus`, `OnCheckAudioStatus` | `:1028-1064` |
| `CallsBack` | `onMediaSeeked` `:1303-1340` |
| `FireAudioEvent`, `AudioCancelled`, `AudioAsks`, `OnAudioEvent`, `Drain` | `NBAudioPlayer` |
| `ExtractorBegins`, `ExtractorEnds`, `ExtractorSeeks`, `FinishSeek` | `onExtractorEvent` |

Abstractions: whether a frame is early, late or due is a free choice where the
code compares clocks; a preparation is skipped (`JoinExtractor` goes on with a
player that is PREPARED with another medium); every medium can be sought; the
status of the end is the only one that is posted; `mFinalStatus`, which the
constructor leaves uninitialised, is anything until it is set (`ReachedEOS`).
The buffering event is never posted by the code, and LOOPING never set.

| run | shows |
|---|---|
| `player` | `SoundOnlyWhilePlaying`, `VideoOnlyWhilePlaying`: nothing in flight undoes a pause; `VideoGoesOn`: no interleaving of handler, callback and calls loses the video event; `PlaysFromTheStart`, `StatusHasAudio`; `LocksComeBack`: who waits for the audio player waits in no ring; `AudioContract`, `QueueContract`: the player keeps to what the audio player and the event queue ask of a client; with fairness `PausesAtTheEnd` |
| `player_SeekHonoured` | `:1307` "in order for this new seek to be honored": the locks P and X are taken in both orders |

`PausesAtTheEnd` has a premise besides: the video event does not overtake the
events that are posted again and again (`VideoOvertakes`). The stream-done and the
audio-status events have no turn of their own in the queue (section 3), and a video that
has been started again before its end was handled may be handled before them at
every frame; it does so only as long as the file has frames, which the model does not
count.

The deadlocks are part of the model, so the properties are said of what happens
besides them: `PausesAtTheEnd` and `VideoGoesOn` except a seek that is under
way, for ever in a deadlock. `LocksComeBack` says how far the locks go well: P has
one owner, A is kept only by a handler that is about to ask the extractor and has
not been cancelled, and the handler that a reset joins asks for nothing any more.
So a wait for A or for the audio thread ends unless somebody keeps X, and X is
kept only by the extractor's callback (`NBFFmpegExtractor.cpp:471`). A trace of `player_SeekHonoured` is `play`,
`seekTo`, and another `seekTo` when the extractor has just executed the first:
the application has P and wants X, the extractor has X and wants P. The video
event that finds its track empty can take the place of the application, and
`reset`, which joins the extractor with P taken, as well. Without the deadlocks,
a seek that arrives while another is being executed is not honoured either
(section 4, `extractor_SeekExecuted`), a file without video is not resumed after
a seek, and the order of `seekTo` and the discontinuity (section 6) can leave a
player without sound.

Bounds: three calls, in any order, of which each may be a seek, a pause, a play
or a reset, reach a pause with two chains of events, a reset with a handler
waiting for it, and the end for a second time; the position 0 that `play` seeks
to at the end differs from the application's target. Two buffers of the device
suffice, since its start is what matters here. Deadlock checking is off: when
the calls are used up, a paused player has nothing to do, and the deadlocks of
the locks are the finding. Fairness: the threads run; a lock that is given back
again and again is had in the end (strong fairness of the waiting thread), since
otherwise the audio thread could take A again and again. That the event thread runs
says nothing about which event it handles: the queue may come to the video event for ever.

## 8. The download engine's loop

`DELooper.tla`. One thread runs libev; the data sources, each on a thread of its
own, create the engine, send it commands and delete it. Every critical section of
`looper_mutex` is one step, and the callback executes a command without giving it
back (`DELooperEV.cpp:62-80`).

| state | code |
|---|---|
| `looper_thread` | where `looper_thread_callback` is: before `ev_run`, polling in it, in the async callback, after it, ended |
| `postman` | the pending flag of the libev async watcher: any number of sends are one |
| `looper_cmd_queue`, `is_running`, `g_download_engine` | the same names |
| `source` | where each data source's thread is, in `start`, a synchronous call, or `stop` |
| `sent`, `executed` | names for the commands, and the last one executed |

| action | code |
|---|---|
| `EngineInit`, `EngineStart`, `Uninit`, `Destroy` | `download_engine_init` (the look at `g_download_engine`, then its creation), `download_engine_uninit` (`DEDownloadEngine.cpp:91-133`), `start`, `stop`, `Destroy` |
| `PostCommand`, `Resume` | the two posts, `DELooperEV.cpp:235-277` |
| `ThreadBegins`, `Poll`, `Execute`, `CallbackEnds`, `ThreadEnds` | `:58-125` |

`CommandServer.tla` is the promise to callers: a queue from which commands are
executed once, in the order they were sent; a synchronous call returns after its
own; none is left when the server closes. `ImplementsServer` states that the loop
implements it, with `pending` the queue without the stop command.

| run | shows |
|---|---|
| `looper` | `NoCommandForgotten`: no send is lost in the one flag; `EveryWaitHasItsReason`; `ImplementsServer`; with fairness `CallsReturn` |

`Alone` is an assumption about the application, and everything that is checked
and proved of the loop rests on it: a data source that is deleted is the only one,
and none is created while another one creates the engine. The code needs both and
sees to neither. `download_engine_init` refuses a second engine, the second source
goes on with the first one's, and whichever is deleted first stops it
(`:115-133`): with `Alone = FALSE` a synchronous call of the other source is never
answered. And it takes no lock between its look at `g_download_engine` (`:95`) and
the start of the loop (`:112`): two sources constructed at once both create an
engine, of which the second replaces the first, and a source that looks in between
(`:99-106`) goes on with an engine whose `main_looper` is NULL. `EngineInit` and
`EngineStart` are the two halves; two engines, and one without a loop, are not
modelled, so what happens then is not shown. Sources may share the engine once it
has been created.

Bounds: two sources and five commands let sends be merged, come during the
callback, and follow a restart of the engine. Fairness: the loop's thread and
every thread that has been signalled run. Deadlock checking is off: when all
sources are deleted nothing is left to do. A failing `pthread_create` and spurious
wake-ups, after which `postCommandSyncImediately` returns without its command having been
executed (it has no loop around its wait), are not modelled.

## 9. The download task

`DETask.tla` with `DEMemDataManager.tla`. All of it runs on the loop's thread, so
a callback or command is one step; what interleaves is the order in which they
come. Positions are counted in blocks of `defaultBufferSize`.

| state | code |
|---|---|
| `mFreeSegmentIndex`, `mDownloadedSegments`, `mReadCache` | `DEMemDataManager`; the LRU list is kept as the place of each block in it |
| `content` | the data in each buffer: of one block, or a `Mixture` |
| `mTaskPriv` | the segments: range, block being received, its buffer, the blocks that still need one |
| `mCurrWritePosition`, `mTaskSize`, `mIsGettingSize`, `mCurrReadPosition` | `DEBaseTask` |
| `client`, `error` | how far `NBBeastSource::initCheck` is, or that a seek command is on its way, and what the source has been told |

| action | code |
|---|---|
| `Receive`, `ReceiveBlock` | `processOutputData`, `DEBaseTask.cpp:242-289` |
| `SegmentDone`, `SegmentFails` | `DENetwork::checkMultiInfo`, `DECurlTask::handleError`, `DECurlHttpTask.cpp:109-122` |
| `Timer` | `TaskObserverTimer`, which launches up to two segments |
| `Launched`, `Launches`, `NextDownload` | `launchNewSegment`, alone or with a launch inside it, `queryNextDownload` |
| `Open`, `OpenTimesOut`, `Read`, `BeastSeek`, `Seek` | `NBBeastSource` (`BeastSeek` clears the error on the reader's thread, also when only the size is asked for), `DEBaseTask::seek`, `DEMemDataManager::read` |

| run | shows |
|---|---|
| `task` | `BuffersPartitioned`: no buffer is shared or lost; `BuffersSuffice`: launched segments find buffers; `ImplementsCache`: to its reader the task is the cache of blocks of `BlockCache`; with fairness `ReaderServed` |
| `task_NoEmptySegment` | `DEBaseTask.cpp:238` "never gone be here": the empty range [size, size) is asked for |
| `task_NeverWithoutBuffer` | `DEMemDataManager.cpp:113` "acquireBuffer never be here": with a launch inside a launch a segment is without a buffer |

`BlockCache.tla` states what the reader relies on, in the table below; segments,
failures, restarts and the end of a transfer are stutters. `BlocksIntact` (what is
read as block k is block k) follows, since a block comes with its own data.

| promise | of the task |
|---|---|
| `here`, a partial map from blocks to data with at most as many blocks as there are buffers | `mDownloadedSegments` with the `content` of the buffers |
| `recent`, `newer`: the blocks read last and the order in which they were | the LRU list and the places in it |
| `Arrive` | `ReceiveBlock`, `SegmentDone`: a block comes whole, only when it is not here |
| `Read` | `Read`: of `CacheSize` others the one read longest ago is dropped, and nothing else |
| `Seek` | `Seek`: everything stays if the place is here; else what was not read is dropped |
| `Open` | `Open` |

The run `task_NoEmptySegment` has `Aligned = TRUE`: the size of the file is a multiple of a block.
`queryNextDownload` compares with `>` (`:216`) where the search has arrived
exactly at the size, and the transfer of the bytes "size-(size-1)" is started; a
server answers with an error, which the source is told of, or with the whole
file. The other properties are stated for files that do not end with a full block.

`ReaderServed` is stated for a block that is still looked for (`LookedFor`) and
while there is `Room` for a segment again and again, since the code promises no
more: a seek to a block that is here (`:152-155`) leaves `mCurrWritePosition`
where it was, so that blocks evicted behind it are not looked for again, and
blocks that are never read may come to fill all buffers. In both cases
`BeastReadPacket` polls for ever.

Assumed of the server: ranges are served with a Content-Range header. Whether and
where a transfer fails, and whether the source is told (not of a 503 or a refused
connection), are free choices.

`EndsInside` says what may happen inside a call of libcurl.

* With `EndsInside = FALSE`, in the run `task` and in all theorems, the end of a
  transfer is looked at in the call that delivered its last data
  (`DECurlTask.cpp:113-118`), and no end is found while a segment is launched.
* The code does not see to it. `startNetworkProcess` itself calls
  `curl_multi_socket_action` (`DECurlHttpTask.cpp:103`) without `checkMultiInfo`:
  a transfer can receive its last data there and stay in the list, naming the
  buffer of its last block; a seek then frees this buffer, which is downloaded
  (`DECurlTask.cpp:325`). And `curl_multi_add_handle` (`:98`) calls the timer
  callback, which with a timeout of 0 runs `checkMultiInfo` inside the call
  (`DENetwork.cpp:79-80`, `:63`); the libcurl that the build scripts under `deps` fetch lets a
  callback call it again. If it finds an end, it launches one more segment while the outer one is not
  yet in the list and `mCurrWritePosition` has not moved
  (`DECurlTask.cpp:294-298`).
* With `EndsInside = TRUE` both happen: `ReceiveBlock` may take the last block,
  `SegmentDone` comes later (`Ended`), and `Launches` adds to what a launch does
  alone what it does with another one, at most one, inside it. Then no property
  of the task can be relied on. The run `task_NeverWithoutBuffer` shows the one the source
  promises in words: the two segments ask for the same range, the inner one's count of
  free buffers leaves out what the outer one is owed, and in the end `acquireBuffer`
  has none to give.

A file shorter than a segment (256 KB) costs a buffer also with `EndsInside =
FALSE`: the first segment is asked for before the size is known, it takes a
buffer after the last block for one there is not (`DEBaseTask.cpp:277-280`), and
`checkMultiInfo` does not give it back (`DENetwork.cpp:168-197`).
`BuffersPartitioned` allows this one (`MayBeLost`) and no more. The run's file is not so
short, and none is lost in it; that it is never more than one, for files of every
length, is proved (`TaskPartitionsBuffers`).

Bounds: two segments of two blocks on four buffers, a file of five blocks and a cache
of two, so that the buffers are too few for all and the next segment is launched when
the reader has evicted, and it makes a difference which of two blocks is dropped; two
failures and a seek. A second seek multiplies the states by ten; the safety
properties are proved for any number of them (section 10). Fairness: a transfer
that does not fail goes on and the timer comes; the source owes nothing.
Deadlock checking is off: a file that has been fetched leaves nothing to do but
to read.

## 10. Proofs

`NBTimedEventQueue_proofs.tla` and `SequenceLemmas.tla`, checked by TLAPS for
every set of events and all bounds, with `QueueAssumption`. The first part holds
whatever clients post:

* `NoWakeUpIsLost` (`NoLostWakeup`) and `HeadIsNotOverslept` (`HeadNotOverslept`):
  every step that makes the list non-empty, or lets an earlier item become its
  head, signals the condition the thread sleeps on. It rests on the order in
  which `Insert` puts items: a new item becomes the head only if no item is due
  later. The invariant (`WakeUps`) needs of the list only its types and that
  items are told apart by fresh ids (`ListInv`).
* `QueueCountsItems` (`CountsItems`): every step of the queue changes the counts
  as one operation of `PostedEvents` does. An item taken out is one of its
  object's, the others stay, and no item is there twice; that an object with id
  0 may still have items is why `PostedEvents` loses the id with the first of them.

The second part assumes `~Repost`:

* `QueueInvariant`: `Spec => [](QueueInv /\ TypeOK /\ QueuedIDsAgree)`. That ids
  of items and event objects agree is not inductive: one has to know that ids
  given out are fresh and no two objects share one (`IDsAreFresh`), that the
  stop event is queued only by a stop in progress (`StopEventIsStops`), what the
  thread holds (`ThreadHoldsItem`), and that the item it waits for is due when
  the wait ends (`WaitsForItsItem`); `QueueInv` is their conjunction. The proof
  has one lemma per action.
* `EventsFireInTime` (`NeverEarly`): the thread removes either the head it has
  just found due or, after an uncut wait, the item with the id it read before;
  by `WaitsForItsItem` that item, if it is there, is due at the end of the wait.
* `CancelIsForItsPost` and `QueueImplementsPool`: by `QueueInv`, the id compared
  and the id of the post are the same.

`SequenceLemmas` states what inserting into and removing from a sequence does
to its elements.

`NBPlayerPrepare_proofs.tla`, for every set of containers and any number of
prepares. `PrepareTypes` (`TypeOK`) needs `PrepareAssumption` only. The others
assume `QuietResets` besides: the application resets before it prepares again,
and calls `reset` while no handler runs or the handler has not taken the lock
yet; the destructor may come at any time, since it waits for the queue.

* `PrepareEventIsSafe` (`NoDanglingEvent`). That the running or queued event is
  `mAsyncPrepareEvent` is kept by `abortPrepare` and `finishAsyncPrepare_l` only
  if they run in the handler of that event, and by `prepareAsync` only if no
  event is left. So `PrepareInv` says when PREPARING is set
  (`PreparingIsPending`), that past `begin` no reset is on its way
  (`HandlerIsAlone`), and that a reset that gets as far as freeing has seen
  PREPARING cleared, after cancelling it (`ResetIsSeen`).
* `PlayerOwnsWhatLives`, `PreparedPlayerIsWhole`, `ResetIsQuiet` (`OwnsWhatLives`,
  `PreparedIsWhole`, `QuietAfterReset`). `ObjectsInv` follows the handler: nothing
  is there until it makes something (`BlankUntilMade`), one source while it
  opens it (`OpeningSource`), then parts of the same prepare (`PartsInOrder`); a
  track in its place is active, which is what makes `reset_l` free it
  (`TrackIsActive`). It needs `PrepareInv`: a reset in between would clear
  what the handler goes on using. `PlayerInv` is the conjunction of the three and
  is inductive.
* `PlayerLivesAsPromised` (`ImplementsLifecycle`) needs besides what has been said at
  each place of the handler (`HeardInTime`). A blank player has no event, so no step
  of the handler is taken (`PhaseIs`); a preparing one has, so it is not quiet; a
  reset that frees finds the handler before its first critical section or not
  running (`HandlerIsAlone`), and with PREPARED set it has been told.
* `PrepareKeepsQueueContract` (`QueueContract`): by `PrepareInv` one event at most is
  queued, and none when another is posted. The destructor's stop throws nothing
  away then.

`NBAudioPlayer_proofs.tla`, for every even number of buffers, with
`AudioAssumption`. The theorems are about `Contract`: any client that makes up to
three allowed calls in a step, and any number of items of the event; that the
audio player by itself (`Spec`), which the run checks, is such a behaviour is
`AloneIsContract`.

* `AudioTypeCorrect` (`TypeOK`). The items are counted by hand, so that none is
  taken back twice has to be known: an object with an id has an item
  (`ItemsAreCounted`).
* `ClientHasDevice`, `AudioDeviceThere` (`DeviceThere`). `PendingHasDevice` is the invariant: once the
  queue is started the event is pending only while there is a device. `stop`
  keeps it because it cancels before it deletes, even where the event has been
  taken out already and only the flag can still be cleared; before the start it
  may be pending without one, but then nothing fires.

* `AudioKeepsQueueContract` (`QueueContract`): each call and each part of the handler
  makes at most one operation of the queue (`Operates`), so that a step makes at
  most three; the cancel of a call is one the queue allows because of
  `ItemsAreCounted`.

`AudioInv` is the conjunction; the proof has one lemma per call and one per part
of the handler (`Begun`, `AfterRead`, `Play`).

`DELooper_proofs.tla`, for every set of sources and any number of commands, with
`LooperAssumption` and `Alone` (section 8: it also keeps two sources from creating
the engine at once). `LoopTypeCorrect` needs the former only.

* `LoopForgetsNoCommand` (`NoCommandForgotten`): the flag is cleared only by the
  callback, which leaves only with an empty queue, or when the loop stops. That
  nothing is sent after the stop command is what needs `Alone` (`StopperIsAlone`,
  `StopIsLast`).
* `LoopWaitsAreReasonable` (`EveryWaitHasItsReason`): a command that is waited for
  leaves the queue only by `Execute`, which signals its sender; `Destroy`, which
  would throw it away, runs when the stop command, the last one, has been
  executed (`StoppedIsDone`).
* `LoopServesCommands` (`ImplementsServer`): every step is one of the server or a
  stutter; `Sent` takes the stop command off the end, where `StopIsLast` has it.

`LoopInv` is the conjunction of these parts with the types and is inductive
(`LoopIsGood`).

`DETask_proofs.tla`, for every number of buffers, blocks, segments, seeks and
failures, with the modules' assumptions, `~Aligned` and `~EndsInside`. The invariant
`Good` has these parts: segments are well formed (`Shaped`) and disjoint (`Apart`),
a block is stored or in a segment and not both (`Stored`, `Fresh`), buffers are held
once (`Held`) and none is lost but the one a file shorter than a segment costs
(`Kept`: it can be lost only when the first segment, the only one that reaches
beyond the end of the file, is over), those owed are there (`Enough`), and data is
that of its block (`Intact`). That the sum of the segments' `needSpace` is the number of
blocks they want is due to their being disjoint (`WantedApart`, `NeedIsWanted`).
`Launched`, which every step but the receiving ones ends with, has lemmas of its
own: from a good state it makes a good one, and without `EndsInside` it is all that
`Launches` does (`LaunchesOne`). `Aligned` is excluded because the range [size, size)
is neither free nor taken: a segment would then receive block `size` into a buffer
nobody counted. `EndsInside` is, because the launch inside a launch breaks `Apart`
and with it all the rest (section 9). `TaskPartitionsBuffers`,
`TaskKeepsBlocksIntact`, `TaskBuffersSuffice`, `TaskHasBuffers` (what the run
`task_NeverWithoutBuffer` refutes with `EndsInside`) and `TaskAsksForSomething` follow.

`TaskServesCache` (`ImplementsCache`) adds to the invariant that no two blocks have
the same place in the LRU list (`Placed`). An access keeps this, and the order of the
others (`AccessedPlaces`), so that the entry `DELRUCache::set` replaces is the one
every other is newer than (`ReplacedOldest`). A block that is completed was not here
(`Fresh`), its buffer is nobody else's (`Held`) and holds its beginning if that came
before (`Intact`): it comes whole, leaves the others as they are, and there is
room for it, since the downloaded blocks have different buffers and not this one
(`BlockArrives`).

`NBFFmpegExtractor_proofs.tla`, for every set of tracks, every file and all
bounds, with `ExtractorAssumption`. `ExtractorInv` has these parts:

* `OneEventAtATime` with `EventIsWhole` (what each step of the handler has done
  already) and `StoppedIsQuiet`;
* `TracksAgree` needs `RestartedAlike`: the tracks flushed so far have the place
  the file has been moved to. A track may be started late: before anything has been read only seeks have moved the file
  (`NothingReadYet`, `UnstartedIsEmpty`), so it resumes where the others did;
* `ReadAheadBounded` (with at least one track) needs `RoomToRead`: reading begins
  only when some queue is short, and puts one packet into one queue;
* `ReadsInOrder` needs `InOrder`, the queue of a track holds the packets that
  follow the last one its reader got, without a gap, and `CaughtUp`, no packet
  of the track lies between the newest of the queue and the place of the file;
* `ExtractorServesStreams` (`ImplementsStreams`) takes the steps one by one: a pop is a
  `Get` by `InOrder` or a `Discontinuity`, behind which `FlashAtHead` leaves no
  second one; flushing a track is its `Restart`, and the push of the flash packet
  into the queue, which is still empty (`EventIsWhole`), a stutter, as is every
  push of a packet; a `Start` needs `NothingReadYet`. `NextOfFinds` says that
  `NextOf` finds the first packet of a track, by the least element of a set of
  naturals (`SequenceLemmas`);
* `ExtractorKeepsQueueContract` (`QueueContract`): by `OneEventAtATime` at most one
  event is queued, so its operations are few (`ItemsMoves`); the step that reads on
  makes two, a post and the end of the handler.

`NBMediaPlayer_proofs.tla`, for all media, targets, buffers and any number of
calls, with `PlayerAssumption` (the buffers are even in number, since half of them
are filled before the start; the code has 40). The properties are not inductive, for what a
handler does depends on fields another thread sets: the proof follows each field
with the state of the threads. `PlayerInv` has these parts, kept by one lemma per
call and handler:

* who has P (`POwnedOnce`), so that nobody calls while the event thread reads;
* whoever works on the video has one, played or previewed (`VideoIsWanted`); this
  is `VideoOnlyWhilePlaying` with the reading event thread;
* a pending video event is queued or being handled (`VideoIsComing`), and it is
  pending in all states in which the player should go on (`VideoGoesRound`); an
  audio player that could not be started is the exception, which has to be
  followed as well;
* `AudioIsRun`: not only a device that plays, also an audio event that may make it
  play, has PLAYING and AUDIO_RUNNING set. So `pause`, which silences the audio
  player only when AUDIO_RUNNING is set, silences all that could be heard. Between
  a failed start and the next, an event may be pending on a queue that has not
  been started, hence `mQueueStart` there;
* `AudioIsThere`: what is watched exists, or a reset is about to clear the watch;
  without a video a failed start deletes an audio player only before it is
  watched.

`PlayerKeepsContract` (`AudioContract`) needs more of the audio player than
`PlayerInv` says, `AudioIsUsable`: unless a reset is under way AUDIOPLAYER_STARTED
means a started queue, AUDIO_RUNNING means AUDIOPLAYER_STARTED, and a started queue
has a device (`Usable`), so what is paused or resumed has been started. Without a
video an event is pending only on a started queue (`PostedOnlyStarted`), for only
video seeks before it starts; so an audio player that fails to start, which
`play` deletes, has no handler in flight and nothing posted. In a reset it has
been stopped. Each step is then shown to make at most three allowed calls
(`CallsInAStep`) or to be a step of the audio player itself.

The components are composed by theorem. `PlayerKeepsContract` makes every
behaviour of the player one of the audio player's `Contract` (`PlayerIsClient`),
and what is proved of that needs no second proof: `PlayerMeetsAudioPlayer` (its
types, the count of items) and `PlayerLeavesDevice` hold inside the player. That
the buffers fit, one of these types, is what the locks need:

* `LocksAreGivenBack` (`LocksComeBack`). `LocksInv` follows who waits: a thread that
  has P and waits for A was let in with something to do, and nothing changes that
  while it waits, since P is needed to (`AppWaits`, `EvWaits`); a handler that asks
  is one whose read may end with an empty track, also when the device has played
  another buffer meanwhile (`AsksRightly`, `DrainedCanAsk`); a reset has cancelled
  the handler it joins, and began only when nobody asked (`JoinIsNotAsked`).
* `PlayerKeepsQueueContract` (`QueueContract`): each post, cancel, and start and
  end of a handler is one operation of the queue (`PostMay`, `CancelMay`, `FireMay`,
  `HandledMay`), and a step makes at most three, one after the other
  (`ThreeOperations`): the pause at the end cancels the video event and ends the
  handler, a reset cancels all three. It needs that an object with an id has an item,
  which is part of the player's types.

`QueueInvariant`, `PrepareTypes`, `AudioTypeCorrect`, `LoopTypeCorrect`,
`TaskTypeCorrect`, `ExtractorTypeCorrect` and `PlayerTypeCorrect` prove the type
invariants, and `EventsFireInTime` and `QueueCountsItems` what follows for the
queue, which the runs therefore do not list.

Model-checked only: the liveness properties (`EveryPostResolved`, `StopReturns`,
`ReaderServed` of the extractor and of the task, `PrepareEnds`, `ResetReturns`,
`SoundStarts`, `SeekEnds`, `CallsReturn`, `PausesAtTheEnd`), since the prover
knows neither ENABLED nor fairness. Every other property of a passing run is a
theorem.

## 11. Not modelled, and why

Opening of containers, decoders and video renderers are sequences of library
calls and output on one thread; platform bindings forward calls; logging is
output; the containers are sequential and used by the models as sets and
sequences. The getters and clocks of the player are read without locks for
display and for the choice between early and late frames, which `NBMediaPlayer`
leaves free. Of the download engine, the deletion of a task while the engine
lives, the speed report, the libuv variant of the loop and servers without
Content-Range are left out, and so are two download engines at once and more than one launch
inside a launch. FFmpeg and libcurl are libraries, and most of the
repository's lines.
