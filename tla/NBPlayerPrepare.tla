---------------------------- MODULE NBPlayerPrepare ----------------------------
(***************************************************************************)
(* Preparing and resetting a player (NBMediaPlayer).                       *)
(*                                                                         *)
(* prepareAsync() posts an event that, on the thread of the player's event *)
(* queue, opens the data source, sniffs the container and creates the      *)
(* decoders, most of it without mLock.  reset(), stop(), setDataSource()   *)
(* and the destructor, on the application's thread, interrupt it, wait for *)
(* it, and free what it made.  An action is one critical section or, of    *)
(* what runs without the lock, one step that touches shared state.         *)
(***************************************************************************)
EXTENDS Integers, Sequences, FiniteSets

CONSTANTS
  Contents,     \* the sets of tracks a container may turn out to have
  ResetWindow,  \* where the event may be when the application calls reset()
  Reprepare,    \* whether prepareAsync() may be called without a reset
  MayDestroy,   \* whether the application may delete the player
  MaxPrepares   \* bound: prepare events made

EventPCs ==
  {"idle", "begin", "create", "open", "sniff", "destroy", "forget", "connectRead",
   "connectWrite", "tracks", "video", "audio", "failed", "abortRead", "abortWrite",
   "abortFree", "finish", "notify", "finish2"}

ASSUME PrepareAssumption ==
  /\ Contents \subseteq SUBSET {"video", "audio"}
  /\ ResetWindow \subseteq EventPCs
  /\ Reprepare \in BOOLEAN /\ MayDestroy \in BOOLEAN
  /\ MaxPrepares \in Nat \ {0}

VARIABLES
  mFlags,
  mUri,                    \* whether it is not empty
  mAsyncPrepareEvent,      \* a prepare event, or Null
  posted,                  \* prepare events in the queue, first to fire first
  deleted,                 \* prepare events that were deleted
  made,                    \* prepare events made; they are numbered
  field,                   \* the player's pointers: the prepare that made the object, or Null
  live,                    \* the objects that were created and not deleted
  interrupted,             \* data sources with mUserInterrupted set
  mAudioTrackIndex,        \* the next free place of mAudioTracks
  mActiveAudioTrackIndex,
  ev,                      \* what the event being fired is doing
  app,                     \* what the application's thread is doing
  ready,                   \* whether it has reset the player since the last prepare
  heard                    \* the last message it was sent about this prepare

vars == <<mFlags, mUri, mAsyncPrepareEvent, posted, deleted, made, field, live, interrupted,
          mAudioTrackIndex, mActiveAudioTrackIndex, ev, app, ready, heard>>

Null    == 0
Events  == 1 .. MaxPrepares
Flags   == {"PREPARING", "PREPARED", "PREPARE_CANCELLED", "PREPARING_CONNECTED"}

\* Of mAudioTracks only the first place is ever read or freed.
Pointers == {"mDataSource", "mMediaExtractor", "mVideoTrack", "mAudioTracks",
             "mVideoSource", "mAudioSource"}
Objects  == Pointers \X Events

\* mLock, which is not recursive, as the application holds it in reset_l(); the
\* event's critical sections are single actions.
Holding == {"mark", "connected", "relock", "test", "sleep", "free"}
LockFree == app.pc \notin Holding

audioTracks == <<mAudioTrackIndex, mActiveAudioTrackIndex>>
objects     == <<field, live, interrupted>>
events      == <<mAsyncPrepareEvent, posted, deleted, made>>

Init ==
  /\ mFlags = {} /\ mUri = FALSE
  /\ mAsyncPrepareEvent = Null
  /\ posted = <<>> /\ deleted = {} /\ made = 0
  /\ field = [p \in Pointers |-> Null] /\ live = {} /\ interrupted = {}
  /\ mAudioTrackIndex = 0 /\ mActiveAudioTrackIndex = -1
  /\ ev = [pc |-> "idle", event |-> Null, flags |-> {}]
  /\ app = [pc |-> "idle", call |-> "reset", flags |-> {}]
  /\ ready = TRUE
  /\ heard = "none"

Goto(pc)   == ev' = [ev EXCEPT !.pc = pc]
AppGoto(pc) == app' = [app EXCEPT !.pc = pc]

\* The flags abortPrepare and finishAsyncPrepare_l clear.
Cleared_mut(flags) == flags \ {"PREPARE_CANCELLED", "PREPARING_CONNECTED"}
Cleared(flags) == flags \ {"PREPARING", "PREPARE_CANCELLED", "PREPARING_CONNECTED"}

\* mPreparedCondition.broadcast(): of all threads only a resetting one waits.
Broadcast == app' = IF app.pc = "waiting" THEN [app EXCEPT !.pc = "woken"] ELSE app

\* `delete mAsyncPrepareEvent; mAsyncPrepareEvent = NULL'
DeletePrepareEvent ==
  /\ deleted' = deleted \cup ({mAsyncPrepareEvent} \ {Null})
  /\ mAsyncPrepareEvent' = Null
  /\ UNCHANGED <<posted, made>>

\* Create an object of this prepare, or several, and keep it in its field.
Keep(pointers) ==
  /\ field' = [p \in Pointers |-> IF p \in pointers THEN ev.event ELSE field[p]]
  /\ live' = live \cup (pointers \X {ev.event})

-----------------------------------------------------------------------------
(***************************************************************************)
(* The event: onPrepareAsyncEvent().                                       *)
(***************************************************************************)

Fire ==
  /\ ev.pc = "idle" /\ posted # <<>>
  /\ ev' = [pc |-> "begin", event |-> Head(posted), flags |-> {}]
  /\ posted' = Tail(posted)
  /\ UNCHANGED <<mFlags, mUri, mAsyncPrepareEvent, deleted, made, objects, audioTracks, app,
                 ready, heard>>

\* An error is reported when there is a data source the user did not interrupt.
AbortNotifies ==
  heard' = IF field["mDataSource"] \notin {Null} \cup interrupted THEN "error" ELSE heard

\* abortPrepare() with mLock held.
AbortPrepare ==
  /\ AbortNotifies
  /\ mFlags' = Cleared(mFlags)
  /\ DeletePrepareEvent
  /\ Broadcast
  /\ Goto("idle")

Begin ==
  /\ ev.pc = "begin" /\ LockFree
  /\ IF "PREPARE_CANCELLED" \in mFlags \/ ~mUri
     THEN AbortPrepare
     ELSE Goto("create") /\ UNCHANGED <<mFlags, events, app, heard>>
  /\ UNCHANGED <<mUri, objects, audioTracks, ready>>

\* CreateFromURI: the address is too short for a source, or there is one.
CreateFromURI ==
  /\ ev.pc = "create"
  /\ \/ /\ field' = [field EXCEPT !["mDataSource"] = Null]
        /\ Goto("failed") /\ UNCHANGED live
     \/ Keep({"mDataSource"}) /\ Goto("open")
  /\ UNCHANGED <<mFlags, mUri, events, interrupted, audioTracks, app, ready, heard>>

\* initCheck connects the source; it may fail, interrupted or not.  Then the
\* extractor is created, which never fails.
InitCheck ==
  /\ ev.pc = "open"
  /\ \/ Goto("failed") /\ UNCHANGED live
     \/ live' = live \cup {<<"mMediaExtractor", ev.event>>} /\ Goto("sniff")
  /\ UNCHANGED <<mFlags, mUri, events, field, interrupted, audioTracks, app, ready, heard>>

SniffMedia ==
  /\ ev.pc = "sniff"
  /\ Goto("destroy") \/ Goto("connectRead")
  /\ UNCHANGED <<mFlags, mUri, events, objects, audioTracks, app, ready, heard>>

\* When sniffing fails or there are no tracks: the source is deleted, then
\* forgotten, then the extractor is deleted.
DestroySource ==
  /\ ev.pc = "destroy"
  /\ live' = live \ {<<"mDataSource", field["mDataSource"]>>}
  /\ Goto("forget")
  /\ UNCHANGED <<mFlags, mUri, events, field, interrupted, audioTracks, app, ready, heard>>

ForgetSource ==
  /\ ev.pc = "forget"
  /\ field' = [field EXCEPT !["mDataSource"] = Null]
  /\ live' = live \ {<<"mMediaExtractor", ev.event>>}
  /\ Goto("failed")
  /\ UNCHANGED <<mFlags, mUri, events, interrupted, audioTracks, app, ready, heard>>

\* modifyFlags(PREPARING_CONNECTED, SET) without the lock.
ConnectRead ==
  /\ ev.pc = "connectRead"
  /\ ev' = [ev EXCEPT !.pc = "connectWrite", !.flags = mFlags]
  /\ UNCHANGED <<mFlags, mUri, events, objects, audioTracks, app, ready, heard>>

ConnectWrite ==
  /\ ev.pc = "connectWrite"
  /\ mFlags' = ev.flags \cup {"PREPARING_CONNECTED"}
  /\ Goto("tracks")
  /\ UNCHANGED <<mUri, events, objects, audioTracks, app, ready, heard>>

TrackPointer == [video |-> "mVideoTrack", audio |-> "mAudioTracks"]

\* setDataSource_l(extractor): a further audio track does not replace the first.
SetDataSource(tracks) ==
  /\ ev.pc = "tracks"
  /\ IF tracks = {}
     THEN Goto("destroy") /\ UNCHANGED <<field, live, audioTracks>>
     ELSE LET set  == {TrackPointer[t] : t \in tracks} \cup {"mMediaExtractor"}
              lost == IF mAudioTrackIndex = 0 THEN {} ELSE {"mAudioTracks"}
          IN  /\ field' = [p \in Pointers |-> IF p \in set \ lost THEN ev.event ELSE field[p]]
              /\ live' = live \cup (set \X {ev.event})
              /\ mAudioTrackIndex' =
                   IF "audio" \in tracks THEN mAudioTrackIndex + 1 ELSE mAudioTrackIndex
              /\ mActiveAudioTrackIndex' =
                   IF "audio" \in tracks THEN 0 ELSE mActiveAudioTrackIndex
              /\ Goto("video")
  /\ UNCHANGED <<mFlags, mUri, events, interrupted, app, ready, heard>>

\* initVideoDecoder deletes a decoder that does not start, having tried the
\* software one; the abort that follows runs without the lock.
InitVideoDecoder ==
  /\ ev.pc = "video"
  /\ IF field["mVideoTrack"] # Null /\ field["mVideoSource"] = Null
     THEN \/ Keep({"mVideoSource"}) /\ Goto("audio")
          \/ Goto("abortRead") /\ UNCHANGED <<field, live>>
     ELSE Goto("audio") /\ UNCHANGED <<field, live>>
  /\ UNCHANGED <<mFlags, mUri, events, interrupted, audioTracks, app, ready, heard>>

\* initAudioDecoder keeps a decoder that does not start.  Without an active track
\* in its place it reads mAudioTracks[-1] or a null pointer, and nothing is
\* defined any more.
InitAudioDecoder ==
  /\ ev.pc = "audio"
  /\ IF mAudioTrackIndex >= 0 /\ field["mAudioSource"] = Null
     THEN /\ mActiveAudioTrackIndex >= 0 /\ field["mAudioTracks"] # Null
          /\ \/ Keep({"mAudioSource"}) /\ (Goto("finish") \/ Goto("failed"))
             \/ Goto("failed") /\ UNCHANGED <<field, live>>
     ELSE Goto("finish") /\ UNCHANGED <<field, live>>
  /\ UNCHANGED <<mFlags, mUri, events, interrupted, audioTracks, app, ready, heard>>

AbortLocked ==
  /\ ev.pc = "failed" /\ LockFree
  /\ AbortPrepare
  /\ UNCHANGED <<mUri, objects, audioTracks, ready>>

\* abortPrepare() without mLock.
AbortRead ==
  /\ ev.pc = "abortRead"
  /\ AbortNotifies
  /\ ev' = [ev EXCEPT !.pc = "abortWrite", !.flags = mFlags]
  /\ UNCHANGED <<mFlags, mUri, events, objects, audioTracks, app, ready>>

AbortWrite ==
  /\ ev.pc = "abortWrite"
  /\ mFlags' = Cleared(ev.flags)
  /\ Goto("abortFree")
  /\ UNCHANGED <<mUri, events, objects, audioTracks, app, ready, heard>>

AbortFree ==
  /\ ev.pc = "abortFree"
  /\ DeletePrepareEvent
  /\ Broadcast
  /\ Goto("idle")
  /\ UNCHANGED <<mFlags, mUri, objects, audioTracks, ready, heard>>

\* finishAsyncPrepare_l(): two critical sections, and the messages in between.
Finish ==
  /\ ev.pc = "finish" /\ LockFree
  /\ mFlags' = Cleared(mFlags) \cup {"PREPARED"}
  /\ Goto("notify")
  /\ UNCHANGED <<mUri, events, objects, audioTracks, app, ready, heard>>

NotifyPrepared ==
  /\ ev.pc = "notify"
  /\ heard' = "prepared"
  /\ Goto("finish2")
  /\ UNCHANGED <<mFlags, mUri, events, objects, audioTracks, app, ready>>

FinishDelete ==
  /\ ev.pc = "finish2" /\ LockFree
  /\ DeletePrepareEvent
  /\ Broadcast
  /\ Goto("idle")
  /\ UNCHANGED <<mFlags, mUri, objects, audioTracks, ready, heard>>

EventStep ==
  \/ Fire \/ Begin \/ CreateFromURI \/ InitCheck \/ SniffMedia
  \/ DestroySource \/ ForgetSource \/ ConnectRead \/ ConnectWrite
  \/ (\E tracks \in Contents : SetDataSource(tracks))
  \/ InitVideoDecoder \/ InitAudioDecoder
  \/ AbortLocked \/ AbortRead \/ AbortWrite \/ AbortFree
  \/ Finish \/ NotifyPrepared \/ FinishDelete

-----------------------------------------------------------------------------
(***************************************************************************)
(* The application.                                                        *)
(***************************************************************************)

PrepareAsync ==
  /\ app.pc = "idle" /\ made < MaxPrepares
  /\ ready \/ Reprepare
  /\ mFlags = {}
  /\ mFlags' = {"PREPARING"}
  /\ made' = made + 1
  /\ mAsyncPrepareEvent' = made + 1
  /\ posted' = Append(posted, made + 1)
  /\ ready' = FALSE
  /\ heard' = "none"
  /\ UNCHANGED <<mUri, deleted, objects, audioTracks, ev, app>>

\* Takes the lock and enters reset_l(), up to reading the flags to modify them.
EnterReset(call) ==
  /\ LockFree
  /\ app' = [pc |-> IF "PREPARING" \in mFlags THEN "mark" ELSE "test",
             call |-> call, flags |-> mFlags]
  /\ mAudioTrackIndex' = 0
  /\ UNCHANGED <<mFlags, mUri, mAsyncPrepareEvent, deleted, made, objects,
                 mActiveAudioTrackIndex, ev, ready, heard>>

Reset ==
  /\ app.pc = "idle" /\ ev.pc \in ResetWindow
  /\ \E call \in {"reset", "setDataSource"} : EnterReset(call)
  /\ UNCHANGED posted

\* The destructor stops the queue first.  The StopEvent goes in behind the head,
\* and nothing behind it fires.
BeforeStop_mut(q) == <<>>
BeforeStop(q) == IF q = <<>> THEN <<>> ELSE <<Head(q)>>

Destroy ==
  /\ MayDestroy /\ app.pc = "idle"
  /\ posted' = BeforeStop(posted)
  /\ AppGoto("join")
  /\ UNCHANGED <<mFlags, mUri, mAsyncPrepareEvent, deleted, made, objects, audioTracks, ev,
                 ready, heard>>

QueueStopped ==
  /\ app.pc = "join" /\ posted = <<>> /\ ev.pc = "idle"
  /\ EnterReset("destroy")
  /\ UNCHANGED posted

\* Cancels the prepare and interrupts the source, if there is one by now.
Interrupted == interrupted \cup ({field["mDataSource"]} \ {Null})

Mark ==
  /\ app.pc = "mark"
  /\ mFlags' = app.flags \cup {"PREPARE_CANCELLED"}
  /\ interrupted' = Interrupted
  /\ AppGoto("connected")
  /\ UNCHANGED <<mUri, events, field, live, audioTracks, ev, ready, heard>>

\* When connected, finishAsyncPrepare_l() is called, which takes mLock again.
CheckConnected ==
  /\ app.pc = "connected"
  /\ AppGoto(IF "PREPARING_CONNECTED" \in mFlags THEN "relock" ELSE "test")
  /\ UNCHANGED <<mFlags, mUri, events, objects, audioTracks, ev, ready, heard>>

\* while (mFlags & PREPARING) mPreparedCondition.wait(mLock)
MustWait_mut == FALSE
MustWait == "PREPARING" \in mFlags

TestPreparing ==
  /\ app.pc = "test"
  /\ AppGoto(IF MustWait THEN "sleep" ELSE "free")
  /\ UNCHANGED <<mFlags, mUri, events, objects, audioTracks, ev, ready, heard>>

Sleep ==
  /\ app.pc = "sleep"
  /\ AppGoto("waiting")
  /\ UNCHANGED <<mFlags, mUri, events, objects, audioTracks, ev, ready, heard>>

Woken ==
  /\ app.pc = "woken"
  /\ AppGoto("test")
  /\ UNCHANGED <<mFlags, mUri, events, objects, audioTracks, ev, ready, heard>>

\* What reset_l() deletes and clears: the first audio track only when active.
Released_mut == Pointers \ {"mVideoSource"}
Released == IF mActiveAudioTrackIndex >= 0 THEN Pointers ELSE Pointers \ {"mAudioTracks"}

Deleted_mut == {<<p, field[p]>> : p \in Released \ {"mVideoTrack"}}
Deleted == {<<p, field[p]>> : p \in Released}

\* The rest of reset_l(); setDataSource() then takes an address, maybe empty.
Free ==
  /\ app.pc = "free"
  /\ live' = live \ Deleted
  /\ field' = [p \in Pointers |-> IF p \in Released THEN Null ELSE field[p]]
  /\ mActiveAudioTrackIndex' = -1
  /\ mFlags' = {}
  /\ mUri' \in IF app.call = "setDataSource" THEN BOOLEAN ELSE {FALSE}
  /\ AppGoto(IF app.call = "destroy" THEN "gone" ELSE "idle")
  /\ ready' = TRUE
  /\ UNCHANGED <<events, interrupted, mAudioTrackIndex, ev, heard>>

\* What a call of reset() does once it is made.
ResetStep ==
  QueueStopped \/ Mark \/ CheckConnected \/ TestPreparing \/ Sleep \/ Woken \/ Free

Next == EventStep \/ PrepareAsync \/ Reset \/ Destroy \/ ResetStep

Spec == Init /\ [][Next]_vars

\* Both threads run, and opening a source ends (sockets time out).
FairSpec == Spec /\ WF_vars(EventStep) /\ WF_vars(ResetStep)

-----------------------------------------------------------------------------
(***************************************************************************)
(* Properties.                                                             *)
(***************************************************************************)

TypeOK ==
  /\ mFlags \subseteq Flags /\ mUri \in BOOLEAN
  /\ mAsyncPrepareEvent \in Events \cup {Null}
  /\ posted \in Seq(Events) /\ deleted \subseteq Events
  /\ made \in 0 .. MaxPrepares
  /\ field \in [Pointers -> Events \cup {Null}]
  /\ live \subseteq Objects /\ interrupted \subseteq Events
  /\ mAudioTrackIndex \in Nat /\ mActiveAudioTrackIndex \in {-1, 0}
  /\ ev \in [pc : EventPCs, event : Events \cup {Null}, flags : SUBSET Flags]
  /\ app \in [pc : Holding \cup {"idle", "waiting", "woken", "join", "gone"},
              call : {"reset", "setDataSource", "destroy"}, flags : SUBSET Flags]
  /\ ready \in BOOLEAN /\ heard \in {"none", "error", "prepared"}

\* The event being fired, or else the queued one, is mAsyncPrepareEvent, and
\* neither has been deleted: the queue never fires a dead event, nor does one
\* handler delete another's.
Outstanding == IF ev.pc = "idle" THEN posted ELSE <<ev.event>> \o posted
OnePrepareEvent ==
  Outstanding = IF mAsyncPrepareEvent = Null THEN <<>> ELSE <<mAsyncPrepareEvent>>
NoDanglingEvent ==
  OnePrepareEvent /\ \A i \in DOMAIN Outstanding : Outstanding[i] \notin deleted

\* The extractor a handler has and the player does not yet.
InHand ==
  IF ev.pc \in {"sniff", "connectRead", "connectWrite", "tracks", "destroy", "forget"}
  THEN {<<"mMediaExtractor", ev.event>>} ELSE {}

\* The objects the player points to, one of which may be deleted already.
Owned == {<<p, field[p]>> : p \in {q \in Pointers : field[q] # Null}}
Forgotten == IF ev.pc = "forget" THEN {<<"mDataSource", field["mDataSource"]>>} ELSE {}

\* The player points to all the objects there are and to no others: nothing
\* leaks, and nothing is deleted under a handler or deleted twice.
OwnsWhatLives == live = (Owned \ Forgotten) \cup InHand

\* A prepared player is made of the parts of one prepare, each track with its
\* decoder.
IsWhole ==
  /\ field["mDataSource"] # Null
  /\ \A p \in Pointers : field[p] \in {Null, field["mDataSource"]}
  /\ field["mMediaExtractor"] # Null
  /\ field["mVideoSource"] = field["mVideoTrack"]
  /\ field["mAudioSource"] = field["mAudioTracks"]
PreparedIsWhole == "PREPARED" \in mFlags => IsWhole

\* Once reset() has returned nothing of the old source happens any more: the
\* application can drop the messages it has and start anew.
QuietAfterReset == ready => posted = <<>> /\ ev.pc = "idle" /\ live = {}

\* To the application a prepare ends once and says so at most once, no reset cuts
\* it short, and none is followed by anything of the old source.
Phase ==
  IF ready THEN "blank" ELSE IF "PREPARING" \in mFlags THEN "preparing"
  ELSE IF "PREPARED" \in mFlags THEN "prepared" ELSE "failed"
Quiet == posted = <<>> /\ ev.pc = "idle" /\ live = {}
Life == INSTANCE PlayerLifecycle WITH phase <- Phase, told <- heard, quiet <- Quiet
ImplementsLifecycle == Life!Spec

\* The prepare events are posted and handled as a timed event queue allows.
EventItems ==
  [posted |-> [e \in Events |-> Cardinality({i \in DOMAIN posted : posted[i] = e})],
   id |-> [e \in Events |-> \E i \in DOMAIN posted : posted[i] = e],
   firing |-> IF ev.pc = "idle" THEN {} ELSE {ev.event}]
Queue == INSTANCE PostedEvents WITH Objects <- Events, queue <- EventItems
QueueContract == Queue!ClientSpec

\* A prepare comes to an end, with or without a reset.
PrepareEnds == ("PREPARING" \in mFlags) ~> ("PREPARING" \notin mFlags)

\* reset(), stop(), setDataSource() and the destructor return: none waits for an
\* event that was thrown away, or that ended before the wait began.
ResetReturns == (app.pc # "idle") ~> (app.pc \in {"idle", "gone"})

(***************************************************************************)
(* What a comment of the source says and the player does not do.           *)
(***************************************************************************)

\* "we can safely interrupt that": a reset that finds the source connected
\* completes.
InterruptIsSafe ==
  (app.pc = "connected" /\ "PREPARING_CONNECTED" \in mFlags) ~> (app.pc \in {"idle", "gone"})

=============================================================================
