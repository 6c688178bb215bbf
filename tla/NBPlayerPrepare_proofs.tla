------------------------- MODULE NBPlayerPrepare_proofs -------------------------
(***************************************************************************)
(* Proofs about preparing and resetting a player, for any contents and any *)
(* number of prepares, when reset() comes while the event is not running   *)
(* or has not taken the lock and the application resets before it prepares *)
(* again.                                                                  *)
(***************************************************************************)
EXTENDS NBPlayerPrepare, FiniteSetTheorems, TLAPS

QuietResets == ResetWindow \subseteq {"idle", "begin"} /\ ~Reprepare

-----------------------------------------------------------------------------
(***************************************************************************)
(* Type correctness.                                                       *)
(***************************************************************************)

\* An event being fired is one that was made.
Typed == TypeOK /\ (ev.pc # "idle" => ev.event # Null)

\* The initial state is well typed.
LEMMA TypesInitially == ASSUME PrepareAssumption, Init PROVE Typed
<1>1. mFlags \subseteq Flags /\ mUri \in BOOLEAN /\ ready \in BOOLEAN
      /\ heard \in {"none", "error", "prepared"}
  BY DEF Init
<1>2. mAsyncPrepareEvent \in Events \cup {Null} /\ posted \in Seq(Events)
      /\ deleted \subseteq Events /\ made \in 0 .. MaxPrepares
  BY DEF Init, PrepareAssumption
<1>3. field \in [Pointers -> Events \cup {Null}] /\ live \subseteq Objects
      /\ interrupted \subseteq Events /\ mAudioTrackIndex \in Nat
      /\ mActiveAudioTrackIndex \in {-1, 0}
  BY DEF Init
<1>4. /\ ev \in [pc : EventPCs, event : Events \cup {Null}, flags : SUBSET Flags]
      /\ ev.pc = "idle"
  BY DEF Init, EventPCs
<1>5. app \in [pc : Holding \cup {"idle", "waiting", "woken", "join", "gone"},
               call : {"reset", "setDataSource", "destroy"}, flags : SUBSET Flags]
  BY DEF Init
<1> QED
  BY <1>1, <1>2, <1>3, <1>4, <1>5 DEF TypeOK, Typed

\* Creating objects of the event being fired.
LEMMA KeepTypes ==
  ASSUME TypeOK, ev.event \in Events, NEW pointers \in SUBSET Pointers, Keep(pointers)
  PROVE  field' \in [Pointers -> Events \cup {Null}] /\ live' \subseteq Objects
BY DEF TypeOK, Keep, Objects

\* The extractor the event creates and does not keep yet.
LEMMA ExtractorTypes ==
  ASSUME TypeOK, ev.event \in Events, InitCheck
  PROVE  live' \subseteq Objects
<1>1. live \subseteq Objects
  BY DEF TypeOK
<1>2. <<"mMediaExtractor", ev.event>> \in Objects
  BY DEF Objects, Pointers
<1>3. live' = live \/ live' = live \cup {<<"mMediaExtractor", ev.event>>}
  BY DEF InitCheck
<1> QED
  BY <1>1, <1>2, <1>3

\* Every step keeps the types.
LEMMA TypesKept == ASSUME PrepareAssumption, Typed, [Next]_vars PROVE Typed'
<1> USE DEF Typed, TypeOK, Goto, AppGoto, events, objects, audioTracks
<1>1. CASE Fire
  <2>1. Head(posted) \in Events /\ Tail(posted) \in Seq(Events)
    BY <1>1 DEF Fire
  <2>2. ev' \in [pc : EventPCs, event : Events \cup {Null}, flags : SUBSET Flags]
        /\ ev'.event # Null
    BY <1>1, <2>1 DEF Fire, EventPCs, Events, Null
  <2> QED
    BY <1>1, <2>1, <2>2 DEF Fire
<1>2. CASE Begin
  BY <1>2 DEF Begin, AbortPrepare, AbortNotifies, Cleared, DeletePrepareEvent, Broadcast, LockFree, Holding, EventPCs, Flags, Events, Null
<1>3. CASE CreateFromURI
  <2>1. CASE Keep({"mDataSource"}) /\ Goto("open")
    <3>1. ev.event \in Events /\ {"mDataSource"} \in SUBSET Pointers
      BY <1>3 DEF CreateFromURI, Pointers
    <3>2. field' \in [Pointers -> Events \cup {Null}] /\ live' \subseteq Objects
      BY <2>1, <3>1, KeepTypes
    <3> QED
      BY <1>3, <2>1, <3>1, <3>2 DEF CreateFromURI, EventPCs
  <2>2. CASE Goto("failed") /\ UNCHANGED live
    BY <1>3, <2>2 DEF CreateFromURI, Keep, EventPCs
  <2> QED
    BY <1>3, <2>1, <2>2 DEF CreateFromURI
<1>4. CASE InitCheck
  <2>1. ev.event \in Events
    BY <1>4 DEF InitCheck
  <2>3. live' \subseteq Objects
    BY <1>4, <2>1, ExtractorTypes
  <2>4. ev' \in [pc : EventPCs, event : Events \cup {Null}, flags : SUBSET Flags]
        /\ ev'.event # Null
    <3>1. \E pc \in {"failed", "sniff"} : ev' = [ev EXCEPT !.pc = pc]
      BY <1>4 DEF InitCheck
    <3>2. ev.event # Null
      BY <1>4 DEF InitCheck
    <3> QED
      BY <3>1, <3>2 DEF EventPCs
  <2> QED
    BY <1>4, <2>3, <2>4 DEF InitCheck
<1>5. CASE SniffMedia
  BY <1>5 DEF SniffMedia, EventPCs
<1>6. CASE DestroySource
  BY <1>6 DEF DestroySource, EventPCs
<1>7. CASE ForgetSource
  BY <1>7 DEF ForgetSource, EventPCs, Null
<1>8. CASE ConnectRead
  <2>1. ev.event # Null /\ ev' = [ev EXCEPT !.pc = "connectWrite", !.flags = mFlags]
    BY <1>8 DEF ConnectRead
  <2>2. ev' \in [pc : EventPCs, event : Events \cup {Null}, flags : SUBSET Flags]
        /\ ev'.event # Null
    BY <2>1 DEF EventPCs
  <2> QED
    BY <1>8, <2>2 DEF ConnectRead
<1>9. CASE ConnectWrite
  <2>1. ev.event # Null /\ ev' = [ev EXCEPT !.pc = "tracks"]
    BY <1>9 DEF ConnectWrite
  <2>2. ev' \in [pc : EventPCs, event : Events \cup {Null}, flags : SUBSET Flags]
        /\ ev'.event # Null
    BY <2>1 DEF EventPCs
  <2>3. mFlags' \subseteq Flags
    BY <1>9 DEF ConnectWrite, Flags
  <2> QED
    BY <1>9, <2>2, <2>3 DEF ConnectWrite
<1>10. ASSUME NEW t \in Contents, SetDataSource(t) PROVE Typed'
  <2>1. ev.event \in Events
    BY <1>10 DEF SetDataSource
  <2> DEFINE set == {TrackPointer[x] : x \in t} \cup {"mMediaExtractor"}
  <2>2. set \subseteq Pointers
    BY DEF PrepareAssumption, TrackPointer, Pointers
  <2>3. set \X {ev.event} \subseteq Objects
    BY <2>1, <2>2 DEF Objects
  <2> HIDE DEF set
  <2>4. field' \in [Pointers -> Events \cup {Null}] /\ live' \subseteq Objects
    BY <1>10, <2>1, <2>2, <2>3 DEF SetDataSource, set
  <2> QED
    BY <1>10, <2>1, <2>4 DEF SetDataSource, EventPCs
<1>11. CASE InitVideoDecoder
  <2>1. ev.event \in Events /\ {"mVideoSource"} \in SUBSET Pointers
    BY <1>11 DEF InitVideoDecoder, Pointers
  <2>2. Keep({"mVideoSource"}) => field' \in [Pointers -> Events \cup {Null}] /\ live' \subseteq Objects
    BY <2>1, KeepTypes
  <2> QED
    BY <1>11, <2>1, <2>2 DEF InitVideoDecoder, EventPCs
<1>12. CASE InitAudioDecoder
  <2>1. ev.event \in Events /\ {"mAudioSource"} \in SUBSET Pointers
    BY <1>12 DEF InitAudioDecoder, Pointers
  <2>2. Keep({"mAudioSource"}) => field' \in [Pointers -> Events \cup {Null}] /\ live' \subseteq Objects
    BY <2>1, KeepTypes
  <2> QED
    BY <1>12, <2>1, <2>2 DEF InitAudioDecoder, EventPCs
<1>13. CASE AbortLocked
  BY <1>13 DEF AbortLocked, AbortPrepare, AbortNotifies, Cleared, DeletePrepareEvent, Broadcast, LockFree, Holding, EventPCs, Flags, Events, Null
<1>14. CASE AbortRead
  BY <1>14 DEF AbortRead, AbortNotifies, EventPCs
<1>15. CASE AbortWrite
  BY <1>15 DEF AbortWrite, Cleared, EventPCs, Flags
<1>16. CASE AbortFree
  <2>1. app' \in [pc : Holding \cup {"idle", "waiting", "woken", "join", "gone"},
                  call : {"reset", "setDataSource", "destroy"}, flags : SUBSET Flags]
    BY <1>16 DEF AbortFree, Broadcast, Holding
  <2>2. /\ ev' \in [pc : EventPCs, event : Events \cup {Null}, flags : SUBSET Flags]
        /\ ev'.pc = "idle"
    BY <1>16 DEF AbortFree, EventPCs
  <2>3. deleted' \subseteq Events /\ mAsyncPrepareEvent' \in Events \cup {Null}
    BY <1>16 DEF AbortFree, DeletePrepareEvent
  <2> QED
    BY <1>16, <2>1, <2>2, <2>3 DEF AbortFree, DeletePrepareEvent
<1>17. CASE Finish
  BY <1>17 DEF Finish, Cleared, LockFree, Holding, EventPCs, Flags
<1>18. CASE NotifyPrepared
  BY <1>18 DEF NotifyPrepared, EventPCs
<1>19. CASE FinishDelete
  BY <1>19 DEF FinishDelete, DeletePrepareEvent, Broadcast, LockFree, Holding, EventPCs, Events, Null
<1>20. CASE PrepareAsync
  <2>1. made + 1 \in Events /\ made' \in 0 .. MaxPrepares
    BY <1>20 DEF PrepareAsync, Events, PrepareAssumption
  <2>2. posted' \in Seq(Events)
    BY <1>20, <2>1 DEF PrepareAsync
  <2> QED
    BY <1>20, <2>1, <2>2 DEF PrepareAsync, Flags
<1>21. CASE Reset
  BY <1>21 DEF Reset, EnterReset, LockFree, Holding
<1>22. CASE Destroy
  BY <1>22 DEF Destroy, BeforeStop
<1>23. CASE QueueStopped
  BY <1>23 DEF QueueStopped, EnterReset, LockFree, Holding
<1>24. CASE Mark
  <2>1. interrupted' \subseteq Events
    BY <1>24 DEF Mark, Interrupted, Pointers
  <2>2. mFlags' \subseteq Flags
    BY <1>24 DEF Mark, Flags
  <2>3. app' \in [pc : Holding \cup {"idle", "waiting", "woken", "join", "gone"},
                  call : {"reset", "setDataSource", "destroy"}, flags : SUBSET Flags]
    BY <1>24 DEF Mark, Holding
  <2> QED
    BY <1>24, <2>1, <2>2, <2>3 DEF Mark
<1>25. CASE CheckConnected
  BY <1>25 DEF CheckConnected, Holding
<1>26. CASE TestPreparing
  BY <1>26 DEF TestPreparing, MustWait, Holding
<1>27. CASE Sleep
  BY <1>27 DEF Sleep
<1>28. CASE Woken
  BY <1>28 DEF Woken, Holding
<1>29. CASE Free
  BY <1>29 DEF Free, Released, Deleted, Null
<1>30. CASE UNCHANGED vars
  BY <1>30 DEF vars
<1> QED
  BY <1>1, <1>2, <1>3, <1>4, <1>5, <1>6, <1>7, <1>8, <1>9, <1>10, <1>11, <1>12, <1>13, <1>14, <1>15, <1>16, <1>17, <1>18, <1>19, <1>20, <1>21, <1>22, <1>23, <1>24, <1>25, <1>26, <1>27, <1>28, <1>29, <1>30 DEF Next, EventStep, ResetStep

-----------------------------------------------------------------------------
(***************************************************************************)
(* The inductive invariant of the prepare event.                           *)
(***************************************************************************)

\* The application's thread is inside reset_l().
InReset == app.pc \notin {"idle", "join", "gone"}

\* mAsyncPrepareEvent is the one event there is: queued, or being fired.
EventIsOnly ==
  /\ ev.pc = "idle" /\ mAsyncPrepareEvent = Null => posted = <<>>
  /\ ev.pc = "idle" /\ mAsyncPrepareEvent # Null => posted = <<mAsyncPrepareEvent>>
  /\ ev.pc # "idle" => /\ posted = <<>>
                       /\ mAsyncPrepareEvent # Null
                       /\ ev.event = mAsyncPrepareEvent

\* It is younger than all the deleted ones.
EventIsAlive ==
  /\ mAsyncPrepareEvent \in 0 .. made
  /\ \A e \in deleted : e <= made /\ (mAsyncPrepareEvent # Null => e < mAsyncPrepareEvent)

\* PREPARING tells whether its outcome is still open.
PreparingIsPending ==
  "PREPARING" \in mFlags <=>
    mAsyncPrepareEvent # Null /\ ev.pc \notin {"abortFree", "notify", "finish2"}

\* Past its first critical section the event has the player for itself.
HandlerIsAlone ==
  /\ ev.pc \notin {"idle", "begin"} => ~InReset
  /\ ev.pc \in {"connectWrite", "abortWrite"} => ev.flags = mFlags
  /\ ev.pc \in {"idle", "begin", "abortFree", "notify", "finish2"}
       => "PREPARING_CONNECTED" \notin mFlags

\* A reset has cancelled the prepare before it waits, and what it frees is
\* nobody's.
ResetIsSeen ==
  /\ app.pc = "mark" => app.flags = mFlags
  /\ InReset /\ app.pc # "mark" /\ "PREPARING" \in mFlags => "PREPARE_CANCELLED" \in mFlags
  /\ app.pc = "free" => "PREPARING" \notin mFlags
  /\ ready \/ app.pc = "gone" => mAsyncPrepareEvent = Null

PrepareInv ==
  /\ EventIsOnly /\ EventIsAlive /\ PreparingIsPending /\ HandlerIsAlone /\ ResetIsSeen

\* The invariant holds initially.
LEMMA PrepareInvInitially == ASSUME Init PROVE PrepareInv
BY DEF Init, PrepareInv, EventIsOnly, EventIsAlive, PreparingIsPending, HandlerIsAlone,
       ResetIsSeen, InReset, Null

\* Every step keeps it, when reset() keeps to the quiet moments.
LEMMA PrepareInvKept ==
  ASSUME QuietResets, Typed, PrepareInv, [Next]_vars
  PROVE  PrepareInv'
<1> USE DEF QuietResets, Typed, TypeOK, PrepareInv, EventIsOnly, EventIsAlive, PreparingIsPending,
            HandlerIsAlone, ResetIsSeen, InReset, Null, Goto, AppGoto, events
<1>1. CASE Fire
  BY <1>1 DEF Fire
<1>2. CASE Begin
  BY <1>2 DEF Begin, AbortPrepare, Cleared, DeletePrepareEvent, Broadcast, LockFree, Holding
<1>3. CASE CreateFromURI
  BY <1>3 DEF CreateFromURI
<1>4. CASE InitCheck
  BY <1>4 DEF InitCheck
<1>5. CASE SniffMedia
  BY <1>5 DEF SniffMedia
<1>6. CASE DestroySource
  BY <1>6 DEF DestroySource
<1>7. CASE ForgetSource
  BY <1>7 DEF ForgetSource
<1>8. CASE ConnectRead
  BY <1>8 DEF ConnectRead
<1>9. CASE ConnectWrite
  BY <1>9 DEF ConnectWrite
<1>10. ASSUME NEW t \in Contents, SetDataSource(t) PROVE PrepareInv'
  BY <1>10 DEF SetDataSource
<1>11. CASE InitVideoDecoder
  BY <1>11 DEF InitVideoDecoder
<1>12. CASE InitAudioDecoder
  BY <1>12 DEF InitAudioDecoder
<1>13. CASE AbortLocked
  BY <1>13 DEF AbortLocked, AbortPrepare, Cleared, DeletePrepareEvent, Broadcast, LockFree, Holding
<1>14. CASE AbortRead
  BY <1>14 DEF AbortRead
<1>15. CASE AbortWrite
  BY <1>15 DEF AbortWrite, Cleared
<1>16. CASE AbortFree
  <2>1. mAsyncPrepareEvent # Null /\ posted = <<>> /\ ~InReset /\ mAsyncPrepareEvent \in 0 .. made
    BY <1>16 DEF AbortFree
  <2>2. app' = app
    BY <1>16, <2>1 DEF AbortFree, Broadcast
  <2>3. /\ mAsyncPrepareEvent' = Null /\ posted' = <<>> /\ made' = made /\ ev'.pc = "idle"
        /\ deleted' = deleted \cup {mAsyncPrepareEvent}
    BY <1>16, <2>1 DEF AbortFree, DeletePrepareEvent
  <2>4. mFlags' = mFlags /\ ready' = ready /\ "PREPARING" \notin mFlags
    BY <1>16 DEF AbortFree
  <2>5. EventIsOnly' /\ PreparingIsPending'
    BY <2>3, <2>4
  <2>6. EventIsAlive'
    BY <2>1, <2>3
  <2>7. HandlerIsAlone' /\ ResetIsSeen'
    <3>1. "PREPARING_CONNECTED" \notin mFlags
      BY <1>16 DEF AbortFree
    <3> QED
      BY <2>1, <2>2, <2>3, <2>4, <3>1
  <2> QED
    BY <2>5, <2>6, <2>7
<1>17. CASE Finish
  BY <1>17 DEF Finish, Cleared, LockFree, Holding
<1>18. CASE NotifyPrepared
  BY <1>18 DEF NotifyPrepared
<1>19. CASE FinishDelete
  <2>1. mAsyncPrepareEvent # Null /\ posted = <<>> /\ ~InReset /\ mAsyncPrepareEvent \in 0 .. made
    BY <1>19 DEF FinishDelete
  <2>2. app' = app
    BY <1>19, <2>1 DEF FinishDelete, Broadcast
  <2>3. /\ mAsyncPrepareEvent' = Null /\ posted' = <<>> /\ made' = made /\ ev'.pc = "idle"
        /\ deleted' = deleted \cup {mAsyncPrepareEvent}
    BY <1>19, <2>1 DEF FinishDelete, DeletePrepareEvent
  <2>4. mFlags' = mFlags /\ ready' = ready /\ "PREPARING" \notin mFlags
    BY <1>19 DEF FinishDelete
  <2>5. EventIsOnly' /\ PreparingIsPending'
    BY <2>3, <2>4
  <2>6. EventIsAlive'
    BY <2>1, <2>3
  <2>7. HandlerIsAlone' /\ ResetIsSeen'
    <3>1. "PREPARING_CONNECTED" \notin mFlags
      BY <1>19 DEF FinishDelete
    <3> QED
      BY <2>1, <2>2, <2>3, <2>4, <3>1
  <2> QED
    BY <2>5, <2>6, <2>7
<1>20. CASE PrepareAsync
  <2>1. ready /\ mAsyncPrepareEvent = Null /\ posted = <<>> /\ ev.pc = "idle" /\ ~InReset
    BY <1>20 DEF PrepareAsync
  <2>2. /\ posted' = <<made + 1>> /\ mAsyncPrepareEvent' = made + 1 /\ made' = made + 1
        /\ made \in Nat /\ deleted' = deleted /\ ready' = FALSE /\ mFlags' = {"PREPARING"}
        /\ ev' = ev /\ app' = app
    BY <1>20, <2>1 DEF PrepareAsync
  <2>3. EventIsOnly' /\ PreparingIsPending' /\ HandlerIsAlone' /\ ResetIsSeen'
    BY <1>20, <2>1, <2>2 DEF PrepareAsync
  <2>4. EventIsAlive'
    BY <2>2
  <2> QED
    BY <2>3, <2>4
<1>21. CASE Reset
  <2>1. ev.pc \in {"idle", "begin"} /\ app.pc = "idle"
    BY <1>21 DEF Reset
  <2>2. /\ app'.pc = IF "PREPARING" \in mFlags THEN "mark" ELSE "test"
        /\ app'.flags = mFlags
    BY <1>21 DEF Reset, EnterReset
  <2>3. /\ mFlags' = mFlags /\ mAsyncPrepareEvent' = mAsyncPrepareEvent /\ posted' = posted
        /\ deleted' = deleted /\ made' = made /\ ev' = ev /\ ready' = ready
    BY <1>21 DEF Reset, EnterReset
  <2>4. EventIsOnly' /\ EventIsAlive' /\ PreparingIsPending'
    BY <2>3
  <2>5. HandlerIsAlone' /\ ResetIsSeen'
    BY <2>1, <2>2, <2>3
  <2> QED
    BY <2>4, <2>5
<1>22. CASE Destroy
  BY <1>22 DEF Destroy, BeforeStop
<1>23. CASE QueueStopped
  BY <1>23 DEF QueueStopped, EnterReset, LockFree, Holding
<1>24. CASE Mark
  BY <1>24 DEF Mark
<1>25. CASE CheckConnected
  BY <1>25 DEF CheckConnected
<1>26. CASE TestPreparing
  BY <1>26 DEF TestPreparing, MustWait
<1>27. CASE Sleep
  BY <1>27 DEF Sleep
<1>28. CASE Woken
  BY <1>28 DEF Woken
<1>29. CASE Free
  BY <1>29 DEF Free
<1>30. CASE UNCHANGED vars
  BY <1>30 DEF vars
<1> QED
  BY <1>1, <1>2, <1>3, <1>4, <1>5, <1>6, <1>7, <1>8, <1>9, <1>10, <1>11, <1>12, <1>13, <1>14, <1>15, <1>16, <1>17, <1>18, <1>19, <1>20, <1>21, <1>22, <1>23, <1>24, <1>25, <1>26, <1>27, <1>28, <1>29, <1>30 DEF Next, EventStep, ResetStep

\* The invariant says of the events what NoDanglingEvent does.
LEMMA NothingDangles == ASSUME Typed, PrepareInv PROVE NoDanglingEvent
<1> USE DEF Typed, TypeOK, PrepareInv, EventIsOnly, EventIsAlive, Null, Outstanding
<1>1. CASE ev.pc = "idle" /\ mAsyncPrepareEvent = Null
  <2>1. Outstanding = <<>>
    BY <1>1
  <2> QED
    BY <1>1, <2>1 DEF NoDanglingEvent, OnePrepareEvent
<1>2. CASE ev.pc # "idle" \/ mAsyncPrepareEvent # Null
  <2>1. mAsyncPrepareEvent # Null /\ mAsyncPrepareEvent \in Nat /\ mAsyncPrepareEvent \notin deleted
    BY <1>2
  <2>2. Outstanding = <<mAsyncPrepareEvent>>
    <3>1. CASE ev.pc = "idle"
      BY <1>2, <3>1
    <3>2. CASE ev.pc # "idle"
      <4>1. Outstanding = <<ev.event>> \o <<>> /\ ev.event = mAsyncPrepareEvent
        BY <3>2
      <4>2. \A e : <<e>> \o <<>> = <<e>>
        OBVIOUS
      <4> HIDE DEF Outstanding
      <4> QED
        BY <4>1, <4>2
    <3> QED
      BY <3>1, <3>2
  <2> HIDE DEF Outstanding
  <2> QED
    BY <2>1, <2>2 DEF NoDanglingEvent, OnePrepareEvent
<1> QED
  BY <1>1, <1>2

-----------------------------------------------------------------------------
(***************************************************************************)
(* The inductive invariant of the objects.                                 *)
(***************************************************************************)

\* Nothing has been made since the last reset.
IsBlank ==
  /\ live = {} /\ \A p \in Pointers : field[p] = Null
  /\ mAudioTrackIndex = 0 /\ mActiveAudioTrackIndex = -1
BlankUntilMade ==
  ready \/ ev.pc = "create" \/ (ev.pc \in {"idle", "begin"} /\ mAsyncPrepareEvent # Null)
    => IsBlank

\* While it is opened there is a source and nothing else.
OnlySource ==
  /\ \A p \in Pointers : field[p] = IF p = "mDataSource" THEN ev.event ELSE Null
  /\ mAudioTrackIndex = 0 /\ mActiveAudioTrackIndex = -1
Opening == {"open", "sniff", "destroy", "forget", "connectRead", "connectWrite", "tracks"}
OpeningSource == ev.pc \in Opening => OnlySource

\* Then the parts of the same prepare come one by one.
PartsInOrder ==
  /\ ev.pc \in {"video", "audio", "finish"} =>
       /\ field["mDataSource"] = ev.event /\ field["mMediaExtractor"] = ev.event
       /\ \A p \in Pointers : field[p] \in {Null, ev.event}
  /\ ev.pc = "video" => field["mVideoSource"] = Null
  /\ ev.pc \in {"video", "audio"} => field["mAudioSource"] = Null
  /\ ev.pc \in {"audio", "finish"} => field["mVideoSource"] = field["mVideoTrack"]
  /\ ev.pc = "finish" => field["mAudioSource"] = field["mAudioTracks"]

\* A track in its place is active, so that reset_l() frees it.
TrackIsActive ==
  /\ field["mAudioTracks"] # Null <=> mActiveAudioTrackIndex >= 0
  /\ InReset => mAudioTrackIndex = 0

\* PREPARED is set when the parts are there, and stays until the reset.
PreparedAtEnd ==
  /\ "PREPARED" \in mFlags
       => mAsyncPrepareEvent = Null \/ ev.pc \in {"notify", "finish2"}
  /\ PreparedIsWhole

ObjectsInv ==
  /\ OwnsWhatLives /\ BlankUntilMade /\ OpeningSource /\ PartsInOrder
  /\ TrackIsActive /\ PreparedAtEnd

\* The invariant holds initially.
LEMMA ObjectsInvInitially == ASSUME Init PROVE ObjectsInv
<1>1. OwnsWhatLives /\ BlankUntilMade
  BY DEF Init, OwnsWhatLives, Owned, Forgotten, InHand, BlankUntilMade, IsBlank, Null
<1>2. OpeningSource /\ PartsInOrder /\ TrackIsActive /\ PreparedAtEnd
  BY DEF Init, OpeningSource, Opening, PartsInOrder, TrackIsActive, InReset, PreparedAtEnd,
         PreparedIsWhole, Pointers, Null
<1> QED
  BY <1>1, <1>2 DEF ObjectsInv

\* Every step keeps it.
LEMMA ObjectsInvKept ==
  ASSUME QuietResets, PrepareAssumption, Typed, PrepareInv, ObjectsInv, [Next]_vars
  PROVE  ObjectsInv'
<1> USE DEF QuietResets, Typed, TypeOK, PrepareInv, EventIsOnly, PreparingIsPending, HandlerIsAlone,
            ResetIsSeen, InReset, ObjectsInv, OwnsWhatLives, Owned, Forgotten, InHand,
            BlankUntilMade, IsBlank, OpeningSource, OnlySource, Opening, PartsInOrder, TrackIsActive,
            PreparedAtEnd, PreparedIsWhole, IsWhole, Pointers, Null, Goto, AppGoto, events, objects,
            audioTracks
<1>1. CASE Fire
  BY <1>1 DEF Fire
<1>2. CASE Begin
  BY <1>2 DEF Begin, AbortPrepare, DeletePrepareEvent, Broadcast, Cleared, LockFree, Holding
<1>3. CASE CreateFromURI
  BY <1>3 DEF CreateFromURI, Keep
<1>4. CASE InitCheck
  BY <1>4 DEF InitCheck
<1>5. CASE SniffMedia
  BY <1>5 DEF SniffMedia
<1>6. CASE DestroySource
  BY <1>6 DEF DestroySource
<1>7. CASE ForgetSource
  BY <1>7 DEF ForgetSource
<1>8. CASE ConnectRead
  BY <1>8 DEF ConnectRead
<1>9. CASE ConnectWrite
  BY <1>9 DEF ConnectWrite
<1>10. ASSUME NEW t \in Contents, SetDataSource(t) PROVE ObjectsInv'
  <2>1. CASE t = {}
    BY <1>10, <2>1 DEF SetDataSource
  <2>2. CASE t # {}
    <3> DEFINE e   == ev.event
               set == {TrackPointer[x] : x \in t} \cup {"mMediaExtractor"}
    <3>1. ev.pc = "tracks" /\ OnlySource /\ ~InReset
      BY <1>10 DEF SetDataSource
    <3>2. /\ set \subseteq {"mVideoTrack", "mAudioTracks", "mMediaExtractor"}
          /\ "mMediaExtractor" \in set
          /\ "mAudioTracks" \in set <=> "audio" \in t
      BY DEF PrepareAssumption, TrackPointer
    <3>3. /\ field' = [p \in Pointers |-> IF p \in set THEN e ELSE field[p]]
          /\ live' = live \cup (set \X {e})
          /\ mActiveAudioTrackIndex' = IF "audio" \in t THEN 0 ELSE mActiveAudioTrackIndex
          /\ ev' = [ev EXCEPT !.pc = "video"]
          /\ mFlags' = mFlags /\ mAsyncPrepareEvent' = mAsyncPrepareEvent
          /\ app' = app /\ ready' = ready
      BY <1>10, <2>2, <3>1 DEF SetDataSource
    <3>4. e # Null
      BY <3>1
    <3> HIDE DEF set
    <3>5. /\ field'["mDataSource"] = e /\ field'["mMediaExtractor"] = e
          /\ field'["mVideoSource"] = Null /\ field'["mAudioSource"] = Null
          /\ \A p \in Pointers : field'[p] \in {Null, e}
          /\ field'["mAudioTracks"] # Null <=> "audio" \in t
      BY <3>1, <3>2, <3>3, <3>4
    <3>6. live = {<<"mDataSource", e>>, <<"mMediaExtractor", e>>}
      BY <3>1, <3>4
    <3>7. OwnsWhatLives'
      BY <3>1, <3>2, <3>3, <3>4, <3>6
    <3>8. BlankUntilMade' /\ OpeningSource' /\ PartsInOrder' /\ TrackIsActive' /\ PreparedAtEnd'
      BY <3>1, <3>3, <3>5
    <3> QED
      BY <3>7, <3>8
  <2> QED
    BY <2>1, <2>2
<1>11. CASE InitVideoDecoder
  BY <1>11 DEF InitVideoDecoder, Keep
<1>12. CASE InitAudioDecoder
  BY <1>12 DEF InitAudioDecoder, Keep
<1>13. CASE AbortLocked
  BY <1>13 DEF AbortLocked, AbortPrepare, DeletePrepareEvent, Broadcast, Cleared, LockFree, Holding
<1>14. CASE AbortRead
  BY <1>14 DEF AbortRead
<1>15. CASE AbortWrite
  BY <1>15 DEF AbortWrite, Cleared
<1>16. CASE AbortFree
  BY <1>16 DEF AbortFree, DeletePrepareEvent, Broadcast
<1>17. CASE Finish
  BY <1>17 DEF Finish, Cleared, LockFree, Holding
<1>18. CASE NotifyPrepared
  BY <1>18 DEF NotifyPrepared
<1>19. CASE FinishDelete
  BY <1>19 DEF FinishDelete, DeletePrepareEvent, Broadcast, LockFree, Holding
<1>20. CASE PrepareAsync
  BY <1>20 DEF PrepareAsync
<1>21. CASE Reset
  BY <1>21 DEF Reset, EnterReset
<1>22. CASE Destroy
  BY <1>22 DEF Destroy, BeforeStop
<1>23. CASE QueueStopped
  BY <1>23 DEF QueueStopped, EnterReset, LockFree, Holding
<1>24. CASE Mark
  BY <1>24 DEF Mark
<1>25. CASE CheckConnected
  BY <1>25 DEF CheckConnected
<1>26. CASE TestPreparing
  BY <1>26 DEF TestPreparing, MustWait
<1>27. CASE Sleep
  BY <1>27 DEF Sleep
<1>28. CASE Woken
  BY <1>28 DEF Woken
<1>29. CASE Free
  BY <1>29 DEF Free, Deleted, Released
<1>30. CASE UNCHANGED vars
  BY <1>30 DEF vars
<1> QED
  BY <1>1, <1>2, <1>3, <1>4, <1>5, <1>6, <1>7, <1>8, <1>9, <1>10, <1>11, <1>12, <1>13, <1>14, <1>15, <1>16, <1>17, <1>18, <1>19, <1>20, <1>21, <1>22, <1>23, <1>24, <1>25, <1>26, <1>27, <1>28, <1>29, <1>30 DEF Next, EventStep, ResetStep

-----------------------------------------------------------------------------
(***************************************************************************)
(* The theorems.                                                           *)
(***************************************************************************)

\* The player's fields, the event's position and the objects stay what they are
\* declared to be, whenever reset() and prepareAsync() are called.
THEOREM PrepareTypes == Spec => []TypeOK
<1>1. Init => Typed
  BY TypesInitially, PrepareAssumption
<1>2. Typed /\ [Next]_vars => Typed'
  BY TypesKept, PrepareAssumption
<1>3. Typed => TypeOK
  BY DEF Typed
<1> QED
  BY <1>1, <1>2, <1>3, PTL DEF Spec

\* The two invariants together are inductive.
PlayerInv == Typed /\ PrepareInv /\ ObjectsInv

\* They hold initially.
LEMMA PlayerInvInitially == ASSUME Init PROVE PlayerInv
BY TypesInitially, PrepareInvInitially, ObjectsInvInitially, PrepareAssumption DEF PlayerInv

\* Every step keeps them.
LEMMA PlayerInvKept == ASSUME QuietResets, PlayerInv, [Next]_vars PROVE PlayerInv'
BY TypesKept, PrepareInvKept, ObjectsInvKept, PrepareAssumption DEF PlayerInv

\* However many sources the application prepares and resets, the queue never
\* fires a prepare event that was deleted, and a handler deletes none but its own,
\* when reset() keeps to the quiet moments.
THEOREM PrepareEventIsSafe == ASSUME QuietResets PROVE Spec => []NoDanglingEvent
<1>1. Init => PlayerInv
  BY PlayerInvInitially
<1>2. PlayerInv /\ [Next]_vars => PlayerInv'
  BY PlayerInvKept
<1>3. PlayerInv => NoDanglingEvent
  BY NothingDangles DEF PlayerInv
<1> QED
  BY <1>1, <1>2, <1>3, PTL DEF Spec

\* When reset() keeps to the quiet moments, an object is alive if and only if the
\* player points to it or the handler still has it in hand: no prepare, failed,
\* cancelled or completed, leaks one, and no reset frees one twice.
THEOREM PlayerOwnsWhatLives == ASSUME QuietResets PROVE Spec => []OwnsWhatLives
<1>1. Init => PlayerInv
  BY PlayerInvInitially
<1>2. PlayerInv /\ [Next]_vars => PlayerInv'
  BY PlayerInvKept
<1>3. PlayerInv => OwnsWhatLives
  BY DEF PlayerInv, ObjectsInv
<1> QED
  BY <1>1, <1>2, <1>3, PTL DEF Spec

\* Under the same assumption a player that says PREPARED has one prepare's data
\* source and extractor, and a decoder for each of its tracks.
THEOREM PreparedPlayerIsWhole == ASSUME QuietResets PROVE Spec => []PreparedIsWhole
<1>1. Init => PlayerInv
  BY PlayerInvInitially
<1>2. PlayerInv /\ [Next]_vars => PlayerInv'
  BY PlayerInvKept
<1>3. PlayerInv => PreparedIsWhole
  BY DEF PlayerInv, ObjectsInv, PreparedAtEnd
<1> QED
  BY <1>1, <1>2, <1>3, PTL DEF Spec

\* And once reset() has returned there is no prepare event, queued or running, and
\* no object left.
THEOREM ResetIsQuiet == ASSUME QuietResets PROVE Spec => []QuietAfterReset
<1>1. Init => PlayerInv
  BY PlayerInvInitially
<1>2. PlayerInv /\ [Next]_vars => PlayerInv'
  BY PlayerInvKept
<1>3. PlayerInv => QuietAfterReset
  BY DEF PlayerInv, PrepareInv, EventIsOnly, ResetIsSeen, ObjectsInv, BlankUntilMade, IsBlank,
         QuietAfterReset
<1> QED
  BY <1>1, <1>2, <1>3, PTL DEF Spec

-----------------------------------------------------------------------------
(***************************************************************************)
(* The event queue's contract.                                             *)
(***************************************************************************)

\* The queued event, there being one at most, and the events being handled.
Queued   == IF posted = <<>> THEN Null ELSE Head(posted)
Handling == IF ev.pc = "idle" THEN {} ELSE {ev.event}

\* The event queue when x is queued, or nothing, and those of f are handled.
Items(x, f) ==
  Queue!QueueOf([e \in Events |-> IF e = x THEN 1 ELSE 0], [e \in Events |-> e = x], f)

\* What the queue's operations make of it.
LEMMA ItemsOps ==
  ASSUME NEW f, NEW x \in Events
  PROVE  /\ Queue!EmptyQueue = Items(Null, {})
         /\ Queue!Posted(Items(Null, f), x) = Items(x, f)
         /\ Queue!Fired(Items(x, f), x) = Items(Null, {x})
<1>1. Null \notin Events
  BY PrepareAssumption DEF Events, Null
<1>2. ASSUME NEW y PROVE /\ Items(y, f).posted = [e \in Events |-> IF e = y THEN 1 ELSE 0]
                         /\ Items(y, f).id = [e \in Events |-> e = y]
                         /\ Items(y, f).firing = f
  BY DEF Items, Queue!QueueOf
<1>3. /\ [e \in Events |-> 0] = [e \in Events |-> IF e = Null THEN 1 ELSE 0]
      /\ [[e \in Events |-> IF e = Null THEN 1 ELSE 0] EXCEPT ![x] = @ + 1]
           = [e \in Events |-> IF e = x THEN 1 ELSE 0]
      /\ [[e \in Events |-> IF e = x THEN 1 ELSE 0] EXCEPT ![x] = @ - 1]
           = [e \in Events |-> IF e = Null THEN 1 ELSE 0]
  <2>1. 0 + 1 = 1 /\ 1 - 1 = 0
    OBVIOUS
  <2> QED BY <1>1, <2>1
<1>4. /\ [e \in Events |-> FALSE] = [e \in Events |-> e = Null]
      /\ [[e \in Events |-> e = Null] EXCEPT ![x] = TRUE] = [e \in Events |-> e = x]
      /\ [[e \in Events |-> e = x] EXCEPT ![x] = FALSE] = [e \in Events |-> e = Null]
  BY <1>1, Zenon
<1>5. ASSUME NEW y, NEW g
      PROVE  Items(y, g) = Queue!QueueOf([e \in Events |-> IF e = y THEN 1 ELSE 0],
                                         [e \in Events |-> e = y], g)
  BY DEF Items
<1>6. Queue!EmptyQueue = Items(Null, {})
  BY <1>3, <1>4, <1>5, Zenon DEF Queue!EmptyQueue
<1>7. Queue!Posted(Items(Null, f), x) = Items(x, f)
  <2>1. /\ Items(Null, f).posted = [e \in Events |-> IF e = Null THEN 1 ELSE 0]
        /\ Items(Null, f).id = [e \in Events |-> e = Null] /\ Items(Null, f).firing = f
    BY <1>2
  <2>2. Queue!Posted(Items(Null, f), x)
          = Queue!QueueOf([e \in Events |-> IF e = x THEN 1 ELSE 0], [e \in Events |-> e = x], f)
    BY <1>3, <1>4, <2>1, Zenon DEF Queue!Posted
  <2> QED BY <1>5, <2>2, Zenon
<1>8. Queue!Fired(Items(x, f), x) = Items(Null, {x})
  BY <1>2, <1>3, <1>4, <1>5, Zenon DEF Queue!Out, Queue!Fired
<1> QED BY <1>6, <1>7, <1>8

\* And which of them it allows.
LEMMA ItemsMoves ==
  ASSUME NEW f, NEW x \in Events, NEW y
  PROVE  /\ Items(x, f) \in Queue!After(Items(Null, f))
         /\ Items(Null, {x}) \in Queue!After(Items(x, {}))
         /\ Items(y, {}) \in Queue!After(Items(y, f))
<1>1. Items(x, f) \in Queue!After(Items(Null, f))
  BY ItemsOps, Zenon DEF Queue!After
<1>2. Items(Null, {x}) \in Queue!After(Items(x, {}))
  <2>1. Items(x, {}).posted = [e \in Events |-> IF e = x THEN 1 ELSE 0] /\ Items(x, {}).firing = {}
    BY DEF Items, Queue!QueueOf
  <2>2. Items(x, {}).posted[x] > 0
    BY <2>1
  <2>3. Queue!Fired(Items(x, {}), x) = Items(Null, {x})
    BY ItemsOps
  <2> QED BY <2>1, <2>2, <2>3, Zenon DEF Queue!After
<1>3. Items(y, {}) = Queue!Handled(Items(y, f))
  BY DEF Items, Queue!Handled, Queue!QueueOf
<1> QED BY <1>1, <1>2, <1>3, Zenon DEF Queue!After

\* At most one event is queued, so that this is what the queue holds.
LEMMA ItemsAre == ASSUME PlayerInv PROVE EventItems = Items(Queued, Handling)
<1>1. posted = <<>> \/ \E x \in Events : posted = <<x>>
  BY DEF PlayerInv, Typed, TypeOK, PrepareInv, EventIsOnly
<1>2. CASE posted = <<>>
  <2>1. \A e \in Events : {i \in DOMAIN posted : posted[i] = e} = {}
    BY <1>2
  <2>2. Queued = Null /\ Null \notin Events
    BY <1>2, PrepareAssumption DEF Queued, Events, Null
  <2>3. [e \in Events |-> Cardinality({i \in DOMAIN posted : posted[i] = e})]
          = [e \in Events |-> IF e = Queued THEN 1 ELSE 0]
    BY <2>1, <2>2, FS_EmptySet
  <2>4. [e \in Events |-> \E i \in DOMAIN posted : posted[i] = e] = [e \in Events |-> e = Queued]
    BY <2>1, <2>2, Zenon
  <2> QED BY <2>3, <2>4, Zenon DEF EventItems, Items, Queue!QueueOf, Handling
<1>3. ASSUME NEW x \in Events, posted = <<x>> PROVE EventItems = Items(Queued, Handling)
  <2>1. DOMAIN posted = {1} /\ posted[1] = x /\ posted # <<>> /\ Queued = x
    BY <1>3 DEF Queued
  <2>2. {i \in DOMAIN posted : posted[i] = x} = {1}
    BY <2>1
  <2>3. \A e \in Events \ {x} : {i \in DOMAIN posted : posted[i] = e} = {}
    BY <2>1
  <2>4. [e \in Events |-> Cardinality({i \in DOMAIN posted : posted[i] = e})]
          = [e \in Events |-> IF e = Queued THEN 1 ELSE 0]
    <3> SUFFICES ASSUME NEW e \in Events
                 PROVE  Cardinality({i \in DOMAIN posted : posted[i] = e}) = IF e = x THEN 1 ELSE 0
      BY <2>1
    <3>1. CASE e = x
      BY <2>2, <3>1, FS_Singleton, Zenon
    <3>2. CASE e # x
      BY <2>3, <3>2, FS_EmptySet, Zenon
    <3> QED BY <3>1, <3>2
  <2>5. \A e \in Events : (\E i \in DOMAIN posted : posted[i] = e) = (e = x)
    BY <2>1, Zenon
  <2>6. [e \in Events |-> \E i \in DOMAIN posted : posted[i] = e] = [e \in Events |-> e = Queued]
    BY <2>1, <2>5, Zenon
  <2> QED BY <2>4, <2>6, Zenon DEF EventItems, Items, Queue!QueueOf, Handling
<1> QED BY <1>1, <1>2, <1>3

\* Every step keeps to the contract.
LEMMA ItemsStep ==
  ASSUME QuietResets, PlayerInv, [Next]_vars
  PROVE  [Queue!Calls]_EventItems
<1>1. EventItems = Items(Queued, Handling) /\ EventItems' = Items(Queued, Handling)'
  <2>1. PlayerInv'
    BY PlayerInvKept
  <2>2. EventItems = Items(Queued, Handling)
    BY ItemsAre
  <2>3. (PlayerInv => EventItems = Items(Queued, Handling))'
    BY ItemsAre, PTL
  <2> QED BY <2>1, <2>2, <2>3
<1>2. Items(Queued, Handling)' = Items(Queued', Handling')
  BY DEF Items, Queue!QueueOf, Events
<1>3. ASSUME Items(Queued', Handling') \in Queue!After(Items(Queued, Handling))
      PROVE  [Queue!Calls]_EventItems
  BY <1>1, <1>2, <1>3, Zenon DEF Queue!Calls
<1>4. /\ ev \in [pc : EventPCs, event : Events \cup {Null}, flags : SUBSET Flags]
      /\ posted \in Seq(Events) /\ (posted = <<>> \/ \E x \in Events : posted = <<x>>)
  BY DEF PlayerInv, Typed, TypeOK, PrepareInv, EventIsOnly
<1>5. CASE posted' = posted /\ Handling' = Handling
  BY <1>1, <1>2, <1>5 DEF Queued
<1>6. CASE posted' = posted /\ ev'.pc = "idle"
  <2>1. PICK x \in Events : TRUE
    BY PrepareAssumption DEF Events
  <2>2. Queued' = Queued /\ Handling' = {}
    BY <1>6 DEF Queued, Handling
  <2> QED BY <1>3, <2>1, <2>2, ItemsMoves
<1>7. CASE Fire
  <2>1. PICK x \in Events : posted = <<x>>
    BY <1>4, <1>7 DEF Fire
  <2>2. Queued = x /\ Handling = {} /\ Queued' = Null /\ Handling' = {x}
    BY <1>7, <2>1 DEF Fire, Queued, Handling
  <2> QED BY <1>3, <2>2, ItemsMoves
<1>8. CASE PrepareAsync
  <2>1. posted = <<>> /\ ev' = ev /\ made + 1 \in Events /\ posted' = <<made + 1>>
    <3>1. ready /\ mAsyncPrepareEvent = Null
      BY <1>8 DEF PrepareAsync, QuietResets, PlayerInv, PrepareInv, ResetIsSeen
    <3>2. posted = <<>>
      BY <3>1 DEF PlayerInv, PrepareInv, EventIsOnly
    <3>3. made \in 0 .. MaxPrepares /\ made < MaxPrepares
      BY <1>8 DEF PrepareAsync, PlayerInv, Typed, TypeOK
    <3>4. made + 1 \in Events
      BY <3>3, PrepareAssumption DEF Events
    <3> QED BY <1>8, <3>2, <3>4 DEF PrepareAsync
  <2>2. Queued = Null /\ Queued' = made + 1 /\ Handling' = Handling
    BY <2>1 DEF Queued, Handling
  <2> QED BY <1>3, <2>1, <2>2, ItemsMoves
<1>9. CASE Begin
  <2>1. \/ posted' = posted /\ ev'.pc = "idle"
        \/ posted' = posted /\ ev'.event = ev.event /\ ev'.pc # "idle" /\ ev.pc # "idle"
    BY <1>4, <1>9 DEF Begin, AbortPrepare, DeletePrepareEvent, Goto, events
  <2> QED BY <1>5, <1>6, <2>1 DEF Handling
<1>10. CASE AbortLocked \/ AbortFree \/ FinishDelete
  <2>1. posted' = posted /\ ev'.pc = "idle"
    BY <1>4, <1>10 DEF AbortLocked, AbortFree, FinishDelete, AbortPrepare, DeletePrepareEvent, Goto
  <2> QED BY <1>6, <2>1
<1>11. CASE \/ CreateFromURI \/ InitCheck \/ SniffMedia \/ DestroySource \/ ForgetSource \/ ConnectRead
            \/ ConnectWrite \/ (\E tracks \in Contents : SetDataSource(tracks)) \/ InitVideoDecoder
            \/ InitAudioDecoder \/ AbortRead \/ AbortWrite \/ Finish \/ NotifyPrepared
  <2>1. posted' = posted /\ ev'.event = ev.event /\ ev'.pc # "idle" /\ ev.pc # "idle"
    BY <1>4, <1>11 DEF CreateFromURI, InitCheck, SniffMedia, DestroySource, ForgetSource, ConnectRead,
                       ConnectWrite, SetDataSource, InitVideoDecoder, InitAudioDecoder, AbortRead,
                       AbortWrite, Finish, NotifyPrepared, Goto, events
  <2> QED BY <1>5, <2>1 DEF Handling
<1>12. CASE Destroy
  <2>1. posted' = posted /\ ev' = ev
    BY <1>4, <1>12 DEF Destroy, BeforeStop
  <2> QED BY <1>5, <2>1 DEF Handling
<1>13. CASE Reset \/ ResetStep \/ UNCHANGED vars
  <2>1. posted' = posted /\ ev' = ev
    BY <1>13 DEF Reset, ResetStep, EnterReset, QueueStopped, Mark, CheckConnected, TestPreparing, Sleep,
                 Woken, Free, events, vars
  <2> QED BY <1>5, <2>1 DEF Handling
<1> QED BY <1>7, <1>8, <1>9, <1>10, <1>11, <1>12, <1>13 DEF Next, EventStep

\* However often the application prepares and resets at the quiet moments, and
\* when it deletes the player, its prepare events are posted and handled as a
\* timed event queue allows, none while another is queued (NBMediaPlayer's mQueue).
THEOREM PrepareKeepsQueueContract == ASSUME QuietResets PROVE Spec => QueueContract
<1>1. Init => PlayerInv
  BY PlayerInvInitially
<1>2. PlayerInv /\ [Next]_vars => PlayerInv'
  BY PlayerInvKept
<1>3. Init => Queue!Init
  <2> SUFFICES ASSUME Init PROVE EventItems = Queue!EmptyQueue
    BY DEF Queue!Init
  <2>1. PICK x \in Events : TRUE
    BY PrepareAssumption DEF Events
  <2>2. Queued = Null /\ Handling = {}
    BY DEF Init, Queued, Handling
  <2> QED BY <1>1, <2>1, <2>2, ItemsAre, ItemsOps
<1>4. PlayerInv /\ [Next]_vars => [Queue!Calls]_EventItems
  BY ItemsStep
<1> QED
  BY <1>1, <1>2, <1>3, <1>4, PTL DEF Spec, QueueContract, Queue!ClientSpec


-----------------------------------------------------------------------------
(***************************************************************************)
(* The promise to the application.                                         *)
(***************************************************************************)

\* What it has been told follows the event: nothing before the end, and of a
\* prepared player only when that is said.  The source of a player whose decoder
\* did not start is kept.
HeardInTime ==
  /\ "PREPARING" \in mFlags /\ ev.pc # "abortWrite" => heard = "none"
  /\ ev.pc = "notify" => heard = "none"
  /\ "PREPARED" \in mFlags /\ ev.pc # "notify" => heard = "prepared"
  /\ ev.pc \in {"notify", "finish2"} => "PREPARED" \in mFlags
  /\ ev.pc \in {"abortRead", "abortWrite", "abortFree"} => live # {}

LifeInv == PlayerInv /\ HeardInTime

\* The phase, and whether it is quiet, in terms of the flags.
LEMMA PhaseIs ==
  ASSUME PlayerInv
  PROVE  /\ ready => /\ Phase = "blank" /\ Quiet = TRUE
                     /\ "PREPARING" \notin mFlags /\ "PREPARED" \notin mFlags
         /\ "PREPARING" \in mFlags => Phase = "preparing" /\ Quiet = FALSE /\ "PREPARED" \notin mFlags
         /\ "PREPARED" \in mFlags => Phase = "prepared" /\ Quiet = FALSE
         /\ ~ready /\ "PREPARING" \notin mFlags /\ "PREPARED" \notin mFlags => Phase = "failed"
         /\ mAsyncPrepareEvent # Null => Quiet = FALSE
         /\ live # {} => Quiet = FALSE
<1> USE DEF PlayerInv, PrepareInv
<1>1. mAsyncPrepareEvent # Null => Quiet = FALSE
  BY DEF EventIsOnly, Quiet
<1>2. live # {} => Quiet = FALSE
  BY DEF Quiet
<1>3. "PREPARING" \in mFlags => mAsyncPrepareEvent # Null /\ "PREPARED" \notin mFlags
  BY DEF PreparingIsPending, ObjectsInv, PreparedAtEnd
<1>4. ready => mAsyncPrepareEvent = Null /\ IsBlank
  BY DEF ResetIsSeen, ObjectsInv, BlankUntilMade
<1>5. ready => Quiet = TRUE
  BY <1>4 DEF EventIsOnly, IsBlank, Quiet
<1>6. ASSUME "PREPARED" \in mFlags PROVE field["mDataSource"] # Null /\ live # {}
  <2>1. field["mDataSource"] # Null
    BY <1>6 DEF ObjectsInv, PreparedAtEnd, PreparedIsWhole, IsWhole
  <2>2. ev.pc # "forget"
    BY <1>6 DEF ObjectsInv, PreparedAtEnd, EventIsOnly
  <2>3. <<"mDataSource", field["mDataSource"]>> \in live
    BY <2>1, <2>2 DEF ObjectsInv, OwnsWhatLives, Owned, Forgotten, Pointers
  <2> QED BY <2>1, <2>3
<1>7. "PREPARED" \in mFlags => ~ready
  BY <1>4, <1>6 DEF IsBlank, Pointers
<1> QED BY <1>1, <1>2, <1>3, <1>4, <1>5, <1>6, <1>7 DEF Phase

\* A step of which the application knows nothing.
LEMMA LifeStutters ==
  ASSUME "PREPARING" \in mFlags' <=> "PREPARING" \in mFlags,
         "PREPARED" \in mFlags' <=> "PREPARED" \in mFlags,
         ready' = ready, heard' = heard, Quiet' = Quiet
  PROVE  UNCHANGED Life!lifeVars
BY DEF Phase, Life!lifeVars

\* Every step of the player is one of its life, or is not noticed.
LEMMA LifeStep ==
  ASSUME QuietResets, LifeInv, [Next]_vars
  PROVE  HeardInTime' /\ [Life!Next]_(Life!lifeVars)
<1>a. PlayerInv /\ PlayerInv' /\ HeardInTime
  BY PlayerInvKept DEF LifeInv
<1>b. /\ ready => /\ Phase = "blank" /\ Quiet = TRUE
                  /\ "PREPARING" \notin mFlags /\ "PREPARED" \notin mFlags
      /\ "PREPARING" \in mFlags => Phase = "preparing" /\ Quiet = FALSE /\ "PREPARED" \notin mFlags
      /\ "PREPARED" \in mFlags => Phase = "prepared" /\ Quiet = FALSE
      /\ ~ready /\ "PREPARING" \notin mFlags /\ "PREPARED" \notin mFlags => Phase = "failed"
      /\ mAsyncPrepareEvent # Null => Quiet = FALSE
      /\ live # {} => Quiet = FALSE
  BY <1>a, PhaseIs
<1>c. (PlayerInv =>
       /\ ready => /\ Phase = "blank" /\ Quiet = TRUE
                   /\ "PREPARING" \notin mFlags /\ "PREPARED" \notin mFlags
       /\ "PREPARING" \in mFlags => Phase = "preparing" /\ Quiet = FALSE /\ "PREPARED" \notin mFlags
       /\ "PREPARED" \in mFlags => Phase = "prepared" /\ Quiet = FALSE
       /\ ~ready /\ "PREPARING" \notin mFlags /\ "PREPARED" \notin mFlags => Phase = "failed"
       /\ mAsyncPrepareEvent # Null => Quiet = FALSE
       /\ live # {} => Quiet = FALSE)'
  BY PhaseIs, PTL
<1>d. /\ ready' => Phase' = "blank" /\ Quiet' = TRUE
      /\ "PREPARING" \in mFlags' => Phase' = "preparing" /\ Quiet' = FALSE
      /\ "PREPARED" \in mFlags' => Phase' = "prepared" /\ Quiet' = FALSE
      /\ ~ready' /\ "PREPARING" \notin mFlags' /\ "PREPARED" \notin mFlags' => Phase' = "failed"
      /\ mAsyncPrepareEvent' # Null => Quiet' = FALSE
      /\ live' # {} => Quiet' = FALSE
  BY <1>a, <1>c
<1>e. /\ ev \in [pc : EventPCs, event : Events \cup {Null}, flags : SUBSET Flags]
      /\ EventIsOnly /\ PreparingIsPending /\ HandlerIsAlone /\ ResetIsSeen
      /\ OpeningSource /\ PartsInOrder /\ OwnsWhatLives
  BY <1>a DEF PlayerInv, Typed, TypeOK, PrepareInv, ObjectsInv
<1>f. \A e : ev' = [ev EXCEPT !.pc = e] => ev'.pc = e
  BY <1>e
<1>1. CASE PrepareAsync
  <2>1. /\ ready /\ heard' = "none" /\ mFlags' = {"PREPARING"} /\ ev' = ev /\ live' = live
    BY <1>1 DEF PrepareAsync, QuietResets, objects
  <2>2. Life!PrepareAsync
    BY <1>b, <1>d, <2>1 DEF Life!PrepareAsync
  <2>3. ev.pc = "idle"
    BY <2>1, <1>e DEF EventIsOnly, ResetIsSeen
  <2>4. HeardInTime'
    BY <2>1, <2>3 DEF HeardInTime
  <2> QED BY <2>2, <2>4 DEF Life!Next
<1>2. CASE \/ Fire \/ CreateFromURI \/ InitCheck \/ SniffMedia \/ DestroySource \/ ForgetSource
           \/ ConnectRead \/ ConnectWrite \/ (\E tracks \in Contents : SetDataSource(tracks))
           \/ InitAudioDecoder \/ (Begin /\ ev'.pc = "create")
  <2>1. /\ "PREPARING" \in mFlags' <=> "PREPARING" \in mFlags
        /\ "PREPARED" \in mFlags' <=> "PREPARED" \in mFlags
        /\ ready' = ready /\ heard' = heard /\ mAsyncPrepareEvent' = mAsyncPrepareEvent
    BY <1>2, <1>e DEF Fire, CreateFromURI, InitCheck, SniffMedia, DestroySource, ForgetSource,
                      ConnectRead, ConnectWrite, SetDataSource, InitAudioDecoder, Begin,
                      AbortPrepare, Goto, events, HandlerIsAlone
  <2>2. mAsyncPrepareEvent # Null
    BY <1>2, <1>e DEF Fire, CreateFromURI, InitCheck, SniffMedia, DestroySource, ForgetSource,
                      ConnectRead, ConnectWrite, SetDataSource, InitAudioDecoder, Begin, EventIsOnly
  <2>3. UNCHANGED Life!lifeVars
    BY <1>b, <1>d, <2>1, <2>2, LifeStutters
  <2>4. ev.pc \notin {"notify", "finish2", "abortRead", "abortWrite", "abortFree"}
    BY <1>2 DEF Fire, CreateFromURI, InitCheck, SniffMedia, DestroySource, ForgetSource,
                ConnectRead, ConnectWrite, SetDataSource, InitAudioDecoder, Begin
  <2>5. ev'.pc \notin {"notify", "finish2", "abortRead", "abortWrite", "abortFree"}
    <3>1. CASE Fire
      <4>1. ev'.pc = "begin"
        BY <3>1 DEF Fire
      <4> QED BY <4>1
    <3>4. CASE ConnectRead
      <4>1. ev'.pc = "connectWrite"
        BY <3>4, <1>e DEF ConnectRead
      <4> QED BY <4>1
    <3>5. CASE Begin /\ ev'.pc = "create"
      BY <3>5
    <3>2. CASE \/ CreateFromURI \/ InitCheck \/ SniffMedia \/ DestroySource \/ ForgetSource
               \/ ConnectWrite
      BY <3>2, <1>f DEF CreateFromURI, InitCheck, SniffMedia, DestroySource, ForgetSource,
                        ConnectWrite, Goto
    <3>3. CASE (\E tracks \in Contents : SetDataSource(tracks)) \/ InitAudioDecoder
      BY <3>3, <1>f DEF SetDataSource, InitAudioDecoder, Goto
    <3> QED BY <1>2, <3>1, <3>2, <3>3, <3>4, <3>5
  <2> QED BY <1>a, <2>1, <2>3, <2>4, <2>5 DEF HeardInTime
<1>3. CASE InitVideoDecoder
  <2>1. /\ mFlags' = mFlags /\ ready' = ready /\ heard' = heard
        /\ mAsyncPrepareEvent' = mAsyncPrepareEvent /\ ev.pc = "video"
        /\ ev'.pc \in {"audio", "abortRead"}
    BY <1>3, <1>e DEF InitVideoDecoder, Goto, events
  <2>2. mAsyncPrepareEvent # Null
    BY <2>1, <1>e DEF EventIsOnly
  <2>3. UNCHANGED Life!lifeVars
    BY <1>b, <1>d, <2>1, <2>2, LifeStutters
  <2>4. live' # {}
    <3>1. field["mDataSource"] # Null
      BY <2>1, <2>2, <1>e DEF PartsInOrder, EventIsOnly
    <3>2. <<"mDataSource", field["mDataSource"]>> \in live
      BY <2>1, <3>1, <1>e DEF OwnsWhatLives, Owned, Forgotten, Pointers
    <3>3. live \subseteq live'
      BY <1>3 DEF InitVideoDecoder, Keep
    <3> QED BY <3>2, <3>3
  <2> QED BY <1>a, <2>1, <2>3, <2>4 DEF HeardInTime
<1>4. CASE AbortLocked \/ (Begin /\ ev'.pc # "create")
  <2>1. /\ ev.pc \in {"begin", "failed"} /\ AbortPrepare /\ ready' = ready
    BY <1>4, <1>e DEF AbortLocked, Begin, Goto
  <2>2. "PREPARING" \in mFlags
    BY <2>1, <1>e DEF EventIsOnly, PreparingIsPending
  <2>3. /\ mFlags' = Cleared(mFlags) /\ heard' \in {heard, "error"} /\ ev'.pc = "idle"
    BY <2>1, <1>f DEF AbortPrepare, AbortNotifies, Goto
  <2>4. "PREPARING" \notin mFlags' /\ "PREPARED" \notin mFlags' /\ ~ready'
    BY <1>b, <2>1, <2>2, <2>3 DEF Cleared
  <2>5. Quiet' \in BOOLEAN
    BY DEF Quiet
  <2>6. Life!Fail
    BY <1>b, <1>d, <2>2, <2>3, <2>4, <2>5 DEF Life!Fail
  <2>7. HeardInTime'
    BY <2>3, <2>4 DEF HeardInTime
  <2> QED BY <2>6, <2>7 DEF Life!Next
<1>5. CASE AbortRead
  <2>1. /\ ev.pc = "abortRead" /\ ev'.pc = "abortWrite" /\ mFlags' = mFlags /\ ready' = ready
        /\ heard' \in {heard, "error"} /\ live' = live /\ mAsyncPrepareEvent' = mAsyncPrepareEvent
    BY <1>5, <1>e DEF AbortRead, AbortNotifies, objects, events
  <2>2. "PREPARING" \in mFlags /\ heard = "none"
    BY <2>1, <1>a, <1>e DEF EventIsOnly, PreparingIsPending, HeardInTime
  <2>3. HeardInTime'
    BY <2>1, <2>2, <1>a, <1>b DEF HeardInTime
  <2>4. CASE heard' = heard
    BY <1>b, <1>d, <2>1, <2>2, <2>3, <2>4, LifeStutters
  <2>5. CASE heard' = "error"
    <3>1. Life!TellError
      BY <1>b, <1>d, <2>1, <2>2, <2>5 DEF Life!TellError
    <3> QED BY <2>3, <3>1 DEF Life!Next
  <2> QED BY <2>1, <2>4, <2>5
<1>6. CASE AbortWrite
  <2>1. /\ ev.pc = "abortWrite" /\ ev'.pc = "abortFree" /\ mFlags' = Cleared(mFlags)
        /\ ready' = ready /\ heard' = heard /\ live' = live
    BY <1>6, <1>e, <1>f DEF AbortWrite, Goto, objects, HandlerIsAlone
  <2>2. "PREPARING" \in mFlags
    BY <2>1, <1>e DEF EventIsOnly, PreparingIsPending
  <2>3. "PREPARING" \notin mFlags' /\ "PREPARED" \notin mFlags' /\ ~ready'
    BY <1>b, <2>1, <2>2 DEF Cleared
  <2>4. Quiet' \in BOOLEAN
    BY DEF Quiet
  <2>5. Life!Fail
    BY <1>b, <1>d, <2>1, <2>2, <2>3, <2>4 DEF Life!Fail
  <2>6. HeardInTime'
    BY <1>a, <2>1, <2>3 DEF HeardInTime
  <2> QED BY <2>5, <2>6 DEF Life!Next
<1>7. CASE AbortFree \/ FinishDelete
  <2>1. /\ ev.pc \in {"abortFree", "finish2"} /\ ev'.pc = "idle" /\ mFlags' = mFlags
        /\ ready' = ready /\ heard' = heard /\ live' = live
    BY <1>7, <1>f DEF AbortFree, FinishDelete, Goto, objects
  <2>2. "PREPARING" \notin mFlags
    BY <2>1, <1>e DEF PreparingIsPending
  <2>3. Quiet' = Quiet
    BY <1>a, <1>b, <1>d, <2>1 DEF HeardInTime
  <2>4. HeardInTime'
    BY <1>a, <2>1, <2>2 DEF HeardInTime
  <2> QED BY <2>1, <2>3, <2>4, LifeStutters
<1>8. CASE Finish
  <2>1. /\ ev.pc = "finish" /\ ev'.pc = "notify" /\ mFlags' = Cleared(mFlags) \cup {"PREPARED"}
        /\ ready' = ready /\ heard' = heard
    BY <1>8, <1>f DEF Finish, Goto
  <2>2. "PREPARING" \in mFlags /\ heard = "none"
    BY <2>1, <1>a, <1>e DEF EventIsOnly, PreparingIsPending, HeardInTime
  <2>3. "PREPARED" \in mFlags' /\ "PREPARING" \notin mFlags'
    BY <2>1 DEF Cleared
  <2>4. Life!Succeed
    BY <1>b, <1>d, <2>1, <2>2, <2>3 DEF Life!Succeed
  <2>5. HeardInTime'
    BY <2>1, <2>2, <2>3 DEF HeardInTime
  <2> QED BY <2>4, <2>5 DEF Life!Next
<1>9. CASE NotifyPrepared
  <2>1. /\ ev.pc = "notify" /\ ev'.pc = "finish2" /\ mFlags' = mFlags /\ heard' = "prepared"
    BY <1>9, <1>f DEF NotifyPrepared, Goto
  <2>2. "PREPARED" \in mFlags /\ heard = "none" /\ "PREPARING" \notin mFlags
    BY <2>1, <1>a, <1>e DEF HeardInTime, PreparingIsPending
  <2>3. Life!TellPrepared
    BY <1>b, <1>d, <2>1, <2>2 DEF Life!TellPrepared
  <2>4. HeardInTime'
    BY <2>1, <2>2 DEF HeardInTime
  <2> QED BY <2>3, <2>4 DEF Life!Next
<1>10. CASE \/ Reset \/ Destroy \/ QueueStopped \/ Mark \/ CheckConnected \/ TestPreparing \/ Sleep
            \/ Woken \/ UNCHANGED vars
  <2>1. /\ ready' = ready /\ heard' = heard /\ live' = live /\ ev' = ev
    BY <1>10 DEF Reset, EnterReset, Destroy, QueueStopped, Mark, CheckConnected, TestPreparing, Sleep,
                 Woken, objects, vars
  <2>2. posted' = posted
    <3>1. posted = <<>> \/ \E x : posted = <<x>>
      BY <1>e DEF EventIsOnly
    <3>2. BeforeStop(posted) = posted
      BY <3>1 DEF BeforeStop
    <3> QED
      BY <1>10, <3>2 DEF Reset, Destroy, QueueStopped, EnterReset, Mark, CheckConnected,
                         TestPreparing, Sleep, Woken, events, vars
  <2>3. /\ "PREPARING" \in mFlags' <=> "PREPARING" \in mFlags
        /\ "PREPARED" \in mFlags' <=> "PREPARED" \in mFlags
    BY <1>10, <1>e DEF Reset, EnterReset, Destroy, QueueStopped, Mark, CheckConnected, TestPreparing,
                       Sleep, Woken, vars, ResetIsSeen
  <2>4. Quiet' = Quiet
    BY <2>1, <2>2 DEF Quiet
  <2>5. HeardInTime'
    BY <1>a, <2>1, <2>3 DEF HeardInTime
  <2> QED BY <2>1, <2>3, <2>4, <2>5, LifeStutters
<1>11. CASE Free
  <2>1. /\ app.pc = "free" /\ mFlags' = {} /\ ready' = TRUE /\ heard' = heard /\ ev' = ev
    BY <1>11 DEF Free
  <2>2. /\ "PREPARING" \notin mFlags /\ ev.pc \in {"idle", "begin"}
    BY <2>1, <1>e DEF ResetIsSeen, HandlerIsAlone, InReset
  <2>3. "PREPARED" \in mFlags => heard = "prepared"
    BY <1>a, <2>2 DEF HeardInTime
  <2>4. HeardInTime'
    BY <2>1, <2>2 DEF HeardInTime
  <2>5. CASE ready
    <3>1. UNCHANGED Life!lifeVars
      BY <1>b, <1>d, <2>1, <2>5 DEF Life!lifeVars
    <3> QED BY <2>4, <3>1
  <2>6. CASE ~ready
    <3>1. Life!Reset
      BY <1>b, <1>d, <2>1, <2>2, <2>3, <2>6 DEF Life!Reset
    <3> QED BY <2>4, <3>1 DEF Life!Next
  <2> QED BY <2>5, <2>6
<1> QED
  BY <1>1, <1>2, <1>3, <1>4, <1>5, <1>6, <1>7, <1>8, <1>9, <1>10, <1>11
  DEF Next, EventStep, ResetStep

\* When reset() keeps to the quiet moments, the player lives as PlayerLifecycle
\* says: every prepare ends once and says so at most once, a reset neither cuts one
\* short nor leaves anything of it, and what the application hears is of the
\* source it prepared last (NBMediaPlayer's prepareAsync, onPrepareAsyncEvent,
\* reset_l).
THEOREM PlayerLivesAsPromised == ASSUME QuietResets PROVE Spec => ImplementsLifecycle
<1>1. Init => LifeInv
  <2>1. Init => HeardInTime
    BY DEF Init, HeardInTime
  <2> QED BY <2>1, PlayerInvInitially DEF LifeInv
<1>2. LifeInv /\ [Next]_vars => LifeInv'
  BY LifeStep, PlayerInvKept DEF LifeInv
<1>3. LifeInv /\ [Next]_vars => [Life!Next]_(Life!lifeVars)
  BY LifeStep
<1>4. Init => Life!Init
  BY DEF Init, Life!Init, Phase, Quiet
<1> QED
  BY <1>1, <1>2, <1>3, <1>4, PTL DEF Spec, ImplementsLifecycle, Life!Spec

=============================================================================
