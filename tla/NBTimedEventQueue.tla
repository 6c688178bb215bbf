-------------------------- MODULE NBTimedEventQueue --------------------------
(***************************************************************************)
(* The timed event queue of the player (NBTimedEventQueue): clients post   *)
(* events with a due time and cancel them by id, one event thread waits    *)
(* for the head of the list and fires events with the queue lock released, *)
(* and the owner starts the thread, or stops and joins it.                 *)
(*                                                                         *)
(* The player, the audio player and the extractor each own one queue.      *)
(* Every action is one critical section of mLock, or one step taken with   *)
(* the lock released.                                                      *)
(***************************************************************************)
EXTENDS Integers, SequencesExt

CONSTANTS
  Events,       \* the event objects of the clients
  StopEvent,    \* the event stop() posts to itself
  MaxEventID,   \* bound: event ids that are ever given out
  MaxTime,      \* bound: the last clock value, and the last due time
  MaxTimeout,   \* kMaxTimeoutUs: the longest single wait for the head
  Repost        \* whether a client may post an event that is still queued

ASSUME QueueAssumption ==
  /\ StopEvent \notin Events
  /\ MaxEventID \in Nat
  /\ MaxTime \in Nat
  /\ MaxTimeout \in Nat \ {0}
  /\ Repost \in BOOLEAN

VARIABLES
  mQueue,        \* the list of QueueItems, head first
  eventID,       \* mEventID of every event object, 0 when not queued
  mNextEventID,
  mRunning,
  mStopped,
  stop,          \* the call of stop() in progress, if any
  thread,        \* what the event thread is doing
  signalled,     \* condition variables with a wake-up under way
  now            \* the clock, getRealTimeUs()

vars == <<mQueue, eventID, mNextEventID, mRunning, mStopped, stop, thread,
          signalled, now>>

(***************************************************************************)
(* Due times.  INT64_MIN, INT64_MIN + 1 and INT64_MAX are the three times  *)
(* the code reserves; every other due time is a clock value.               *)
(***************************************************************************)
StopTime  == -2
FrontTime == -1
BackTime  == MaxTime + 1
DueTimes  == StopTime .. BackTime

\* A negative or "back" time is due as soon as it is at the head.
IsImmediate(t) == t < 0 \/ t = BackTime
IsDue(t)       == IsImmediate(t) \/ t <= now

AllEvents == Events \cup {StopEvent}
EventIDs  == 0 .. MaxEventID

\* "id" is the id postTimedEvent returned for this item: the code keeps it
\* only in the event object, the item's copy tells two posts of one event
\* object apart.
QueueItem == [event : AllEvents, realtime_us : DueTimes, id : EventIDs]

NoItem  == [event |-> StopEvent, realtime_us |-> StopTime, id |-> 0]
Pending == {mQueue[i] : i \in 1 .. Len(mQueue)}

(***************************************************************************)
(* The event thread: where it is, the event it removed and fires, the id   *)
(* of the head it waits for, and the end and cap of that wait.             *)
(***************************************************************************)
ThreadPCs == {"none", "top", "waitNotEmpty", "waitHead", "fire", "exited"}
At(pc)    == [pc |-> pc, item |-> NoItem, waitID |-> 0, until |-> 0, capped |-> FALSE]
Firing(x) == [At("fire") EXCEPT !.item = x]

NoStop == [id |-> 0, flush |-> FALSE]

-----------------------------------------------------------------------------
(***************************************************************************)
(* List operations.                                                        *)
(***************************************************************************)

\* postTimedEvent's insertion.  pos is the first item due later than the new
\* one, or the list head when there is none; list_add puts the new item
\* right AFTER pos.
Insert(q, item) ==
  LET later == {i \in 1 .. Len(q) : q[i].realtime_us > item.realtime_us}
  IN  IF later = {} THEN InsertAt(q, 1, item)
      ELSE LET pos == CHOOSE i \in later : \A j \in later : i <= j
           IN  InsertAt(q, pos + 1, item)

\* Positions of the items whose event object carries this id now, and the
\* first of them.
Matches(id)    == {i \in 1 .. Len(mQueue) : eventID[mQueue[i].event] = id}
FirstMatch_mut(id) == 1
FirstMatch(id) == CHOOSE i \in Matches(id) : \A j \in Matches(id) : i <= j

Unlink_mut(i) == IF i = 1 THEN Tail(mQueue) ELSE mQueue
Unlink(i)     == RemoveAt(mQueue, i)

-----------------------------------------------------------------------------
Init ==
  /\ mQueue = <<>>
  /\ eventID = [e \in AllEvents |-> 0]
  /\ mNextEventID = 1
  /\ mRunning = FALSE
  /\ mStopped = FALSE
  /\ stop = NoStop
  /\ thread = At("none")
  /\ signalled = {}
  /\ now = 0

(***************************************************************************)
(* Clients.                                                                *)
(***************************************************************************)

\* A signal wakes the event thread only if it waits on that condition.
Signal(conds) ==
  signalled' = signalled \cup
    {c \in conds : \/ c = "NotEmpty" /\ thread.pc = "waitNotEmpty"
                   \/ c = "HeadChanged" /\ thread.pc = "waitHead"}

\* The conditions a post signals, and those the cancelling of item i signals.
\* (The operators named ..._mut are the plausible mistakes the properties
\* below are tested against; the specification does not use them.)
PostSignals_mut == IF mQueue = <<>> THEN {"HeadChanged"} ELSE {"NotEmpty"}
PostSignals == {"NotEmpty"} \cup (IF mQueue = <<>> THEN {"HeadChanged"} ELSE {})

CancelSignals_mut(i) == {}
CancelSignals(i) == IF i = 1 THEN {"HeadChanged"} ELSE {}

PostTimedEvent(e, t) ==
  /\ mNextEventID <= MaxEventID
  /\ eventID' = [eventID EXCEPT ![e] = mNextEventID]
  /\ mNextEventID' = mNextEventID + 1
  /\ mQueue' = Insert(mQueue, [event |-> e, realtime_us |-> t, id |-> mNextEventID])
  /\ Signal(PostSignals)

\* postEvent, postEventToBack and postEventWithDelay differ in the time.  The
\* last reads the clock before it takes the lock: its time may have passed.
Post(e) ==
  /\ Repost \/ \A x \in Pending : x.event # e
  /\ \E t \in {FrontTime, BackTime} \cup (0 .. MaxTime) : PostTimedEvent(e, t)
  /\ UNCHANGED <<mRunning, mStopped, stop, thread, now>>

\* cancelEvent(id) with stopAtFirstMatch, as every caller uses it.  The id was
\* read from an event object before the lock was taken: it may be stale.
CancelEvent(id) ==
  /\ id \in 1 .. mNextEventID - 1 /\ id # stop.id
  /\ Matches(id) # {}
  /\ LET i == FirstMatch(id) IN
       /\ eventID' = [eventID EXCEPT ![mQueue[i].event] = 0]
       /\ mQueue' = Unlink(i)
       /\ Signal(CancelSignals(i))
  /\ UNCHANGED <<mNextEventID, mRunning, mStopped, stop, thread, now>>

(***************************************************************************)
(* The owner: start(), and stop() up to and after the join.                *)
(***************************************************************************)
Start ==
  /\ ~mRunning
  /\ mStopped' = FALSE
  /\ mRunning' = TRUE
  /\ thread' = At("top")
  /\ UNCHANGED <<mQueue, eventID, mNextEventID, stop, signalled, now>>

StopCall(flush) ==
  /\ mRunning /\ stop = NoStop
  /\ PostTimedEvent(StopEvent, IF flush THEN BackTime ELSE StopTime)
  /\ stop' = [id |-> mNextEventID, flush |-> flush]
  /\ UNCHANGED <<mRunning, mStopped, thread, now>>

\* pthread_join returned: the items left are freed (their events keep their
\* ids) and the queue is no longer running.
StopJoined ==
  /\ stop # NoStop /\ thread.pc = "exited"
  /\ mQueue' = <<>>
  /\ stop' = NoStop
  /\ thread' = At("none")
  /\ mRunning' = FALSE
  /\ UNCHANGED <<eventID, mNextEventID, mStopped, signalled, now>>

(***************************************************************************)
(* The event thread.                                                       *)
(***************************************************************************)

\* removeEventFromQueue_l(id), then the lock is released and the event, if
\* one was found, is fired.
RemoveAndFire(id) ==
  IF Matches(id) = {}
  THEN thread' = At("top") /\ UNCHANGED <<mQueue, eventID>>
  ELSE LET i == FirstMatch(id) IN
         /\ thread' = Firing(mQueue[i])
         /\ eventID' = [eventID EXCEPT ![mQueue[i].event] = 0]
         /\ mQueue' = Unlink(i)

\* One turn of the inner loop on a non-empty list: fire the head if it is due,
\* else wait for it, at most MaxTimeout.
ExamineHead ==
  LET item  == mQueue[1]
      delay == item.realtime_us - now
  IN  IF IsDue(item.realtime_us)
      THEN RemoveAndFire(eventID[item.event])
      ELSE /\ thread' = [At("waitHead") EXCEPT
                           !.waitID = eventID[item.event],
                           !.until  = now + (IF delay > MaxTimeout THEN MaxTimeout ELSE delay),
                           !.capped = delay > MaxTimeout]
           /\ UNCHANGED <<mQueue, eventID>>

ThreadUnchanged == UNCHANGED <<mNextEventID, mRunning, stop, now>>

\* The top of the outer loop.
ThreadTop ==
  /\ thread.pc = "top"
  /\ IF mStopped THEN thread' = At("exited") /\ UNCHANGED <<mQueue, eventID>>
     ELSE IF mQueue = <<>> THEN thread' = At("waitNotEmpty") /\ UNCHANGED <<mQueue, eventID>>
     ELSE ExamineHead
  /\ UNCHANGED <<mStopped, signalled>> /\ ThreadUnchanged

\* mQueueNotEmptyCondition.wait returned; the while loop tests the list again.
WakeNotEmpty ==
  /\ thread.pc = "waitNotEmpty" /\ "NotEmpty" \in signalled
  /\ signalled' = signalled \ {"NotEmpty"}
  /\ IF mQueue = <<>> THEN UNCHANGED <<thread, mQueue, eventID>> ELSE ExamineHead
  /\ UNCHANGED mStopped /\ ThreadUnchanged

\* mQueueHeadChangedCondition.waitRelative returned on a signal, or after a
\* capped wait: the inner loop turns again.
WakeHead ==
  /\ thread.pc = "waitHead"
  /\ "HeadChanged" \in signalled \/ (thread.capped /\ now >= thread.until)
  /\ signalled' = signalled \ {"HeadChanged"}
  /\ IF mQueue = <<>> THEN RemoveAndFire(thread.waitID) ELSE ExamineHead
  /\ UNCHANGED mStopped /\ ThreadUnchanged

\* The uncapped wait timed out: the event waited for is removed by its id,
\* wherever it is now.
TimedOut_mut == now >= thread.until
TimedOut     == now >= thread.until /\ ~thread.capped

HeadTimeout ==
  /\ thread.pc = "waitHead" /\ TimedOut
  /\ signalled' = signalled \ {"HeadChanged"}
  /\ RemoveAndFire(thread.waitID)
  /\ UNCHANGED mStopped /\ ThreadUnchanged

\* event->fire(): a client's handler, whose calls of the queue are the
\* clients' actions above, or the StopEvent's.
StopsThread_mut(e) == FALSE
StopsThread(e)     == e = StopEvent

FireDone ==
  /\ thread.pc = "fire"
  /\ mStopped' = (mStopped \/ StopsThread(thread.item.event))
  /\ thread' = At("top")
  /\ UNCHANGED <<mQueue, eventID, signalled>> /\ ThreadUnchanged

Tick ==
  /\ now < MaxTime
  /\ now' = now + 1
  /\ UNCHANGED <<mQueue, eventID, mNextEventID, mRunning, mStopped, stop, thread, signalled>>

ThreadStep == ThreadTop \/ WakeNotEmpty \/ WakeHead \/ HeadTimeout \/ FireDone

Next ==
  \/ \E e \in Events : Post(e)
  \/ \E id \in EventIDs : CancelEvent(id)
  \/ Start
  \/ \E flush \in BOOLEAN : StopCall(flush)
  \/ StopJoined
  \/ ThreadStep
  \/ Tick

Spec == Init /\ [][Next]_vars

\* The scheduler runs the event thread, time passes, and a join whose thread
\* has exited returns.  Clients and the owner owe nothing.
Fairness == WF_vars(ThreadStep) /\ WF_vars(Tick) /\ WF_vars(StopJoined)
FairSpec == Spec /\ Fairness

-----------------------------------------------------------------------------
(***************************************************************************)
(* Properties.  Those that name an id, or a time at which events fire,     *)
(* hold while no client posts an event that is still queued (Repost =      *)
(* FALSE), the discipline the pending flags of the player, the audio       *)
(* player and the extractor are there for.  NoLostWakeup, HeadNotOverslept *)
(* and CountsItems hold whatever the clients post.                         *)
(***************************************************************************)

\* The types; the end of a wait for the head is always a clock value.
TypeOK ==
  /\ mQueue \in Seq(QueueItem)
  /\ eventID \in [AllEvents -> EventIDs]
  /\ mNextEventID \in 1 .. MaxEventID + 1
  /\ mRunning \in BOOLEAN /\ mStopped \in BOOLEAN
  /\ stop \in [id : EventIDs, flush : BOOLEAN]
  /\ thread \in [pc : ThreadPCs, item : QueueItem, waitID : EventIDs,
                 until : 0 .. MaxTime, capped : BOOLEAN]
  /\ signalled \subseteq {"NotEmpty", "HeadChanged"}
  /\ now \in 0 .. MaxTime

\* Every queued item can be cancelled: its event object still carries the id
\* its post returned, and is queued once.
QueuedIDsAgree ==
  /\ \A i \in 1 .. Len(mQueue) : mQueue[i].id # 0 /\ eventID[mQueue[i].event] = mQueue[i].id
  /\ \A i, j \in 1 .. Len(mQueue) : mQueue[i].event = mQueue[j].event => i = j

\* The rest of what makes QueuedIDsAgree inductive: ids given out are fresh
\* and no two event objects share one, the stop event is queued by a stop()
\* in progress only, and while the thread waits, the item it waits for, if
\* still queued, is due when the wait ends (later, if the wait is capped).
IDsAreFresh ==
  /\ stop.id < mNextEventID /\ thread.waitID < mNextEventID
  /\ \A i \in 1 .. Len(mQueue) : mQueue[i].id < mNextEventID
  /\ \A e \in AllEvents : eventID[e] < mNextEventID
  /\ \A e, f \in AllEvents : eventID[e] # 0 /\ eventID[e] = eventID[f] => e = f

StopEventIsStops == stop = NoStop => \A i \in 1 .. Len(mQueue) : mQueue[i].event # StopEvent

ThreadHoldsItem == (thread.pc = "fire" /\ thread.item.id # 0) \/ (thread.pc # "fire" /\ thread.item = NoItem)

WaitsForItsItem ==
  thread.pc = "waitHead" =>
    \A i \in 1 .. Len(mQueue) : mQueue[i].id = thread.waitID =>
      IF thread.capped THEN thread.until < mQueue[i].realtime_us
      ELSE thread.until = mQueue[i].realtime_us

QueueInv ==
  /\ TypeOK /\ QueuedIDsAgree /\ IDsAreFresh /\ StopEventIsStops
  /\ ThreadHoldsItem /\ WaitsForItsItem

\* An event never fires before its time, although the thread removes it by an
\* id it read before it slept, from a list that changed while it slept.
NeverEarly == thread.pc = "fire" => IsDue(thread.item.realtime_us)

\* The thread never sleeps on "queue empty" while something is queued.
NoLostWakeup == thread.pc = "waitNotEmpty" /\ mQueue # <<>> => "NotEmpty" \in signalled

\* The thread never sleeps past the time of the item at the head, whatever was
\* posted or cancelled since it went to sleep.
HeadNotOverslept ==
  thread.pc = "waitHead" /\ "HeadChanged" \notin signalled /\ mQueue # <<>>
    => thread.until <= mQueue[1].realtime_us

\* cancelEvent(id), which compares the ids event objects carry now, takes out
\* the very post that returned id, and nothing else.
CancelTakesItsPost ==
  [][\A id \in EventIDs : CancelEvent(id) =>
       /\ \E x \in Pending : x.id = id
       /\ Pending' = {x \in Pending : x.id # id}]_vars

\* The queue implements the pool of pending posts: each is handled at most
\* once, one at a time and not before its time.
Pool == INSTANCE EventPool WITH
  Posts <- QueueItem, NoPost <- NoItem,
  Immediate <- {t \in DueTimes : IsImmediate(t)},
  pending <- Pending, firing <- thread.item, nextID <- mNextEventID, clock <- now

ImplementsPool == Pool!Spec

\* Whatever clients post, an event object posted again while it is queued
\* included, the queue keeps count of every object's items, takes out one at a
\* time, and loses the id of an object with the first item it takes out.
ItemsOf(e) == {x \in Pending : x.event = e}
ItemCounts ==
  [posted |-> [e \in AllEvents |-> Cardinality(ItemsOf(e))],
   id     |-> [e \in AllEvents |-> eventID[e] # 0],
   firing |-> IF thread.pc = "fire" THEN {thread.item.event} ELSE {}]
Counted == INSTANCE PostedEvents WITH Objects <- AllEvents, queue <- ItemCounts
CountsItems == Counted!Spec

\* A post that is due later than every queued one goes in FRONT of them all,
\* one that is not goes behind the first item due later: either way it may
\* overtake an item of an earlier time, the stop event's included.  An event
\* that posts itself again with a later time whenever it fires, as the
\* player's video event does, overtakes for ever, and what it overtakes is
\* never reached.  The step in which the item of a post is overtaken:
Queued(id)    == mRunning /\ \E x \in Pending : x.id = id
Overtaken(id) ==
  \E i \in 1 .. Len(mQueue), j \in 1 .. Len(mQueue') :
    mQueue[i].id = id /\ mQueue'[j].id = id /\ i < j

\* A post that is not overtaken again and again does not stay in a running
\* queue: it is fired, cancelled, or freed by stop(), whatever the queue holds
\* and whatever is cancelled while the thread waits.  (A finite instance gives
\* out finitely many ids, so the premise is true of each of its behaviours;
\* the code gives no such promise to its clients.)
EveryPostResolved ==
  \A id \in 1 .. MaxEventID :
    <>[][~Overtaken(id)]_vars => (Queued(id) ~> ~Queued(id))

\* stop() returns, with events of the future queued or not, unless handlers
\* overtake its event again and again (the same remark holds here).
StopReturns ==
  \A id \in 1 .. MaxEventID :
    <>[][~Overtaken(id)]_vars => (stop.id = id ~> stop.id # id)

=============================================================================
