----------------------- MODULE NBTimedEventQueue_proofs -----------------------
(***************************************************************************)
(* Proofs about the timed event queue, for any number of events, ids and   *)
(* clock values: first what holds whatever the clients post, then what     *)
(* holds when no client posts an event that is still queued.               *)
(***************************************************************************)
EXTENDS NBTimedEventQueue, SequenceLemmas, FiniteSetTheorems

(***************************************************************************)
(* Lemmas about the list operations.                                       *)
(***************************************************************************)

\* The insertion puts the item somewhere, and at the head only when no queued
\* item is due later.
LEMMA InsertPosition ==
  ASSUME NEW q \in Seq(QueueItem), NEW item \in QueueItem
  PROVE  \E p \in 1 .. Len(q) + 1 :
           /\ Insert(q, item) = InsertAt(q, p, item)
           /\ p = 1 => \A i \in 1 .. Len(q) : q[i].realtime_us <= item.realtime_us
<1> DEFINE later == {i \in 1 .. Len(q) : q[i].realtime_us > item.realtime_us}
           pos   == CHOOSE i \in later : \A j \in later : i <= j
<1>1. /\ item.realtime_us \in Int
      /\ \A i \in 1 .. Len(q) : q[i].realtime_us \in Int
  <2>1. DueTimes \subseteq Int
    BY DEF DueTimes
  <2>2. \A i \in 1 .. Len(q) : q[i] \in QueueItem
    OBVIOUS
  <2> QED BY <2>1, <2>2 DEF QueueItem
<1>2. CASE later = {}
  <2>1. Insert(q, item) = InsertAt(q, 1, item)
    BY <1>2 DEF Insert
  <2>2. \A i \in 1 .. Len(q) : q[i].realtime_us <= item.realtime_us
    BY <1>1, <1>2
  <2> QED BY <2>1, <2>2
<1>3. CASE later # {}
  <2>1. \E i \in later : \A j \in later : i <= j
    <3>1. later \in SUBSET Nat
      OBVIOUS
    <3> HIDE DEF later
    <3> QED BY <3>1, <1>3, LeastElement
  <2>2. pos \in later
    BY <2>1
  <2>3. Insert(q, item) = InsertAt(q, pos + 1, item)
    BY <1>3 DEF Insert
  <2>4. pos + 1 \in 1 .. Len(q) + 1 /\ pos + 1 # 1
    BY <2>2
  <2> HIDE DEF pos, later
  <2> QED BY <2>3, <2>4
<1> QED BY <1>2, <1>3

\* r is q with the item inserted: o says where each element comes from, 0 being
\* the new item, which is at the head only when no queued item is due later.
Inserted(r, q, item, o) ==
  /\ o \in [1 .. Len(q) + 1 -> 0 .. Len(q)]
  /\ \A k \in 1 .. Len(q) + 1 : r[k] = IF o[k] = 0 THEN item ELSE q[o[k]]
  /\ \A j, k \in 1 .. Len(q) + 1 : o[j] = o[k] => j = k
  /\ \A i \in 0 .. Len(q) : \E k \in 1 .. Len(q) + 1 : o[k] = i
  /\ o[1] \in {0, 1}
  /\ o[1] = 0 => \A i \in 1 .. Len(q) : q[i].realtime_us <= item.realtime_us

LEMMA InsertFacts ==
  ASSUME NEW q \in Seq(QueueItem), NEW item \in QueueItem
  PROVE  /\ Insert(q, item) \in Seq(QueueItem)
         /\ Len(Insert(q, item)) = Len(q) + 1
         /\ \E o : Inserted(Insert(q, item), q, item, o)
<1>1. PICK p \in 1 .. Len(q) + 1 :
        /\ Insert(q, item) = InsertAt(q, p, item)
        /\ p = 1 => \A i \in 1 .. Len(q) : q[i].realtime_us <= item.realtime_us
  BY InsertPosition
<1>2a. InsertAt(q, p, item) \in Seq(QueueItem) /\ IsInsertion(InsertAt(q, p, item), q, p, item)
  BY InsertAtFacts
<1>2. /\ InsertAt(q, p, item) \in Seq(QueueItem)
      /\ Len(InsertAt(q, p, item)) = Len(q) + 1
      /\ \A k \in 1 .. Len(q) + 1 : InsertAt(q, p, item)[k] =
           IF k < p THEN q[k] ELSE IF k = p THEN item ELSE q[k - 1]
  BY <1>2a DEF IsInsertion
<1> DEFINE r == Insert(q, item)
           o == [k \in 1 .. Len(q) + 1 |-> IF k < p THEN k ELSE IF k = p THEN 0 ELSE k - 1]
<1>3. o \in [1 .. Len(q) + 1 -> 0 .. Len(q)]
  OBVIOUS
<1>4. \A k \in 1 .. Len(q) + 1 : r[k] = IF o[k] = 0 THEN item ELSE q[o[k]]
  BY <1>1, <1>2
<1>5. \A j, k \in 1 .. Len(q) + 1 : o[j] = o[k] => j = k
  OBVIOUS
<1>6. ASSUME NEW i \in 0 .. Len(q)
      PROVE  \E k \in 1 .. Len(q) + 1 : o[k] = i
  <2>1. CASE i = 0
    BY <2>1
  <2>2. CASE i # 0 /\ i < p
    BY <2>2
  <2>3. CASE i # 0 /\ i >= p
    <3>1. i + 1 \in 1 .. Len(q) + 1 /\ o[i + 1] = i
      BY <2>3
    <3> QED BY <3>1
  <2> QED BY <2>1, <2>2, <2>3
<1>7. o[1] \in {0, 1} /\ (o[1] = 0 => p = 1)
  OBVIOUS
<1>8. r \in Seq(QueueItem) /\ Len(r) = Len(q) + 1
  BY <1>1, <1>2
<1> HIDE DEF o, r
<1> QED BY <1>1, <1>3, <1>4, <1>5, <1>6, <1>7, <1>8 DEF r, Inserted

\* r is q without its element p: o says where each element comes from.
Removed(r, q, p, o) ==
  /\ o \in [1 .. Len(q) - 1 -> 1 .. Len(q)]
  /\ \A k \in 1 .. Len(q) - 1 : r[k] = q[o[k]] /\ o[k] # p
  /\ \A j, k \in 1 .. Len(q) - 1 : o[j] = o[k] => j = k
  /\ \A i \in 1 .. Len(q) : i # p => \E k \in 1 .. Len(q) - 1 : o[k] = i
  /\ p # 1 => o[1] = 1

LEMMA RemoveFacts ==
  ASSUME NEW q \in Seq(QueueItem), NEW p \in 1 .. Len(q)
  PROVE  /\ RemoveAt(q, p) \in Seq(QueueItem)
         /\ Len(RemoveAt(q, p)) = Len(q) - 1
         /\ \E o : Removed(RemoveAt(q, p), q, p, o)
<1> DEFINE r == RemoveAt(q, p)
           o == [k \in 1 .. Len(q) - 1 |-> IF k < p THEN k ELSE k + 1]
<1>1. /\ r \in Seq(QueueItem) /\ Len(r) = Len(q) - 1
      /\ \A k \in 1 .. Len(q) - 1 : r[k] = IF k < p THEN q[k] ELSE q[k + 1]
  BY RemoveAtFacts
<1> HIDE DEF r
<1>2. o \in [1 .. Len(q) - 1 -> 1 .. Len(q)]
  OBVIOUS
<1>3. \A k \in 1 .. Len(q) - 1 : r[k] = q[o[k]] /\ o[k] # p
  BY <1>1
<1>4. \A j, k \in 1 .. Len(q) - 1 : o[j] = o[k] => j = k
  OBVIOUS
<1>5. ASSUME NEW i \in 1 .. Len(q), i # p
      PROVE  \E k \in 1 .. Len(q) - 1 : o[k] = i
  <2>1. CASE i < p
    BY <2>1
  <2>2. CASE i > p
    <3>1. i - 1 \in 1 .. Len(q) - 1 /\ o[i - 1] = i
      BY <2>2
    <3> QED BY <3>1
  <2> QED BY <1>5, <2>1, <2>2
<1>6. p # 1 => o[1] = 1
  OBVIOUS
<1> HIDE DEF o
<1> QED BY <1>1, <1>2, <1>3, <1>4, <1>5, <1>6 DEF r, Removed

\* FirstMatch is the first of the matches.
LEMMA FirstMatchFacts ==
  ASSUME NEW id, Matches(id) # {}
  PROVE  /\ FirstMatch(id) \in Matches(id)
         /\ \A j \in Matches(id) : FirstMatch(id) <= j
<1>1. \E i \in Matches(id) : \A j \in Matches(id) : i <= j
  <2>1. Matches(id) \in SUBSET Nat
    BY DEF Matches
  <2> QED BY <2>1, LeastElement
<1> QED BY <1>1 DEF FirstMatch

-----------------------------------------------------------------------------
(***************************************************************************)
(* What holds of the list whatever the clients post, an event that is      *)
(* still queued included.                                                  *)
(***************************************************************************)

\* No two items have one id, although several may have one event object.
ItemsApart ==
  /\ \A i \in 1 .. Len(mQueue) : mQueue[i].id # 0
  /\ \A i, j \in 1 .. Len(mQueue) : mQueue[i].id = mQueue[j].id => i = j

ListInv == TypeOK /\ IDsAreFresh /\ ItemsApart

ThreadType == [pc : ThreadPCs, item : QueueItem, waitID : EventIDs,
               until : 0 .. MaxTime, capped : BOOLEAN]

\* What a thread that is not waiting for the head looks like.
LEMMA ThreadIsAt ==
  ASSUME NEW pc \in ThreadPCs
  PROVE  /\ At(pc) \in ThreadType /\ NoItem \in QueueItem
         /\ At(pc).pc = pc /\ At(pc).item = NoItem /\ At(pc).waitID = 0
<1>1. NoItem \in QueueItem /\ 0 \in EventIDs /\ 0 \in 0 .. MaxTime
  BY QueueAssumption DEF NoItem, QueueItem, AllEvents, DueTimes, StopTime, BackTime, EventIDs
<1> QED BY <1>1 DEF At, ThreadType

LEMMA ThreadIsFiring ==
  ASSUME NEW x \in QueueItem
  PROVE  /\ Firing(x) \in ThreadType
         /\ Firing(x).pc = "fire" /\ Firing(x).item = x /\ Firing(x).waitID = 0
<1>1. At("fire") \in ThreadType
  BY ThreadIsAt DEF ThreadPCs
<1> QED BY <1>1 DEF Firing, At, ThreadType

\* Steps that leave the list and the ids alone.
LEMMA SameListKept ==
  ASSUME ListInv, UNCHANGED <<mQueue, eventID, mNextEventID>>,
         mRunning' \in BOOLEAN, mStopped' \in BOOLEAN, now' \in 0 .. MaxTime,
         signalled' \subseteq {"NotEmpty", "HeadChanged"},
         stop' = stop, thread' \in ThreadType, thread'.waitID < mNextEventID
  PROVE  ListInv'
BY DEF ListInv, TypeOK, IDsAreFresh, ItemsApart, ThreadType

\* A post gives out a fresh id.
LEMMA PostKeepsList ==
  ASSUME ListInv, NEW e \in AllEvents, NEW t \in DueTimes, PostTimedEvent(e, t),
         UNCHANGED <<mRunning, mStopped, thread, now>>,
         \/ UNCHANGED stop
         \/ stop'.id = mNextEventID /\ stop' \in [id : EventIDs, flush : BOOLEAN]
  PROVE  ListInv'
<1> DEFINE item == [event |-> e, realtime_us |-> t, id |-> mNextEventID]
<1> USE DEF ListInv
<1>1. /\ mNextEventID \in EventIDs /\ mNextEventID \in Nat \ {0}
      /\ mNextEventID' = mNextEventID + 1
      /\ mNextEventID' \in 1 .. MaxEventID + 1
  BY QueueAssumption DEF TypeOK, PostTimedEvent, EventIDs
<1>2. item \in QueueItem /\ item.event = e /\ item.id = mNextEventID
  BY <1>1 DEF QueueItem
<1>3. mQueue \in Seq(QueueItem) /\ mQueue' = Insert(mQueue, item)
  BY DEF TypeOK, PostTimedEvent
<1>4. eventID' = [eventID EXCEPT ![e] = mNextEventID] /\ eventID \in [AllEvents -> EventIDs]
  BY DEF TypeOK, PostTimedEvent
<1> HIDE DEF item
<1>5. mQueue' \in Seq(QueueItem) /\ Len(mQueue') = Len(mQueue) + 1
  BY <1>2, <1>3, InsertFacts
<1>6a. PICK o : Inserted(mQueue', mQueue, item, o)
  BY <1>2, <1>3, InsertFacts
<1>6. \A k \in 1 .. Len(mQueue') :
        /\ o[k] \in 0 .. Len(mQueue)
        /\ mQueue'[k] = IF o[k] = 0 THEN item ELSE mQueue[o[k]]
        /\ \A j \in 1 .. Len(mQueue') : o[j] = o[k] => j = k
  BY <1>5, <1>6a DEF Inserted
<1>7. \A i \in 1 .. Len(mQueue) :
        mQueue[i].id \in Nat /\ mQueue[i].id < mNextEventID /\ mQueue[i].id # 0
  <2>1. \A i \in 1 .. Len(mQueue) : mQueue[i] \in QueueItem
    BY <1>3
  <2> QED BY <2>1 DEF QueueItem, EventIDs, IDsAreFresh, ItemsApart
<1>8. TypeOK'
  <2>1. signalled' \subseteq {"NotEmpty", "HeadChanged"}
    BY DEF TypeOK, PostTimedEvent, Signal
  <2>2. stop' \in [id : EventIDs, flush : BOOLEAN]
    BY DEF TypeOK
  <2>3. eventID' \in [AllEvents -> EventIDs]
    BY <1>1, <1>4
  <2> QED BY <1>1, <1>5, <2>1, <2>2, <2>3 DEF TypeOK
<1>9. IDsAreFresh'
  <2>1. stop'.id < mNextEventID' /\ thread'.waitID < mNextEventID'
    BY <1>1 DEF IDsAreFresh, TypeOK, EventIDs
  <2>2. \A k \in 1 .. Len(mQueue') : mQueue'[k].id < mNextEventID'
    BY <1>1, <1>2, <1>6, <1>7
  <2>3. \A f \in AllEvents : eventID'[f] < mNextEventID'
    BY <1>1, <1>4 DEF IDsAreFresh, EventIDs
  <2>4. \A f, g \in AllEvents : eventID'[f] # 0 /\ eventID'[f] = eventID'[g] => f = g
    BY <1>1, <1>4 DEF IDsAreFresh, EventIDs
  <2> QED BY <2>1, <2>2, <2>3, <2>4 DEF IDsAreFresh
<1>10. ItemsApart'
  <2>1. \A k \in 1 .. Len(mQueue') : mQueue'[k].id # 0
    BY <1>1, <1>2, <1>6, <1>7
  <2>2. ASSUME NEW j \in 1 .. Len(mQueue'), NEW k \in 1 .. Len(mQueue'),
               mQueue'[j].id = mQueue'[k].id
        PROVE  j = k
    <3>1. CASE o[j] = 0 \/ o[k] = 0
      BY <1>2, <1>6, <1>7, <2>2, <3>1
    <3>2. CASE o[j] # 0 /\ o[k] # 0
      <4>1. /\ o[j] \in 1 .. Len(mQueue) /\ mQueue'[j] = mQueue[o[j]]
            /\ o[k] \in 1 .. Len(mQueue) /\ mQueue'[k] = mQueue[o[k]]
        BY <1>6, <3>2
      <4>2. o[j] = o[k]
        BY <2>2, <4>1 DEF ItemsApart
      <4> QED BY <1>6, <4>2
    <3> QED BY <3>1, <3>2
  <2> QED BY <2>1, <2>2 DEF ItemsApart
<1> QED BY <1>8, <1>9, <1>10

\* So does taking one item out, with its event's id reset.
LEMMA TakeKeepsList ==
  ASSUME ListInv, NEW p \in 1 .. Len(mQueue), mQueue' = Unlink(p),
         eventID' = [eventID EXCEPT ![mQueue[p].event] = 0],
         UNCHANGED <<mNextEventID, mRunning, stop, now>>, mStopped' \in BOOLEAN,
         signalled' \subseteq {"NotEmpty", "HeadChanged"},
         thread' \in ThreadType, thread'.waitID < mNextEventID
  PROVE  ListInv'
<1> USE DEF ListInv
<1>1. mQueue \in Seq(QueueItem) /\ mQueue' = RemoveAt(mQueue, p)
  BY DEF TypeOK, Unlink
<1>2. mQueue' \in Seq(QueueItem) /\ Len(mQueue') = Len(mQueue) - 1
  BY <1>1, RemoveFacts
<1>3. PICK o : Removed(mQueue', mQueue, p, o)
  BY <1>1, RemoveFacts
<1>4. \A k \in 1 .. Len(mQueue') :
        /\ o[k] \in 1 .. Len(mQueue) /\ mQueue'[k] = mQueue[o[k]]
        /\ \A j \in 1 .. Len(mQueue') : o[j] = o[k] => j = k
  BY <1>2, <1>3 DEF Removed
<1>5. /\ eventID \in [AllEvents -> EventIDs] /\ 0 \in EventIDs
      /\ mNextEventID \in Nat \ {0}
  BY QueueAssumption DEF TypeOK, EventIDs
<1>6. \A e \in AllEvents : eventID'[e] = IF e = mQueue[p].event THEN 0 ELSE eventID[e]
  BY <1>5
<1>7. TypeOK'
  <2>1. eventID' \in [AllEvents -> EventIDs]
    BY <1>5
  <2> QED BY <1>2, <2>1 DEF TypeOK, ThreadType
<1>8. IDsAreFresh'
  <2>1. \A k \in 1 .. Len(mQueue') : mQueue'[k].id < mNextEventID
    BY <1>4 DEF IDsAreFresh
  <2>2. \A e \in AllEvents : eventID'[e] < mNextEventID
    BY <1>5, <1>6 DEF IDsAreFresh
  <2>3. \A e, f \in AllEvents : eventID'[e] # 0 /\ eventID'[e] = eventID'[f] => e = f
    BY <1>6 DEF IDsAreFresh
  <2> QED BY <2>1, <2>2, <2>3 DEF IDsAreFresh
<1>9. ItemsApart'
  <2>1. \A k \in 1 .. Len(mQueue') : mQueue'[k].id # 0
    BY <1>4 DEF ItemsApart
  <2>2. ASSUME NEW j \in 1 .. Len(mQueue'), NEW k \in 1 .. Len(mQueue'),
               mQueue'[j].id = mQueue'[k].id
        PROVE  j = k
    <3>1. o[j] = o[k]
      BY <1>4, <2>2 DEF ItemsApart
    <3> QED BY <1>4, <3>1
  <2> QED BY <2>1, <2>2 DEF ItemsApart
<1> QED BY <1>7, <1>8, <1>9

\* What the steps of the event thread have in common.
ThreadFrame ==
  /\ UNCHANGED <<mNextEventID, mRunning, stop, now>>
  /\ mStopped' \in BOOLEAN
  /\ signalled' \subseteq {"NotEmpty", "HeadChanged"}

LEMMA FirstMatchIsQueued ==
  ASSUME ListInv, NEW id, Matches(id) # {}
  PROVE  /\ FirstMatch(id) \in 1 .. Len(mQueue)
         /\ mQueue[FirstMatch(id)] \in QueueItem
         /\ eventID[mQueue[FirstMatch(id)].event] = id
<1>1. /\ FirstMatch(id) \in 1 .. Len(mQueue)
      /\ eventID[mQueue[FirstMatch(id)].event] = id
  BY FirstMatchFacts DEF Matches
<1> QED BY <1>1 DEF ListInv, TypeOK

LEMMA RemoveAndFireKeepsList ==
  ASSUME ListInv, NEW id, RemoveAndFire(id), ThreadFrame
  PROVE  ListInv'
<1>1. 0 < mNextEventID
  BY DEF ListInv, TypeOK
<1>2. CASE Matches(id) = {}
  <2>1. thread' \in ThreadType /\ thread'.waitID = 0 /\ UNCHANGED <<mQueue, eventID>>
    BY <1>2, ThreadIsAt DEF RemoveAndFire, ThreadPCs
  <2> QED BY <1>1, <2>1, SameListKept DEF ThreadFrame, ListInv, TypeOK
<1>3. CASE Matches(id) # {}
  <2> DEFINE p == FirstMatch(id)
  <2>1. p \in 1 .. Len(mQueue) /\ mQueue[p] \in QueueItem
    BY <1>3, FirstMatchIsQueued
  <2>2. /\ mQueue' = Unlink(p)
        /\ eventID' = [eventID EXCEPT ![mQueue[p].event] = 0]
        /\ thread' = Firing(mQueue[p])
    BY <1>3 DEF RemoveAndFire
  <2> HIDE DEF p
  <2>3. thread' \in ThreadType /\ thread'.waitID = 0
    BY <2>1, <2>2, ThreadIsFiring
  <2> QED BY <1>1, <2>1, <2>2, <2>3, TakeKeepsList DEF ThreadFrame
<1> QED BY <1>2, <1>3

\* A head that is not due is waited for until it is, or until the cap of the wait.
LEMMA HeadIsAwaited ==
  ASSUME ListInv, mQueue # <<>>, ExamineHead, ~IsDue(mQueue[1].realtime_us)
  PROVE  /\ thread' \in ThreadType /\ thread'.pc = "waitHead" /\ thread'.item = NoItem
         /\ thread'.waitID = eventID[mQueue[1].event]
         /\ IF thread'.capped THEN thread'.until < mQueue[1].realtime_us
            ELSE thread'.until = mQueue[1].realtime_us
         /\ UNCHANGED <<mQueue, eventID>>
<1> DEFINE t == mQueue[1].realtime_us
<1>1. mQueue[1] \in QueueItem /\ eventID[mQueue[1].event] \in EventIDs
  <2>1. mQueue[1] \in QueueItem
    BY DEF ListInv, TypeOK
  <2> QED BY <2>1 DEF ListInv, TypeOK, QueueItem
<1>2. /\ t \in Int /\ now \in Int /\ 0 <= now /\ now < t /\ t <= MaxTime
      /\ MaxTime \in Nat /\ MaxTimeout \in Nat \ {0}
  <2>1. t \in DueTimes /\ now \in 0 .. MaxTime
    BY <1>1 DEF QueueItem, ListInv, TypeOK
  <2>2. MaxTime \in Nat /\ MaxTimeout \in Nat \ {0}
    BY QueueAssumption
  <2> QED BY <2>1, <2>2 DEF IsDue, IsImmediate, DueTimes, StopTime, BackTime
<1>3. /\ thread'.pc = "waitHead" /\ thread'.item = NoItem
      /\ thread'.waitID = eventID[mQueue[1].event]
      /\ thread'.until = now + (IF t - now > MaxTimeout THEN MaxTimeout ELSE t - now)
      /\ thread'.capped = (t - now > MaxTimeout)
      /\ thread' \in [pc : {"waitHead"}, item : {NoItem}, waitID : {eventID[mQueue[1].event]},
                      until : {thread'.until}, capped : {thread'.capped}]
      /\ UNCHANGED <<mQueue, eventID>>
  BY DEF ExamineHead, At
<1>4. /\ thread'.until \in 0 .. MaxTime /\ thread'.capped \in BOOLEAN
      /\ IF thread'.capped THEN thread'.until < t ELSE thread'.until = t
  <2> HIDE DEF t
  <2>1. CASE t - now > MaxTimeout
    <3>1. thread'.until = now + MaxTimeout
      BY <1>3, <2>1
    <3>2. thread'.capped = TRUE
      BY <1>3, <2>1
    <3>3. thread'.until \in 0 .. MaxTime /\ thread'.until < t
      BY <1>2, <2>1, <3>1
    <3> QED BY <3>2, <3>3
  <2>2. CASE ~(t - now > MaxTimeout)
    <3>1. thread'.until = now + (t - now)
      BY <1>3, <2>2
    <3>2. thread'.capped \in BOOLEAN /\ ~thread'.capped
      <4>1. thread'.capped = (t - now > MaxTimeout)
        BY <1>3
      <4>2. (t - now > MaxTimeout) \in BOOLEAN
        OBVIOUS
      <4>3. thread'.capped \in BOOLEAN
        BY <4>1, <4>2, Zenon
      <4>4. ~thread'.capped
        BY <4>1, <2>2, Zenon
      <4> QED BY <4>3, <4>4
    <3>3. now + (t - now) = t
      BY <1>2
    <3>4. thread'.until \in 0 .. MaxTime /\ thread'.until = t
      BY <1>2, <3>1, <3>3
    <3> QED BY <3>2, <3>4
  <2> QED BY <2>1, <2>2
<1>5. thread' \in ThreadType
  <2>1. NoItem \in QueueItem
    BY ThreadIsAt DEF ThreadPCs
  <2> HIDE DEF t
  <2> QED BY <1>1, <1>3, <1>4, <2>1 DEF ThreadType, ThreadPCs
<1> QED BY <1>3, <1>4, <1>5

LEMMA ExamineHeadKeepsList ==
  ASSUME ListInv, mQueue # <<>>, ExamineHead, ThreadFrame
  PROVE  ListInv'
<1>1. CASE IsDue(mQueue[1].realtime_us)
  BY <1>1, RemoveAndFireKeepsList DEF ExamineHead
<1>2. CASE ~IsDue(mQueue[1].realtime_us)
  <2>1. /\ thread' \in ThreadType /\ thread'.waitID = eventID[mQueue[1].event]
        /\ UNCHANGED <<mQueue, eventID>>
    BY <1>2, HeadIsAwaited
  <2>2. eventID[mQueue[1].event] < mNextEventID
    <3>1. mQueue[1] \in QueueItem
      BY DEF ListInv, TypeOK
    <3> QED BY <3>1 DEF ListInv, IDsAreFresh, QueueItem
  <2> QED BY <2>1, <2>2, SameListKept DEF ThreadFrame, ListInv, TypeOK
<1> QED BY <1>1, <1>2

LEMMA InitList == Init => ListInv
<1> SUFFICES ASSUME Init PROVE ListInv
  OBVIOUS
<1>1. /\ 0 \in EventIDs /\ 0 \in 0 .. MaxTime /\ 1 \in 1 .. MaxEventID + 1
      /\ StopEvent \in AllEvents
  BY QueueAssumption DEF AllEvents, EventIDs
<1>2. At("none") \in ThreadType /\ At("none").waitID = 0
  BY ThreadIsAt DEF ThreadPCs
<1>3. TypeOK
  <2>1. mQueue \in Seq(QueueItem)
    BY DEF Init
  <2>2. stop \in [id : EventIDs, flush : BOOLEAN]
    BY <1>1 DEF Init, NoStop
  <2>3. eventID \in [AllEvents -> EventIDs]
    BY <1>1 DEF Init
  <2> QED BY <1>1, <1>2, <2>1, <2>2, <2>3 DEF Init, TypeOK, ThreadType
<1>4. IDsAreFresh /\ ItemsApart
  BY <1>2 DEF Init, IDsAreFresh, ItemsApart, NoStop
<1> QED BY <1>3, <1>4 DEF ListInv

\* A step keeps the list in order, whether or not it posts what is queued.
LEMMA StepKeepsList ==
  ASSUME ListInv, [Next]_vars
  PROVE  ListInv'
<1>0. /\ 0 < mNextEventID /\ now \in 0 .. MaxTime /\ mRunning \in BOOLEAN
      /\ mStopped \in BOOLEAN /\ signalled \subseteq {"NotEmpty", "HeadChanged"}
      /\ thread \in ThreadType /\ thread.waitID < mNextEventID
  BY DEF ListInv, TypeOK, ThreadType, IDsAreFresh
<1>1. ASSUME NEW e \in Events, Post(e)
      PROVE  ListInv'
  <2>1. PICK t \in {FrontTime, BackTime} \cup (0 .. MaxTime) : PostTimedEvent(e, t)
    BY <1>1 DEF Post
  <2>2. t \in DueTimes
    BY <1>0, QueueAssumption DEF DueTimes, FrontTime, StopTime, BackTime
  <2>3. e \in AllEvents /\ UNCHANGED <<mRunning, mStopped, stop, thread, now>>
    BY <1>1 DEF AllEvents, Post
  <2> QED BY <2>1, <2>2, <2>3, PostKeepsList
<1>2. ASSUME NEW id \in EventIDs, CancelEvent(id)
      PROVE  ListInv'
  <2> DEFINE p == FirstMatch(id)
  <2>1. p \in 1 .. Len(mQueue)
    BY <1>2, FirstMatchIsQueued DEF CancelEvent
  <2>2. /\ mQueue' = Unlink(p)
        /\ eventID' = [eventID EXCEPT ![mQueue[p].event] = 0]
        /\ UNCHANGED <<mNextEventID, mRunning, mStopped, stop, thread, now>>
        /\ signalled' \subseteq signalled \cup {"NotEmpty", "HeadChanged"}
    BY <1>2 DEF CancelEvent, Signal, CancelSignals
  <2> HIDE DEF p
  <2> QED BY <1>0, <2>1, <2>2, TakeKeepsList
<1>3. CASE Start
  <2>1. thread' \in ThreadType /\ thread'.waitID = 0
    BY <1>3, ThreadIsAt DEF Start, ThreadPCs
  <2> QED BY <1>0, <1>3, <2>1, SameListKept DEF Start
<1>4. ASSUME NEW flush \in BOOLEAN, StopCall(flush)
      PROVE  ListInv'
  <2> DEFINE t == IF flush THEN BackTime ELSE StopTime
  <2>1. t \in DueTimes
    BY QueueAssumption DEF DueTimes, StopTime, BackTime
  <2>2. /\ PostTimedEvent(StopEvent, t)
        /\ UNCHANGED <<mRunning, mStopped, thread, now>>
        /\ stop' = [id |-> mNextEventID, flush |-> flush]
    BY <1>4 DEF StopCall
  <2>3. mNextEventID \in EventIDs /\ StopEvent \in AllEvents
    BY <2>2, QueueAssumption DEF PostTimedEvent, ListInv, TypeOK, EventIDs, AllEvents
  <2> HIDE DEF t
  <2> QED BY <2>1, <2>2, <2>3, PostKeepsList
<1>5. CASE StopJoined
  <2>1. thread' \in ThreadType /\ thread'.waitID = 0
    BY <1>5, ThreadIsAt DEF StopJoined, ThreadPCs
  <2>2. /\ mQueue' = <<>> /\ stop' = [id |-> 0, flush |-> FALSE] /\ mRunning' = FALSE
        /\ UNCHANGED <<eventID, mNextEventID, mStopped, signalled, now>>
    BY <1>5 DEF StopJoined, NoStop
  <2>3. mQueue' \in Seq(QueueItem) /\ stop' \in [id : EventIDs, flush : BOOLEAN]
    BY <2>2, QueueAssumption DEF EventIDs
  <2>4. TypeOK'
    BY <2>1, <2>2, <2>3 DEF ListInv, TypeOK, ThreadType
  <2>5. IDsAreFresh' /\ ItemsApart'
    BY <1>0, <2>1, <2>2 DEF ListInv, IDsAreFresh, ItemsApart
  <2> QED BY <2>4, <2>5 DEF ListInv
<1>6. CASE ThreadTop
  <2>1. ThreadFrame
    BY <1>0, <1>6 DEF ThreadTop, ThreadUnchanged, ThreadFrame
  <2>2. CASE mStopped \/ mQueue = <<>>
    <3>1. thread' \in ThreadType /\ thread'.waitID = 0 /\ UNCHANGED <<mQueue, eventID>>
      BY <1>6, <2>2, ThreadIsAt DEF ThreadTop, ThreadPCs
    <3> QED BY <1>0, <2>1, <3>1, SameListKept DEF ThreadFrame
  <2>3. CASE ~mStopped /\ mQueue # <<>>
    BY <1>6, <2>1, <2>3, ExamineHeadKeepsList DEF ThreadTop
  <2> QED BY <2>2, <2>3
<1>7. CASE WakeNotEmpty
  <2>1. ThreadFrame
    BY <1>0, <1>7 DEF WakeNotEmpty, ThreadUnchanged, ThreadFrame
  <2>2. CASE mQueue = <<>>
    BY <1>0, <1>7, <2>1, <2>2, SameListKept DEF WakeNotEmpty, ThreadFrame
  <2>3. CASE mQueue # <<>>
    BY <1>7, <2>1, <2>3, ExamineHeadKeepsList DEF WakeNotEmpty
  <2> QED BY <2>2, <2>3
<1>8. CASE WakeHead \/ HeadTimeout
  <2>1. ThreadFrame
    BY <1>0, <1>8 DEF WakeHead, HeadTimeout, ThreadUnchanged, ThreadFrame
  <2>2. RemoveAndFire(thread.waitID) \/ (mQueue # <<>> /\ ExamineHead)
    BY <1>8 DEF WakeHead, HeadTimeout
  <2> QED BY <2>1, <2>2, RemoveAndFireKeepsList, ExamineHeadKeepsList
<1>9. CASE FireDone
  <2>1. thread' \in ThreadType /\ thread'.waitID = 0
    BY <1>9, ThreadIsAt DEF FireDone, ThreadPCs
  <2>2. mStopped' \in BOOLEAN
    BY <1>0, <1>9 DEF FireDone, StopsThread
  <2> QED BY <1>0, <1>9, <2>1, <2>2, SameListKept DEF FireDone, ThreadUnchanged
<1>10. CASE Tick \/ UNCHANGED vars
  <2>1. now' \in 0 .. MaxTime
    BY <1>0, <1>10, QueueAssumption DEF Tick, vars
  <2> QED BY <1>0, <1>10, <2>1, SameListKept DEF Tick, vars
<1> QED
  BY <1>1, <1>2, <1>3, <1>4, <1>5, <1>6, <1>7, <1>8, <1>9, <1>10 DEF Next, ThreadStep

LEMMA ListInvariant == Spec => []ListInv
BY InitList, StepKeepsList, PTL DEF Spec
-----------------------------------------------------------------------------
(***************************************************************************)
(* No wake-up is lost.                                                     *)
(***************************************************************************)

WakeUps == NoLostWakeup /\ HeadNotOverslept

\* A post wakes a thread that waits for a first item, and puts nothing at the
\* head of a list whose head a thread waits for that is due before that head.
LEMMA PostKeepsWakeUps ==
  ASSUME ListInv, WakeUps, NEW e \in AllEvents, NEW t \in DueTimes,
         PostTimedEvent(e, t), UNCHANGED thread
  PROVE  WakeUps'
<1> DEFINE item == [event |-> e, realtime_us |-> t, id |-> mNextEventID]
<1>1. item \in QueueItem /\ item.realtime_us = t
  BY QueueAssumption DEF ListInv, TypeOK, PostTimedEvent, QueueItem, EventIDs
<1>2. mQueue \in Seq(QueueItem) /\ mQueue' = Insert(mQueue, item)
  BY DEF ListInv, TypeOK, PostTimedEvent
<1> HIDE DEF item
<1>3. NoLostWakeup'
  BY DEF WakeUps, NoLostWakeup, PostTimedEvent, Signal, PostSignals
<1>4. HeadNotOverslept'
  <2> SUFFICES ASSUME thread.pc = "waitHead", "HeadChanged" \notin signalled'
               PROVE  thread.until <= mQueue'[1].realtime_us
    BY DEF HeadNotOverslept
  <2>1. mQueue # <<>> /\ "HeadChanged" \notin signalled
    BY DEF PostTimedEvent, Signal, PostSignals
  <2>2. 1 \in 1 .. Len(mQueue) /\ 1 \in 1 .. Len(mQueue) + 1
    BY <1>2, <2>1
  <2>3. thread.until <= mQueue[1].realtime_us
    BY <2>1 DEF WakeUps, HeadNotOverslept
  <2>4. PICK o : Inserted(mQueue', mQueue, item, o)
    BY <1>1, <1>2, InsertFacts
  <2>5. CASE o[1] = 1
    <3>1. mQueue'[1] = mQueue[1]
      BY <2>2, <2>4, <2>5 DEF Inserted
    <3> QED BY <2>3, <3>1
  <2>6. CASE o[1] = 0
    <3>1. mQueue'[1] = item /\ mQueue[1].realtime_us <= t
      BY <1>1, <2>2, <2>4, <2>6 DEF Inserted
    <3>2. t \in Int /\ mQueue[1].realtime_us \in Int /\ thread.until \in Int
      <4>1. mQueue[1] \in QueueItem
        BY <1>2, <2>2
      <4>2. mQueue[1].realtime_us \in DueTimes
        BY <4>1 DEF QueueItem
      <4> QED BY <4>2 DEF DueTimes, ListInv, TypeOK
    <3> QED BY <1>1, <2>3, <3>1, <3>2
  <2> QED BY <2>4, <2>5, <2>6 DEF Inserted
<1> QED BY <1>3, <1>4 DEF WakeUps

LEMMA CancelKeepsWakeUps ==
  ASSUME ListInv, WakeUps, NEW id \in EventIDs, CancelEvent(id)
  PROVE  WakeUps'
<1> DEFINE p == FirstMatch(id)
<1>1. /\ p \in 1 .. Len(mQueue) /\ mQueue \in Seq(QueueItem)
      /\ mQueue' = RemoveAt(mQueue, p) /\ UNCHANGED thread
      /\ Signal(CancelSignals(p))
  BY FirstMatchIsQueued DEF CancelEvent, Unlink, ListInv, TypeOK
<1> HIDE DEF p
<1>2. NoLostWakeup'
  BY <1>1 DEF WakeUps, NoLostWakeup, Signal
<1>3. HeadNotOverslept'
  <2> SUFFICES ASSUME thread.pc = "waitHead", "HeadChanged" \notin signalled', mQueue' # <<>>
               PROVE  thread.until <= mQueue'[1].realtime_us
    BY <1>1 DEF HeadNotOverslept
  <2>1. p # 1 /\ "HeadChanged" \notin signalled
    BY <1>1 DEF Signal, CancelSignals
  <2>2. PICK o : Removed(mQueue', mQueue, p, o)
    BY <1>1, RemoveFacts
  <2>3. mQueue'[1] = mQueue[1]
    <3>1. 1 \in 1 .. Len(mQueue) - 1
      BY <1>1, <2>1
    <3> QED BY <2>1, <2>2, <3>1 DEF Removed
  <2>4. mQueue # <<>>
    BY <1>1
  <2> QED BY <2>1, <2>3, <2>4 DEF WakeUps, HeadNotOverslept
<1> QED BY <1>2, <1>3 DEF WakeUps

\* A thread that has just looked at the head waits no longer than for it.
LEMMA ExamineHeadKeepsWakeUps ==
  ASSUME ListInv, mQueue # <<>>, ExamineHead
  PROVE  WakeUps'
<1>1. CASE IsDue(mQueue[1].realtime_us)
  BY <1>1 DEF ExamineHead, RemoveAndFire, WakeUps, NoLostWakeup, HeadNotOverslept, At, Firing
<1>2. CASE ~IsDue(mQueue[1].realtime_us)
  <2> DEFINE t == mQueue[1].realtime_us
  <2>1. /\ thread'.pc = "waitHead" /\ mQueue' = mQueue
        /\ thread'.until = now + (IF t - now > MaxTimeout THEN MaxTimeout ELSE t - now)
    BY <1>2 DEF ExamineHead, At
  <2>2. t \in Int /\ now \in Int
    <3>1. mQueue[1] \in QueueItem /\ now \in 0 .. MaxTime
      BY DEF ListInv, TypeOK
    <3>2. t \in DueTimes
      BY <3>1 DEF QueueItem
    <3> QED BY <3>1, <3>2 DEF DueTimes
  <2>3. MaxTimeout \in Int
    BY QueueAssumption
  <2> HIDE DEF t
  <2>4. thread'.until <= t
    BY <2>1, <2>2, <2>3
  <2> QED BY <2>1, <2>4 DEF WakeUps, NoLostWakeup, HeadNotOverslept, t
<1> QED BY <1>1, <1>2

LEMMA RemoveAndFireKeepsWakeUps ==
  ASSUME NEW id, RemoveAndFire(id)
  PROVE  WakeUps'
BY DEF RemoveAndFire, WakeUps, NoLostWakeup, HeadNotOverslept, At, Firing

LEMMA StepKeepsWakeUps ==
  ASSUME ListInv, WakeUps, [Next]_vars
  PROVE  WakeUps'
<1>1. ASSUME NEW e \in Events, Post(e)
      PROVE  WakeUps'
  <2>1. PICK t \in {FrontTime, BackTime} \cup (0 .. MaxTime) : PostTimedEvent(e, t)
    BY <1>1 DEF Post
  <2>2. t \in DueTimes
    BY QueueAssumption DEF ListInv, TypeOK, DueTimes, FrontTime, StopTime, BackTime
  <2>3. e \in AllEvents /\ UNCHANGED thread
    BY <1>1 DEF AllEvents, Post
  <2> QED BY <2>1, <2>2, <2>3, PostKeepsWakeUps
<1>2. ASSUME NEW id \in EventIDs, CancelEvent(id)
      PROVE  WakeUps'
  BY <1>2, CancelKeepsWakeUps
<1>3. ASSUME NEW flush \in BOOLEAN, StopCall(flush)
      PROVE  WakeUps'
  <2> DEFINE t == IF flush THEN BackTime ELSE StopTime
  <2>1. t \in DueTimes
    BY QueueAssumption DEF DueTimes, StopTime, BackTime
  <2>2. PostTimedEvent(StopEvent, t) /\ UNCHANGED thread
    BY <1>3 DEF StopCall
  <2>3. StopEvent \in AllEvents
    BY DEF AllEvents
  <2> HIDE DEF t
  <2> QED BY <2>1, <2>2, <2>3, PostKeepsWakeUps
<1>4. CASE Start \/ StopJoined \/ FireDone
  BY <1>4 DEF Start, StopJoined, FireDone, WakeUps, NoLostWakeup, HeadNotOverslept, At
<1>5. CASE ThreadTop
  <2>1. CASE mStopped \/ mQueue = <<>>
    BY <1>5, <2>1 DEF ThreadTop, WakeUps, NoLostWakeup, HeadNotOverslept, At
  <2>2. CASE ~mStopped /\ mQueue # <<>>
    BY <1>5, <2>2, ExamineHeadKeepsWakeUps DEF ThreadTop
  <2> QED BY <2>1, <2>2
<1>6. CASE WakeNotEmpty
  <2>1. CASE mQueue = <<>>
    BY <1>6, <2>1 DEF WakeNotEmpty, WakeUps, NoLostWakeup, HeadNotOverslept
  <2>2. CASE mQueue # <<>>
    BY <1>6, <2>2, ExamineHeadKeepsWakeUps DEF WakeNotEmpty
  <2> QED BY <2>1, <2>2
<1>7. CASE WakeHead
  <2>1. CASE mQueue = <<>>
    BY <1>7, <2>1, RemoveAndFireKeepsWakeUps DEF WakeHead
  <2>2. CASE mQueue # <<>>
    BY <1>7, <2>2, ExamineHeadKeepsWakeUps DEF WakeHead
  <2> QED BY <2>1, <2>2
<1>8. CASE HeadTimeout
  BY <1>8, RemoveAndFireKeepsWakeUps DEF HeadTimeout
<1>9. CASE Tick \/ UNCHANGED vars
  BY <1>9 DEF Tick, vars, WakeUps, NoLostWakeup, HeadNotOverslept
<1> QED BY <1>1, <1>2, <1>3, <1>4, <1>5, <1>6, <1>7, <1>8, <1>9 DEF Next, ThreadStep

LEMMA WakeUpsAreKept == Spec => []WakeUps
<1>1. Init => WakeUps
  BY DEF Init, WakeUps, NoLostWakeup, HeadNotOverslept, At
<1>2. ListInv /\ WakeUps /\ [Next]_vars => WakeUps'
  BY StepKeepsWakeUps
<1>3. Spec => []ListInv
  BY ListInvariant, PTL
<1> QED BY <1>1, <1>2, <1>3, PTL DEF Spec

\* The event thread never waits for a first item while one is queued, unless a
\* wake-up is under way.
THEOREM NoWakeUpIsLost == Spec => []NoLostWakeup
<1>1. WakeUps => NoLostWakeup
  BY DEF WakeUps
<1> QED BY <1>1, WakeUpsAreKept, PTL

\* Nor does it sleep beyond the due time of the head, unless a wake-up is under
\* way, whatever was posted, posted again or cancelled while it slept.
THEOREM HeadIsNotOverslept == Spec => []HeadNotOverslept
<1>1. WakeUps => HeadNotOverslept
  BY DEF WakeUps
<1> QED BY <1>1, WakeUpsAreKept, PTL

-----------------------------------------------------------------------------
(***************************************************************************)
(* The queue keeps count of the items, whatever the clients post.          *)
(***************************************************************************)

\* What a post and the taking out of an item do to the set of items.
LEMMA InsertPending ==
  ASSUME ListInv, NEW e \in AllEvents, NEW t \in DueTimes, PostTimedEvent(e, t)
  PROVE  LET item == [event |-> e, realtime_us |-> t, id |-> mNextEventID]
         IN  item \in QueueItem /\ item \notin Pending /\ Pending' = Pending \cup {item}
<1> DEFINE item == [event |-> e, realtime_us |-> t, id |-> mNextEventID]
<1>1. item \in QueueItem
  BY QueueAssumption DEF ListInv, TypeOK, PostTimedEvent, QueueItem, EventIDs
<1>2. mQueue \in Seq(QueueItem) /\ mQueue' = Insert(mQueue, item)
  BY DEF ListInv, TypeOK, PostTimedEvent
<1>2a. item \notin Pending
  BY DEF ListInv, TypeOK, IDsAreFresh, Pending
<1> HIDE DEF item
<1>3. Len(mQueue') = Len(mQueue) + 1
  BY <1>1, <1>2, InsertFacts
<1>4. PICK o : Inserted(mQueue', mQueue, item, o)
  BY <1>1, <1>2, InsertFacts
<1>5. ASSUME NEW k \in 1 .. Len(mQueue')
      PROVE  mQueue'[k] \in Pending \cup {item}
  <2>1. o[k] \in 0 .. Len(mQueue) /\ mQueue'[k] = IF o[k] = 0 THEN item ELSE mQueue[o[k]]
    BY <1>3, <1>4 DEF Inserted
  <2> QED BY <2>1 DEF Pending
<1>6. ASSUME NEW i \in 0 .. Len(mQueue)
      PROVE  (IF i = 0 THEN item ELSE mQueue[i]) \in Pending'
  <2>1. PICK k \in 1 .. Len(mQueue) + 1 : o[k] = i
    BY <1>4 DEF Inserted
  <2>2. k \in 1 .. Len(mQueue') /\ mQueue'[k] = IF i = 0 THEN item ELSE mQueue[i]
    BY <1>3, <1>4, <2>1 DEF Inserted
  <2> QED BY <2>2 DEF Pending
<1>7. Pending' \subseteq Pending \cup {item}
  BY <1>5 DEF Pending
<1>8. item \in Pending' /\ Pending \subseteq Pending'
  <2>1. item \in Pending'
    <3>1. 0 \in 0 .. Len(mQueue)
      BY <1>2
    <3> QED BY <1>6, <3>1
  <2>2. ASSUME NEW i \in 1 .. Len(mQueue) PROVE mQueue[i] \in Pending'
    <3>1. i \in 0 .. Len(mQueue) /\ i # 0
      OBVIOUS
    <3> QED BY <1>6, <3>1
  <2> QED BY <2>1, <2>2 DEF Pending
<1>9. Pending' = Pending \cup {item}
  BY <1>7, <1>8
<1> QED BY <1>1, <1>2a, <1>9 DEF item

LEMMA UnlinkPending ==
  ASSUME ListInv, NEW p \in 1 .. Len(mQueue), mQueue' = Unlink(p)
  PROVE  /\ mQueue[p] \in Pending
         /\ Pending' = Pending \ {mQueue[p]}
         /\ \A x \in Pending : x.id = mQueue[p].id => x = mQueue[p]
<1>1. mQueue \in Seq(QueueItem) /\ mQueue' = RemoveAt(mQueue, p)
  BY DEF ListInv, TypeOK, Unlink
<1>2. Len(mQueue') = Len(mQueue) - 1
  BY <1>1, RemoveFacts
<1>3. PICK o : Removed(mQueue', mQueue, p, o)
  BY <1>1, RemoveFacts
<1>4. \A i \in 1 .. Len(mQueue) : mQueue[i].id = mQueue[p].id => i = p
  BY DEF ListInv, ItemsApart
<1>5. ASSUME NEW k \in 1 .. Len(mQueue')
      PROVE  mQueue'[k] \in Pending \ {mQueue[p]}
  <2>1. o[k] \in 1 .. Len(mQueue) /\ o[k] # p /\ mQueue'[k] = mQueue[o[k]]
    BY <1>2, <1>3 DEF Removed
  <2> QED BY <1>4, <2>1 DEF Pending
<1>6. ASSUME NEW i \in 1 .. Len(mQueue), mQueue[i] # mQueue[p]
      PROVE  mQueue[i] \in Pending'
  <2>1. PICK k \in 1 .. Len(mQueue) - 1 : o[k] = i
    BY <1>3, <1>6 DEF Removed
  <2>2. k \in 1 .. Len(mQueue') /\ mQueue'[k] = mQueue[i]
    BY <1>2, <1>3, <2>1 DEF Removed
  <2> QED BY <2>2 DEF Pending
<1>7. Pending' \subseteq Pending \ {mQueue[p]}
  BY <1>5 DEF Pending
<1>8. Pending \ {mQueue[p]} \subseteq Pending'
  BY <1>6 DEF Pending
<1> QED BY <1>4, <1>7, <1>8 DEF Pending

\* One item more of an object, with the id of the post, and one item less.
LEMMA PostIsCounted ==
  ASSUME ListInv, IsFiniteSet(Pending), NEW e \in AllEvents, NEW t \in DueTimes,
         PostTimedEvent(e, t), UNCHANGED thread
  PROVE  ItemCounts' = Counted!Posted(ItemCounts, e) /\ IsFiniteSet(Pending')
<1> DEFINE item == [event |-> e, realtime_us |-> t, id |-> mNextEventID]
           n    == [f \in AllEvents |-> Cardinality(ItemsOf(f))]
           i    == [f \in AllEvents |-> eventID[f] # 0]
<1>1. item.event = e /\ item \notin Pending /\ Pending' = Pending \cup {item}
  BY InsertPending
<1> HIDE DEF item
<1>2. IsFiniteSet(Pending')
  BY <1>1, FS_AddElement
<1>3. ItemsOf(e)' = ItemsOf(e) \cup {item} /\ item \notin ItemsOf(e)
  BY <1>1 DEF ItemsOf
<1>4. IsFiniteSet(ItemsOf(e))
  BY FS_Subset DEF ItemsOf
<1>5. Cardinality(ItemsOf(e))' = Cardinality(ItemsOf(e)) + 1
  <2>1. Cardinality(ItemsOf(e) \cup {item}) = Cardinality(ItemsOf(e)) + 1
    BY <1>3, <1>4, FS_AddElement
  <2> QED BY <1>3, <2>1
<1>6. ASSUME NEW f \in AllEvents, f # e
      PROVE  Cardinality(ItemsOf(f))' = Cardinality(ItemsOf(f))
  <2>1. ItemsOf(f)' = ItemsOf(f)
    BY <1>1, <1>6 DEF ItemsOf
  <2> QED BY <2>1
<1>7. n' = [n EXCEPT ![e] = @ + 1]
  BY <1>5, <1>6
<1>8. \A f \in AllEvents : (eventID'[f] # 0) = IF f = e THEN TRUE ELSE eventID[f] # 0
  <2>1. eventID \in [AllEvents -> EventIDs] /\ eventID' = [eventID EXCEPT ![e] = mNextEventID]
    BY DEF ListInv, TypeOK, PostTimedEvent
  <2>2. mNextEventID # 0
    BY DEF ListInv, TypeOK
  <2> QED BY <2>1, <2>2
<1>9. i' = [i EXCEPT ![e] = TRUE]
  BY <1>8, Zenon
<1>10. ItemCounts' = Counted!Posted(ItemCounts, e)
  <2> DEFINE s == IF thread.pc = "fire" THEN {thread.item.event} ELSE {}
  <2>1. ItemCounts = Counted!QueueOf(n, i, s) /\ ItemCounts' = Counted!QueueOf(n', i', s)
    BY DEF ItemCounts, Counted!QueueOf
  <2> HIDE DEF n, i, s
  <2> QED BY <1>7, <1>9, <2>1 DEF Counted!Posted, Counted!QueueOf
<1> QED BY <1>2, <1>10

LEMMA TakeIsCounted ==
  ASSUME ListInv, IsFiniteSet(Pending), NEW p \in 1 .. Len(mQueue), mQueue' = Unlink(p),
         NEW e, e = mQueue[p].event, eventID' = [eventID EXCEPT ![e] = 0]
  PROVE  /\ e \in AllEvents /\ ItemCounts.posted[e] > 0
         /\ ItemCounts.id[e] = (eventID[e] # 0)
         /\ ItemCounts'.posted = [ItemCounts.posted EXCEPT ![e] = @ - 1]
         /\ ItemCounts'.id = [ItemCounts.id EXCEPT ![e] = FALSE]
         /\ IsFiniteSet(Pending')
<1> DEFINE n == [f \in AllEvents |-> Cardinality(ItemsOf(f))]
           i == [f \in AllEvents |-> eventID[f] # 0]
<1>0. PICK x : x = mQueue[p]
  OBVIOUS
<1>1. x \in Pending /\ Pending' = Pending \ {x} /\ x.event = e
  BY <1>0, UnlinkPending
<1>2. e \in AllEvents
  <2>1. mQueue[p] \in QueueItem
    BY DEF ListInv, TypeOK
  <2> QED BY <2>1 DEF QueueItem
<1>3. ItemsOf(e)' = ItemsOf(e) \ {x} /\ x \in ItemsOf(e)
  BY <1>1 DEF ItemsOf
<1>4. IsFiniteSet(Pending') /\ IsFiniteSet(ItemsOf(e))
  <2>1. IsFiniteSet(Pending')
    BY <1>1, FS_RemoveElement
  <2>2. IsFiniteSet(ItemsOf(e))
    BY FS_Subset DEF ItemsOf
  <2> QED BY <2>1, <2>2
<1>5. Cardinality(ItemsOf(e))' = Cardinality(ItemsOf(e)) - 1 /\ Cardinality(ItemsOf(e)) > 0
  <2>1. Cardinality(ItemsOf(e) \ {x}) = Cardinality(ItemsOf(e)) - 1
    BY <1>3, <1>4, FS_RemoveElement
  <2>2. Cardinality(ItemsOf(e)) \in Nat /\ Cardinality(ItemsOf(e)) # 0
    BY <1>3, <1>4, FS_CardinalityType, FS_EmptySet
  <2> QED BY <1>3, <2>1, <2>2
<1>6. ASSUME NEW f \in AllEvents, f # e
      PROVE  Cardinality(ItemsOf(f))' = Cardinality(ItemsOf(f))
  <2>1. ItemsOf(f)' = ItemsOf(f)
    BY <1>1, <1>6 DEF ItemsOf
  <2> QED BY <2>1
<1>7. n' = [n EXCEPT ![e] = @ - 1]
  BY <1>2, <1>5, <1>6
<1>8. \A f \in AllEvents : (eventID'[f] # 0) = IF f = e THEN FALSE ELSE eventID[f] # 0
  <2>1. eventID \in [AllEvents -> EventIDs] /\ eventID' = [eventID EXCEPT ![e] = 0]
    BY DEF ListInv, TypeOK
  <2> QED BY <1>2, <2>1
<1>9. i' = [i EXCEPT ![e] = FALSE]
  BY <1>8, Zenon
<1>10. /\ ItemCounts.posted = n /\ ItemCounts'.posted = n'
       /\ ItemCounts.id = i /\ ItemCounts'.id = i'
  BY DEF ItemCounts
<1>11. n[e] > 0 /\ i[e] = (eventID[e] # 0)
  BY <1>2, <1>5
<1> HIDE DEF n, i
<1>12. /\ ItemCounts.posted[e] > 0 /\ ItemCounts.id[e] = (eventID[e] # 0)
       /\ ItemCounts'.posted = [ItemCounts.posted EXCEPT ![e] = @ - 1]
       /\ ItemCounts'.id = [ItemCounts.id EXCEPT ![e] = FALSE]
  BY <1>7, <1>9, <1>10, <1>11, Zenon
<1> QED BY <1>2, <1>4, <1>12

\* The steps that take out nothing.
LEMMA SameCounts ==
  ASSUME UNCHANGED <<mQueue, eventID>>
  PROVE  /\ ItemCounts'.posted = ItemCounts.posted /\ ItemCounts'.id = ItemCounts.id
         /\ IsFiniteSet(Pending) => IsFiniteSet(Pending')
BY DEF ItemCounts, ItemsOf, Pending

LEMMA CountsAreAQueue ==
  /\ ItemCounts = Counted!QueueOf(ItemCounts.posted, ItemCounts.id, ItemCounts.firing)
  /\ ItemCounts' = Counted!QueueOf(ItemCounts'.posted, ItemCounts'.id, ItemCounts'.firing)
BY DEF ItemCounts, Counted!QueueOf

\* The event thread takes an item out only to fire its event.
LEMMA RemoveAndFireIsCounted ==
  ASSUME ListInv, IsFiniteSet(Pending), NEW id, RemoveAndFire(id), thread.pc # "fire"
  PROVE  [Counted!Next]_ItemCounts /\ IsFiniteSet(Pending')
<1>1. ItemCounts.firing = {}
  BY DEF ItemCounts
<1>2. CASE Matches(id) = {}
  <2>1. UNCHANGED <<mQueue, eventID>> /\ thread'.pc = "top"
    BY <1>2 DEF RemoveAndFire, At
  <2>2. ItemCounts'.firing = {}
    BY <2>1 DEF ItemCounts
  <2> QED BY <1>1, <2>1, <2>2, SameCounts, CountsAreAQueue
<1>3. CASE Matches(id) # {}
  <2>1. PICK p \in 1 .. Len(mQueue) : p = FirstMatch(id)
    BY <1>3, FirstMatchIsQueued
  <2>2. PICK e : e = mQueue[p].event
    OBVIOUS
  <2>3. /\ mQueue' = Unlink(p) /\ eventID' = [eventID EXCEPT ![e] = 0]
        /\ thread'.pc = "fire" /\ thread'.item = mQueue[p]
    BY <1>3, <2>1, <2>2 DEF RemoveAndFire, Firing, At
  <2>4. /\ e \in AllEvents /\ ItemCounts.posted[e] > 0
        /\ ItemCounts'.posted = [ItemCounts.posted EXCEPT ![e] = @ - 1]
        /\ ItemCounts'.id = [ItemCounts.id EXCEPT ![e] = FALSE]
        /\ IsFiniteSet(Pending')
    BY <2>2, <2>3, TakeIsCounted
  <2>5. ItemCounts'.firing = {e}
    BY <2>2, <2>3 DEF ItemCounts
  <2>6. ItemCounts' = Counted!Fired(ItemCounts, e)
    BY <2>4, <2>5, CountsAreAQueue DEF Counted!Fired, Counted!Out
  <2> QED BY <1>1, <2>4, <2>6 DEF Counted!Next, Counted!After
<1> QED BY <1>2, <1>3

LEMMA ExamineHeadIsCounted ==
  ASSUME ListInv, IsFiniteSet(Pending), mQueue # <<>>, ExamineHead, thread.pc # "fire"
  PROVE  [Counted!Next]_ItemCounts /\ IsFiniteSet(Pending')
<1>1. CASE IsDue(mQueue[1].realtime_us)
  BY <1>1, RemoveAndFireIsCounted DEF ExamineHead
<1>2. CASE ~IsDue(mQueue[1].realtime_us)
  <2>1. UNCHANGED <<mQueue, eventID>> /\ thread'.pc = "waitHead"
    BY <1>2, HeadIsAwaited
  <2>2. ItemCounts.firing = {} /\ ItemCounts'.firing = {}
    BY <2>1 DEF ItemCounts
  <2> QED BY <2>1, <2>2, SameCounts, CountsAreAQueue
<1> QED BY <1>1, <1>2

LEMMA StepIsCounted ==
  ASSUME ListInv, IsFiniteSet(Pending), [Next]_vars
  PROVE  [Counted!Next]_ItemCounts /\ IsFiniteSet(Pending')
<1>1. ASSUME NEW e \in AllEvents, NEW t \in DueTimes, PostTimedEvent(e, t), UNCHANGED thread
      PROVE  Counted!Next /\ IsFiniteSet(Pending')
  BY <1>1, PostIsCounted DEF Counted!Next, Counted!After
<1>2. ASSUME NEW e \in Events, Post(e)
      PROVE  Counted!Next /\ IsFiniteSet(Pending')
  <2>1. PICK t \in {FrontTime, BackTime} \cup (0 .. MaxTime) : PostTimedEvent(e, t)
    BY <1>2 DEF Post
  <2>2. t \in DueTimes
    BY QueueAssumption DEF ListInv, TypeOK, DueTimes, FrontTime, StopTime, BackTime
  <2>3. e \in AllEvents /\ UNCHANGED thread
    BY <1>2 DEF AllEvents, Post
  <2> QED BY <1>1, <2>1, <2>2, <2>3
<1>3. ASSUME NEW flush \in BOOLEAN, StopCall(flush)
      PROVE  Counted!Next /\ IsFiniteSet(Pending')
  <2> DEFINE t == IF flush THEN BackTime ELSE StopTime
  <2>1. t \in DueTimes
    BY QueueAssumption DEF DueTimes, StopTime, BackTime
  <2>2. PostTimedEvent(StopEvent, t) /\ UNCHANGED thread
    BY <1>3 DEF StopCall
  <2>3. StopEvent \in AllEvents
    BY DEF AllEvents
  <2> HIDE DEF t
  <2> QED BY <1>1, <2>1, <2>2, <2>3
<1>4. ASSUME NEW id \in EventIDs, CancelEvent(id)
      PROVE  Counted!Next /\ IsFiniteSet(Pending')
  <2>1. PICK p \in 1 .. Len(mQueue) : p = FirstMatch(id)
    BY <1>4, FirstMatchIsQueued DEF CancelEvent
  <2>2. PICK e : e = mQueue[p].event
    OBVIOUS
  <2>3. /\ mQueue' = Unlink(p) /\ eventID' = [eventID EXCEPT ![e] = 0]
        /\ UNCHANGED thread
    BY <1>4, <2>1, <2>2 DEF CancelEvent
  <2>4. eventID[e] # 0
    BY <1>4, <2>1, <2>2, FirstMatchIsQueued DEF CancelEvent
  <2>5. /\ e \in AllEvents /\ ItemCounts.posted[e] > 0
        /\ ItemCounts.id[e] = (eventID[e] # 0)
        /\ ItemCounts'.posted = [ItemCounts.posted EXCEPT ![e] = @ - 1]
        /\ ItemCounts'.id = [ItemCounts.id EXCEPT ![e] = FALSE]
        /\ IsFiniteSet(Pending')
    BY <2>2, <2>3, TakeIsCounted
  <2>6. ItemCounts.id[e]
    BY <2>4, <2>5, Zenon
  <2>7. ItemCounts'.firing = ItemCounts.firing
    BY <2>3 DEF ItemCounts
  <2>8. ItemCounts' = Counted!Taken(ItemCounts, e)
    BY <2>5, <2>7, CountsAreAQueue DEF Counted!Taken, Counted!Out
  <2> QED BY <2>5, <2>6, <2>8 DEF Counted!Next, Counted!After
<1>5. CASE Start \/ FireDone
  <2>1. UNCHANGED <<mQueue, eventID>> /\ thread'.pc = "top"
    BY <1>5 DEF Start, FireDone, At
  <2>2. ItemCounts'.firing = {}
    BY <2>1 DEF ItemCounts
  <2>3. ItemCounts' = Counted!Handled(ItemCounts)
    BY <2>1, <2>2, SameCounts, CountsAreAQueue DEF Counted!Handled
  <2> QED BY <2>1, <2>3, SameCounts DEF Counted!Next, Counted!After
<1>6. CASE StopJoined
  <2>1. mQueue' = <<>> /\ UNCHANGED eventID /\ thread.pc = "exited" /\ thread'.pc = "none"
    BY <1>6 DEF StopJoined, At
  <2>2. Pending' = {} /\ IsFiniteSet(Pending')
    <3>1. Pending' = {}
      BY <2>1 DEF Pending
    <3> QED BY <3>1, FS_EmptySet
  <2>3. \A e \in AllEvents : Cardinality(ItemsOf(e))' = 0
    <3>1. \A e \in AllEvents : ItemsOf(e)' = {}
      BY <2>2 DEF ItemsOf
    <3> QED BY <3>1, FS_EmptySet
  <2>4. /\ ItemCounts'.posted = [e \in AllEvents |-> 0] /\ ItemCounts'.id = ItemCounts.id
        /\ ItemCounts.firing = {} /\ ItemCounts'.firing = {}
    BY <2>1, <2>3 DEF ItemCounts
  <2>5. ItemCounts' = Counted!Dropped(ItemCounts)
    BY <2>4, CountsAreAQueue DEF Counted!Dropped
  <2> QED BY <2>2, <2>4, <2>5 DEF Counted!Next, Counted!After
<1>7. CASE ThreadTop
  <2>1. CASE mStopped \/ mQueue = <<>>
    <3>1. UNCHANGED <<mQueue, eventID>> /\ thread.pc = "top" /\ thread'.pc # "fire"
      BY <1>7, <2>1 DEF ThreadTop, At
    <3>2. ItemCounts.firing = {} /\ ItemCounts'.firing = {}
      BY <3>1 DEF ItemCounts
    <3> QED BY <3>1, <3>2, SameCounts, CountsAreAQueue
  <2>2. CASE ~mStopped /\ mQueue # <<>>
    BY <1>7, <2>2, ExamineHeadIsCounted DEF ThreadTop
  <2> QED BY <2>1, <2>2
<1>8. CASE UNCHANGED <<mQueue, eventID, thread>>
  <2>1. ItemCounts'.firing = ItemCounts.firing
    BY <1>8 DEF ItemCounts
  <2> QED BY <1>8, <2>1, SameCounts, CountsAreAQueue
<1>9. CASE WakeNotEmpty \/ WakeHead \/ HeadTimeout
  <2>1. thread.pc # "fire"
    BY <1>9 DEF WakeNotEmpty, WakeHead, HeadTimeout
  <2>2. \/ UNCHANGED <<mQueue, eventID, thread>>
        \/ RemoveAndFire(thread.waitID)
        \/ mQueue # <<>> /\ ExamineHead
    BY <1>9 DEF WakeNotEmpty, WakeHead, HeadTimeout
  <2> QED BY <1>8, <2>1, <2>2, RemoveAndFireIsCounted, ExamineHeadIsCounted
<1>10. CASE Tick \/ UNCHANGED vars
  BY <1>8, <1>10 DEF Tick, vars
<1> QED
  BY <1>2, <1>3, <1>4, <1>5, <1>6, <1>7, <1>9, <1>10 DEF Next, ThreadStep

\* Whether or not clients post what is queued, the queue is one that counts its
\* items: one is taken out at a time, and cancelled only while its object has an id.
THEOREM QueueCountsItems == Spec => CountsItems
<1>1. Init => Counted!Init /\ IsFiniteSet(Pending)
  <2> SUFFICES ASSUME Init PROVE Counted!Init /\ IsFiniteSet(Pending)
    OBVIOUS
  <2>1. Pending = {} /\ IsFiniteSet(Pending)
    BY FS_EmptySet DEF Init, Pending
  <2>2. \A e \in AllEvents : Cardinality(ItemsOf(e)) = 0
    <3>1. \A e \in AllEvents : ItemsOf(e) = {}
      BY <2>1 DEF ItemsOf
    <3> QED BY <3>1, FS_EmptySet
  <2>3. \A e \in AllEvents : (eventID[e] # 0) = FALSE
    BY DEF Init
  <2>4. /\ [e \in AllEvents |-> Cardinality(ItemsOf(e))] = [e \in AllEvents |-> 0]
        /\ [e \in AllEvents |-> eventID[e] # 0] = [e \in AllEvents |-> FALSE]
    BY <2>2, <2>3, Zenon
  <2>5. (IF thread.pc = "fire" THEN {thread.item.event} ELSE {}) = {}
    BY DEF Init, At
  <2> QED BY <2>1, <2>4, <2>5
          DEF ItemCounts, Counted!Init, Counted!EmptyQueue, Counted!QueueOf
<1>2. ListInv /\ IsFiniteSet(Pending) /\ [Next]_vars
        => [Counted!Next]_ItemCounts /\ IsFiniteSet(Pending)'
  BY StepIsCounted
<1>3. Spec => []ListInv
  BY ListInvariant
<1> QED BY <1>1, <1>2, <1>3, PTL DEF Spec, CountsItems, Counted!Spec

-----------------------------------------------------------------------------
(***************************************************************************)
(* The inductive invariant, when no client posts what is still queued.     *)
(***************************************************************************)

\* What it says beyond ListInv.
QueuedOnce == QueuedIDsAgree /\ StopEventIsStops /\ ThreadHoldsItem /\ WaitsForItsItem

LEMMA QueuedOnceIsQueueInv == QueueInv <=> ListInv /\ QueuedOnce
<1>1. ASSUME QueueInv
      PROVE  ItemsApart
  <2>1. \A i \in 1 .. Len(mQueue) : mQueue[i].event \in AllEvents
    <3>1. \A i \in 1 .. Len(mQueue) : mQueue[i] \in QueueItem
      BY <1>1 DEF QueueInv, TypeOK
    <3> QED BY <3>1 DEF QueueItem
  <2> QED BY <1>1, <2>1 DEF QueueInv, QueuedIDsAgree, IDsAreFresh, ItemsApart
<1> QED BY <1>1 DEF QueueInv, ListInv, QueuedOnce

\* A post of an event that is not queued.
LEMMA PostKeepsQueuedOnce ==
  ASSUME ListInv, QueuedOnce, NEW e \in AllEvents, NEW t \in DueTimes, PostTimedEvent(e, t),
         \A i \in 1 .. Len(mQueue) : mQueue[i].event # e, UNCHANGED thread,
         \/ e # StopEvent /\ UNCHANGED stop
         \/ stop'.id = mNextEventID
  PROVE  QueuedOnce'
<1> DEFINE item == [event |-> e, realtime_us |-> t, id |-> mNextEventID]
<1> USE DEF QueuedOnce
<1>1. mNextEventID \in EventIDs /\ mNextEventID \in Nat \ {0}
  BY QueueAssumption DEF ListInv, TypeOK, PostTimedEvent, EventIDs
<1>2. item \in QueueItem /\ item.event = e /\ item.id = mNextEventID
  BY <1>1 DEF QueueItem
<1>3. mQueue \in Seq(QueueItem) /\ mQueue' = Insert(mQueue, item)
  BY DEF ListInv, TypeOK, PostTimedEvent
<1>4. eventID' = [eventID EXCEPT ![e] = mNextEventID] /\ eventID \in [AllEvents -> EventIDs]
  BY DEF ListInv, TypeOK, PostTimedEvent
<1> HIDE DEF item
<1>5. Len(mQueue') = Len(mQueue) + 1
  BY <1>2, <1>3, InsertFacts
<1>6a. PICK o : Inserted(mQueue', mQueue, item, o)
  BY <1>2, <1>3, InsertFacts
<1>6. \A k \in 1 .. Len(mQueue') :
        /\ o[k] \in 0 .. Len(mQueue)
        /\ mQueue'[k] = IF o[k] = 0 THEN item ELSE mQueue[o[k]]
        /\ \A j \in 1 .. Len(mQueue') : o[j] = o[k] => j = k
  BY <1>5, <1>6a DEF Inserted
<1>7. \A i \in 1 .. Len(mQueue) : mQueue[i].event \in AllEvents /\ mQueue[i].event # e
  <2>1. \A i \in 1 .. Len(mQueue) : mQueue[i] \in QueueItem
    BY <1>3
  <2> QED BY <2>1 DEF QueueItem
<1>8. QueuedIDsAgree'
  <2>1. ASSUME NEW k \in 1 .. Len(mQueue')
        PROVE  mQueue'[k].id # 0 /\ eventID'[mQueue'[k].event] = mQueue'[k].id
    <3>1. CASE o[k] = 0
      BY <1>1, <1>2, <1>4, <1>6, <3>1
    <3>2. CASE o[k] # 0
      <4>1. o[k] \in 1 .. Len(mQueue) /\ mQueue'[k] = mQueue[o[k]]
        BY <1>6, <3>2
      <4> QED BY <1>4, <1>7, <4>1 DEF QueuedIDsAgree
    <3> QED BY <3>1, <3>2
  <2>2. ASSUME NEW j \in 1 .. Len(mQueue'), NEW k \in 1 .. Len(mQueue'),
               mQueue'[j].event = mQueue'[k].event
        PROVE  j = k
    <3>1. CASE o[j] = 0 \/ o[k] = 0
      BY <1>2, <1>6, <1>7, <2>2, <3>1
    <3>2. CASE o[j] # 0 /\ o[k] # 0
      <4>1. /\ o[j] \in 1 .. Len(mQueue) /\ mQueue'[j] = mQueue[o[j]]
            /\ o[k] \in 1 .. Len(mQueue) /\ mQueue'[k] = mQueue[o[k]]
        BY <1>6, <3>2
      <4>2. o[j] = o[k]
        BY <2>2, <4>1 DEF QueuedIDsAgree
      <4> QED BY <1>6, <4>2
    <3> QED BY <3>1, <3>2
  <2> QED BY <2>1, <2>2 DEF QueuedIDsAgree
<1>9. StopEventIsStops'
  <2>1. CASE e # StopEvent /\ UNCHANGED stop
    BY <1>2, <1>6, <2>1 DEF StopEventIsStops
  <2>2. CASE stop'.id = mNextEventID
    BY <1>1, <2>2 DEF StopEventIsStops, NoStop
  <2> QED BY <2>1, <2>2
<1>10. ThreadHoldsItem'
  BY DEF ThreadHoldsItem
<1>11. WaitsForItsItem'
  <2> SUFFICES ASSUME thread.pc = "waitHead", NEW k \in 1 .. Len(mQueue'),
                      mQueue'[k].id = thread.waitID
               PROVE  IF thread.capped THEN thread.until < mQueue'[k].realtime_us
                      ELSE thread.until = mQueue'[k].realtime_us
    BY DEF WaitsForItsItem
  <2>1. o[k] # 0
    BY <1>1, <1>2, <1>6 DEF ListInv, IDsAreFresh
  <2>2. o[k] \in 1 .. Len(mQueue) /\ mQueue'[k] = mQueue[o[k]]
    BY <1>6, <2>1
  <2> QED BY <2>2 DEF WaitsForItsItem
<1> QED BY <1>8, <1>9, <1>10, <1>11

\* The taking out of one item, with its event's id reset.
LEMMA TakeKeepsQueuedOnce ==
  ASSUME ListInv, QueuedOnce, NEW p \in 1 .. Len(mQueue), mQueue' = Unlink(p),
         eventID' = [eventID EXCEPT ![mQueue[p].event] = 0], UNCHANGED stop,
         UNCHANGED thread \/ thread' = Firing(mQueue[p])
  PROVE  QueuedOnce'
<1> USE DEF QueuedOnce
<1>1. mQueue \in Seq(QueueItem) /\ mQueue' = RemoveAt(mQueue, p)
  BY DEF ListInv, TypeOK, Unlink
<1>2. Len(mQueue') = Len(mQueue) - 1
  BY <1>1, RemoveFacts
<1>3. PICK o : Removed(mQueue', mQueue, p, o)
  BY <1>1, RemoveFacts
<1>4. \A k \in 1 .. Len(mQueue') :
        /\ o[k] \in 1 .. Len(mQueue) /\ o[k] # p /\ mQueue'[k] = mQueue[o[k]]
        /\ \A j \in 1 .. Len(mQueue') : o[j] = o[k] => j = k
  BY <1>2, <1>3 DEF Removed
<1>5. \A i \in 1 .. Len(mQueue) : mQueue[i] \in QueueItem /\ mQueue[i].event \in AllEvents
  <2>1. \A i \in 1 .. Len(mQueue) : mQueue[i] \in QueueItem
    BY <1>1
  <2> QED BY <2>1 DEF QueueItem
<1>6. \A e \in AllEvents : eventID'[e] = IF e = mQueue[p].event THEN 0 ELSE eventID[e]
  BY DEF ListInv, TypeOK
<1>7. \A k \in 1 .. Len(mQueue') : mQueue'[k].event # mQueue[p].event
  BY <1>4 DEF QueuedIDsAgree
<1>8. QueuedIDsAgree'
  <2>1. \A k \in 1 .. Len(mQueue') :
          mQueue'[k].id # 0 /\ eventID'[mQueue'[k].event] = mQueue'[k].id
    BY <1>4, <1>5, <1>6, <1>7 DEF QueuedIDsAgree
  <2>2. \A j, k \in 1 .. Len(mQueue') : mQueue'[j].event = mQueue'[k].event => j = k
    BY <1>4 DEF QueuedIDsAgree
  <2> QED BY <2>1, <2>2 DEF QueuedIDsAgree
<1>9. StopEventIsStops'
  BY <1>4 DEF StopEventIsStops
<1>10. ThreadHoldsItem' /\ WaitsForItsItem'
  <2>1. CASE UNCHANGED thread
    BY <1>4, <2>1 DEF ThreadHoldsItem, WaitsForItsItem
  <2>2. CASE thread' = Firing(mQueue[p])
    BY <1>5, <2>2, ThreadIsFiring DEF ThreadHoldsItem, WaitsForItsItem, QueuedIDsAgree
  <2> QED BY <2>1, <2>2
<1> QED BY <1>8, <1>9, <1>10

\* Steps that leave the list and the ids alone and do not make the thread wait
\* for the head or fire.
LEMMA ControlKeepsQueuedOnce ==
  ASSUME QueuedOnce, UNCHANGED <<mQueue, eventID, stop>>,
         NEW pc \in {"none", "top", "waitNotEmpty", "exited"}, thread' = At(pc)
  PROVE  QueuedOnce'
BY DEF QueuedOnce, QueuedIDsAgree, StopEventIsStops, ThreadHoldsItem, WaitsForItsItem, At

LEMMA RemoveAndFireKeepsQueuedOnce ==
  ASSUME ListInv, QueuedOnce, NEW id, RemoveAndFire(id), UNCHANGED stop
  PROVE  QueuedOnce'
<1>1. CASE Matches(id) = {}
  BY <1>1, ControlKeepsQueuedOnce DEF RemoveAndFire
<1>2. CASE Matches(id) # {}
  BY <1>2, FirstMatchIsQueued, TakeKeepsQueuedOnce DEF RemoveAndFire
<1> QED BY <1>1, <1>2

LEMMA ExamineHeadKeepsQueuedOnce ==
  ASSUME ListInv, QueuedOnce, mQueue # <<>>, ExamineHead, UNCHANGED stop
  PROVE  QueuedOnce'
<1>1. CASE IsDue(mQueue[1].realtime_us)
  BY <1>1, RemoveAndFireKeepsQueuedOnce DEF ExamineHead
<1>2. CASE ~IsDue(mQueue[1].realtime_us)
  <2>1. /\ thread'.pc = "waitHead" /\ thread'.item = NoItem
        /\ thread'.waitID = eventID[mQueue[1].event]
        /\ IF thread'.capped THEN thread'.until < mQueue[1].realtime_us
           ELSE thread'.until = mQueue[1].realtime_us
        /\ UNCHANGED <<mQueue, eventID>>
    BY <1>2, HeadIsAwaited
  <2>2. QueuedIDsAgree' /\ StopEventIsStops' /\ ThreadHoldsItem'
    BY <2>1 DEF QueuedOnce, QueuedIDsAgree, StopEventIsStops, ThreadHoldsItem
  <2>3. 1 \in 1 .. Len(mQueue) /\ thread'.waitID = mQueue[1].id
    BY <2>1 DEF ListInv, TypeOK, QueuedOnce, QueuedIDsAgree
  <2>4. \A k \in 1 .. Len(mQueue) : mQueue[k].id = mQueue[1].id => k = 1
    BY <2>3 DEF ListInv, ItemsApart
  <2>5. WaitsForItsItem'
    BY <2>1, <2>3, <2>4 DEF WaitsForItsItem
  <2> QED BY <2>2, <2>5 DEF QueuedOnce
<1> QED BY <1>1, <1>2

\* The strengthened invariant is inductive.
LEMMA StepKeepsInv ==
  ASSUME ~Repost, QueueInv, [Next]_vars
  PROVE  QueueInv'
<1>1. ListInv /\ QueuedOnce
  BY QueuedOnceIsQueueInv
<1>2. ListInv'
  BY <1>1, StepKeepsList
<1>3. QueuedOnce'
  <2>1. ASSUME NEW e \in Events, Post(e)
        PROVE  QueuedOnce'
    <3>1. PICK t \in {FrontTime, BackTime} \cup (0 .. MaxTime) : PostTimedEvent(e, t)
      BY <2>1 DEF Post
    <3>2. t \in DueTimes
      BY QueueAssumption DEF QueueInv, TypeOK, DueTimes, FrontTime, StopTime, BackTime
    <3>3. e \in AllEvents /\ e # StopEvent /\ UNCHANGED <<stop, thread>>
      BY <2>1, QueueAssumption DEF AllEvents, Post
    <3>4. \A i \in 1 .. Len(mQueue) : mQueue[i].event # e
      BY <2>1 DEF Post, Pending
    <3> QED BY <1>1, <3>1, <3>2, <3>3, <3>4, PostKeepsQueuedOnce
  <2>2. ASSUME NEW id \in EventIDs, CancelEvent(id)
        PROVE  QueuedOnce'
    BY <1>1, <2>2, FirstMatchIsQueued, TakeKeepsQueuedOnce DEF CancelEvent
  <2>3. ASSUME NEW flush \in BOOLEAN, StopCall(flush)
        PROVE  QueuedOnce'
    <3> DEFINE t == IF flush THEN BackTime ELSE StopTime
    <3>1. t \in DueTimes
      BY QueueAssumption DEF DueTimes, StopTime, BackTime
    <3>2. /\ PostTimedEvent(StopEvent, t) /\ stop = NoStop /\ UNCHANGED thread
          /\ stop'.id = mNextEventID
      BY <2>3 DEF StopCall
    <3>3. \A i \in 1 .. Len(mQueue) : mQueue[i].event # StopEvent
      BY <3>2 DEF QueueInv, StopEventIsStops
    <3>4. StopEvent \in AllEvents
      BY DEF AllEvents
    <3> HIDE DEF t
    <3> QED BY <1>1, <3>1, <3>2, <3>3, <3>4, PostKeepsQueuedOnce
  <2>4. CASE StopJoined
    BY <1>1, <2>4 DEF StopJoined, QueuedOnce, QueuedIDsAgree, StopEventIsStops,
       ThreadHoldsItem, WaitsForItsItem, At
  <2>5. CASE Start \/ FireDone
    BY <1>1, <2>5, ControlKeepsQueuedOnce DEF Start, FireDone, ThreadUnchanged
  <2>6. CASE ThreadTop
    <3>1. UNCHANGED stop
      BY <2>6 DEF ThreadTop, ThreadUnchanged
    <3>2. CASE mStopped \/ mQueue = <<>>
      BY <1>1, <2>6, <3>1, <3>2, ControlKeepsQueuedOnce DEF ThreadTop
    <3>3. CASE ~mStopped /\ mQueue # <<>>
      BY <1>1, <2>6, <3>1, <3>3, ExamineHeadKeepsQueuedOnce DEF ThreadTop
    <3> QED BY <3>2, <3>3
  <2>7. CASE UNCHANGED <<mQueue, eventID, stop, thread>>
    BY <1>1, <2>7 DEF QueuedOnce, QueuedIDsAgree, StopEventIsStops, ThreadHoldsItem,
       WaitsForItsItem
  <2>8. CASE WakeNotEmpty \/ WakeHead \/ HeadTimeout
    <3>1. UNCHANGED stop
      BY <2>8 DEF WakeNotEmpty, WakeHead, HeadTimeout, ThreadUnchanged
    <3>2. \/ UNCHANGED <<mQueue, eventID, thread>>
          \/ RemoveAndFire(thread.waitID)
          \/ mQueue # <<>> /\ ExamineHead
      BY <2>8 DEF WakeNotEmpty, WakeHead, HeadTimeout
    <3> QED BY <1>1, <2>7, <3>1, <3>2, RemoveAndFireKeepsQueuedOnce, ExamineHeadKeepsQueuedOnce
  <2>9. CASE Tick \/ UNCHANGED vars
    BY <2>7, <2>9 DEF Tick, vars
  <2> QED
    BY <2>1, <2>2, <2>3, <2>4, <2>5, <2>6, <2>8, <2>9 DEF Next, ThreadStep
<1> QED BY <1>2, <1>3 DEF ListInv, QueuedOnce, QueueInv

\* The types are right, and every queued item can be cancelled by the id its
\* post returned, in every reachable state.
THEOREM QueueInvariant ==
  ASSUME ~Repost PROVE Spec => [](QueueInv /\ TypeOK /\ QueuedIDsAgree)
<1>1. Init => QueueInv
  <2>1. Init => QueuedOnce
    BY DEF Init, QueuedOnce, QueuedIDsAgree, StopEventIsStops, ThreadHoldsItem,
       WaitsForItsItem, At
  <2> QED BY <2>1, InitList, QueuedOnceIsQueueInv
<1>2. QueueInv => TypeOK /\ QueuedIDsAgree
  BY DEF QueueInv
<1>3. QueueInv /\ [Next]_vars => QueueInv'
  BY StepKeepsInv
<1> QED BY <1>1, <1>2, <1>3, PTL DEF Spec

-----------------------------------------------------------------------------
(***************************************************************************)
(* Events fire in time.                                                    *)
(***************************************************************************)

\* An id that is matched is matched by one item, the one whose post returned it.
LEMMA MatchIsThePost ==
  ASSUME QueueInv, NEW id, Matches(id) # {}
  PROVE  /\ FirstMatch(id) \in 1 .. Len(mQueue)
         /\ mQueue[FirstMatch(id)].id = id
         /\ \A i \in 1 .. Len(mQueue) : mQueue[i].id = id => i = FirstMatch(id)
<1>1. /\ FirstMatch(id) \in 1 .. Len(mQueue)
      /\ eventID[mQueue[FirstMatch(id)].event] = id
  BY FirstMatchFacts DEF Matches
<1>2. \A i \in 1 .. Len(mQueue) : mQueue[i].event \in AllEvents
  <2>1. \A i \in 1 .. Len(mQueue) : mQueue[i] \in QueueItem
    BY DEF QueueInv, TypeOK
  <2> QED BY <2>1 DEF QueueItem
<1> QED BY <1>1, <1>2 DEF QueueInv, QueuedIDsAgree, IDsAreFresh

LEMMA RemoveAndFireIsDue ==
  ASSUME QueueInv, NEW id, RemoveAndFire(id), now' = now,
         \A i \in 1 .. Len(mQueue) : mQueue[i].id = id => IsDue(mQueue[i].realtime_us)
  PROVE  NeverEarly'
<1>1. CASE Matches(id) = {}
  BY <1>1 DEF RemoveAndFire, NeverEarly, At
<1>2. CASE Matches(id) # {}
  <2>1. /\ FirstMatch(id) \in 1 .. Len(mQueue)
        /\ mQueue[FirstMatch(id)].id = id
    BY <1>2, MatchIsThePost
  <2>2. thread'.item = mQueue[FirstMatch(id)]
    BY <1>2 DEF RemoveAndFire, Firing, At
  <2> QED BY <2>1, <2>2 DEF NeverEarly, IsDue
<1> QED BY <1>1, <1>2

LEMMA ExamineHeadIsDue ==
  ASSUME QueueInv, mQueue # <<>>, ExamineHead, now' = now
  PROVE  NeverEarly'
<1>1. /\ 1 \in 1 .. Len(mQueue)
      /\ eventID[mQueue[1].event] = mQueue[1].id
      /\ mQueue[1].event \in AllEvents
  <2>1. 1 \in 1 .. Len(mQueue) /\ mQueue[1] \in QueueItem
    BY DEF QueueInv, TypeOK
  <2> QED BY <2>1 DEF QueueInv, QueuedIDsAgree, QueueItem
<1>2. CASE IsDue(mQueue[1].realtime_us)
  <2>1. RemoveAndFire(mQueue[1].id)
    BY <1>1, <1>2 DEF ExamineHead
  <2>2. \A i \in 1 .. Len(mQueue) : mQueue[i].id = mQueue[1].id => i = 1
    <3>1. Matches(mQueue[1].id) # {}
      BY <1>1 DEF Matches
    <3> QED BY <1>1, <3>1, MatchIsThePost
  <2>3. \A i \in 1 .. Len(mQueue) : mQueue[i].id = mQueue[1].id => IsDue(mQueue[i].realtime_us)
    BY <1>2, <2>2
  <2> QED BY <2>1, <2>3, RemoveAndFireIsDue
<1>3. CASE ~IsDue(mQueue[1].realtime_us)
  BY <1>3 DEF ExamineHead, NeverEarly, At
<1> QED BY <1>2, <1>3

\* In every reachable state the event being fired is due.
LEMMA StepNeverEarly ==
  ASSUME QueueInv, NeverEarly, [Next]_vars
  PROVE  NeverEarly'
<1>1. CASE UNCHANGED thread /\ (UNCHANGED now \/ Tick)
  <2>1. CASE UNCHANGED now
    BY <1>1, <2>1 DEF NeverEarly, IsDue
  <2>2. CASE Tick
    <3>1. thread.item.realtime_us \in Int /\ now \in Int /\ now' = now + 1
      <4>1. thread.item \in QueueItem /\ now \in 0 .. MaxTime
        BY DEF QueueInv, TypeOK
      <4>2. thread.item.realtime_us \in DueTimes
        BY <4>1 DEF QueueItem
      <4> QED BY <2>2, <4>1, <4>2 DEF Tick, DueTimes
    <3> QED BY <1>1, <3>1 DEF NeverEarly, IsDue
  <2> QED BY <1>1, <2>1, <2>2
<1>2. CASE Start \/ StopJoined \/ FireDone
  BY <1>2 DEF Start, StopJoined, FireDone, NeverEarly, At
<1>3. CASE ThreadTop
  <2>1. CASE mStopped \/ mQueue = <<>>
    BY <1>3, <2>1 DEF ThreadTop, NeverEarly, At
  <2>2. CASE ~mStopped /\ mQueue # <<>>
    BY <1>3, <2>2, ExamineHeadIsDue DEF ThreadTop, ThreadUnchanged
  <2> QED BY <2>1, <2>2
<1>4. CASE WakeNotEmpty
  <2>1. CASE mQueue = <<>>
    BY <1>4, <2>1 DEF WakeNotEmpty, NeverEarly
  <2>2. CASE mQueue # <<>>
    BY <1>4, <2>2, ExamineHeadIsDue DEF WakeNotEmpty, ThreadUnchanged
  <2> QED BY <2>1, <2>2
<1>5. CASE WakeHead
  <2>1. CASE mQueue = <<>>
    <3>1. RemoveAndFire(thread.waitID) /\ now' = now
      BY <1>5, <2>1 DEF WakeHead, ThreadUnchanged
    <3>2. \A i \in 1 .. Len(mQueue) : mQueue[i].id = thread.waitID => IsDue(mQueue[i].realtime_us)
      BY <2>1
    <3> QED BY <3>1, <3>2, RemoveAndFireIsDue
  <2>2. CASE mQueue # <<>>
    BY <1>5, <2>2, ExamineHeadIsDue DEF WakeHead, ThreadUnchanged
  <2> QED BY <2>1, <2>2
<1>6. CASE HeadTimeout
  <2>1. RemoveAndFire(thread.waitID) /\ now' = now
    BY <1>6 DEF HeadTimeout, ThreadUnchanged
  <2>2. thread.pc = "waitHead" /\ now >= thread.until /\ ~thread.capped
    BY <1>6 DEF HeadTimeout, TimedOut
  <2>3. now \in Int /\ thread.until \in Int
    BY DEF QueueInv, TypeOK
  <2>4. \A i \in 1 .. Len(mQueue) : mQueue[i].id = thread.waitID => IsDue(mQueue[i].realtime_us)
    BY <2>2, <2>3 DEF QueueInv, WaitsForItsItem, IsDue
  <2> QED BY <2>1, <2>4, RemoveAndFireIsDue
<1>7. ASSUME NEW e \in Events, Post(e)
      PROVE  NeverEarly'
  BY <1>1, <1>7 DEF Post
<1>8. ASSUME NEW id \in EventIDs, CancelEvent(id)
      PROVE  NeverEarly'
  BY <1>1, <1>8 DEF CancelEvent
<1>9. ASSUME NEW flush \in BOOLEAN, StopCall(flush)
      PROVE  NeverEarly'
  BY <1>1, <1>9 DEF StopCall
<1>10. CASE Tick
  BY <1>1, <1>10 DEF Tick
<1>11. CASE UNCHANGED vars
  BY <1>1, <1>11 DEF vars
<1> QED
  BY <1>2, <1>3, <1>4, <1>5, <1>6, <1>7, <1>8, <1>9, <1>10, <1>11 DEF Next, ThreadStep

\* No event fires before its time, whatever is posted, cancelled and timed out
\* while the event thread sleeps.
THEOREM EventsFireInTime ==
  ASSUME ~Repost PROVE Spec => []NeverEarly
<1>1. Init => NeverEarly
  BY DEF Init, NeverEarly, At
<1>2. QueueInv /\ NeverEarly /\ [Next]_vars => NeverEarly'
  BY StepNeverEarly
<1>3. Spec => []QueueInv
  BY QueueInvariant, PTL
<1> QED BY <1>1, <1>2, <1>3, PTL DEF Spec

-----------------------------------------------------------------------------
(***************************************************************************)
(* The queue implements the pool of pending posts.                         *)
(***************************************************************************)

LEMMA CancelIsExact ==
  ASSUME QueueInv, NEW id \in EventIDs, CancelEvent(id)
  PROVE  \E x \in Pending : x.id = id /\ Pending' = Pending \ {x}
                            /\ \A y \in Pending : y.id = id => y = x
<1>1. /\ FirstMatch(id) \in 1 .. Len(mQueue) /\ mQueue[FirstMatch(id)].id = id
      /\ mQueue' = Unlink(FirstMatch(id))
  BY MatchIsThePost DEF CancelEvent
<1> QED BY <1>1, QueuedOnceIsQueueInv, UnlinkPending

\* A cancellation by id takes out the post that returned the id, and no other.
THEOREM CancelIsForItsPost ==
  ASSUME ~Repost PROVE Spec => CancelTakesItsPost
<1> DEFINE Exact == \A id \in EventIDs : CancelEvent(id) =>
                      /\ \E x \in Pending : x.id = id
                      /\ Pending' = {x \in Pending : x.id # id}
<1>1. ASSUME QueueInv, [Next]_vars
      PROVE  [Exact]_vars
  BY <1>1, CancelIsExact
<1>2. Spec => []QueueInv
  BY QueueInvariant, PTL
<1> QED BY <1>1, <1>2, PTL DEF Spec, CancelTakesItsPost

LEMMA RemoveAndFireHandsOut ==
  ASSUME QueueInv, NeverEarly', NEW id, RemoveAndFire(id), thread.pc # "fire",
         UNCHANGED <<mNextEventID, now>>
  PROVE  Pool!Next \/ UNCHANGED Pool!poolVars
<1>1. thread.item = NoItem
  BY DEF QueueInv, ThreadHoldsItem
<1>2. CASE Matches(id) = {}
  <2>1. thread'.item = NoItem /\ UNCHANGED Pending
    BY <1>2 DEF RemoveAndFire, At, Pending
  <2> QED BY <1>1, <2>1 DEF Pool!poolVars
<1>3. CASE Matches(id) # {}
  <2> DEFINE x == mQueue[FirstMatch(id)]
  <2>1. FirstMatch(id) \in 1 .. Len(mQueue) /\ mQueue' = Unlink(FirstMatch(id))
    BY <1>3, MatchIsThePost DEF RemoveAndFire
  <2>2. thread'.item = x /\ thread'.pc = "fire"
    BY <1>3 DEF RemoveAndFire, Firing, At
  <2>3. x \in Pending /\ Pending' = Pending \ {x}
    BY <2>1, QueuedOnceIsQueueInv, UnlinkPending
  <2>4. x \in QueueItem /\ x.realtime_us \in DueTimes
    <3>1. x \in QueueItem
      BY <2>1 DEF QueueInv, TypeOK
    <3> QED BY <3>1 DEF QueueItem
  <2>5. IsDue(x.realtime_us)
    BY <2>2 DEF NeverEarly, IsDue
  <2> HIDE DEF x
  <2>6. Pool!IsDue(x)
    BY <2>4, <2>5 DEF IsDue, Pool!IsDue
  <2>7. Pool!HandOut(x)
    BY <1>1, <2>2, <2>3, <2>6 DEF Pool!HandOut
  <2> QED BY <2>4, <2>7 DEF Pool!Next
<1> QED BY <1>2, <1>3

LEMMA ExamineHeadHandsOut ==
  ASSUME QueueInv, NeverEarly', ExamineHead, thread.pc # "fire",
         UNCHANGED <<mNextEventID, now>>
  PROVE  Pool!Next \/ UNCHANGED Pool!poolVars
<1>1. CASE IsDue(mQueue[1].realtime_us)
  BY <1>1, RemoveAndFireHandsOut DEF ExamineHead
<1>2. CASE ~IsDue(mQueue[1].realtime_us)
  <2>1. thread'.item = NoItem /\ UNCHANGED mQueue
    BY <1>2 DEF ExamineHead, At
  <2> QED BY <2>1 DEF Pending, QueueInv, ThreadHoldsItem, Pool!poolVars
<1> QED BY <1>1, <1>2

\* Every step of the queue is a step of the pool, or leaves it alone.
LEMMA StepRefines ==
  ASSUME QueueInv, NeverEarly', [Next]_vars
  PROVE  [Pool!Next]_(Pool!poolVars)
<1>1. ASSUME NEW e \in AllEvents, NEW t \in DueTimes, PostTimedEvent(e, t),
             UNCHANGED <<thread, now>>
      PROVE  Pool!Next
  <2> DEFINE item == [event |-> e, realtime_us |-> t, id |-> mNextEventID]
  <2>1. item \in QueueItem /\ Pending' = Pending \cup {item}
    BY <1>1, QueuedOnceIsQueueInv, InsertPending
  <2>2. item.id = mNextEventID /\ mNextEventID' = mNextEventID + 1
    BY <1>1 DEF PostTimedEvent
  <2> HIDE DEF item
  <2>3. Pool!Add(item)
    BY <1>1, <2>1, <2>2 DEF Pool!Add
  <2> QED BY <2>1, <2>3 DEF Pool!Next
<1>2. ASSUME NEW e \in Events, Post(e)
      PROVE  Pool!Next
  <2>1. PICK t \in {FrontTime, BackTime} \cup (0 .. MaxTime) : PostTimedEvent(e, t)
    BY <1>2 DEF Post
  <2>2. t \in DueTimes
    BY QueueAssumption DEF QueueInv, TypeOK, DueTimes, FrontTime, StopTime, BackTime
  <2>3. e \in AllEvents /\ UNCHANGED <<thread, now>>
    BY <1>2 DEF AllEvents, Post
  <2> QED BY <1>1, <2>1, <2>2, <2>3
<1>3. ASSUME NEW id \in EventIDs, CancelEvent(id)
      PROVE  Pool!Next
  <2>1. PICK x \in Pending : Pending' = Pending \ {x}
    BY <1>3, CancelIsExact
  <2>2. x \in QueueItem
    BY DEF Pending, QueueInv, TypeOK
  <2>3. UNCHANGED <<thread, mNextEventID, now>>
    BY <1>3 DEF CancelEvent
  <2>4. Pool!Cancel(x)
    BY <2>1, <2>3 DEF Pool!Cancel
  <2> QED BY <2>2, <2>4 DEF Pool!Next
<1>4. ASSUME NEW flush \in BOOLEAN, StopCall(flush)
      PROVE  Pool!Next
  <2> DEFINE t == IF flush THEN BackTime ELSE StopTime
  <2>1. t \in DueTimes
    BY QueueAssumption DEF DueTimes, StopTime, BackTime
  <2>2. PostTimedEvent(StopEvent, t) /\ UNCHANGED <<thread, now>>
    BY <1>4 DEF StopCall
  <2>3. StopEvent \in AllEvents
    BY DEF AllEvents
  <2> HIDE DEF t
  <2> QED BY <1>1, <2>1, <2>2, <2>3
<1>5. CASE Start
  <2>1. thread'.item = NoItem /\ UNCHANGED <<Pending, mNextEventID, now>>
    BY <1>5 DEF Start, At, Pending
  <2> QED BY <2>1 DEF Pool!Next, Pool!Handled, Pool!poolVars
<1>6. CASE StopJoined
  <2>1. thread.item = NoItem /\ thread'.item = NoItem
    BY <1>6 DEF StopJoined, At, QueueInv, ThreadHoldsItem
  <2>2. Pending' = {} /\ UNCHANGED <<mNextEventID, now>>
    BY <1>6 DEF StopJoined, Pending
  <2> QED BY <2>1, <2>2 DEF Pool!Next, Pool!Discard
<1>7. CASE ThreadTop
  <2>1. UNCHANGED <<mNextEventID, now>> /\ thread.pc # "fire"
    BY <1>7 DEF ThreadTop, ThreadUnchanged
  <2>2. CASE mStopped \/ mQueue = <<>>
    <3>1. thread'.item = NoItem /\ UNCHANGED Pending
      BY <1>7, <2>2 DEF ThreadTop, At, Pending
    <3> QED BY <2>1, <3>1 DEF QueueInv, ThreadHoldsItem, Pool!poolVars
  <2>3. CASE ~mStopped /\ mQueue # <<>>
    BY <1>7, <2>1, <2>3, ExamineHeadHandsOut DEF ThreadTop
  <2> QED BY <2>2, <2>3
<1>8. CASE WakeNotEmpty
  <2>1. UNCHANGED <<mNextEventID, now>> /\ thread.pc # "fire"
    BY <1>8 DEF WakeNotEmpty, ThreadUnchanged
  <2>2. CASE mQueue = <<>>
    BY <1>8, <2>1, <2>2 DEF WakeNotEmpty, Pool!poolVars, Pending
  <2>3. CASE mQueue # <<>>
    BY <1>8, <2>1, <2>3, ExamineHeadHandsOut DEF WakeNotEmpty
  <2> QED BY <2>2, <2>3
<1>9. CASE WakeHead
  <2>1. UNCHANGED <<mNextEventID, now>> /\ thread.pc # "fire"
    BY <1>9 DEF WakeHead, ThreadUnchanged
  <2>2. CASE mQueue = <<>>
    BY <1>9, <2>1, <2>2, RemoveAndFireHandsOut DEF WakeHead
  <2>3. CASE mQueue # <<>>
    BY <1>9, <2>1, <2>3, ExamineHeadHandsOut DEF WakeHead
  <2> QED BY <2>2, <2>3
<1>10. CASE HeadTimeout
  BY <1>10, RemoveAndFireHandsOut DEF HeadTimeout, ThreadUnchanged
<1>11. CASE FireDone
  <2>1. thread.item # NoItem
    BY <1>11 DEF FireDone, QueueInv, ThreadHoldsItem, NoItem
  <2>2. thread'.item = NoItem /\ UNCHANGED <<Pending, mNextEventID, now>>
    BY <1>11 DEF FireDone, ThreadUnchanged, At, Pending
  <2> QED BY <2>1, <2>2 DEF Pool!Next, Pool!Handled
<1>12. CASE Tick
  <2>1. UNCHANGED <<Pending, thread, mNextEventID>> /\ now' = now + 1
    BY <1>12 DEF Tick, Pending
  <2> QED BY <2>1 DEF Pool!Next, Pool!Advance
<1>13. CASE UNCHANGED vars
  BY <1>13 DEF vars, Pending, Pool!poolVars
<1> QED
  BY <1>2, <1>3, <1>4, <1>5, <1>6, <1>7, <1>8, <1>9, <1>10, <1>11, <1>12, <1>13
  DEF Next, ThreadStep

\* The queue, with its list, ids and sleeping thread, is a pool: every post is
\* handed out at most once, one at a time, when due, and never once cancelled.
THEOREM QueueImplementsPool ==
  ASSUME ~Repost PROVE Spec => ImplementsPool
<1>1. Init => Pool!Init
  BY DEF Init, Pool!Init, Pending, At
<1>2. QueueInv /\ NeverEarly' /\ [Next]_vars => [Pool!Next]_(Pool!poolVars)
  BY StepRefines
<1>3. Spec => []QueueInv /\ []NeverEarly
  BY QueueInvariant, EventsFireInTime, PTL
<1> QED BY <1>1, <1>2, <1>3, PTL DEF Spec, ImplementsPool, Pool!Spec

=============================================================================
