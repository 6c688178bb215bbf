----------------------------- MODULE PostedEvents -----------------------------
(***************************************************************************)
(* What a timed event queue does for a client that posts an event object   *)
(* again while it is queued: how many items of each object are queued, and *)
(* whether an item of it can be cancelled.  The id is kept in the object,  *)
(* so that it is the last post's, and is lost with the first item taken    *)
(* out.  EventPool says more, of clients that post only what is not queued.*)
(*                                                                         *)
(* The operations are functions of the queue, for a client makes several   *)
(* of them in one step, under its own lock.                                *)
(***************************************************************************)
EXTENDS Naturals

CONSTANT Objects     \* the event objects of the client

VARIABLE queue       \* items of each object, objects with an id, object handled

QueueOf(posted, id, firing) == [posted |-> posted, id |-> id, firing |-> firing]

EmptyQueue == QueueOf([e \in Objects |-> 0], [e \in Objects |-> FALSE], {})

Posted(q, e) ==
  QueueOf([q.posted EXCEPT ![e] = @ + 1], [q.id EXCEPT ![e] = TRUE], q.firing)

\* An item is taken out, cancelled or fired.  Only one item of an object that
\* was posted twice can be cancelled.
Out(q, e, firing) ==
  QueueOf([q.posted EXCEPT ![e] = @ - 1], [q.id EXCEPT ![e] = FALSE], firing)
Taken(q, e) == Out(q, e, q.firing)
Fired(q, e) == Out(q, e, {e})
Handled(q)  == QueueOf(q.posted, q.id, {})

\* The queue is stopped: the items are thrown away, the objects keep their ids.
\* Or it is deleted with the objects, and another one made.
Dropped(q) == QueueOf([e \in Objects |-> 0], q.id, q.firing)

After(q) ==
  {Posted(q, e) : e \in Objects}
    \cup {Taken(q, e) : e \in {o \in Objects : q.posted[o] > 0 /\ q.id[o]}}
    \cup {Fired(q, e) : e \in {o \in Objects : q.posted[o] > 0 /\ q.firing = {}}}
    \cup {Handled(q)}
    \cup {r \in {Dropped(q), EmptyQueue} : q.firing = {}}

\* The queue by itself: one operation a step.
Init == queue = EmptyQueue
Next == queue' \in After(queue)
Spec == Init /\ [][Next]_queue

\* A client that makes as many as three in a step.
Calls ==
  \E q \in {queue} \cup After(queue) : \E r \in {q} \cup After(q) : queue' \in {r} \cup After(r)
ClientSpec == Init /\ [][Calls]_queue

===============================================================================
