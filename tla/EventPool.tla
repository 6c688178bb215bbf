------------------------------- MODULE EventPool -------------------------------
(***************************************************************************)
(* What a timed event queue promises its clients, without saying how it    *)
(* keeps its events: every post is handled once at most; an event is not   *)
(* handed out before its time; a cancelled post is never handed out; and   *)
(* one event is handled at a time.  Nothing is promised about the order of *)
(* events that are due together.                                           *)
(***************************************************************************)
EXTENDS Integers

CONSTANTS
  Posts,         \* every possible post: an event, its due time and its id
  NoPost,        \* stands for "no event is being handled"
  Immediate      \* the due times that are due at any time

VARIABLES
  pending,       \* the posts not handled, cancelled or discarded yet
  firing,        \* the post being handled
  nextID,
  clock

poolVars == <<pending, firing, nextID, clock>>

Init ==
  /\ pending = {}
  /\ firing = NoPost
  /\ nextID = 1
  /\ clock = 0

IsDue(x) == x.realtime_us \in Immediate \/ x.realtime_us <= clock

Add(x) ==
  /\ x.id = nextID
  /\ pending' = pending \cup {x}
  /\ nextID' = nextID + 1
  /\ UNCHANGED <<firing, clock>>

\* The caller names the post it cancels.
Cancel(x) ==
  /\ x \in pending
  /\ pending' = pending \ {x}
  /\ UNCHANGED <<firing, nextID, clock>>

HandOut(x) ==
  /\ firing = NoPost
  /\ x \in pending /\ IsDue(x)
  /\ pending' = pending \ {x}
  /\ firing' = x
  /\ UNCHANGED <<nextID, clock>>

Handled ==
  /\ firing # NoPost
  /\ firing' = NoPost
  /\ UNCHANGED <<pending, nextID, clock>>

\* The queue is stopped: what is left is thrown away.
Discard ==
  /\ firing = NoPost
  /\ pending' = {}
  /\ UNCHANGED <<firing, nextID, clock>>

Advance ==
  /\ clock' = clock + 1
  /\ UNCHANGED <<pending, firing, nextID>>

Next ==
  \/ \E x \in Posts : Add(x) \/ Cancel(x) \/ HandOut(x)
  \/ Handled \/ Discard \/ Advance

Spec == Init /\ [][Next]_poolVars

=============================================================================
