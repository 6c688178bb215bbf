--------------------------- MODULE CommandServer ---------------------------
(***************************************************************************)
(* What the callers of the download engine may rely on: a command they     *)
(* send is executed once, the commands one at a time and in the order they *)
(* were sent, a synchronous call returns after its own command has been    *)
(* executed and not before, and the server closes only when nothing is     *)
(* left to execute.  DELooper implements this specification.               *)
(***************************************************************************)
EXTENDS Naturals, Sequences

CONSTANTS
  Callers, \* the threads that send commands
  MaxSent  \* bound on the number of commands sent

VARIABLES
  open,     \* commands are accepted
  sent,     \* number of commands sent so far, the id of the last
  pending,  \* the commands sent and not executed, oldest first
  executed, \* id of the command executed last
  called    \* the callers whose synchronous call has not returned

vars == <<open, sent, pending, executed, called>>

Command == [id : 1 .. MaxSent, from : Callers, sync : BOOLEAN]

Init ==
  /\ open = FALSE /\ sent = 0 /\ pending = <<>> /\ executed = 0
  /\ called = {}

Open ==
  /\ ~open
  /\ open' = TRUE
  /\ UNCHANGED <<sent, pending, executed, called>>

Send(c, sync) ==
  /\ open /\ c \notin called /\ sent < MaxSent
  /\ sent' = sent + 1
  /\ pending' = Append(pending, [id |-> sent + 1, from |-> c, sync |-> sync])
  /\ called' = IF sync THEN called \cup {c} ELSE called
  /\ UNCHANGED <<open, executed>>

Execute ==
  /\ open /\ pending # <<>>
  /\ executed' = Head(pending).id
  /\ pending' = Tail(pending)
  /\ UNCHANGED <<open, sent, called>>

\* A synchronous call returns: its command is no longer pending.
Return(c) ==
  /\ c \in called
  /\ \A i \in 1 .. Len(pending) : ~(pending[i].from = c /\ pending[i].sync)
  /\ called' = called \ {c}
  /\ UNCHANGED <<open, sent, pending, executed>>

Close ==
  /\ open /\ pending = <<>> /\ called = {}
  /\ open' = FALSE
  /\ UNCHANGED <<sent, pending, executed, called>>

Next ==
  \/ Open
  \/ \E c \in Callers, sync \in BOOLEAN : Send(c, sync)
  \/ Execute
  \/ \E c \in Callers : Return(c)
  \/ Close

Spec == Init /\ [][Next]_vars

=============================================================================
