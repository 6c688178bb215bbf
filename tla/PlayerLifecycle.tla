--------------------------- MODULE PlayerLifecycle ---------------------------
(***************************************************************************)
(* What preparing and resetting a player promise the application, without  *)
(* the event, its thread and the objects it makes: a prepare ends once, as *)
(* prepared or as failed, and says so at most once; a reset does not cut   *)
(* it short, and after it there is nothing left that could be heard.       *)
(***************************************************************************)

VARIABLES
  phase,  \* blank, preparing, prepared or failed
  told,   \* what the application has been told of the last prepare
  quiet   \* whether nothing of a source is there or under way

lifeVars == <<phase, told, quiet>>

Init == phase = "blank" /\ told = "none" /\ quiet = TRUE

PrepareAsync ==
  /\ phase = "blank" /\ quiet
  /\ phase' = "preparing" /\ told' = "none" /\ quiet' = FALSE

\* It is said of a player that is prepared, once.
Succeed == phase = "preparing" /\ told = "none" /\ phase' = "prepared" /\ UNCHANGED <<told, quiet>>

TellPrepared ==
  phase = "prepared" /\ told = "none" /\ told' = "prepared" /\ UNCHANGED <<phase, quiet>>

\* Or of one that fails, at the end or before; or it is not said.
TellError == phase = "preparing" /\ told = "none" /\ told' = "error" /\ UNCHANGED <<phase, quiet>>

Fail ==
  /\ phase = "preparing"
  /\ phase' = "failed"
  /\ told' \in {told, "error"} /\ quiet' \in BOOLEAN

\* The end of a reset: of a prepared player it has been told.
Reset ==
  /\ phase \in {"prepared", "failed"}
  /\ phase = "prepared" => told = "prepared"
  /\ phase' = "blank" /\ quiet' = TRUE /\ UNCHANGED told

Next == PrepareAsync \/ Succeed \/ TellPrepared \/ TellError \/ Fail \/ Reset

Spec == Init /\ [][Next]_lifeVars

==============================================================================
