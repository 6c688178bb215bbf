--------------------------- MODULE DELooper_proofs ---------------------------
(***************************************************************************)
(* The download engine's loop forgets no command, lets nobody wait without *)
(* a reason, and implements the command server, for any number of sources  *)
(* and commands, if a source is alone when it is deleted.                  *)
(***************************************************************************)
EXTENDS DELooper, SequenceTheorems, TLAPS

(***************************************************************************)
(* The inductive invariant.  The reasons of the waits are not inductive:   *)
(* one has to know that the stop command is the last one, that its sender  *)
(* has no other source beside it, and which calls the queued commands are  *)
(* the answers to.                                                         *)
(***************************************************************************)

At(i) == looper_cmd_queue[i]
Positions == 1 .. Len(looper_cmd_queue)
Ends == {"none", "creating", "deleted"}

EngineHasThread == g_download_engine <=> looper_thread # "none"

NoThreadNoSource ==
  looper_thread = "none" => looper_cmd_queue = <<>> /\ \A s \in Sources : source[s] \in Ends

StopperIsAlone ==
  \A s, t \in Sources : source[s] = "stopping" /\ s # t => source[t] \in Ends

StopHasAStopper == StopPosted \/ Stopped => \E s \in Sources : source[s] = "stopping"

StopIsLast == \A i \in Positions : At(i) = StopCommand => i = Len(looper_cmd_queue)

StoppedIsDone == Stopped => looper_cmd_queue = <<>>

PollingRuns == looper_thread = "polling" => is_running

\* A synchronous command in the queue is the one its caller waits for.
SyncIsAwaited ==
  \A i \in Positions : At(i) # StopCommand /\ At(i).sync =>
    /\ source[At(i).from] = "waiting"
    /\ \A j \in Positions : At(j) # StopCommand /\ At(j).sync /\ At(j).from = At(i).from => i = j

LoopInv ==
  /\ TypeOK /\ EngineHasThread /\ NoThreadNoSource
  /\ StopperIsAlone /\ StopHasAStopper /\ StopIsLast /\ StoppedIsDone
  /\ PollingRuns /\ SyncIsAwaited
  /\ NoCommandForgotten /\ EveryWaitHasItsReason


-----------------------------------------------------------------------------

\* The stop command is nobody's call.
LEMMA StopIsNoCommand == StopCommand \notin Command /\ StopCommand.sync = FALSE
BY DEF StopCommand, Command

\* A thread's new place, and that of the others.
LEMMA SourceAfter ==
  ASSUME TypeOK, NEW s \in Sources, NEW pc \in SourcePCs,
         source' = [source EXCEPT ![s] = pc]
  PROVE  /\ source' \in [Sources -> SourcePCs]
         /\ source'[s] = pc
         /\ \A t \in Sources : t # s => source'[t] = source[t]
BY DEF TypeOK

\* Nothing in the invariant depends on the queue but through these.
LEMMA SameQueue ==
  ASSUME looper_cmd_queue' = looper_cmd_queue
  PROVE  /\ StopPosted' <=> StopPosted
         /\ Positions' = Positions
         /\ \A i : At(i)' = At(i)
BY DEF StopPosted, Positions, At

LEMMA InitIsGood == Init => LoopInv
<1> SUFFICES ASSUME Init PROVE LoopInv
  OBVIOUS
<1>1. looper_cmd_queue = <<>> /\ \A s \in Sources : source[s] = "none"
  BY DEF Init
<1>2. Positions = {} /\ ~StopPosted /\ ~Stopped
  BY <1>1 DEF Init, Positions, StopPosted, Stopped
<1>3. TypeOK
  <2>1. looper_cmd_queue \in Seq(Command \cup {StopCommand})
    BY <1>1
  <2>2. 0 \in 0 .. MaxCommands
    BY LooperAssumption
  <2>3. source \in [Sources -> SourcePCs] /\ looper_thread \in LooperPCs
    BY DEF Init, SourcePCs, LooperPCs
  <2>4. g_download_engine \in BOOLEAN /\ is_running \in BOOLEAN /\ postman \in BOOLEAN
    BY DEF Init
  <2> QED BY <2>1, <2>2, <2>3, <2>4 DEF Init, TypeOK
<1>4. EngineHasThread /\ NoThreadNoSource /\ StopperIsAlone /\ StopHasAStopper
  BY <1>1, <1>2 DEF Init, EngineHasThread, NoThreadNoSource, StopperIsAlone, StopHasAStopper, Ends
<1>5. StopIsLast /\ StoppedIsDone /\ PollingRuns /\ SyncIsAwaited
  BY <1>2 DEF Init, StopIsLast, StoppedIsDone, PollingRuns, SyncIsAwaited
<1>6. NoCommandForgotten /\ EveryWaitHasItsReason
  BY <1>1 DEF NoCommandForgotten, EveryWaitHasItsReason
<1> QED BY <1>3, <1>4, <1>5, <1>6 DEF LoopInv

LEMMA EngineInitKeeps ==
  ASSUME LoopInv, Alone, NEW s \in Sources, EngineInit(s)
  PROVE  LoopInv'
<1> USE DEF LoopInv
<1> DEFINE pc == IF g_download_engine THEN "ready" ELSE "creating"
<1>1. source' = [source EXCEPT ![s] = pc]
  BY DEF EngineInit
<1>2. pc \in SourcePCs /\ pc \notin {"none", "deleted", "starting", "stopping", "waiting"}
  BY DEF SourcePCs
<1>3. pc \in Ends \/ looper_thread # "none"
  BY DEF Ends, EngineHasThread
<1> HIDE DEF pc
<1>4. /\ source' \in [Sources -> SourcePCs] /\ source'[s] = pc
      /\ \A t \in Sources : t # s => source'[t] = source[t]
  BY <1>1, <1>2, SourceAfter
<1>5. source[s] = "none" /\ \A t \in Sources : source[t] # "stopping"
  BY DEF EngineInit
<1>6. UNCHANGED <<g_download_engine, looper_thread, is_running, postman, looper_cmd_queue,
                  sent, executed>>
  BY DEF EngineInit
<1>7. ~StopPosted /\ ~Stopped
  BY <1>5 DEF StopHasAStopper
<1>8. ~StopPosted' /\ ~Stopped'
  BY <1>6, <1>7, SameQueue DEF Stopped
<1>9. TypeOK'
  BY <1>4, <1>6 DEF TypeOK
<1>10. EngineHasThread' /\ NoThreadNoSource' /\ StopperIsAlone' /\ StopHasAStopper'
  BY <1>2, <1>3, <1>4, <1>5, <1>6, <1>8
     DEF EngineHasThread, NoThreadNoSource, StopperIsAlone, StopHasAStopper
<1>11. StopIsLast' /\ StoppedIsDone' /\ PollingRuns'
  BY <1>6, <1>8, SameQueue DEF StopIsLast, StoppedIsDone, PollingRuns
<1>12. SyncIsAwaited'
  <2>1. \A t \in Sources : source[t] = "waiting" => source'[t] = "waiting"
    BY <1>4, <1>5
  <2>2. \A i \in Positions : At(i) # StopCommand => At(i).from \in Sources
    BY DEF TypeOK, Positions, At, Command
  <2> QED BY <1>6, <2>1, <2>2, SameQueue DEF SyncIsAwaited
<1>13. NoCommandForgotten' /\ EveryWaitHasItsReason'
  BY <1>2, <1>4, <1>5, <1>6, <1>8 DEF NoCommandForgotten, EveryWaitHasItsReason
<1> QED BY <1>9, <1>10, <1>11, <1>12, <1>13

LEMMA EngineStartKeeps ==
  ASSUME LoopInv, NEW s \in Sources, EngineStart(s)
  PROVE  LoopInv'
<1> USE DEF LoopInv
<1>1. /\ source' \in [Sources -> SourcePCs] /\ source'[s] = "starting"
      /\ \A t \in Sources : t # s => source'[t] = source[t]
  BY SourceAfter DEF EngineStart, SourcePCs
<1>2. looper_thread = "none" /\ looper_cmd_queue = <<>> /\ \A t \in Sources : source[t] \in Ends
  BY DEF EngineStart, EngineHasThread, NoThreadNoSource
<1>3. /\ looper_thread' = "starting" /\ g_download_engine' = TRUE
      /\ UNCHANGED <<is_running, postman, looper_cmd_queue, sent, executed>>
  BY DEF EngineStart
<1>4. Positions = {} /\ ~StopPosted' /\ ~Stopped'
  BY <1>2, <1>3 DEF Positions, StopPosted, Stopped
<1>5. TypeOK'
  BY <1>1, <1>3 DEF TypeOK, LooperPCs
<1>6. EngineHasThread' /\ NoThreadNoSource' /\ StopperIsAlone' /\ StopHasAStopper'
  BY <1>1, <1>2, <1>3, <1>4 DEF EngineHasThread, NoThreadNoSource, StopperIsAlone,
     StopHasAStopper, Ends
<1>7. StopIsLast' /\ StoppedIsDone' /\ PollingRuns' /\ SyncIsAwaited'
  BY <1>3, <1>4, SameQueue DEF StopIsLast, StoppedIsDone, PollingRuns, SyncIsAwaited
<1>8. NoCommandForgotten' /\ EveryWaitHasItsReason'
  BY <1>1, <1>2, <1>3 DEF NoCommandForgotten, EveryWaitHasItsReason, Ends
<1> QED BY <1>5, <1>6, <1>7, <1>8

LEMMA ResumeKeeps ==
  ASSUME LoopInv, NEW s \in Sources, Resume(s)
  PROVE  LoopInv'
<1> USE DEF LoopInv
<1>1. /\ source' \in [Sources -> SourcePCs] /\ source'[s] = "ready"
      /\ \A t \in Sources : t # s => source'[t] = source[t]
  BY SourceAfter DEF Resume, SourcePCs
<1>2. source[s] \in {"started", "answered"}
  BY DEF Resume
<1>3. UNCHANGED <<g_download_engine, looper_thread, is_running, postman, looper_cmd_queue, sent, executed>>
  BY DEF Resume
<1>4. (StopPosted' <=> StopPosted) /\ (Stopped' <=> Stopped)
  BY <1>3, SameQueue DEF Stopped
<1>5. \A t \in Sources, pc \in {"none", "creating", "deleted", "stopping", "waiting", "starting"} :
        source'[t] = pc <=> source[t] = pc
  BY <1>1, <1>2
<1>6. TypeOK'
  BY <1>1, <1>3 DEF TypeOK
<1>7. EngineHasThread' /\ NoThreadNoSource' /\ StopperIsAlone' /\ StopHasAStopper'
  BY <1>3, <1>4, <1>5 DEF EngineHasThread, NoThreadNoSource, StopperIsAlone, StopHasAStopper, Ends
<1>8. StopIsLast' /\ StoppedIsDone' /\ PollingRuns'
  BY <1>3, <1>4, SameQueue DEF StopIsLast, StoppedIsDone, PollingRuns
<1>9. SyncIsAwaited'
  <2>1. \A i \in Positions : At(i) # StopCommand => At(i).from \in Sources
    BY DEF TypeOK, Positions, At, Command
  <2> QED BY <1>3, <1>5, <2>1, SameQueue DEF SyncIsAwaited
<1>10. NoCommandForgotten' /\ EveryWaitHasItsReason'
  BY <1>3, <1>4, <1>5 DEF NoCommandForgotten, EveryWaitHasItsReason
<1> QED BY <1>6, <1>7, <1>8, <1>9, <1>10

\* A queue with the command c at its end, the place n.
OneMore(c, n) ==
  /\ looper_cmd_queue' \in Seq(Command \cup {StopCommand})
  /\ Len(looper_cmd_queue') = n
  /\ looper_cmd_queue' # <<>>
  /\ Positions' = Positions \cup {n} /\ n \notin Positions
  /\ \A i \in Positions' : At(i)' = IF i \in Positions THEN At(i) ELSE c

LEMMA QueueAfterPost ==
  ASSUME TypeOK, NEW c \in Command \cup {StopCommand},
         looper_cmd_queue' = Append(looper_cmd_queue, c)
  PROVE  \E n \in Nat : OneMore(c, n)
<1>1. looper_cmd_queue \in Seq(Command \cup {StopCommand}) /\ Len(looper_cmd_queue) \in Nat
  BY DEF TypeOK
<1>2. /\ looper_cmd_queue' \in Seq(Command \cup {StopCommand})
      /\ Len(looper_cmd_queue') = Len(looper_cmd_queue) + 1
      /\ \A i \in 1 .. Len(looper_cmd_queue) : looper_cmd_queue'[i] = looper_cmd_queue[i]
      /\ looper_cmd_queue'[Len(looper_cmd_queue) + 1] = c
      /\ looper_cmd_queue' # <<>>
  BY <1>1, AppendProperties
<1> DEFINE n == Len(looper_cmd_queue) + 1
<1>3. n \in Nat /\ n \notin Positions /\ Positions' = Positions \cup {n}
  BY <1>1, <1>2 DEF Positions
<1>4. looper_cmd_queue'[n] = c /\ Len(looper_cmd_queue') = n
  BY <1>2
<1>5. \A i \in Positions : At(i)' = At(i)
  BY <1>2 DEF Positions, At
<1> HIDE DEF n
<1>6. \A i \in Positions' : At(i)' = IF i \in Positions THEN At(i) ELSE c
  BY <1>3, <1>4, <1>5 DEF At
<1> QED BY <1>2, <1>3, <1>4, <1>6 DEF OneMore

\* A queue without its first command.
LEMMA QueueAfterTake ==
  ASSUME TypeOK, looper_cmd_queue # <<>>, looper_cmd_queue' = Tail(looper_cmd_queue)
  PROVE  /\ looper_cmd_queue' \in Seq(Command \cup {StopCommand})
         /\ Len(looper_cmd_queue) \in Nat \ {0}
         /\ Len(looper_cmd_queue') = Len(looper_cmd_queue) - 1
         /\ Head(looper_cmd_queue) = At(1)
         /\ 1 \in Positions
         /\ \A i \in Positions' : i + 1 \in Positions /\ At(i)' = At(i + 1)
         /\ \A i \in Positions : i # 1 => i - 1 \in Positions' /\ At(i - 1)' = At(i)
<1>1. looper_cmd_queue \in Seq(Command \cup {StopCommand})
  BY DEF TypeOK
<1> QED BY <1>1, HeadTailProperties DEF Positions, At

LEMMA PostCommandKeeps ==
  ASSUME LoopInv, NEW s \in Sources, NEW sync \in BOOLEAN, PostCommand(s, sync)
  PROVE  LoopInv'
<1> USE DEF LoopInv
<1> DEFINE c  == [id |-> sent + 1, from |-> s, sync |-> sync]
           pc == IF sync THEN "waiting" ELSE "ready"
<1>1. /\ source[s] = "ready" /\ g_download_engine
      /\ sent < MaxCommands /\ sent' = sent + 1 /\ postman'
      /\ looper_cmd_queue' = Append(looper_cmd_queue, c)
      /\ UNCHANGED <<g_download_engine, looper_thread, is_running, executed>>
  BY DEF PostCommand, Post
<1>2. c \in Command /\ c # StopCommand /\ sent' \in 0 .. MaxCommands
  BY <1>1, LooperAssumption DEF Command, StopCommand, TypeOK
<1>3. c.from = s /\ c.sync = sync
  OBVIOUS
<1> HIDE DEF c
<1>4. /\ source' \in [Sources -> SourcePCs] /\ source'[s] = pc
      /\ \A t \in Sources : t # s => source'[t] = source[t]
  <2>1. source' = [source EXCEPT ![s] = pc] /\ pc \in SourcePCs
    BY <1>1 DEF PostCommand, TypeOK, SourcePCs
  <2> HIDE DEF pc
  <2> QED BY <2>1, SourceAfter
<1>5. PICK n \in Nat : OneMore(c, n)
  BY <1>1, <1>2, QueueAfterPost
<1> USE <1>5 DEF OneMore
<1>6. \A t \in Sources : source[t] # "stopping" /\ source'[t] # "stopping"
  BY <1>1, <1>4 DEF StopperIsAlone, Ends
<1>7. ~StopPosted /\ ~Stopped
  BY <1>6 DEF StopHasAStopper
<1>8. ~StopPosted' /\ ~Stopped'
  <2>1. \A i \in Positions : At(i) # StopCommand
    BY <1>7 DEF StopPosted, Positions, At
  <2>2. \A i \in Positions' : At(i)' # StopCommand
    BY <1>2, <1>5, <2>1
  <2> QED BY <1>1, <1>7, <2>2 DEF StopPosted, Positions, At, Stopped
<1>9. looper_thread \in {"starting", "polling", "callback"}
  BY <1>1, <1>7 DEF TypeOK, LooperPCs, Stopped, EngineHasThread
<1>10. TypeOK'
  BY <1>1, <1>2, <1>4, <1>5 DEF TypeOK
<1>11. EngineHasThread' /\ NoThreadNoSource' /\ StopperIsAlone' /\ StopHasAStopper'
  BY <1>1, <1>6, <1>8, <1>9 DEF EngineHasThread, NoThreadNoSource, StopperIsAlone, StopHasAStopper
<1>12. StopIsLast' /\ StoppedIsDone' /\ PollingRuns'
  BY <1>1, <1>8 DEF StopIsLast, StoppedIsDone, PollingRuns, StopPosted, Positions, At
<1>13. SyncIsAwaited'
  <2>1. \A i \in Positions : At(i) # StopCommand => At(i).from \in Sources
    BY DEF TypeOK, Positions, At, Command
  <2>2. \A i \in Positions : At(i) # StopCommand /\ At(i).sync => At(i).from # s
    BY <1>1 DEF SyncIsAwaited
  <2>3. \A i \in Positions' : At(i)' # StopCommand /\ At(i)'.sync => source'[At(i)'.from] = "waiting"
    BY <1>3, <1>4, <1>5, <2>1, <2>2 DEF SyncIsAwaited
  <2>4. \A i, j \in Positions' :
          (/\ At(i)' # StopCommand /\ At(i)'.sync
           /\ At(j)' # StopCommand /\ At(j)'.sync /\ At(j)'.from = At(i)'.from) => i = j
    <3> SUFFICES ASSUME NEW i \in Positions', NEW j \in Positions',
                        At(i)' # StopCommand, At(i)'.sync, At(j)' # StopCommand, At(j)'.sync,
                        At(j)'.from = At(i)'.from
                 PROVE  i = j
      OBVIOUS
    <3>1. CASE i \in Positions /\ j \in Positions
      BY <3>1 DEF SyncIsAwaited
    <3>2. CASE i \notin Positions /\ j \notin Positions
      BY <3>2
    <3>3. CASE (i \in Positions /\ j \notin Positions) \/ (i \notin Positions /\ j \in Positions)
      BY <1>3, <2>2, <3>3
    <3> QED BY <3>1, <3>2, <3>3
  <2> QED BY <2>3, <2>4 DEF SyncIsAwaited
<1>14. EveryWaitHasItsReason'
  <2>1. ASSUME NEW t \in Sources, source'[t] = "waiting"
        PROVE  \E i \in Positions' : At(i)'.from = t /\ At(i)'.sync
    <3>1. CASE t = s
      BY <1>3, <1>4, <1>5, <2>1, <3>1
    <3>2. CASE t # s
      <4>1. \E i \in Positions : At(i).from = t /\ At(i).sync
        BY <1>4, <2>1, <3>2 DEF EveryWaitHasItsReason, Positions, At
      <4> QED BY <1>5, <4>1
    <3> QED BY <3>1, <3>2
  <2>2. \A t \in Sources : source'[t] = "starting" => source[t] = "starting"
    BY <1>4
  <2> QED BY <1>1, <1>6, <1>9, <2>1, <2>2 DEF EveryWaitHasItsReason, Positions, At
<1>15. NoCommandForgotten'
  BY <1>1 DEF NoCommandForgotten
<1> QED BY <1>10, <1>11, <1>12, <1>13, <1>14, <1>15

LEMMA UninitKeeps ==
  ASSUME LoopInv, Alone, NEW s \in Sources, Uninit(s)
  PROVE  LoopInv'
<1> USE DEF LoopInv
<1>1. /\ source[s] = "ready"
      /\ \A t \in Sources : t # s => source[t] \in Ends
      /\ UNCHANGED <<g_download_engine, looper_thread, is_running, sent, executed>>
  BY DEF Uninit, Using, Ends
<1>2. looper_thread # "none" /\ g_download_engine
  BY <1>1 DEF NoThreadNoSource, EngineHasThread, Ends
<1>3. looper_cmd_queue' = Append(looper_cmd_queue, StopCommand) /\ postman'
  BY <1>2 DEF Uninit, Post
<1>4. /\ source' \in [Sources -> SourcePCs] /\ source'[s] = "stopping"
      /\ \A t \in Sources : t # s => source'[t] \in Ends
  BY <1>1, <1>2, SourceAfter DEF Uninit, SourcePCs
<1>5. PICK n \in Nat : OneMore(StopCommand, n)
  BY <1>3, QueueAfterPost
<1> USE <1>5 DEF OneMore
<1>6. ~StopPosted /\ ~Stopped
  BY <1>1 DEF StopHasAStopper, Ends
<1>7. StopPosted' /\ ~Stopped'
  BY <1>1, <1>5, <1>6 DEF StopPosted, Positions, At, Stopped
<1>8. TypeOK'
  BY <1>1, <1>3, <1>4, <1>5 DEF TypeOK
<1>9. EngineHasThread' /\ NoThreadNoSource' /\ StopperIsAlone' /\ StopHasAStopper'
  BY <1>1, <1>2, <1>4 DEF EngineHasThread, NoThreadNoSource, StopperIsAlone, StopHasAStopper, Ends
<1>10. StopIsLast'
  <2>1. \A i \in Positions : At(i) # StopCommand
    BY <1>6 DEF StopPosted, Positions, At
  <2> QED BY <1>5, <2>1 DEF StopIsLast
<1>11. StoppedIsDone' /\ PollingRuns' /\ NoCommandForgotten'
  BY <1>1, <1>3, <1>7 DEF StoppedIsDone, PollingRuns, NoCommandForgotten
<1>12. SyncIsAwaited'
  <2>1. \A i \in Positions : At(i) # StopCommand => At(i).from \in Sources
    BY DEF TypeOK, Positions, At, Command
  <2>2. \A i \in Positions : At(i) # StopCommand => ~At(i).sync
    BY <1>1, <2>1 DEF SyncIsAwaited, Ends
  <2> QED BY <1>5, <2>2 DEF SyncIsAwaited
<1>13. EveryWaitHasItsReason'
  BY <1>4, <1>7 DEF EveryWaitHasItsReason, Ends
<1> QED BY <1>8, <1>9, <1>10, <1>11, <1>12, <1>13

LEMMA DestroyKeeps ==
  ASSUME LoopInv, NEW s \in Sources, Destroy(s)
  PROVE  LoopInv'
<1> USE DEF LoopInv
<1>1. /\ source[s] = "stopping"
      /\ looper_cmd_queue' = <<>> /\ postman' = FALSE
      /\ looper_thread' = "none" /\ g_download_engine' = FALSE
      /\ UNCHANGED <<is_running, sent, executed>>
  BY DEF Destroy
<1>2. source' \in [Sources -> SourcePCs] /\ \A t \in Sources : source'[t] \in Ends
  BY SourceAfter, <1>1 DEF Destroy, SourcePCs, StopperIsAlone, Ends
<1>3. Positions' = {} /\ ~StopPosted' /\ ~Stopped'
  BY <1>1 DEF Positions, StopPosted, Stopped
<1>4. looper_cmd_queue' \in Seq(Command \cup {StopCommand})
  BY <1>1
<1>5. TypeOK'
  BY <1>1, <1>2, <1>4 DEF TypeOK, LooperPCs
<1>6. EngineHasThread' /\ NoThreadNoSource' /\ StopperIsAlone' /\ StopHasAStopper'
  BY <1>1, <1>2, <1>3 DEF EngineHasThread, NoThreadNoSource, StopperIsAlone, StopHasAStopper, Ends
<1>7. StopIsLast' /\ StoppedIsDone' /\ PollingRuns' /\ SyncIsAwaited'
  BY <1>1, <1>3 DEF StopIsLast, StoppedIsDone, PollingRuns, SyncIsAwaited
<1>8. NoCommandForgotten' /\ EveryWaitHasItsReason'
  BY <1>1, <1>2 DEF NoCommandForgotten, EveryWaitHasItsReason, Ends
<1> QED BY <1>5, <1>6, <1>7, <1>8


-----------------------------------------------------------------------------
(***************************************************************************)
(* The steps of the thread.                                                *)
(***************************************************************************)

LEMMA ThreadBeginsKeeps ==
  ASSUME LoopInv, ThreadBegins
  PROVE  LoopInv'
<1> USE DEF LoopInv
<1>1. /\ looper_thread = "starting" /\ looper_thread' = "polling" /\ is_running'
      /\ UNCHANGED <<g_download_engine, postman, looper_cmd_queue, sent, executed>>
  BY DEF ThreadBegins, ThreadUnchanged
<1>2. /\ source' \in [Sources -> SourcePCs]
      /\ \A t \in Sources : source'[t] # "starting"
      /\ \A t \in Sources, pc \in {"none", "creating", "deleted", "stopping", "waiting"} :
           source'[t] = pc <=> source[t] = pc
  BY DEF ThreadBegins, Woken, TypeOK, SourcePCs
<1>3. (StopPosted' <=> StopPosted) /\ ~Stopped /\ ~Stopped'
  BY <1>1, SameQueue DEF Stopped
<1>4. TypeOK'
  BY <1>1, <1>2 DEF TypeOK, LooperPCs, ThreadBegins
<1>5. EngineHasThread' /\ NoThreadNoSource' /\ StopperIsAlone' /\ StopHasAStopper'
  BY <1>1, <1>2, <1>3 DEF EngineHasThread, NoThreadNoSource, StopperIsAlone, StopHasAStopper, Ends
<1>6. StopIsLast' /\ StoppedIsDone' /\ PollingRuns'
  BY <1>1, <1>3, SameQueue DEF StopIsLast, StoppedIsDone, PollingRuns
<1>7. SyncIsAwaited'
  <2>1. \A i \in Positions : At(i) # StopCommand => At(i).from \in Sources
    BY DEF TypeOK, Positions, At, Command
  <2> QED BY <1>1, <1>2, <2>1, SameQueue DEF SyncIsAwaited
<1>8. NoCommandForgotten' /\ EveryWaitHasItsReason'
  BY <1>1, <1>2, <1>3 DEF NoCommandForgotten, EveryWaitHasItsReason
<1> QED BY <1>4, <1>5, <1>6, <1>7, <1>8

\* Poll, CallbackEnds and ThreadEnds only move the thread and the flag.
LEMMA ThreadMovesKeeps ==
  ASSUME LoopInv, Poll \/ CallbackEnds \/ ThreadEnds
  PROVE  LoopInv'
<1> USE DEF LoopInv
<1>1. UNCHANGED <<g_download_engine, source, is_running, looper_cmd_queue, sent, executed>>
  BY DEF Poll, CallbackEnds, ThreadEnds, ThreadUnchanged
<1>2. /\ looper_thread # "none" /\ looper_thread' \in {"polling", "callback", "ended", "exited"}
      /\ looper_thread # "starting"
      /\ looper_thread' = "polling" => is_running /\ looper_cmd_queue = <<>>
      /\ postman' \in BOOLEAN
  BY DEF Poll, CallbackEnds, ThreadEnds, NothingLeft, TypeOK
<1>3. Stopped' <=> Stopped
  BY <1>1 DEF Poll, CallbackEnds, ThreadEnds, Stopped, PollingRuns
<1>4. StopPosted' <=> StopPosted
  BY <1>1, SameQueue
<1>5. TypeOK'
  BY <1>1, <1>2 DEF TypeOK, LooperPCs
<1>6. EngineHasThread' /\ NoThreadNoSource' /\ StopperIsAlone' /\ StopHasAStopper'
  BY <1>1, <1>2, <1>3, <1>4 DEF EngineHasThread, NoThreadNoSource, StopperIsAlone, StopHasAStopper
<1>7. StopIsLast' /\ StoppedIsDone' /\ PollingRuns' /\ SyncIsAwaited'
  BY <1>1, <1>2, <1>3, SameQueue DEF StopIsLast, StoppedIsDone, PollingRuns, SyncIsAwaited
<1>8. NoCommandForgotten'
  BY <1>1, <1>2 DEF NoCommandForgotten
<1>9. EveryWaitHasItsReason'
  <2>1. ASSUME NEW t \in Sources, source[t] = "waiting"
        PROVE  looper_thread' \in {"starting", "polling", "callback"}
    <3>1. \A u \in Sources : source[u] # "stopping"
      BY <2>1 DEF StopperIsAlone, Ends
    <3> QED BY <1>2, <1>3, <3>1 DEF StopHasAStopper, Stopped
  <2>2. \A t \in Sources : source[t] # "starting"
    BY <1>2 DEF EveryWaitHasItsReason
  <2> QED BY <1>1, <1>3, <1>4, <2>1, <2>2 DEF EveryWaitHasItsReason
<1> QED BY <1>5, <1>6, <1>7, <1>8, <1>9

LEMMA ExecuteKeeps ==
  ASSUME LoopInv, Execute
  PROVE  LoopInv'
<1> USE DEF LoopInv
<1> DEFINE c == Head(looper_cmd_queue)
<1>1. /\ looper_thread = "callback" /\ is_running /\ looper_cmd_queue # <<>>
      /\ looper_cmd_queue' = Tail(looper_cmd_queue) /\ source' = Answered(c)
      /\ IF c = StopCommand THEN is_running' = FALSE /\ executed' = executed
         ELSE executed' = c.id /\ is_running' = is_running
      /\ UNCHANGED <<looper_thread, postman, g_download_engine, sent>>
  BY DEF Execute, ThreadUnchanged
<1>2. /\ looper_cmd_queue' \in Seq(Command \cup {StopCommand})
      /\ Len(looper_cmd_queue) \in Nat \ {0}
      /\ Len(looper_cmd_queue') = Len(looper_cmd_queue) - 1
      /\ c = At(1)
      /\ 1 \in Positions
      /\ \A i \in Positions' : i + 1 \in Positions /\ At(i)' = At(i + 1)
      /\ \A i \in Positions : i # 1 => i - 1 \in Positions' /\ At(i - 1)' = At(i)
  BY <1>1, QueueAfterTake
<1>3. c \in Command \cup {StopCommand}
  BY <1>2 DEF TypeOK, Positions, At
<1> HIDE DEF c
<1>4. /\ source' \in [Sources -> SourcePCs]
      /\ \A t \in Sources : source'[t] =
           IF c.sync /\ t = c.from THEN "answered" ELSE source[t]
  BY <1>1 DEF Answered, TypeOK, SourcePCs
<1>5. c.sync => c \in Command /\ source[c.from] = "waiting"
  BY <1>2, <1>3, StopIsNoCommand DEF SyncIsAwaited
<1>6. \A t \in Sources, pc \in {"none", "creating", "deleted", "stopping", "starting"} :
        source'[t] = pc <=> source[t] = pc
  BY <1>4, <1>5
<1>7. \A i \in Positions' : i \in Nat /\ i + 1 # 1
  BY DEF Positions
<1>8. c = StopCommand => /\ looper_cmd_queue' = <<>> /\ StopPosted
                         /\ StopPosted' = FALSE /\ Stopped'
  <2> SUFFICES ASSUME c = StopCommand
               PROVE  looper_cmd_queue' = <<>> /\ StopPosted /\ ~StopPosted' /\ Stopped'
    OBVIOUS
  <2>1. Len(looper_cmd_queue) = 1 /\ StopPosted
    BY <1>2 DEF StopIsLast, StopPosted, Positions, At
  <2>2. looper_cmd_queue' = <<>>
    BY <1>2, <2>1
  <2> QED BY <1>1, <2>1, <2>2 DEF StopPosted, Stopped
<1>9. c # StopCommand => ~Stopped' /\ (StopPosted' <=> StopPosted)
  <2> SUFFICES ASSUME c # StopCommand
               PROVE  ~Stopped' /\ (StopPosted' <=> StopPosted)
    OBVIOUS
  <2>1. StopPosted <=> \E i \in Positions : At(i) = StopCommand
    BY DEF StopPosted, Positions, At
  <2>2. StopPosted' <=> \E i \in Positions' : At(i)' = StopCommand
    BY DEF StopPosted, Positions, At
  <2>3. (\E i \in Positions' : At(i)' = StopCommand) <=> (\E i \in Positions : At(i) = StopCommand)
    BY <1>2
  <2> QED BY <1>1, <2>1, <2>2, <2>3 DEF Stopped
<1>10. TypeOK'
  <2>1. executed' \in 0 .. MaxCommands
    <3>1. c # StopCommand => c.id \in 1 .. MaxCommands
      BY <1>3 DEF Command
    <3>2. \A k \in 1 .. MaxCommands : k \in 0 .. MaxCommands
      BY LooperAssumption
    <3> QED BY <1>1, <3>1, <3>2 DEF TypeOK
  <2>2. is_running' \in BOOLEAN
    BY <1>1 DEF TypeOK
  <2> QED BY <1>1, <1>2, <1>4, <2>1, <2>2 DEF TypeOK
<1>11. EngineHasThread' /\ NoThreadNoSource' /\ StopperIsAlone' /\ StopHasAStopper'
  <2>1. StopPosted' \/ Stopped' => StopPosted
    BY <1>8, <1>9
  <2> QED BY <1>1, <1>6, <2>1 DEF EngineHasThread, NoThreadNoSource, StopperIsAlone, StopHasAStopper, Ends
<1>12. StopIsLast' /\ StoppedIsDone' /\ PollingRuns' /\ NoCommandForgotten'
  <2>1. StopIsLast'
    BY <1>2, <1>7 DEF StopIsLast
  <2>2. Stopped' => looper_cmd_queue' = <<>>
    BY <1>8, <1>9
  <2> QED BY <1>1, <2>1, <2>2 DEF StoppedIsDone, PollingRuns, NoCommandForgotten
<1>13. \A i \in Positions : i # 1 /\ At(i) # StopCommand /\ At(i).sync => ~(c.sync /\ c.from = At(i).from)
  <2>1. c = At(1) /\ 1 \in Positions
    BY <1>2
  <2> QED BY <1>5, <2>1, StopIsNoCommand DEF SyncIsAwaited
<1>14. SyncIsAwaited'
  <2>1. \A i \in Positions : At(i) # StopCommand => At(i).from \in Sources
    BY DEF TypeOK, Positions, At, Command
  <2>2. \A i \in Positions' : At(i)' # StopCommand /\ At(i)'.sync => source'[At(i)'.from] = "waiting"
    BY <1>2, <1>4, <1>7, <1>13, <2>1 DEF SyncIsAwaited
  <2>3. \A i, j \in Positions' :
          (/\ At(i)' # StopCommand /\ At(i)'.sync
           /\ At(j)' # StopCommand /\ At(j)'.sync /\ At(j)'.from = At(i)'.from) => i = j
    <3> SUFFICES ASSUME NEW i \in Positions', NEW j \in Positions',
                        At(i)' # StopCommand, At(i)'.sync, At(j)' # StopCommand, At(j)'.sync,
                        At(j)'.from = At(i)'.from
                 PROVE  i = j
      OBVIOUS
    <3>1. At(i)' = At(i + 1) /\ At(j)' = At(j + 1) /\ i + 1 \in Positions /\ j + 1 \in Positions
      BY <1>2
    <3>2. i + 1 = j + 1
      BY <3>1 DEF SyncIsAwaited
    <3> QED BY <1>7, <3>2
  <2> QED BY <2>2, <2>3 DEF SyncIsAwaited
<1>15. EveryWaitHasItsReason'
  <2>1. ASSUME NEW t \in Sources, source'[t] = "waiting"
        PROVE  \E i \in Positions' : At(i)'.from = t /\ At(i)'.sync
    <3>1. source[t] = "waiting" /\ ~(c.sync /\ t = c.from)
      BY <1>4, <2>1
    <3>2. PICK i \in Positions : At(i).from = t /\ At(i).sync
      BY <3>1 DEF EveryWaitHasItsReason, Positions, At
    <3>3. i # 1
      BY <1>2, <3>1, <3>2
    <3>4. i - 1 \in Positions' /\ At(i - 1)' = At(i)
      BY <1>2, <3>3
    <3> QED BY <3>2, <3>4
  <2>2. \A t \in Sources : source'[t] = "stopping" => StopPosted' \/ Stopped'
    BY <1>1, <1>6, <1>8, <1>9 DEF EveryWaitHasItsReason, Stopped
  <2>3. \A t \in Sources : source'[t] # "starting"
    BY <1>1, <1>6 DEF EveryWaitHasItsReason
  <2> QED BY <1>1, <2>1, <2>2, <2>3 DEF EveryWaitHasItsReason, Positions, At
<1> QED BY <1>10, <1>11, <1>12, <1>14, <1>15

LEMMA StepKeepsLoopInv ==
  ASSUME LoopInv, Alone, [Next]_vars
  PROVE  LoopInv'
<1>1. CASE \E s \in Sources :
             EngineInit(s) \/ EngineStart(s) \/ Resume(s) \/ Uninit(s) \/ Destroy(s)
  BY <1>1, EngineInitKeeps, EngineStartKeeps, ResumeKeeps, UninitKeeps, DestroyKeeps
<1>2. CASE \E s \in Sources, sync \in BOOLEAN : PostCommand(s, sync)
  BY <1>2, PostCommandKeeps
<1>3. CASE ThreadStep
  BY <1>3, ThreadBeginsKeeps, ThreadMovesKeeps, ExecuteKeeps DEF ThreadStep
<1>4. CASE UNCHANGED vars
  BY <1>4 DEF vars, LoopInv, TypeOK, EngineHasThread, NoThreadNoSource, StopperIsAlone,
     StopHasAStopper, StopIsLast, StoppedIsDone, PollingRuns, SyncIsAwaited,
     NoCommandForgotten, EveryWaitHasItsReason, StopPosted, Stopped, Positions, At
<1> QED BY <1>1, <1>2, <1>3, <1>4 DEF Next

\* The invariant of the loop, for any number of sources and commands.
THEOREM LoopIsGood == ASSUME Alone PROVE Spec => []LoopInv
<1>1. Init => LoopInv
  BY InitIsGood
<1>2. LoopInv /\ [Next]_vars => LoopInv'
  BY StepKeepsLoopInv
<1> QED BY <1>1, <1>2, PTL DEF Spec

\* The loop and its callers stay well typed.
THEOREM LoopTypeCorrect == ASSUME Alone PROVE Spec => []TypeOK
<1>1. LoopInv => TypeOK
  BY DEF LoopInv
<1> QED BY <1>1, LoopIsGood, PTL

\* The loop never polls on commands without its flag being set, however many
\* sends were merged into one.
THEOREM LoopForgetsNoCommand == ASSUME Alone PROVE Spec => []NoCommandForgotten
<1>1. LoopInv => NoCommandForgotten
  BY DEF LoopInv
<1> QED BY <1>1, LoopIsGood, PTL

\* Nobody waits for an answer, for the start or for the end of the loop that
\* is not on its way.
THEOREM LoopWaitsAreReasonable == ASSUME Alone PROVE Spec => []EveryWaitHasItsReason
<1>1. LoopInv => EveryWaitHasItsReason
  BY DEF LoopInv
<1> QED BY <1>1, LoopIsGood, PTL


-----------------------------------------------------------------------------
(***************************************************************************)
(* The refinement: the commands before the stop command are those pending, *)
(* and the server is open until the loop executes the stop command.        *)
(***************************************************************************)

Called == {s \in Sources : source[s] \in {"waiting", "answered"}}

\* The first n elements of a sequence.
LEMMA FirstOnes ==
  ASSUME NEW S, NEW q \in Seq(S), NEW n \in 0 .. Len(q)
  PROVE  Len(SubSeq(q, 1, n)) = n /\ \A i \in 1 .. n : SubSeq(q, 1, n)[i] = q[i]
OBVIOUS

\* Without a stop command before or after a post, one more is pending.
LEMMA SentAfterPost ==
  ASSUME LoopInv, LoopInv', NEW c \in Command, looper_cmd_queue' = Append(looper_cmd_queue, c),
         \A s \in Sources : source[s] # "stopping" /\ source'[s] # "stopping"
  PROVE  Sent' = Append(Sent, c)
<1>1. ~StopPosted /\ ~StopPosted'
  BY DEF LoopInv, StopHasAStopper
<1> QED BY <1>1 DEF Sent

\* The stop command itself is not pending.
LEMMA SentAfterStop ==
  ASSUME LoopInv, ~StopPosted, looper_cmd_queue' = Append(looper_cmd_queue, StopCommand)
  PROVE  Sent' = Sent
<1>1. looper_cmd_queue \in Seq(Command \cup {StopCommand})
  BY DEF LoopInv, TypeOK
<1>2. /\ Len(looper_cmd_queue') = Len(looper_cmd_queue) + 1 /\ Len(looper_cmd_queue) \in Nat
      /\ looper_cmd_queue'[Len(looper_cmd_queue) + 1] = StopCommand
      /\ looper_cmd_queue' = looper_cmd_queue \o <<StopCommand>>
      /\ looper_cmd_queue' \in Seq(Command \cup {StopCommand})
  BY <1>1, AppendProperties
<1>3. StopPosted'
  BY <1>2 DEF StopPosted
<1>4. SubSeq(looper_cmd_queue', 1, Len(looper_cmd_queue)) = looper_cmd_queue
  <2>1. <<StopCommand>> \in Seq(Command \cup {StopCommand})
    OBVIOUS
  <2>2. CASE Len(looper_cmd_queue) = 0
    BY <1>1, <1>2, <2>2, SubSeqEmpty
  <2>3. CASE Len(looper_cmd_queue) # 0
    BY <1>1, <1>2, <2>1, <2>3, SubSeqOfConcat1, SubSeqFull
  <2> QED BY <2>2, <2>3
<1> QED BY <1>2, <1>3, <1>4 DEF Sent

\* The command executed is the first one pending.
LEMMA SentAfterExecute ==
  ASSUME LoopInv, looper_cmd_queue # <<>>, looper_cmd_queue' = Tail(looper_cmd_queue),
         Head(looper_cmd_queue) # StopCommand, StopPosted' <=> StopPosted
  PROVE  Sent # <<>> /\ Head(Sent) = Head(looper_cmd_queue) /\ Sent' = Tail(Sent)
<1> DEFINE n == Len(looper_cmd_queue)
<1>1. looper_cmd_queue \in Seq(Command \cup {StopCommand})
  BY DEF LoopInv, TypeOK
<1>2. /\ n \in Nat \ {0} /\ Head(looper_cmd_queue) = looper_cmd_queue[1]
      /\ Len(looper_cmd_queue') = n - 1
      /\ looper_cmd_queue' = SubSeq(looper_cmd_queue, 2, n)
  BY <1>1, HeadTailProperties, TailIsSubSeq
<1>3. CASE ~StopPosted
  BY <1>3 DEF Sent
<1>4. CASE StopPosted
  <2>1. n >= 2
    <3>1. PICK i \in Positions : At(i) = StopCommand
      BY <1>4 DEF StopPosted, Positions, At
    <3>2. i = n /\ looper_cmd_queue[i] = StopCommand
      BY <3>1 DEF LoopInv, StopIsLast, At
    <3> QED BY <1>2, <3>2
  <2>2. Sent = SubSeq(looper_cmd_queue, 1, n - 1) /\ Sent' = SubSeq(looper_cmd_queue', 1, n - 2)
    BY <1>2, <1>4 DEF Sent
  <2>3. Len(Sent) = n - 1
    BY <1>1, <1>2, <2>1, <2>2, SubSeqProperties
  <2>4. Head(Sent) = looper_cmd_queue[1] /\ Tail(Sent) = SubSeq(looper_cmd_queue, 2, n - 1)
    BY <1>1, <1>2, <2>1, <2>2, HeadTailOfSubSeq
  <2>5. SubSeq(looper_cmd_queue', 1, n - 2) = SubSeq(looper_cmd_queue, 2, n - 1)
    <3>1. CASE n = 2
      BY <1>1, <1>2, <3>1, SubSeqEmpty
    <3>2. CASE n > 2
      BY <1>1, <1>2, <3>2, SubSeqOfSubSeq
    <3> QED BY <2>1, <3>1, <3>2
  <2> QED BY <1>2, <2>1, <2>2, <2>3, <2>4, <2>5
<1> QED BY <1>3, <1>4

LEMMA StepRefines ==
  ASSUME LoopInv, LoopInv', Alone, [Next]_vars
  PROVE  [Server!Next]_(Server!vars)
<1> USE DEF LoopInv
<1>1. ASSUME NEW s \in Sources, EngineInit(s)
      PROVE  [Server!Next]_(Server!vars)
  <2>1. UNCHANGED <<g_download_engine, looper_thread, is_running, looper_cmd_queue, sent, executed>>
    BY <1>1 DEF EngineInit
  <2>2. Sent' = Sent /\ Stopped' = Stopped
    BY <2>1, SameQueue DEF Sent, Stopped
  <2>3. PICK pc \in {"creating", "ready"} :
          source[s] = "none" /\ source' = [source EXCEPT ![s] = pc]
    BY <1>1 DEF EngineInit
  <2>4. Called' = Called
    BY <2>3 DEF TypeOK, Called
  <2> QED BY <2>1, <2>2, <2>4 DEF Server!vars, Called
<1>9. ASSUME NEW s \in Sources, EngineStart(s)
      PROVE  [Server!Next]_(Server!vars)
  <2>1. /\ UNCHANGED <<looper_cmd_queue, sent, executed>>
        /\ ~g_download_engine /\ g_download_engine' = TRUE /\ looper_thread' = "starting"
        /\ source[s] = "creating" /\ source' = [source EXCEPT ![s] = "starting"]
    BY <1>9 DEF EngineStart
  <2>2. Sent' = Sent
    BY <2>1, SameQueue DEF Sent
  <2>3. Called' = Called
    BY <2>1 DEF TypeOK, Called
  <2>4. ~Stopped'
    BY <2>1 DEF Stopped
  <2>5. Server!Open
    BY <2>1, <2>2, <2>3, <2>4 DEF Server!Open, Called
  <2> QED BY <2>5 DEF Server!Next
<1>2. ASSUME NEW s \in Sources, Resume(s)
      PROVE  [Server!Next]_(Server!vars)
  <2>1. UNCHANGED <<g_download_engine, looper_thread, is_running, looper_cmd_queue, sent, executed>>
    BY <1>2 DEF Resume
  <2>2. Sent' = Sent /\ Stopped' = Stopped
    BY <2>1, SameQueue DEF Sent, Stopped
  <2>3. source' = [source EXCEPT ![s] = "ready"] /\ source \in [Sources -> SourcePCs]
    BY <1>2 DEF Resume, TypeOK
  <2>4. CASE source[s] = "started"
    <3>1. Called' = Called
      BY <2>3, <2>4 DEF Called
    <3> QED BY <2>1, <2>2, <3>1 DEF Server!vars, Called
  <2>5. CASE source[s] = "answered"
    <3>1. s \in Called /\ Called' = Called \ {s}
      BY <2>3, <2>5 DEF Called
    <3>2. \A i \in Positions : At(i) # StopCommand => ~(At(i).from = s /\ At(i).sync)
      BY <2>5 DEF SyncIsAwaited
    <3>3. \A i \in 1 .. Len(Sent) : ~(Sent[i].from = s /\ Sent[i].sync)
      <4>1. looper_cmd_queue \in Seq(Command \cup {StopCommand})
        BY DEF TypeOK
      <4>2. \A i \in 1 .. Len(Sent) : i \in Positions /\ Sent[i] = At(i)
        <5>1. CASE ~StopPosted
          BY <5>1 DEF Sent, Positions, At
        <5>2. CASE StopPosted
          <6> DEFINE m == Len(looper_cmd_queue) - 1
          <6>1. m \in 0 .. Len(looper_cmd_queue) /\ \A i \in 1 .. m : i \in Positions
            BY <4>1, <5>2 DEF StopPosted, Positions
          <6>2. Sent = SubSeq(looper_cmd_queue, 1, m)
            BY <5>2 DEF Sent
          <6> HIDE DEF m
          <6>3. Len(Sent) = m /\ \A i \in 1 .. m : Sent[i] = looper_cmd_queue[i]
            BY <4>1, <6>1, <6>2, FirstOnes
          <6> QED BY <6>1, <6>3 DEF At
        <5> QED BY <5>1, <5>2
      <4>3. \A i \in 1 .. Len(Sent) : At(i) = StopCommand => At(i).sync = FALSE
        BY StopIsNoCommand
      <4> QED BY <3>2, <4>2, <4>3
    <3>4. Server!Return(s)
      BY <2>1, <2>2, <3>1, <3>3 DEF Server!Return, Called
    <3> QED BY <3>4 DEF Server!Next
  <2> QED BY <1>2, <2>4, <2>5 DEF Resume
<1>3. ASSUME NEW s \in Sources, NEW sync \in BOOLEAN, PostCommand(s, sync)
      PROVE  [Server!Next]_(Server!vars)
  <2> DEFINE c == [id |-> sent + 1, from |-> s, sync |-> sync]
  <2>1. /\ source[s] = "ready" /\ g_download_engine
        /\ sent < MaxCommands /\ sent' = sent + 1
        /\ looper_cmd_queue' = Append(looper_cmd_queue, c)
        /\ UNCHANGED <<g_download_engine, looper_thread, is_running, executed>>
        /\ source' = IF sync THEN [source EXCEPT ![s] = "waiting"] ELSE source
    BY <1>3 DEF PostCommand, Post
  <2>2. c \in Command
    BY <2>1, LooperAssumption DEF Command, TypeOK
  <2>3. \A t \in Sources : source[t] # "stopping" /\ source'[t] # "stopping"
    BY <2>1 DEF StopperIsAlone, Ends, TypeOK
  <2>4. Sent' = Append(Sent, c)
    BY <2>1, <2>2, <2>3, SentAfterPost
  <2>5. ~Stopped /\ ~Stopped'
    BY <2>3 DEF StopHasAStopper
  <2>6. s \notin Called /\ Called' = IF sync THEN Called \cup {s} ELSE Called
    BY <2>1 DEF Called, TypeOK
  <2>7. Server!Send(s, sync)
    BY <2>1, <2>4, <2>5, <2>6 DEF Server!Send, Called
  <2> QED BY <2>7 DEF Server!Next
<1>4. ASSUME NEW s \in Sources, Uninit(s)
      PROVE  [Server!Next]_(Server!vars)
  <2>1. /\ source[s] = "ready"
        /\ UNCHANGED <<g_download_engine, looper_thread, is_running, sent, executed>>
    BY <1>4 DEF Uninit
  <2>2. g_download_engine
    BY <2>1 DEF NoThreadNoSource, EngineHasThread, Ends
  <2>3. /\ looper_cmd_queue' = Append(looper_cmd_queue, StopCommand)
        /\ source' = [source EXCEPT ![s] = "stopping"]
    BY <1>4, <2>2 DEF Uninit, Post
  <2>4. ~StopPosted
    BY <1>4 DEF Uninit, Using, StopHasAStopper
  <2>5. Sent' = Sent
    BY <2>3, <2>4, SentAfterStop
  <2>6. Called' = Called /\ Stopped' = Stopped
    BY <2>1, <2>3 DEF Called, Stopped, TypeOK
  <2> QED BY <2>1, <2>5, <2>6 DEF Server!vars, Called
<1>5. ASSUME NEW s \in Sources, Destroy(s)
      PROVE  [Server!Next]_(Server!vars)
  <2>1. /\ source[s] = "stopping" /\ looper_thread = "exited"
        /\ looper_cmd_queue' = <<>> /\ g_download_engine' = FALSE
        /\ source' = [source EXCEPT ![s] = "deleted"]
        /\ UNCHANGED <<sent, executed>>
    BY <1>5 DEF Destroy
  <2>2. Stopped /\ looper_cmd_queue = <<>>
    BY <2>1 DEF Stopped, StoppedIsDone
  <2>3. Sent' = Sent
    BY <2>1, <2>2, SameQueue DEF Sent
  <2>4. Called' = Called
    BY <2>1 DEF Called, TypeOK
  <2> QED BY <2>1, <2>2, <2>3, <2>4 DEF Server!vars, Called
<1>6. ASSUME ThreadBegins \/ Poll \/ CallbackEnds \/ ThreadEnds
      PROVE  [Server!Next]_(Server!vars)
  <2>1. UNCHANGED <<g_download_engine, looper_cmd_queue, sent, executed>>
    BY <1>6 DEF ThreadBegins, Poll, CallbackEnds, ThreadEnds, ThreadUnchanged
  <2>2. Sent' = Sent
    BY <2>1, SameQueue DEF Sent
  <2>3. Stopped' = Stopped
    BY <1>6 DEF ThreadBegins, Poll, CallbackEnds, ThreadEnds, Stopped, PollingRuns
  <2>4. Called' = Called
    BY <1>6 DEF ThreadBegins, Poll, CallbackEnds, ThreadEnds, Woken, Called, TypeOK
  <2> QED BY <2>1, <2>2, <2>3, <2>4 DEF Server!vars, Called
<1>7. CASE Execute
  <2> DEFINE c == Head(looper_cmd_queue)
  <2>1. /\ looper_thread = "callback" /\ is_running /\ looper_cmd_queue # <<>>
        /\ looper_cmd_queue' = Tail(looper_cmd_queue) /\ source' = Answered(c)
        /\ IF c = StopCommand THEN is_running' = FALSE /\ executed' = executed
           ELSE executed' = c.id /\ is_running' = is_running
        /\ UNCHANGED <<looper_thread, g_download_engine, sent>>
    BY <1>7 DEF Execute, ThreadUnchanged
  <2>2. g_download_engine /\ ~Stopped /\ c = At(1) /\ 1 \in Positions
    BY <2>1, QueueAfterTake DEF EngineHasThread, Stopped
  <2> HIDE DEF c
  <2>3. CASE c # StopCommand
    <3>1. ~Stopped'
      BY <2>1, <2>3 DEF Stopped
    <3>2. StopPosted' <=> StopPosted
      <4>1. StopPosted <=> \E i \in Positions : At(i) = StopCommand
        BY DEF StopPosted, Positions, At
      <4>2. StopPosted' <=> \E i \in Positions' : At(i)' = StopCommand
        BY DEF StopPosted, Positions, At
      <4> QED BY <2>1, <2>2, <2>3, <4>1, <4>2, QueueAfterTake
    <3>3. Sent # <<>> /\ Head(Sent) = c /\ Sent' = Tail(Sent)
      BY <2>1, <2>3, <3>2, SentAfterExecute DEF c
    <3>4. Called' = Called
      <4>1. c.sync => c.from \in Sources /\ source[c.from] = "waiting"
        BY <2>2, <2>3, StopIsNoCommand DEF SyncIsAwaited, TypeOK, Positions, At, Command
      <4> QED BY <2>1, <4>1 DEF Called, Answered, TypeOK
    <3>5. Server!Execute
      BY <2>1, <2>2, <2>3, <3>1, <3>3, <3>4 DEF Server!Execute, Called
    <3> QED BY <3>5 DEF Server!Next
  <2>4. CASE c = StopCommand
    <3>1. Stopped' /\ looper_cmd_queue' = <<>>
      BY <2>1, <2>4 DEF Stopped, StoppedIsDone
    <3>2. StopPosted /\ Len(looper_cmd_queue) = 1
      BY <2>2, <2>4 DEF StopIsLast, StopPosted, Positions, At
    <3>3. Sent = <<>> /\ Sent' = <<>>
      <4>1. ~StopPosted'
        BY <3>1 DEF StopPosted
      <4>2. looper_cmd_queue \in Seq(Command \cup {StopCommand})
        BY DEF TypeOK
      <4>3. SubSeq(looper_cmd_queue, 1, 0) = <<>>
        BY <4>2, SubSeqEmpty
      <4> QED BY <3>1, <3>2, <4>1, <4>3 DEF Sent
    <3>4. Called = {}
      <4>1. PICK s \in Sources : source[s] = "stopping"
        BY <3>2 DEF StopHasAStopper
      <4> QED BY <4>1 DEF StopperIsAlone, Ends, Called
    <3>5. Called' = {}
      BY <2>1, <2>4, <3>4, StopIsNoCommand DEF Called, Answered, TypeOK
    <3>6. Server!Close
      BY <2>1, <2>2, <2>4, <3>1, <3>3, <3>4, <3>5 DEF Server!Close, Called
    <3> QED BY <3>6 DEF Server!Next
  <2> QED BY <2>3, <2>4
<1>8. CASE UNCHANGED vars
  BY <1>8 DEF vars, Server!vars, Sent, StopPosted, Stopped
<1> QED BY <1>1, <1>2, <1>3, <1>4, <1>5, <1>6, <1>7, <1>8, <1>9 DEF Next, ThreadStep

\* The loop is a server of commands: each is executed once, in order, before
\* its call returns, and the loop ends only when none is left.
THEOREM LoopServesCommands == ASSUME Alone PROVE Spec => ImplementsServer
<1>1. Init => Server!Init
  BY DEF Init, Server!Init, Sent, StopPosted, Stopped
<1>2. LoopInv /\ LoopInv' /\ [Next]_vars => [Server!Next]_(Server!vars)
  BY StepRefines
<1>3. Spec => []LoopInv
  BY LoopIsGood
<1> QED BY <1>1, <1>2, <1>3, PTL DEF Spec, ImplementsServer, Server!Spec


=============================================================================
