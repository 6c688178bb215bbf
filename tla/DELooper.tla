------------------------------ MODULE DELooper ------------------------------
(***************************************************************************)
(* The event loop thread of the download engine and its command queue      *)
(* (DownloadEngine/src/common/DELooperEV.cpp), with the engine's entry     *)
(* points that start, call and stop it (DEDownloadEngine.cpp) and the data *)
(* sources that use them (datasource/NBBeastSource.cpp).                   *)
(*                                                                         *)
(* A caller appends a command under looper_mutex and sends a libev async   *)
(* event, which is a flag: any number of sends before the loop looks are   *)
(* one.  The loop clears the flag, then executes commands, each under      *)
(* looper_mutex, until the list is empty or is_running has been cleared.   *)
(* A synchronous caller sleeps on a condition of its own command.          *)
(* looper_mutex is held over every step below and never across two, except *)
(* by start(), which holds it from the creation of the thread to its wait: *)
(* the signal of the thread cannot come too early, and start() is one step.*)
(*                                                                         *)
(* Not modelled: a failing pthread_create (start() would wait for ever)    *)
(* and spurious wake-ups, after which postCommandSyncImediately returns    *)
(* without its command having been executed.                               *)
(***************************************************************************)
EXTENDS Naturals, Sequences

CONSTANTS
  Sources,     \* the data sources, each with the one thread that uses it
  NoSource,    \* the sender of the stop command's answer: nobody
  MaxCommands, \* bound on the number of commands the sources send
  Alone        \* TRUE: while a source is deleted there is no other one, and
               \* none is created while another one creates the engine

ASSUME LooperAssumption ==
  /\ MaxCommands \in Nat
  /\ Alone \in BOOLEAN
  /\ NoSource \notin Sources

VARIABLES
  g_download_engine, \* there is an engine, with a loop
  source,            \* where each source's thread is
  looper_thread,     \* where the loop's thread is
  is_running,        \* cleared by the stop command
  postman,           \* the async event has been sent and not been looked at
  looper_cmd_queue,  \* commands not executed, oldest first
  sent,              \* ids given to commands so far (a name for each)
  executed           \* history: the id of the last command executed

vars == <<g_download_engine, source, looper_thread, is_running, postman,
          looper_cmd_queue, sent, executed>>

SourcePCs == {"none", "creating", "starting", "started", "ready", "waiting", "answered", "stopping", "deleted"}
LooperPCs == {"none", "starting", "polling", "callback", "ended", "exited"}

\* The stop command has no id: it belongs to the loop, not to its callers.
StopCommand == [id |-> 0, from |-> NoSource, sync |-> FALSE]
Command     == [id : 1 .. MaxCommands, from : Sources, sync : BOOLEAN]

Using(s) == source[s] \notin {"none", "deleted"}

Init ==
  /\ g_download_engine = FALSE
  /\ source = [s \in Sources |-> "none"]
  /\ looper_thread = "none" /\ is_running = FALSE /\ postman = FALSE
  /\ looper_cmd_queue = <<>>
  /\ sent = 0 /\ executed = 0

\* download_engine_init, from the constructor of a data source, looks whether
\* there is an engine: the second source is refused, and goes on with the first
\* one's.  No lock is taken from here to start().
EngineInit(s) ==
  /\ source[s] = "none"
  /\ Alone => \A t \in Sources : source[t] \notin {"creating", "stopping"}
  /\ source' = [source EXCEPT ![s] = IF g_download_engine THEN "ready" ELSE "creating"]
  /\ UNCHANGED <<g_download_engine, looper_thread, is_running, postman,
                 looper_cmd_queue, sent, executed>>

\* It has found none: it sets g_download_engine, gives it a loop and starts it.
\* Of two sources that have both found none, the second replaces the engine of
\* the first, and one that looks in between uses an engine without a loop: there
\* is one engine and one loop here, and neither is modelled.
EngineStart(s) ==
  /\ source[s] = "creating" /\ ~g_download_engine
  /\ g_download_engine' = TRUE
  /\ looper_thread' = "starting"
  /\ source' = [source EXCEPT ![s] = "starting"]
  /\ UNCHANGED <<is_running, postman, looper_cmd_queue, sent, executed>>

\* A wait of start() or of a synchronous call that has been signalled ends.
Resume(s) ==
  /\ source[s] \in {"started", "answered"}
  /\ source' = [source EXCEPT ![s] = "ready"]
  /\ UNCHANGED <<g_download_engine, looper_thread, is_running, postman,
                 looper_cmd_queue, sent, executed>>

\* list_add_tail and ev_async_send.
Post(command) ==
  /\ looper_cmd_queue' = Append(looper_cmd_queue, command)
  /\ postman' = TRUE

\* download_engine_create_task, _get_task_size, _seek_task, _read_task
\* (synchronous) and _start_task (asynchronous).
PostCommand(s, sync) ==
  /\ source[s] = "ready" /\ g_download_engine
  /\ sent < MaxCommands
  /\ sent' = sent + 1
  /\ Post([id |-> sent + 1, from |-> s, sync |-> sync])
  /\ source' = IF sync THEN [source EXCEPT ![s] = "waiting"] ELSE source
  /\ UNCHANGED <<g_download_engine, looper_thread, is_running, executed>>

\* download_engine_uninit, from the destructor: stop() posts its command and
\* joins the thread.  Nobody counts the sources that use the engine.
Uninit(s) ==
  /\ source[s] = "ready"
  /\ Alone => \A t \in Sources \ {s} : ~Using(t)
  /\ IF g_download_engine
       THEN /\ Post(StopCommand)
            /\ source' = [source EXCEPT ![s] = "stopping"]
       ELSE /\ source' = [source EXCEPT ![s] = "deleted"]
            /\ UNCHANGED <<looper_cmd_queue, postman>>
  /\ UNCHANGED <<g_download_engine, looper_thread, is_running, sent, executed>>

\* The join ends; Destroy deletes the commands that are left, executed or not.
Destroy(s) ==
  /\ source[s] = "stopping" /\ looper_thread = "exited"
  /\ looper_cmd_queue' = <<>> /\ postman' = FALSE
  /\ looper_thread' = "none"
  /\ g_download_engine' = FALSE
  /\ source' = [source EXCEPT ![s] = "deleted"]
  /\ UNCHANGED <<is_running, sent, executed>>

-----------------------------------------------------------------------------
(***************************************************************************)
(* The thread of the loop.                                                 *)
(***************************************************************************)

ThreadUnchanged == UNCHANGED <<g_download_engine, sent>>

\* init_func, then the signal start() waits for.
\* (The operators named ..._mut, _never, _early are the plausible mistakes the
\* properties are tested against; the specification does not use them.)
Woken_mut == source
Woken     == [s \in Sources |-> IF source[s] = "starting" THEN "started" ELSE source[s]]

ThreadBegins ==
  /\ looper_thread = "starting"
  /\ looper_thread' = "polling"
  /\ is_running' = TRUE
  /\ source' = Woken
  /\ UNCHANGED <<postman, looper_cmd_queue, executed>> /\ ThreadUnchanged

\* libev clears the event before it calls back.
Poll ==
  /\ looper_thread = "polling" /\ postman
  /\ looper_thread' = "callback"
  /\ postman' = FALSE
  /\ UNCHANGED <<source, is_running, looper_cmd_queue, executed>> /\ ThreadUnchanged

\* The end of the callback: ev_run polls on, or has been broken.
NothingLeft_mut == TRUE
NothingLeft     == looper_cmd_queue = <<>>

CallbackEnds ==
  /\ looper_thread = "callback"
  /\ ~is_running \/ NothingLeft
  /\ looper_thread' = IF is_running THEN "polling" ELSE "ended"
  /\ UNCHANGED <<source, is_running, postman, looper_cmd_queue, executed>> /\ ThreadUnchanged

\* One turn of de_looper_process_one_step: the oldest command is taken out and
\* executed, and its caller is signalled.  The stop command breaks ev_run.
Answered_early(command) ==
  [s \in Sources |-> IF source[s] = "waiting" THEN "answered" ELSE source[s]]
Answered_never(command) == source
Answered(command) ==
  [s \in Sources |-> IF command.sync /\ s = command.from THEN "answered" ELSE source[s]]

Execute ==
  /\ looper_thread = "callback" /\ is_running
  /\ looper_cmd_queue # <<>>
  /\ LET command == Head(looper_cmd_queue)
     IN /\ looper_cmd_queue' = Tail(looper_cmd_queue)
        /\ source' = Answered(command)
        /\ IF command = StopCommand
             THEN is_running' = FALSE /\ UNCHANGED executed
             ELSE executed' = command.id /\ UNCHANGED is_running
  /\ UNCHANGED <<looper_thread, postman>> /\ ThreadUnchanged

\* ev_run has returned: uninit_func, a signal nobody waits for, the end.
ThreadEnds ==
  /\ looper_thread = "ended"
  /\ looper_thread' = "exited"
  /\ UNCHANGED <<source, is_running, postman, looper_cmd_queue, executed>> /\ ThreadUnchanged

ThreadStep == ThreadBegins \/ Poll \/ CallbackEnds \/ Execute \/ ThreadEnds

Next ==
  \/ \E s \in Sources : EngineInit(s) \/ EngineStart(s) \/ Resume(s) \/ Uninit(s) \/ Destroy(s)
  \/ \E s \in Sources, sync \in BOOLEAN : PostCommand(s, sync)
  \/ ThreadStep

Spec == Init /\ [][Next]_vars

\* The scheduler runs the loop's thread, every thread that was signalled or
\* whose join has ended, and one that is creating the engine.  Nobody has to
\* send, create or delete anything.
Fairness ==
  /\ WF_vars(ThreadStep)
  /\ \A s \in Sources : WF_vars(EngineStart(s)) /\ WF_vars(Resume(s)) /\ WF_vars(Destroy(s))
FairSpec == Spec /\ Fairness

-----------------------------------------------------------------------------
(***************************************************************************)
(* Properties, for sources that are Alone when they are deleted or create  *)
(* the engine.  The code does not see to it: nobody counts the sources and *)
(* download_engine_init takes no lock.                                     *)
(***************************************************************************)

TypeOK ==
  /\ g_download_engine \in BOOLEAN
  /\ source \in [Sources -> SourcePCs]
  /\ looper_thread \in LooperPCs
  /\ is_running \in BOOLEAN /\ postman \in BOOLEAN
  /\ looper_cmd_queue \in Seq(Command \cup {StopCommand})
  /\ sent \in 0 .. MaxCommands /\ executed \in 0 .. MaxCommands

\* The stop command is in the queue; the loop has executed it.
StopPosted == \E i \in 1 .. Len(looper_cmd_queue) : looper_cmd_queue[i] = StopCommand
Stopped == looper_thread \in {"ended", "exited"} \/ (looper_thread = "callback" /\ ~is_running)

\* The loop never goes to sleep on commands nobody will tell it of: sends that
\* were merged into one flag, or came while the callback was running, count.
NoCommandForgotten ==
  looper_thread \in {"starting", "polling"} /\ looper_cmd_queue # <<>> => postman

\* A thread that waits for a command's answer has its command in the queue, and
\* one that waits for the loop's start or end has a loop that starts or ends.
EveryWaitHasItsReason ==
  \A s \in Sources :
    /\ source[s] = "waiting" =>
         /\ \E i \in 1 .. Len(looper_cmd_queue) :
              looper_cmd_queue[i].from = s /\ looper_cmd_queue[i].sync
         /\ looper_thread \in {"starting", "polling", "callback"}
    /\ source[s] = "starting" => looper_thread = "starting"
    /\ source[s] = "stopping" => StopPosted \/ Stopped

\* The callers' commands: the stop command is always the last.
Sent == IF StopPosted THEN SubSeq(looper_cmd_queue, 1, Len(looper_cmd_queue) - 1)
        ELSE looper_cmd_queue

Server == INSTANCE CommandServer WITH
  Callers  <- Sources,
  MaxSent  <- MaxCommands,
  open     <- g_download_engine /\ ~Stopped,
  pending  <- Sent,
  called   <- {s \in Sources : source[s] \in {"waiting", "answered"}}

\* The loop is a command server: callers' commands are executed once and in
\* order, before their calls return, and none is left when the loop ends.
ImplementsServer == Server!Spec

\* Every command is executed, and creating the engine, a synchronous call, and
\* deleting a source return (see Alone).
CallsReturn ==
  /\ \A id \in 1 .. MaxCommands : (sent = id) ~> (executed >= id)
  /\ \A s \in Sources :
       /\ (source[s] \in {"creating", "starting"}) ~> (source[s] = "ready")
       /\ (source[s] = "waiting")  ~> (source[s] = "ready")
       /\ (source[s] = "stopping") ~> (source[s] = "deleted")

=============================================================================
